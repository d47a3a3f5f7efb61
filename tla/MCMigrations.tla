----------------------------- MODULE MCMigrations -----------------------------
(* Migrations on a small instance: the tiers of three codes. *)
EXTENDS Migrations

MCScopeOf == [c \in Code |-> CASE c = "SCI" -> "supreme_court"
                               [] c = "HPHC" -> "high_court"
                               [] OTHER -> "lower_court_state"]
=============================================================================
