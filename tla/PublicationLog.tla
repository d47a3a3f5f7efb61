---------------------------- MODULE PublicationLog ----------------------------
(***************************************************************************)
(* What the release pipeline promises its readers, without operators,      *)
(* transactions or artifacts: the public surface shows one released        *)
(* snapshot at a time; only evidence that passed the gate is released; and *)
(* the surface moves only when a release lands or a rollback goes back to  *)
(* an earlier release.                                                     *)
(***************************************************************************)
EXTENDS Integers

CONSTANTS Gated,   \* the payloads the publish gate lets through
          Nothing  \* the surface before the first release

VARIABLES released,  \* the snapshots released so far: a set of [id, payload]
          active     \* the id of the one the public routes show

Init == released = {} /\ active = Nothing

\* One gated payload joins under a new id.  A release that loses to one with a
\* later timestamp is superseded on arrival; the very first one never is.
Release ==
    \E s \in released' \ released :
        /\ s \in [id : Nat, payload : Gated]
        /\ \A t \in released : t.id # s.id
        /\ released' = released \cup {s}
        /\ active' \in {active, s.id} \ {Nothing}

\* The surface returns to a release it showed, or could have shown, before.
RollBack ==
    \E s \in released : active' = s.id /\ UNCHANGED released

Next == Release \/ RollBack

Spec == Init /\ [][Next]_<<released, active>>
=============================================================================
