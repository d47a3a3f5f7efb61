------------------------------ MODULE Migrations ------------------------------
(***************************************************************************)
(* Processes that start on one database: each runs the migrations of its   *)
(* image (runMigrations of db/migrate.ts) and then serves, writing and     *)
(* reading rows by scope.  Deployments start processes of newer images     *)
(* while older ones still serve; processes die and are restarted.          *)
(*                                                                         *)
(* A start has its pool to itself and awaits every query, so the pool      *)
(* hands it the connection it released last; one lost in between ends the  *)
(* process, since nobody listens to the pool's error event yet.  A start   *)
(* is therefore one connection.                                            *)
(***************************************************************************)
EXTENDS Integers

CONSTANTS Process,
          Code,       \* state codes of rows
          ScopeOf,    \* the tier of a state code
          MaxFaults   \* bound: queries that fail, and deaths

File == 1..3          \* 001_initial, 002_scope_identity, 003_newsletter
ScopeFile == 2
NoScope == "none"
Tier == {"lower_court_state", "high_court", "supreme_court"}

ASSUME MigrationsAssumption ==
    /\ ScopeOf \in [Code -> Tier]
    /\ MaxFaults \in Nat

VARIABLES
    ledger,     \* schema_migrations exists
    applied,    \* the rows of schema_migrations
    schema,     \* the migrations whose statements have taken effect
    rows,       \* rows of runs, published_snapshots and publication_history
    image,      \* the newest migration in a process's image
    phase,
    cursor,     \* the next file of the loop
    seen,       \* applied, as read before the loop
    tx,         \* the migration an open transaction has executed, 0 before that
    recorded,   \* the id an open transaction has inserted, 0 before that
    faults

database == <<ledger, applied, schema, rows>>
process == <<image, phase, cursor, seen, tx, recorded>>
migrationVars == <<database, process, faults>>

Phase == {"start", "read", "loop", "execute", "record", "commit", "rollback", "down",
          "serving"}
Row == [code : Code, scope : Tier \cup {NoScope}]

TypeOK ==
    /\ ledger \in BOOLEAN
    /\ applied \subseteq File /\ schema \subseteq File
    /\ rows \subseteq Row
    /\ image \in [Process -> File]
    /\ phase \in [Process -> Phase]
    /\ cursor \in [Process -> Nat]
    /\ seen \in [Process -> SUBSET File]
    /\ tx \in [Process -> File \cup {0}]
    /\ recorded \in [Process -> File \cup {0}]
    /\ faults \in Nat

MigrationInit ==
    /\ ledger = FALSE /\ applied = {} /\ schema = {} /\ rows = {}
    /\ image \in [Process -> File]
    /\ phase = [p \in Process |-> "start"]
    /\ cursor = [p \in Process |-> 1]
    /\ seen = [p \in Process |-> {}]
    /\ tx = [p \in Process |-> 0]
    /\ recorded = [p \in Process |-> 0]
    /\ faults = 0

Goto(p, from, to) == phase[p] = from /\ phase' = [phase EXCEPT ![p] = to]

-----------------------------------------------------------------------------
(* runMigrations *)

CreateLedger(p) ==
    /\ Goto(p, "start", "read")
    /\ ledger' = TRUE
    /\ UNCHANGED <<applied, schema, rows, image, cursor, seen, tx, recorded, faults>>

ReadApplied(p) ==
    /\ Goto(p, "read", "loop")
    /\ seen' = [seen EXCEPT ![p] = applied]
    /\ cursor' = [cursor EXCEPT ![p] = 1]
    /\ UNCHANGED <<database, image, tx, recorded, faults>>

\* The files left for the loop, in the order of their names.
Left(p) == {f \in cursor[p]..image[p] : f \notin seen[p]}
IsNext(p, f) == f \in Left(p) /\ \A g \in Left(p) : f <= g

Begin(p) ==
    \E f \in File :
        /\ IsNext(p, f)
        /\ Goto(p, "loop", "execute")
        /\ cursor' = [cursor EXCEPT ![p] = f]
        /\ UNCHANGED <<database, image, seen, tx, recorded, faults>>

\* A statement waits for the locks of another transaction on the same tables.
Locked(p, f) == \E q \in Process \ {p} : tx[q] = f

Execute(p) ==
    /\ Goto(p, "execute", "record")
    /\ ~Locked(p, cursor[p])
    /\ tx' = [tx EXCEPT ![p] = cursor[p]]
    /\ UNCHANGED <<database, image, cursor, seen, recorded, faults>>

\* The record through another connection of the pool.
RecordOutsideTransaction(p) ==
    /\ phase[p] = "record"
    /\ cursor[p] \notin applied
    /\ phase' = [phase EXCEPT ![p] = "commit"]
    /\ applied' = applied \cup {cursor[p]}
    /\ recorded' = [recorded EXCEPT ![p] = cursor[p]]
    /\ UNCHANGED <<ledger, schema, rows, image, cursor, seen, tx, faults>>

\* The primary key of schema_migrations refuses a second record.
Record(p) ==
    /\ phase[p] = "record"
    /\ \A q \in Process \ {p} : recorded[q] # cursor[p]
    /\ IF cursor[p] \in applied
       THEN phase' = [phase EXCEPT ![p] = "rollback"] /\ UNCHANGED recorded
       ELSE /\ phase' = [phase EXCEPT ![p] = "commit"]
            /\ recorded' = [recorded EXCEPT ![p] = cursor[p]]
    /\ UNCHANGED <<ledger, applied, schema, rows, image, cursor, seen, tx, faults>>

BackfilledAsLowerCourt(f) ==
    IF f = ScopeFile
    THEN {[r EXCEPT !.scope = IF @ = NoScope THEN "lower_court_state" ELSE @] : r \in rows}
    ELSE rows

\* 002_scope_identity.sql fills in the scope of the rows that have none.
Backfilled(f) ==
    IF f = ScopeFile
    THEN {[r EXCEPT !.scope = IF @ = NoScope THEN ScopeOf[r.code] ELSE @] : r \in rows}
    ELSE rows

\* The effect of COMMIT.
CommitTransaction(p) ==
    /\ schema' = schema \cup {tx[p]}
    /\ rows' = Backfilled(tx[p])
    /\ applied' = applied \cup {recorded[p]}
    /\ tx' = [tx EXCEPT ![p] = 0]
    /\ recorded' = [recorded EXCEPT ![p] = 0]

Commit(p) ==
    /\ Goto(p, "commit", "loop")
    /\ CommitTransaction(p)
    /\ cursor' = [cursor EXCEPT ![p] = @ + 1]
    /\ UNCHANGED <<ledger, image, seen, faults>>

\* COMMIT takes effect but its answer is lost: the catch block rolls back nothing.
CommitUnacknowledged(p) ==
    /\ Goto(p, "commit", "rollback")
    /\ CommitTransaction(p)
    /\ faults < MaxFaults /\ faults' = faults + 1
    /\ UNCHANGED <<ledger, image, cursor, seen>>

\* A statement in the try block fails: the catch block follows.
QueryFails(p) ==
    /\ \E from \in {"execute", "record", "commit"} : Goto(p, from, "rollback")
    /\ faults < MaxFaults /\ faults' = faults + 1
    /\ UNCHANGED <<database, image, cursor, seen, tx, recorded>>

\* The memory and the connection of a process that ends.
Forget(p) ==
    /\ cursor' = [cursor EXCEPT ![p] = 1]
    /\ seen' = [seen EXCEPT ![p] = {}]
    /\ tx' = [tx EXCEPT ![p] = 0]
    /\ recorded' = [recorded EXCEPT ![p] = 0]

\* The catch block without its throw: the loop goes on with what it read at the start.
RollbackAndRetry(p) ==
    /\ Goto(p, "rollback", "loop")
    /\ tx' = [tx EXCEPT ![p] = 0]
    /\ recorded' = [recorded EXCEPT ![p] = 0]
    /\ UNCHANGED <<database, image, cursor, seen, faults>>

\* ROLLBACK, and the error ends the process; without the ROLLBACK the end of the
\* connection does the same.
Rollback(p) ==
    /\ Goto(p, "rollback", "down")
    /\ Forget(p)
    /\ UNCHANGED <<database, image, faults>>

Migrated(p) ==
    /\ Left(p) = {}
    /\ Goto(p, "loop", "serving")
    /\ UNCHANGED <<database, image, cursor, seen, tx, recorded, faults>>

-----------------------------------------------------------------------------
(* Rows.  An image that has 002 writes the scope of every row, and needs its *)
(* columns; an older one does not know them, and fails once they are NOT NULL. *)

inferScopeType(code) == ScopeOf[code]

Insert(p, c) ==
    /\ phase[p] = "serving"
    /\ ~Locked(p, ScopeFile)
    /\ IF image[p] >= ScopeFile
       THEN rows' = rows \cup {[code |-> c, scope |-> inferScopeType(c)]}
       ELSE /\ ScopeFile \notin schema
            /\ rows' = rows \cup {[code |-> c, scope |-> NoScope]}
    /\ UNCHANGED <<ledger, applied, schema, process, faults>>

\* What the queries of an image that has 002 find of a state.
Listed(c) == {r \in rows : r.scope = inferScopeType(c) /\ r.code = c}

-----------------------------------------------------------------------------
(* The process dies; its transaction goes with its connection. *)
Crash(p) ==
    /\ phase[p] # "down"
    /\ phase' = [phase EXCEPT ![p] = "down"]
    /\ Forget(p)
    /\ faults < MaxFaults /\ faults' = faults + 1
    /\ UNCHANGED <<database, image>>

\* SIGTERM: a deployment replaces a process that serves.
Terminate(p) ==
    /\ Goto(p, "serving", "down")
    /\ Forget(p)
    /\ UNCHANGED <<database, image, faults>>

\* The orchestrator, or the developer, starts the process again, with the same
\* image or a newer one.
Restart(p) ==
    /\ Goto(p, "down", "start")
    /\ \E i \in image[p]..3 : image' = [image EXCEPT ![p] = i]
    /\ UNCHANGED <<database, cursor, seen, tx, recorded, faults>>

Step(p) ==
    \/ CreateLedger(p) \/ ReadApplied(p) \/ Begin(p) \/ Execute(p) \/ Record(p)
    \/ Commit(p) \/ Rollback(p) \/ Migrated(p)
    \/ Restart(p)

MigrationNext ==
    \/ \E p \in Process :
        Step(p) \/ CommitUnacknowledged(p) \/ QueryFails(p) \/ Crash(p) \/ Terminate(p)
    \/ \E p \in Process, c \in Code : Insert(p, c)

MigrationSpec == MigrationInit /\ [][MigrationNext]_migrationVars
FairMigrationSpec == MigrationSpec /\ \A p \in Process : WF_migrationVars(Step(p))

-----------------------------------------------------------------------------
(* Properties *)

\* A migration is recorded exactly when its statements have taken effect, whoever
\* raced, failed or died in between: none is lost and none runs twice.
LedgerMatchesSchema ==
    /\ applied = schema
    /\ \A p \in Process : phase[p] = "commit" => tx[p] \notin schema

\* A process that serves has every migration of its image in the database.
ServingIsMigrated ==
    \A p \in Process :
        phase[p] = "serving" => 1..image[p] \subseteq schema

\* Once the scope migration is in, every row, written before, during or after it by
\* images of every age, is found by the queries of its own tier.
EveryRowIsFound ==
    ScopeFile \in schema =>
        \A r \in rows : r \in Listed(r.code)

\* A process that starts eventually serves: losing the race for a migration costs a
\* restart, never the service.
EveryStartServes == \A p \in Process : (phase[p] = "start") ~> (phase[p] = "serving")

=============================================================================
