---------------------------- MODULE CourtServices ----------------------------
(***************************************************************************)
(* The three services of the site (lower courts, High Courts, the Supreme  *)
(* Court) over one warehouse: each sees the runs and the publications of   *)
(* its own scope.  What a service reads and writes is given here as        *)
(* operators; OperatorApi runs them step by step.                          *)
(*                                                                         *)
(* A run and a publication are named by their place in the tables, and a   *)
(* snapshot by the publication that inserted it.  "by" is the request that *)
(* wrote the row (None for rows that were there before), a history         *)
(* variable that no step reads.                                            *)
(***************************************************************************)
EXTENDS Integers, Sequences, FiniteSets

CONSTANTS LowerScopes, HighCourts, SupremeCourt
ASSUME TiersAssumption ==
    LowerScopes \cap HighCourts = {} /\ SupremeCourt \notin LowerScopes \cup HighCourts

VARIABLES runs, publications

None == 0
Scopes == LowerScopes \cup HighCourts \cup {SupremeCourt}

Statuses == {"pending", "completed", "failed", "published", "replayed"}
Qualities == {"complete", "partial"}
Run(scope, replayOf, by) ==
    [scope |-> scope, status |-> "pending", quality |-> "partial", artifacts |-> {},
     districts |-> {}, replayOf |-> replayOf, by |-> by]

\* inspectRun answers nothing for a run of another scope.
InspectRun(scope, run) == {runs[r] : r \in {run} \cap {s \in DOMAIN runs : runs[s].scope = scope}}

PublicationsOf(scope) == {p \in DOMAIN publications : publications[p].scope = scope}
NewestOf(rows) == IF rows = {} THEN None ELSE CHOOSE p \in rows : \A q \in rows : q <= p
LatestPublication(scope) == NewestOf(PublicationsOf(scope))

\* The snapshot that every reader of the scope is given: stats, trends, pages.
GetPublishedSnapshot(scope) ==
    IF PublicationsOf(scope) = {} THEN None ELSE publications[LatestPublication(scope)].snapshot
DistrictsIn(snapshot) == runs[publications[snapshot].run].districts

-----------------------------------------------------------------------------
(* What may be published and what may be replayed *)

AnyRunIsPublishable(run) == {"raw", "candidate"} \subseteq run.artifacts
PublishableRun(run) ==
    /\ run.status = "completed"
    /\ run.quality # "partial"
    /\ {"raw", "candidate"} \subseteq run.artifacts

\* The Supreme Court's service also wants the old run's candidate.
ReplayableRun(scope, run) ==
    /\ "raw" \in run.artifacts
    /\ scope = SupremeCourt => "candidate" \in run.artifacts

-----------------------------------------------------------------------------
(* What is written *)

InsertRun(run) == /\ runs' = Append(runs, run)
                  /\ UNCHANGED publications

\* The raw capture and the candidate are stored and the run is completed, or an
\* exception marks it failed: before or after the raw capture was stored.
CompleteRun(run, quality, districts) ==
    /\ runs' = [runs EXCEPT ![run].status = "completed", ![run].quality = quality,
                            ![run].artifacts = {"raw", "candidate"}, ![run].districts = districts]
    /\ UNCHANGED publications
FailRun(run, artifacts) ==
    /\ runs' = [runs EXCEPT ![run].status = "failed", ![run].artifacts = @ \cup artifacts]
    /\ UNCHANGED publications

\* The transaction of publishRun: the run is not looked at again.
PublishTransaction(scope, run, by) ==
    /\ publications' = Append(publications, [scope |-> scope, action |-> "publish", run |-> run,
                                             snapshot |-> Len(publications) + 1, by |-> by])
    /\ runs' = [runs EXCEPT ![run].status = IF runs[run].replayOf # None THEN "replayed" ELSE "published"]

InsertRollback(scope, target, by) ==
    /\ publications' = Append(publications, [scope |-> scope, action |-> "rollback", run |-> publications[target].run,
                                             snapshot |-> publications[target].snapshot, by |-> by])
    /\ UNCHANGED runs

=============================================================================
