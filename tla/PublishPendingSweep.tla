-------------------------- MODULE PublishPendingSweep --------------------------
(***************************************************************************)
(* The daily sweep over one scope (runPublishPendingSweep of               *)
(* ops/publish-pending-runner.ts, and the runAutoPublish it calls): list   *)
(* the completed runs nobody published, gate and publish them one by one,  *)
(* and send one digest of what the gate held.  Other operators fetch,      *)
(* publish, replay and roll back meanwhile; PublicationPipeline has their  *)
(* steps, here each is its effect on the tables.                           *)
(***************************************************************************)
EXTENDS AutoPublishGate, FiniteSets, FiniteSetsExt

CONSTANTS Counts,     \* pending counts a fetch may bring
          TrendDays,  \* prior points a candidate carries (4 in the code)
          MaxRuns,    \* bound: rows of runs
          MaxEvents   \* bound: rows of publication_history

ASSUME SweepAssumption ==
    /\ Counts \subseteq Nat
    /\ TrendDays \in Nat \ {0}
    /\ {MaxRuns, MaxEvents} \subseteq Nat

RunId == 1..MaxRuns  \* in the order of created_at; a day apart
NoRun == 0

VARIABLES
    status, quality,  \* columns of runs
    origin,           \* the run whose bundle this one carries: itself, or what it replays
    pending, trend,   \* the candidate's pending count, and the counts of its prior points
    events,           \* publication_history: the runs whose snapshots were made active
    replaying,        \* replays in flight
    \* the sweep
    phase,
    candidates, todo, \* what it listed, and what is left of that
    override,         \* runningPreviousPending; Missing is undefined
    heldReviews,
    results,          \* the action reported for a candidate
    failed,           \* candidates whose result is not ok
    digest,           \* runs named in the digest that was delivered
    committed         \* history: the last run this sweep's own transaction released

tables == <<status, quality, origin, pending, trend, events, replaying>>
sweep == <<phase, candidates, todo, override, heldReviews, results, failed, digest, committed>>
vars == <<tables, sweep>>

Result == {"none", "published", "skipped_review", "publish_failed", "error"}
Phase == {"idle", "inspect", "publish", "commit", "purge", "confirm", "warn", "alarm",
          "digest", "done"}

\* The tables and the sweep's memory hold what the schema and the code allow,
\* and what the sweep reports on is what it listed.
TypeOK ==
    /\ status \in [RunId -> {"absent", "completed", "failed", "published", "replayed"}]
    /\ quality \in [RunId -> {"complete", "stale"}]
    /\ origin \in [RunId -> RunId \cup {NoRun}]
    /\ pending \in [RunId -> Counts \cup {Missing}]
    /\ \A r \in RunId : trend[r] \in Seq(Counts) /\ Len(trend[r]) <= TrendDays
    /\ events \in Seq(RunId)
    /\ replaying \subseteq RunId
    /\ phase \in Phase
    /\ todo \subseteq candidates /\ candidates \subseteq RunId
    /\ override \in Counts \cup {Missing}
    /\ heldReviews \subseteq candidates \ todo
    /\ results \in [RunId -> Result]
    /\ \A r \in RunId : results[r] # "none" => r \in candidates \ todo
    /\ failed \cup digest \subseteq candidates \ todo
    /\ committed \in candidates \cup {NoRun}

Init ==
    /\ status = [r \in RunId |-> "absent"]
    /\ quality = [r \in RunId |-> "stale"]
    /\ origin = [r \in RunId |-> NoRun]
    /\ pending = [r \in RunId |-> Missing]
    /\ trend = [r \in RunId |-> <<>>]
    /\ events = <<>>
    /\ replaying = {}
    /\ phase = "idle"
    /\ candidates = {} /\ todo = {} /\ heldReviews = {} /\ failed = {} /\ digest = {}
    /\ override = Missing
    /\ results = [r \in RunId |-> "none"]
    /\ committed = NoRun

-----------------------------------------------------------------------------
(* Other operators *)

Fresh(r) == status[r] = "absent" /\ \A q \in RunId : q < r => status[q] # "absent"
IsReleased(r) == r \in ToSet(events)

\* The prior points of a candidate with this origin: one for each released day
\* up to its own.  A replay's snapshot has the reference date of what it replays.
TrendOf(o) ==
    LET days == {d \in {origin[r] : r \in ToSet(events)} : d <= o}
        kept == {d \in days : Cardinality({e \in days : e > d}) < TrendDays}
        points == SetToSortSeq(kept, <)
    IN  [i \in DOMAIN points |-> pending[points[i]]]

Complete(r, bundle, count, qualityState) ==
    /\ Fresh(r)
    /\ status' = [status EXCEPT ![r] = "completed"]
    /\ quality' = [quality EXCEPT ![r] = qualityState]
    /\ origin' = [origin EXCEPT ![r] = bundle]
    /\ pending' = [pending EXCEPT ![r] = count]
    /\ trend' = [trend EXCEPT ![r] = TrendOf(bundle)]
    /\ UNCHANGED <<events, sweep>>

Fetch(r) ==
    /\ \E count \in Counts, qualityState \in {"complete", "stale"} :
           Complete(r, r, count, qualityState)
    /\ UNCHANGED replaying

\* A replay is an ordinary completed run until it publishes itself.
Replay(r, source) ==
    /\ status[source] # "absent"
    /\ Complete(r, origin[source], pending[source], quality[source])
    /\ replaying' = replaying \cup {r}

Release(r) ==
    /\ Len(events) < MaxEvents
    /\ status' = [status EXCEPT ![r] = IF origin[r] # r THEN "replayed" ELSE "published"]
    /\ events' = Append(events, r)
    /\ UNCHANGED <<quality, origin, pending, trend, replaying>>

PublishElsewhere(r) == status[r] = "completed" /\ Release(r) /\ UNCHANGED sweep

\* replayRun's catch: whatever fails, the purge after the commit too, the run
\* becomes failed.
ReplayFails(r) ==
    /\ r \in replaying
    /\ status' = [status EXCEPT ![r] = "failed"]
    /\ replaying' = replaying \ {r}
    /\ UNCHANGED <<quality, origin, pending, trend, events, sweep>>
ReplayEnds(r) ==
    /\ r \in replaying /\ status[r] = "replayed"
    /\ replaying' = replaying \ {r}
    /\ UNCHANGED <<status, quality, origin, pending, trend, events, sweep>>

Rollback(r) ==
    /\ Len(events) < MaxEvents
    /\ IsReleased(r)
    /\ events' = Append(events, r)
    /\ UNCHANGED <<status, quality, origin, pending, trend, replaying, sweep>>

-----------------------------------------------------------------------------
(* The sweep *)

\* findUnpublishedCompleteRuns; runs before since are out of the lookback.
PublicationFloor == Max({NoRun} \cup {r \in RunId : status[r] \in {"published", "replayed"}})
FindUnpublishedCompleteRuns(since) ==
    {r \in RunId : /\ status[r] = "completed"
                   /\ quality[r] = "complete"
                   /\ r >= since
                   /\ r > PublicationFloor}

ReviewsCarriedOver == heldReviews
NoReviews == {}
List(since) ==
    /\ phase \in {"idle", "done"}
    /\ FindUnpublishedCompleteRuns(since) # {}
    /\ candidates' = FindUnpublishedCompleteRuns(since)
    /\ todo' = candidates'
    /\ phase' = "inspect"
    /\ override' = Missing
    /\ heldReviews' = NoReviews
    /\ failed' = {} /\ digest' = {}
    /\ results' = [r \in RunId |-> "none"]
    /\ committed' = NoRun
    /\ UNCHANGED tables

Candidate == Min(todo)

\* The baseline and its candidates: those of the fetch, unless this sweep published.
FetchedInputs(r) == <<IF trend[r] = <<>> THEN NoCount ELSE Last(trend[r]), trend[r]>>
GateInputs(r) == IF override = Missing THEN FetchedInputs(r) ELSE <<override, <<>> >>
Gate(r) == Decision(quality[r], pending[r], GateInputs(r)[1], GateInputs(r)[2])

\* The result of a candidate is pushed and the loop goes on.
Report(r, action, ok, reviews) ==
    /\ results' = [results EXCEPT ![r] = action]
    /\ failed' = IF ok THEN failed ELSE failed \cup {r}
    /\ heldReviews' = reviews
    /\ todo' = todo \ {r}
    /\ phase' = IF todo' # {} THEN "inspect" ELSE IF reviews # {} THEN "digest" ELSE "done"
    /\ UNCHANGED <<tables, candidates, digest, committed>>

GateCandidate ==
    /\ phase = "inspect"
    /\ IF Gate(Candidate) = "publish"
       THEN /\ phase' = "publish"
            /\ UNCHANGED <<tables, candidates, todo, override, heldReviews, results, failed,
                           digest, committed>>
       ELSE /\ Report(Candidate, "skipped_review", TRUE, heldReviews \cup {Candidate})
            /\ UNCHANGED override
InspectFails ==
    /\ phase = "inspect"
    /\ Report(Candidate, "error", FALSE, heldReviews)
    /\ UNCHANGED override

Goto(step) ==
    /\ phase' = step
    /\ UNCHANGED <<candidates, todo, override, heldReviews, results, failed, digest>>

\* publishRun: its own inspection, its transaction, the purge; all may throw.
InspectBeforePublish ==
    /\ phase = "publish" /\ status[Candidate] = "completed"
    /\ Goto("commit")
    /\ UNCHANGED <<tables, committed>>
PublishThrows ==
    /\ phase \in {"publish", "commit", "purge"}
    /\ Goto("confirm")
    /\ UNCHANGED <<tables, committed>>
CommitPublish ==
    /\ phase = "commit"
    /\ Release(Candidate)
    /\ committed' = Candidate
    /\ Goto("purge") \/ Goto("confirm")  \* the acknowledgement may be lost

\* A reported publication: earlier held runs need no review any more.
ReviewsKept == heldReviews
ReviewsSuperseded == {}
ReportPublished(ok) ==
    /\ override' = pending[Candidate]
    /\ Report(Candidate, "published", ok, ReviewsSuperseded)
PurgeSucceeds == phase = "purge" /\ ReportPublished(TRUE)

\* hasPublishedRun: the newest event's run, if the query answers.
AnyPublication(r) == events # <<>>
HasPublishedRun(r) == events # <<>> /\ Last(events) = r
ConfirmPublished ==
    /\ phase = "confirm" /\ HasPublishedRun(Candidate)
    /\ Goto("warn")
    /\ UNCHANGED <<tables, committed>>
ConfirmNotPublished ==  \* also when the query throws
    /\ phase = "confirm"
    /\ Goto("alarm")
    /\ UNCHANGED <<tables, committed>>
Warn == phase = "warn" /\ \E delivered \in BOOLEAN : ReportPublished(delivered)
Alarm ==
    /\ phase = "alarm"
    /\ \E action \in {"publish_failed", "error"} : Report(Candidate, action, FALSE, heldReviews)
    /\ UNCHANGED override

\* One digest of every held review; when it cannot be sent, their results fail.
FailureLoggedOnly(delivered) == failed
FailedAfterDigest(delivered) == IF delivered THEN failed ELSE failed \cup heldReviews
SendDigest ==
    /\ phase = "digest"
    /\ phase' = "done"
    /\ \E delivered \in BOOLEAN :
           /\ digest' = IF delivered THEN heldReviews ELSE {}
           /\ failed' = FailedAfterDigest(delivered)
    /\ UNCHANGED <<tables, candidates, todo, override, heldReviews, results, committed>>

\* The process dies: nothing of the sweep survives, the next one lists again.
Crash ==
    /\ phase \notin {"idle", "done"}
    /\ phase' = "idle"
    /\ candidates' = {} /\ todo' = {} /\ heldReviews' = {} /\ failed' = {} /\ digest' = {}
    /\ override' = Missing
    /\ results' = [r \in RunId |-> "none"]
    /\ committed' = NoRun
    /\ UNCHANGED tables

Others ==
    \/ \E r \in RunId : \/ Fetch(r) \/ PublishElsewhere(r) \/ Rollback(r)
                        \/ ReplayFails(r) \/ ReplayEnds(r)
    \/ \E r, source \in RunId : Replay(r, source)
Sweep ==
    \/ \E since \in RunId : List(since)
    \/ GateCandidate \/ InspectFails
    \/ InspectBeforePublish \/ PublishThrows \/ CommitPublish \/ PurgeSucceeds
    \/ ConfirmPublished \/ ConfirmNotPublished \/ Warn \/ Alarm
    \/ SendDigest \/ Crash

Next == Others \/ Sweep

Spec == Init /\ [][Next]_vars

-----------------------------------------------------------------------------
(* Properties *)

\* When a sweep ends nothing it listed is lost: each candidate was published, or
\* a later one was and superseded it, or the digest that went out names it, or its
\* result fails the sweep (assertPublishPendingSweepSucceeded).
EveryCandidateIsAccountedFor ==
    phase = "done" => \A c \in candidates :
        \/ results[c] = "published" /\ IsReleased(c)
        \/ c \in failed \cup digest
        \/ results[c] = "skipped_review" /\ \E d \in candidates : d > c /\ results[d] = "published"

\* A candidate reported as published was released, however its publication threw
\* and whatever others released meanwhile (hasPublishedRun).
ReportedPublishedIsReleased ==
    \A c \in candidates : results[c] = "published" => IsReleased(c)

\* The digest asks for no review that a later candidate of the sweep, reported as
\* published, has superseded.
DigestIsCurrent ==
    \A c \in digest, d \in candidates : d > c => results[d] # "published"

\* What the sweep releases is within the threshold of the last candidate it
\* reported as published before, not of an older publication its trends knew.
SweepStepsAreSmall ==
    [][committed' # committed /\ committed' # NoRun =>
          LET before == {d \in candidates : results[d] = "published"}
          IN  before # {} /\ pending[Max(before)] > 0
                  => ~Far(pending[committed'], pending[Max(before)])]_vars

\* ops/publish-pending-runner.ts:81-83: "Anything older than the most recent
\* published/replayed run is considered superseded - publishing it would regress
\* freshness or undo an intentional replay."
ListedAreNewerThanReleases ==
    [][(phase = "idle" \/ phase = "done") /\ phase' = "inspect" =>
          \A c \in candidates' : \A e \in ToSet(events) : c > e]_vars

\* ops/publish-pending-runner.ts:124-129: in one sweep "runs after the first need to
\* be evaluated against the run we just published, not against whatever was the
\* latest publication when this run was first captured".
GatedAgainstJustPublished ==
    [][committed # NoRun /\ phase = "inspect" /\ phase' = "publish" =>
          GateInputs(Candidate) = <<pending[committed], <<>> >>]_vars

=============================================================================
