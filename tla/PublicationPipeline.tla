------------------------- MODULE PublicationPipeline -------------------------
(***************************************************************************)
(* The release pipeline of one court scope: fetch, publish, replay and     *)
(* rollback as services/published-snapshot-service.ts runs them against    *)
(* PostgreSQL (runs, run_artifacts, published_snapshots,                   *)
(* publication_history) and the artifact bucket.  The services of the high *)
(* courts and of the Supreme Court are copies of the same control flow.    *)
(*                                                                         *)
(* Every invocation (CLI, HTTP route, scheduled task) is an operator that  *)
(* advances by one await at a time, so invocations interleave, fail or die *)
(* between any two awaits.                                                 *)
(***************************************************************************)
EXTENDS Integers, FiniteSets

CONSTANTS
    Operator,      \* the invocations that may be in flight at the same time
    Evidence,      \* captured bundles, told apart by their content
    QualityOf,     \* the quality state normalisation computes from a bundle
    NoContent,     \* an object, artifact row or memory cell that is empty
    Damaged,       \* an object whose bytes no longer hash to the recorded checksum
    MaxRuns,       \* bound: rows of runs
    MaxTicks       \* bound: rows of publication_history

QualityState == {"complete", "partial", "stale"}

ASSUME EvidenceAssumption ==
    /\ QualityOf \in [Evidence -> QualityState]
    /\ NoContent \notin Evidence
    /\ Damaged \notin Evidence
    /\ NoContent # Damaged
ASSUME BoundsAssumption == MaxRuns \in Nat /\ MaxTicks \in Nat

RunId == 1..MaxRuns   \* in the order of created_at
NoRun == 0
RunStatus == {"absent", "pending", "completed", "failed", "published", "replayed"}

\* A row of published_snapshots: its id is its transaction's timestamp, its
\* payload the candidate, which is named by the bundle it was normalised from.
Snapshot == [id : Nat, run : RunId, replayOf : RunId \cup {NoRun}, payload : Evidence]

\* A row of publication_history, identified by created_at; previous = 0 is NULL.
Publication == [createdAt : Nat, action : {"publish", "rollback"},
                snapshot : Nat, previous : Nat]

VARIABLES
    status, quality, replayOf,        \* columns of runs
    rawArtifact, candidateArtifact,   \* run_artifacts: the content each checksum is of
    rawObject, candidateObject,       \* the bucket
    snapshots, publications,          \* published_snapshots, publication_history
    clock,                            \* the database clock
    pc, task, subject,                \* where each operator is, and for which run
    held,                             \* the content it holds in memory
    startedAt, previous, target,      \* its transaction's timestamp and what it read
    abandoned                         \* runs whose operator died with the outcome unrecorded

runColumns == <<status, quality, replayOf>>
artifactRows == <<rawArtifact, candidateArtifact>>
bucket == <<rawObject, candidateObject>>
releases == <<snapshots, publications, clock>>
reads == <<startedAt, previous, target>>
vars == <<runColumns, artifactRows, bucket, releases,
          pc, task, subject, held, reads, abandoned>>

Task == {"none", "capture", "publish", "replay", "rollback"}
\* Each step is named for what the operator awaits next.
Step == {"idle", "upload", "rawRow", "normalise", "candidateRow", "complete", "verify",
         "inspect", "begin", "previous", "commit", "rollback", "purge", "recover"}

\* Every variable holds rows, objects and steps the schema and the code allow.
TypeOK ==
    /\ status \in [RunId -> RunStatus]
    /\ quality \in [RunId -> QualityState]
    /\ replayOf \in [RunId -> RunId \cup {NoRun}]
    /\ rawArtifact \in [RunId -> Evidence \cup {NoContent}]
    /\ candidateArtifact \in [RunId -> Evidence \cup {NoContent}]
    /\ rawObject \in [RunId -> Evidence \cup {NoContent, Damaged}]
    /\ candidateObject \in [RunId -> Evidence \cup {NoContent, Damaged}]
    /\ snapshots \subseteq Snapshot
    /\ publications \subseteq Publication
    /\ clock \in Nat
    /\ pc \in [Operator -> Step]
    /\ task \in [Operator -> Task]
    /\ subject \in [Operator -> RunId \cup {NoRun}]
    /\ held \in [Operator -> Evidence \cup {NoContent}]
    /\ startedAt \in [Operator -> Nat]
    /\ previous \in [Operator -> Nat]
    /\ target \in [Operator -> Nat]
    /\ abandoned \subseteq RunId

Init ==
    /\ status = [r \in RunId |-> "absent"]
    /\ quality = [r \in RunId |-> "partial"]
    /\ replayOf = [r \in RunId |-> NoRun]
    /\ rawArtifact = [r \in RunId |-> NoContent]
    /\ candidateArtifact = [r \in RunId |-> NoContent]
    /\ rawObject = [r \in RunId |-> NoContent]
    /\ candidateObject = [r \in RunId |-> NoContent]
    /\ snapshots = {}
    /\ publications = {}
    /\ clock = 0
    /\ pc = [o \in Operator |-> "idle"]
    /\ task = [o \in Operator |-> "none"]
    /\ subject = [o \in Operator |-> NoRun]
    /\ held = [o \in Operator |-> NoContent]
    /\ startedAt = [o \in Operator |-> 0]
    /\ previous = [o \in Operator |-> 0]
    /\ target = [o \in Operator |-> 0]
    /\ abandoned = {}

-----------------------------------------------------------------------------
(* Reads *)

\* The publication the public routes resolve: the one with the greatest created_at.
LatestPublication ==
    CHOOSE p \in publications : \A q \in publications : q.createdAt <= p.createdAt
LatestId == IF publications = {} THEN 0 ELSE LatestPublication.createdAt
ActiveSnapshot == IF publications = {} THEN 0 ELSE LatestPublication.snapshot

\* downloadJson with expectedChecksumSha256: the object is there and hashes to the row.
Downloads(row, object) == row # NoContent /\ object = row

\* assertPublishableRun, over the inspected run and its artifacts.
PublishableAnyQuality(r) ==
    /\ status[r] = "completed"
    /\ rawArtifact[r] # NoContent
    /\ Downloads(candidateArtifact[r], candidateObject[r])
PublishableAnyStatus(r) ==
    /\ quality[r] # "partial"
    /\ rawArtifact[r] # NoContent
    /\ Downloads(candidateArtifact[r], candidateObject[r])
Publishable(r) ==
    /\ status[r] = "completed"
    /\ quality[r] # "partial"
    /\ rawArtifact[r] # NoContent
    /\ Downloads(candidateArtifact[r], candidateObject[r])

-----------------------------------------------------------------------------
(* Steps every invocation shares *)

Goto(o, step) == pc' = [pc EXCEPT ![o] = step]

\* The invocation is over; its memory is gone.
Finish(o) ==
    /\ Goto(o, "idle")
    /\ task' = [task EXCEPT ![o] = "none"]
    /\ subject' = [subject EXCEPT ![o] = NoRun]
    /\ held' = [held EXCEPT ![o] = NoContent]
    /\ startedAt' = [startedAt EXCEPT ![o] = 0]
    /\ previous' = [previous EXCEPT ![o] = 0]
    /\ target' = [target EXCEPT ![o] = 0]

BuildsRun(o) == task[o] \in {"capture", "replay"}

\* captureRun and replayRun catch whatever their body throws and then write a
\* failure; publishRun and rollbackPublication let it propagate.
NeverCaught(o) == FALSE
Caught(o) == BuildsRun(o)

\* The exception path out of the awaited call.
ThrowIntoRetry(o) ==
    IF Caught(o)
    THEN Goto(o, "upload") /\ UNCHANGED <<task, subject, held, reads>>
    ELSE Finish(o)
Throw(o) ==
    IF Caught(o)
    THEN Goto(o, "recover") /\ UNCHANGED <<task, subject, held, reads>>
    ELSE Finish(o)

-----------------------------------------------------------------------------
(* Fetch: captureRun, and the steps replayRun shares with it *)

Fresh(r) == status[r] = "absent" /\ \A q \in RunId : q < r => status[q] # "absent"

InsertRun(r, initialQuality, source) ==
    /\ Fresh(r)
    /\ status' = [status EXCEPT ![r] = "pending"]
    /\ quality' = [quality EXCEPT ![r] = initialQuality]
    /\ replayOf' = [replayOf EXCEPT ![r] = source]

\* The bundle is captured and extracted before the run row is inserted; a
\* failure up to here leaves no trace.  An insert whose acknowledgement is lost
\* throws outside the try block: that is this step followed by Crash.
CaptureRun(o, r, bundle) ==
    /\ pc[o] = "idle"
    /\ InsertRun(r, "partial", NoRun)
    /\ Goto(o, "upload")
    /\ task' = [task EXCEPT ![o] = "capture"]
    /\ subject' = [subject EXCEPT ![o] = r]
    /\ held' = [held EXCEPT ![o] = bundle]
    /\ UNCHANGED <<artifactRows, bucket, releases, reads, abandoned>>

UploadRaw(o) ==
    /\ pc[o] = "upload" /\ task[o] = "capture"
    /\ rawObject' = [rawObject EXCEPT ![subject[o]] = held[o]]
    /\ Goto(o, "rawRow")
    /\ UNCHANGED <<runColumns, artifactRows, candidateObject, releases,
                   task, subject, held, reads, abandoned>>

InsertRawArtifact(o) ==
    /\ pc[o] = "rawRow"
    /\ rawArtifact' = [rawArtifact EXCEPT ![subject[o]] = held[o]]
    /\ Goto(o, "normalise")
    /\ UNCHANGED <<runColumns, candidateArtifact, bucket, releases,
                   task, subject, held, reads, abandoned>>

\* buildAndStoreSnapshotCandidate: re-read the stored bundle, normalise it and
\* upload the candidate.
Normalise(o) ==
    LET r == subject[o] IN
    /\ pc[o] = "normalise"
    /\ Downloads(rawArtifact[r], rawObject[r])
    /\ held' = [held EXCEPT ![o] = rawObject[r]]
    /\ candidateObject' = [candidateObject EXCEPT ![r] = rawObject[r]]
    /\ Goto(o, "candidateRow")
    /\ UNCHANGED <<runColumns, artifactRows, rawObject, releases,
                   task, subject, reads, abandoned>>

InsertCandidateArtifact(o) ==
    /\ pc[o] = "candidateRow"
    /\ candidateArtifact' = [candidateArtifact EXCEPT ![subject[o]] = held[o]]
    /\ Goto(o, "complete")
    /\ UNCHANGED <<runColumns, rawArtifact, bucket, releases,
                   task, subject, held, reads, abandoned>>

MarkCompleted(o) ==
    LET r == subject[o] IN
    /\ pc[o] = "complete"
    /\ status' = [status EXCEPT ![r] = "completed"]
    /\ quality' = [quality EXCEPT ![r] = QualityOf[held[o]]]
    /\ Goto(o, IF task[o] = "capture" THEN "verify" ELSE "inspect")
    /\ UNCHANGED <<replayOf, artifactRows, bucket, releases,
                   task, subject, held, reads, abandoned>>

\* captureRun ends by inspecting its own run, inside the try block.
VerifyCapture(o) ==
    LET r == subject[o] IN
    /\ pc[o] = "verify"
    /\ Downloads(candidateArtifact[r], candidateObject[r])
    /\ Finish(o)
    /\ UNCHANGED <<runColumns, artifactRows, bucket, releases, abandoned>>

\* The catch block: whatever the run has become meanwhile, it is now failed.
ErrorStatus(r) == "error"
FailedStatus(r) == "failed"
Recover(o) ==
    LET r == subject[o] IN
    /\ pc[o] = "recover"
    /\ status' = [status EXCEPT ![r] = FailedStatus(r)]
    /\ Finish(o)
    /\ UNCHANGED <<quality, replayOf, artifactRows, bucket, releases, abandoned>>

-----------------------------------------------------------------------------
(* Replay *)

\* Bound: invocations in flight that have yet to take a timestamp.
NeedsTick(o) ==
    /\ task[o] \in {"publish", "replay", "rollback"}
    /\ pc[o] \notin {"previous", "commit", "purge", "recover"}
TicksLeft == clock + Cardinality({o \in Operator : NeedsTick(o)}) < MaxTicks

\* Any run with a raw artifact may be replayed, a failed or a pending one too;
\* inspecting it downloads its candidate, if there is one.  The rows read before
\* the insert are never rewritten, so they may be read in the same step.
ReplayRun(o, r, source) ==
    /\ pc[o] = "idle"
    /\ TicksLeft
    /\ status[source] # "absent"
    /\ rawArtifact[source] # NoContent
    /\ candidateArtifact[source] # NoContent
           => Downloads(candidateArtifact[source], candidateObject[source])
    /\ InsertRun(r, quality[source], source)
    /\ Goto(o, "upload")
    /\ task' = [task EXCEPT ![o] = "replay"]
    /\ subject' = [subject EXCEPT ![o] = r]
    /\ UNCHANGED <<artifactRows, bucket, releases, held, reads, abandoned>>

\* copyObject copies the bytes unverified and records the source row's checksum.
CopyRaw(o) ==
    LET r == subject[o]
        source == replayOf[r]
    IN  /\ pc[o] = "upload" /\ task[o] = "replay"
        /\ rawObject[source] # NoContent
        /\ rawObject' = [rawObject EXCEPT ![r] = rawObject[source]]
        /\ held' = [held EXCEPT ![o] = rawArtifact[source]]
        /\ Goto(o, "rawRow")
        /\ UNCHANGED <<runColumns, artifactRows, candidateObject, releases,
                       task, subject, reads, abandoned>>

-----------------------------------------------------------------------------
(* Publish *)

\* publishRun inspects the run, and materialises the payload, before its
\* transaction.
Inspect(o, r) ==
    /\ Publishable(r)
    /\ held' = [held EXCEPT ![o] = candidateArtifact[r]]
    /\ Goto(o, "begin")
    /\ UNCHANGED <<runColumns, artifactRows, bucket, releases, reads, abandoned>>

PublishRun(o, r) ==
    /\ pc[o] = "idle"
    /\ TicksLeft
    /\ Inspect(o, r)
    /\ task' = [task EXCEPT ![o] = "publish"]
    /\ subject' = [subject EXCEPT ![o] = r]

PublishReplay(o) ==
    /\ pc[o] = "inspect"
    /\ Inspect(o, subject[o])
    /\ UNCHANGED <<task, subject>>

\* BEGIN: created_at DEFAULT NOW() is the timestamp of this moment.
BeginPublish(o) ==
    /\ pc[o] = "begin"
    /\ clock' = clock + 1
    /\ startedAt' = [startedAt EXCEPT ![o] = clock + 1]
    /\ Goto(o, "previous")
    /\ UNCHANGED <<runColumns, artifactRows, bucket, snapshots, publications,
                   task, subject, held, previous, target, abandoned>>

\* getLatestPublication inside the transaction sees what is committed by now.
ReadPrevious(o) ==
    /\ pc[o] = "previous"
    /\ previous' = [previous EXCEPT ![o] = LatestId]
    /\ Goto(o, "commit")
    /\ UNCHANGED <<runColumns, artifactRows, bucket, releases,
                   task, subject, held, startedAt, target, abandoned>>

StatusIgnoringReplay(r) == "published"
StatusLeftAlone(r) == status[r]
ReleasedStatus(r) == IF replayOf[r] # NoRun THEN "replayed" ELSE "published"

\* The publication row stamped when it is committed, not when its transaction began.
ApplyPublishStampedLate(o) ==
    /\ snapshots' = snapshots \cup
           {[id |-> startedAt[o], run |-> subject[o], replayOf |-> replayOf[subject[o]],
             payload |-> held[o]]}
    /\ publications' = publications \cup
           {[createdAt |-> clock + 1, action |-> "publish",
             snapshot |-> startedAt[o], previous |-> previous[o]]}
    /\ status' = [status EXCEPT ![subject[o]] = ReleasedStatus(subject[o])]
    /\ UNCHANGED <<quality, replayOf, artifactRows, bucket, clock, abandoned>>

\* The rows of the transaction become visible together.  The run's quality is
\* rewritten with the inspected value, which nothing can have changed.
ApplyPublish(o) ==
    LET r == subject[o] IN
    /\ snapshots' = snapshots \cup
           {[id |-> startedAt[o], run |-> r, replayOf |-> replayOf[r],
             payload |-> held[o]]}
    /\ publications' = publications \cup
           {[createdAt |-> startedAt[o], action |-> "publish",
             snapshot |-> startedAt[o], previous |-> previous[o]]}
    /\ status' = [status EXCEPT ![r] = ReleasedStatus(r)]
    /\ UNCHANGED <<quality, replayOf, artifactRows, bucket, clock, abandoned>>

CommitPublish(o) ==
    /\ pc[o] = "commit"
    /\ ApplyPublish(o)
    /\ Goto(o, "purge")
    /\ UNCHANGED <<task, subject, held, reads>>

\* COMMIT takes effect but its acknowledgement is lost: withTransaction throws.
CommitUnacknowledged(o) ==
    /\ pc[o] = "commit"
    /\ ApplyPublish(o)
    /\ Throw(o)

\* invalidatePublishedData, after the commit.
Purge(o) ==
    /\ pc[o] = "purge"
    /\ Finish(o)
    /\ UNCHANGED <<runColumns, artifactRows, bucket, releases, abandoned>>

-----------------------------------------------------------------------------
(* Rollback *)

ReadRollbackTarget(o, p) ==
    /\ pc[o] = "idle"
    /\ TicksLeft
    /\ p \in publications
    /\ target' = [target EXCEPT ![o] = p.snapshot]
    /\ previous' = [previous EXCEPT ![o] = LatestId]
    /\ Goto(o, "rollback")
    /\ task' = [task EXCEPT ![o] = "rollback"]
    /\ UNCHANGED <<runColumns, artifactRows, bucket, releases,
                   subject, held, startedAt, abandoned>>

RollbackRow(o) ==
    [createdAt |-> clock + 1, action |-> "rollback",
     snapshot |-> target[o], previous |-> previous[o]]

\* A single statement outside any transaction: NOW() is the time it runs.  An
\* insert whose acknowledgement is lost is this step followed by AwaitFails.
InsertRollback(o) ==
    /\ pc[o] = "rollback"
    /\ clock' = clock + 1
    /\ publications' = publications \cup {RollbackRow(o)}
    /\ Goto(o, "purge")
    /\ UNCHANGED <<runColumns, artifactRows, bucket, snapshots,
                   task, subject, held, reads, abandoned>>

-----------------------------------------------------------------------------
(* Failures *)

\* The awaited call throws.  A throw inside the transaction rolls it back.
AwaitFails(o) ==
    /\ pc[o] \notin {"idle", "recover"}
    /\ Throw(o)
    /\ UNCHANGED <<runColumns, artifactRows, bucket, releases, abandoned>>

\* The failure update itself fails, or the process dies: nobody will settle
\* the run any more.
Abandon(o) ==
    /\ Finish(o)
    /\ abandoned' = abandoned \cup (IF BuildsRun(o) THEN {subject[o]} ELSE {})
    /\ UNCHANGED <<runColumns, artifactRows, bucket, releases>>
RecoverFails(o) == pc[o] = "recover" /\ Abandon(o)
Crash(o) == pc[o] # "idle" /\ Abandon(o)

\* External: a stored object is lost to bit rot.
DamageRaw(r) ==
    /\ rawObject[r] \in Evidence
    /\ rawObject' = [rawObject EXCEPT ![r] = Damaged]
    /\ UNCHANGED <<runColumns, artifactRows, candidateObject, releases,
                   pc, task, subject, held, reads, abandoned>>
DamageCandidate(r) ==
    /\ candidateObject[r] \in Evidence
    /\ candidateObject' = [candidateObject EXCEPT ![r] = Damaged]
    /\ UNCHANGED <<runColumns, artifactRows, rawObject, releases,
                   pc, task, subject, held, reads, abandoned>>

-----------------------------------------------------------------------------

Start(o) ==
    \/ \E r \in RunId, bundle \in Evidence : CaptureRun(o, r, bundle)
    \/ \E r, source \in RunId : ReplayRun(o, r, source)
    \/ \E r \in RunId : PublishRun(o, r)
    \/ \E p \in publications : ReadRollbackTarget(o, p)

Advance(o) ==
    \/ UploadRaw(o) \/ CopyRaw(o) \/ InsertRawArtifact(o)
    \/ Normalise(o) \/ InsertCandidateArtifact(o) \/ MarkCompleted(o)
    \/ VerifyCapture(o) \/ Recover(o) \/ RecoverFails(o)
    \/ PublishReplay(o) \/ BeginPublish(o) \/ ReadPrevious(o)
    \/ CommitPublish(o) \/ CommitUnacknowledged(o) \/ Purge(o)
    \/ InsertRollback(o) \/ AwaitFails(o)

Damage == \E r \in RunId : DamageRaw(r) \/ DamageCandidate(r)

Next ==
    \/ \E o \in Operator : Start(o) \/ Advance(o) \/ Crash(o)
    \/ Damage

Spec == Init /\ [][Next]_vars

\* Every awaited call of a live process settles: HTTP calls time out, and the
\* database and bucket clients resolve or reject.  Nothing forces a start, a
\* crash or damage.
FairSpec == Spec /\ \A o \in Operator : WF_vars(Advance(o))

-----------------------------------------------------------------------------
(* Properties *)

\* What is released was normalised from intact, gated evidence: the payload is
\* what both artifact rows of its run vouch for, it is never partial, and a
\* replay released the very bundle of the run it replays, whatever was damaged,
\* interleaved or retried (inspectRun, assertPublishableRun, replayRun).
ReleasesAreBackedByEvidence ==
    \A s \in snapshots :
        /\ s.payload \in {rawArtifact[s.run], candidateArtifact[s.run]}
        /\ rawArtifact[s.run] = candidateArtifact[s.run]
        /\ QualityOf[s.payload] # "partial"
        /\ s.replayOf = replayOf[s.run]
        /\ s.replayOf # NoRun => rawArtifact[s.replayOf] = s.payload

\* A run that is still "completed" has never been released: the publish-pending
\* sweep takes every completed run for an unpublished one
\* (findUnpublishedCompleteRuns), across every interleaving of publishes.
CompletedMeansUnreleased ==
    \A s \in snapshots : status[s.run] # "completed"

\* The rows of a release come together: a published or replayed run has its
\* snapshot, the snapshot its publish event, and a rollback event restores a
\* snapshot some earlier publish released.  A "replayed" run is a replay.
HistoryIsConsistent ==
    /\ \A r \in RunId : status[r] \in {"published", "replayed"} =>
           /\ \E s \in snapshots : s.run = r
           /\ status[r] = "replayed" <=> replayOf[r] # NoRun
    /\ \A s \in snapshots : \E p \in publications :
           p.action = "publish" /\ p.snapshot = s.id
    /\ \A p \in publications : \E q \in publications :
           /\ q.action = "publish" /\ q.snapshot = p.snapshot
           /\ q.createdAt <= p.createdAt
           /\ \E s \in snapshots : s.id = q.snapshot

\* A run row stays pending only while its builder still works on it, or after
\* the builder died or failed to record the failure (captureRun, replayRun).
PendingRunsAreAttended ==
    \A r \in RunId : status[r] = "pending" =>
        \/ r \in abandoned
        \/ \E o \in Operator : BuildsRun(o) /\ subject[o] = r

\* A rollback is visible the moment its event is written, and a publish that
\* was in flight by then changes nothing that readers see when it commits later
\* (docs/STORAGE_AND_OPERATIONS.md, Rollback 3).
InFlightSince(o, p) == pc[o] = "commit" /\ startedAt[o] < p.createdAt
RollbackStays ==
    [][\A o \in Operator :
          /\ pc[o] = "rollback" /\ pc'[o] = "purge" => ActiveSnapshot' = target[o]
          /\ (\E p \in publications : p.action = "rollback" /\ InFlightSince(o, p)) /\ pc'[o] # "commit"
                => ActiveSnapshot' = ActiveSnapshot]_vars

\* Under the fairness above no run stays pending for ever unless its builder
\* died: capture and replay settle whatever fails.
PendingRunsSettle ==
    \A r \in RunId :
        status[r] = "pending" ~> (status[r] # "pending" \/ r \in abandoned)

\* With a single operator at a time: a run is released at most once and only
\* while it is completed, and every event's previous_publication_id is the
\* event just before it.
ReleasedOnceInOrder ==
    /\ \A s, t \in snapshots : s.run = t.run => s = t
    /\ \A p \in publications :
           LET earlier == {q \in publications : q.createdAt < p.createdAt}
           IN  IF earlier = {} THEN p.previous = 0
               ELSE /\ \E q \in earlier : q.createdAt = p.previous
                    /\ \A q \in earlier : q.createdAt <= p.previous

\* docs/STORAGE_AND_OPERATIONS.md says of Publish "Require a `completed` run":
\* a release lands only on a run that is completed.
PublishRequiresCompletedRun ==
    [][\A s \in snapshots' \ snapshots : status[s.run] = "completed"]_vars

\* The pipeline implements the log of releases its readers see.
Log == INSTANCE PublicationLog WITH
    Gated <- {e \in Evidence : QualityOf[e] # "partial"},
    Nothing <- 0,
    released <- {[id |-> s.id, payload |-> s.payload] : s \in snapshots},
    active <- ActiveSnapshot
ImplementsPublicationLog == Log!Spec

=============================================================================
