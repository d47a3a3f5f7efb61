---------------------- MODULE PublicationPipelineProofs ----------------------
(***************************************************************************)
(* Proofs about PublicationPipeline, for every set of operators, every set *)
(* of bundles and every bound.  IInv is the inductive invariant: it ties   *)
(* what an operator holds between two awaits to the rows it will write.    *)
(***************************************************************************)
EXTENDS PublicationPipeline, TLAPS

\* Which step belongs to which task, and that a builder knows its run.
ControlInv ==
    \A o \in Operator :
        /\ pc[o] = "idle" <=> task[o] = "none"
        /\ pc[o] \in {"upload", "rawRow", "normalise", "candidateRow", "complete", "recover"}
               => task[o] \in {"capture", "replay"}
        /\ pc[o] = "verify" => task[o] = "capture"
        /\ pc[o] = "inspect" => task[o] = "replay"
        /\ pc[o] \in {"begin", "previous", "commit"} => task[o] \in {"publish", "replay"}
        /\ pc[o] = "rollback" => task[o] = "rollback"
        /\ task[o] \in {"capture", "publish", "replay"} => subject[o] \in RunId

\* A run under construction has one builder, and is pending until it completes.
OwnershipInv ==
    /\ \A o \in Operator : BuildsRun(o) => status[subject[o]] # "absent"
    /\ \A o1, o2 \in Operator :
           BuildsRun(o1) /\ BuildsRun(o2) /\ subject[o1] = subject[o2] => o1 = o2
    /\ \A o \in Operator :
           pc[o] \in {"upload", "rawRow", "normalise", "candidateRow", "complete"}
               => status[subject[o]] = "pending"

\* Artifact rows are written once, in order, and with what was downloaded.
ArtifactInv ==
    /\ \A r \in RunId :
           /\ status[r] = "absent" => rawArtifact[r] = NoContent
           /\ candidateArtifact[r] # NoContent => candidateArtifact[r] = rawArtifact[r]
           /\ status[r] = "completed" =>
                  /\ candidateArtifact[r] # NoContent
                  /\ quality[r] = QualityOf[candidateArtifact[r]]
           /\ replayOf[r] # NoRun =>
                  /\ rawArtifact[replayOf[r]] # NoContent
                  /\ rawArtifact[r] # NoContent => rawArtifact[r] = rawArtifact[replayOf[r]]
    /\ \A o \in Operator :
           /\ pc[o] \in {"upload", "rawRow"} => rawArtifact[subject[o]] = NoContent
           /\ pc[o] = "upload" /\ task[o] = "capture" => held[o] # NoContent
           /\ pc[o] = "upload" /\ task[o] = "replay" => replayOf[subject[o]] # NoRun
           /\ task[o] = "capture" => replayOf[subject[o]] = NoRun
           /\ pc[o] = "rawRow" =>
                  /\ held[o] # NoContent
                  /\ task[o] = "replay" => /\ replayOf[subject[o]] # NoRun
                                           /\ held[o] = rawArtifact[replayOf[subject[o]]]
           /\ pc[o] \in {"candidateRow", "complete"} =>
                  held[o] # NoContent /\ held[o] = rawArtifact[subject[o]]
           /\ pc[o] = "complete" => candidateArtifact[subject[o]] = held[o]

\* Past the gate: what an operator is about to release, and under which id.
GateInv ==
    \A o \in Operator :
        /\ pc[o] \in {"begin", "previous", "commit"} =>
               /\ held[o] # NoContent
               /\ held[o] = candidateArtifact[subject[o]]
               /\ QualityOf[held[o]] # "partial"
               /\ status[subject[o]] \notin {"absent", "pending"}
        /\ pc[o] \in {"previous", "commit"} =>
               /\ startedAt[o] \in 1..clock
               /\ \A p \in publications : p.createdAt # startedAt[o]
               /\ \A other \in Operator :
                      /\ pc[other] \in {"previous", "commit"}
                      /\ startedAt[other] = startedAt[o]
                      => other = o
        /\ pc[o] = "rollback" => \E s \in snapshots : s.id = target[o]

\* Releases: what each snapshot is backed by, and how events name snapshots.
ReleaseInv ==
    /\ \A s \in snapshots :
           /\ status[s.run] \notin {"absent", "pending", "completed"}
           /\ s.payload = candidateArtifact[s.run]
           /\ QualityOf[s.payload] # "partial"
           /\ s.replayOf = replayOf[s.run]
           /\ \E p \in publications : p.action = "publish" /\ p.createdAt = s.id /\ p.snapshot = s.id
    /\ \A p \in publications :
           /\ p.createdAt \in 1..clock
           /\ \A q \in publications : q.createdAt = p.createdAt => q = p
           /\ p.action = "publish" => p.snapshot = p.createdAt
           /\ \E s \in snapshots : s.id = p.snapshot /\ s.id <= p.createdAt
    /\ \A r \in RunId : status[r] \in {"published", "replayed"} =>
           /\ \E s \in snapshots : s.run = r
           /\ status[r] = "replayed" <=> replayOf[r] # NoRun
    /\ \A s, t \in snapshots : s.id = t.id => s = t

\* Once something is released there is a latest event.
LatestInv ==
    publications # {} =>
        \E p \in publications : \A q \in publications : q.createdAt <= p.createdAt

IInv ==
    /\ TypeOK
    /\ ControlInv
    /\ OwnershipInv
    /\ ArtifactInv
    /\ GateInv
    /\ ReleaseInv
    /\ LatestInv

-----------------------------------------------------------------------------
(* The latest publication event *)

\* With a latest event, the reads of it are well defined: this is what lets
\* created_at, and not the order of commits, decide what is public.
LEMMA LatestFacts ==
    ASSUME TypeOK, LatestInv
    PROVE  /\ publications # {} =>
                  /\ LatestPublication \in publications
                  /\ \A q \in publications : q.createdAt <= LatestPublication.createdAt
           /\ LatestId \in Nat
<1>1. ASSUME publications # {}
      PROVE  /\ LatestPublication \in publications
             /\ \A q \in publications : q.createdAt <= LatestPublication.createdAt
  BY <1>1 DEF LatestInv, LatestPublication
<1>2. LatestId \in Nat
  BY <1>1 DEF LatestId, TypeOK, Publication
<1>3. QED
  BY <1>1, <1>2

\* What an exception does to the operator's own state.
LEMMA ThrowCases ==
    ASSUME NEW o \in Operator, Throw(o)
    PROVE  \/ Caught(o) /\ Goto(o, "recover") /\ UNCHANGED <<task, subject, held, reads>>
           \/ Finish(o)
BY DEF Throw

-----------------------------------------------------------------------------
(* Each part of IInv is preserved by every step *)

\* Every step keeps rows, objects and control state within their types; the
\* bundles that travel through an operator's memory come from typed rows.
LEMMA TypeStep ==
    ASSUME IInv, [Next]_vars
    PROVE  TypeOK'
<1> USE EvidenceAssumption, BoundsAssumption
    DEF IInv, TypeOK, RunId, NoRun, RunStatus, QualityState, Snapshot, Publication,
        Task, Step, runColumns, artifactRows, bucket, releases, reads,
        Goto, Finish, BuildsRun, Caught
<1>1. ASSUME NEW o \in Operator, NEW r \in RunId, NEW bundle \in Evidence,
             CaptureRun(o, r, bundle)
      PROVE  TypeOK'
  BY <1>1 DEF CaptureRun, InsertRun, Fresh
<1>2. ASSUME NEW o \in Operator, NEW r \in RunId, NEW source \in RunId,
             ReplayRun(o, r, source)
      PROVE  TypeOK'
  BY <1>2 DEF ReplayRun, InsertRun, Fresh
<1>3. ASSUME NEW o \in Operator, NEW r \in RunId,
             PublishRun(o, r)
      PROVE  TypeOK'
  BY <1>3 DEF PublishRun, Inspect, Publishable, Downloads
<1>4. ASSUME NEW o \in Operator, NEW p \in publications,
             ReadRollbackTarget(o, p)
      PROVE  TypeOK'
  BY <1>4, LatestFacts DEF ReadRollbackTarget
<1>5. ASSUME NEW o \in Operator,
             UploadRaw(o)
      PROVE  TypeOK'
  BY <1>5 DEF UploadRaw
<1>6. ASSUME NEW o \in Operator,
             CopyRaw(o)
      PROVE  TypeOK'
  BY SMTT(40), <1>6 DEF CopyRaw, ControlInv, ArtifactInv
<1>7. ASSUME NEW o \in Operator,
             InsertRawArtifact(o)
      PROVE  TypeOK'
  BY <1>7 DEF InsertRawArtifact
<1>8. ASSUME NEW o \in Operator,
             Normalise(o)
      PROVE  TypeOK'
  BY <1>8 DEF Normalise, Downloads, ControlInv
<1>9. ASSUME NEW o \in Operator,
             InsertCandidateArtifact(o)
      PROVE  TypeOK'
  BY <1>9 DEF InsertCandidateArtifact
<1>10. ASSUME NEW o \in Operator,
             MarkCompleted(o)
      PROVE  TypeOK'
  BY <1>10 DEF MarkCompleted, ControlInv, ArtifactInv
<1>11. ASSUME NEW o \in Operator,
             VerifyCapture(o)
      PROVE  TypeOK'
  BY <1>11 DEF VerifyCapture
<1>12. ASSUME NEW o \in Operator,
             Recover(o)
      PROVE  TypeOK'
  BY <1>12 DEF Recover, FailedStatus
<1>13. ASSUME NEW o \in Operator,
             RecoverFails(o)
      PROVE  TypeOK'
  BY <1>13 DEF RecoverFails, Abandon, ControlInv
<1>14. ASSUME NEW o \in Operator,
             PublishReplay(o)
      PROVE  TypeOK'
  BY <1>14 DEF PublishReplay, Inspect, Publishable, Downloads, ControlInv
<1>15. ASSUME NEW o \in Operator,
             BeginPublish(o)
      PROVE  TypeOK'
  BY <1>15 DEF BeginPublish
<1>16. ASSUME NEW o \in Operator,
             ReadPrevious(o)
      PROVE  TypeOK'
  BY <1>16, LatestFacts DEF ReadPrevious
<1>17. ASSUME NEW o \in Operator,
             CommitPublish(o)
      PROVE  TypeOK'
  BY SMTT(40), <1>17 DEF CommitPublish, ApplyPublish, ReleasedStatus, ControlInv, GateInv
<1>18. ASSUME NEW o \in Operator,
             CommitUnacknowledged(o)
      PROVE  TypeOK'
  <2>1. CASE Caught(o) /\ Goto(o, "recover") /\ UNCHANGED <<task, subject, held, reads>>
    BY SMTT(40), <1>18, <2>1 DEF CommitUnacknowledged, ApplyPublish, ReleasedStatus, ControlInv, GateInv
  <2>2. CASE Finish(o)
    BY SMTT(40), <1>18, <2>2 DEF CommitUnacknowledged, ApplyPublish, ReleasedStatus, ControlInv, GateInv
  <2>3. QED
    BY <1>18, <2>1, <2>2, ThrowCases DEF CommitUnacknowledged
<1>19. ASSUME NEW o \in Operator,
             Purge(o)
      PROVE  TypeOK'
  BY <1>19 DEF Purge
<1>20. ASSUME NEW o \in Operator,
             InsertRollback(o)
      PROVE  TypeOK'
  BY <1>20 DEF InsertRollback, RollbackRow
<1>21. ASSUME NEW o \in Operator,
             AwaitFails(o)
      PROVE  TypeOK'
  <2>1. CASE Caught(o) /\ Goto(o, "recover") /\ UNCHANGED <<task, subject, held, reads>>
    BY <1>21, <2>1 DEF AwaitFails
  <2>2. CASE Finish(o)
    BY <1>21, <2>2 DEF AwaitFails
  <2>3. QED
    BY <1>21, <2>1, <2>2, ThrowCases DEF AwaitFails
<1>22. ASSUME NEW o \in Operator,
             Crash(o)
      PROVE  TypeOK'
  BY <1>22 DEF Crash, Abandon, ControlInv
<1>23. ASSUME NEW r \in RunId,
             DamageRaw(r)
      PROVE  TypeOK'
  BY <1>23 DEF DamageRaw
<1>24. ASSUME NEW r \in RunId,
             DamageCandidate(r)
      PROVE  TypeOK'
  BY <1>24 DEF DamageCandidate
<1>25. CASE UNCHANGED vars
  BY <1>25 DEF vars
<1>26. QED
  BY <1>1, <1>2, <1>3, <1>4, <1>5, <1>6, <1>7, <1>8, <1>9, <1>10, <1>11,
     <1>12, <1>13, <1>14, <1>15, <1>16, <1>17, <1>18, <1>19, <1>20, <1>21,
     <1>22, <1>23, <1>24, <1>25
     DEF Next, Start, Advance, Damage

\* Every step leaves its operator at a step of its task, with a run in hand
\* whenever the task needs one.
LEMMA ControlStep ==
    ASSUME IInv, [Next]_vars
    PROVE  ControlInv'
<1> USE DEF IInv, TypeOK, ControlInv, RunId, NoRun, RunStatus, Task, Step,
        runColumns, artifactRows, bucket, releases, reads,
        Goto, Finish, BuildsRun, Caught
<1>1. ASSUME NEW o \in Operator, NEW r \in RunId, NEW bundle \in Evidence,
             CaptureRun(o, r, bundle)
      PROVE  ControlInv'
  BY <1>1 DEF CaptureRun, InsertRun, Fresh
<1>2. ASSUME NEW o \in Operator, NEW r \in RunId, NEW source \in RunId,
             ReplayRun(o, r, source)
      PROVE  ControlInv'
  BY <1>2 DEF ReplayRun, InsertRun, Fresh
<1>3. ASSUME NEW o \in Operator, NEW r \in RunId,
             PublishRun(o, r)
      PROVE  ControlInv'
  BY <1>3 DEF PublishRun, Inspect, Publishable, Downloads
<1>4. ASSUME NEW o \in Operator, NEW p \in publications,
             ReadRollbackTarget(o, p)
      PROVE  ControlInv'
  BY <1>4 DEF ReadRollbackTarget
<1>5. ASSUME NEW o \in Operator,
             UploadRaw(o)
      PROVE  ControlInv'
  BY <1>5 DEF UploadRaw
<1>6. ASSUME NEW o \in Operator,
             CopyRaw(o)
      PROVE  ControlInv'
  BY <1>6 DEF CopyRaw
<1>7. ASSUME NEW o \in Operator,
             InsertRawArtifact(o)
      PROVE  ControlInv'
  BY <1>7 DEF InsertRawArtifact
<1>8. ASSUME NEW o \in Operator,
             Normalise(o)
      PROVE  ControlInv'
  BY <1>8 DEF Normalise, Downloads
<1>9. ASSUME NEW o \in Operator,
             InsertCandidateArtifact(o)
      PROVE  ControlInv'
  BY <1>9 DEF InsertCandidateArtifact
<1>10. ASSUME NEW o \in Operator,
             MarkCompleted(o)
      PROVE  ControlInv'
  BY <1>10 DEF MarkCompleted
<1>11. ASSUME NEW o \in Operator,
             VerifyCapture(o)
      PROVE  ControlInv'
  BY <1>11 DEF VerifyCapture
<1>12. ASSUME NEW o \in Operator,
             Recover(o)
      PROVE  ControlInv'
  BY <1>12 DEF Recover, FailedStatus
<1>13. ASSUME NEW o \in Operator,
             RecoverFails(o)
      PROVE  ControlInv'
  BY <1>13 DEF RecoverFails, Abandon
<1>14. ASSUME NEW o \in Operator,
             PublishReplay(o)
      PROVE  ControlInv'
  BY <1>14 DEF PublishReplay, Inspect, Publishable, Downloads
<1>15. ASSUME NEW o \in Operator,
             BeginPublish(o)
      PROVE  ControlInv'
  BY <1>15 DEF BeginPublish
<1>16. ASSUME NEW o \in Operator,
             ReadPrevious(o)
      PROVE  ControlInv'
  BY <1>16 DEF ReadPrevious
<1>17. ASSUME NEW o \in Operator,
             CommitPublish(o)
      PROVE  ControlInv'
  BY <1>17 DEF CommitPublish, ApplyPublish, ReleasedStatus
<1>18. ASSUME NEW o \in Operator,
             CommitUnacknowledged(o)
      PROVE  ControlInv'
  <2>1. CASE Caught(o) /\ Goto(o, "recover") /\ UNCHANGED <<task, subject, held, reads>>
    BY <1>18, <2>1 DEF CommitUnacknowledged, ApplyPublish, ReleasedStatus
  <2>2. CASE Finish(o)
    BY <1>18, <2>2 DEF CommitUnacknowledged, ApplyPublish, ReleasedStatus
  <2>3. QED
    BY <1>18, <2>1, <2>2, ThrowCases DEF CommitUnacknowledged
<1>19. ASSUME NEW o \in Operator,
             Purge(o)
      PROVE  ControlInv'
  BY <1>19 DEF Purge
<1>20. ASSUME NEW o \in Operator,
             InsertRollback(o)
      PROVE  ControlInv'
  BY <1>20 DEF InsertRollback, RollbackRow
<1>21. ASSUME NEW o \in Operator,
             AwaitFails(o)
      PROVE  ControlInv'
  <2>1. CASE Caught(o) /\ Goto(o, "recover") /\ UNCHANGED <<task, subject, held, reads>>
    BY <1>21, <2>1 DEF AwaitFails
  <2>2. CASE Finish(o)
    BY <1>21, <2>2 DEF AwaitFails
  <2>3. QED
    BY <1>21, <2>1, <2>2, ThrowCases DEF AwaitFails
<1>22. ASSUME NEW o \in Operator,
             Crash(o)
      PROVE  ControlInv'
  BY <1>22 DEF Crash, Abandon
<1>23. ASSUME NEW r \in RunId,
             DamageRaw(r)
      PROVE  ControlInv'
  BY <1>23 DEF DamageRaw
<1>24. ASSUME NEW r \in RunId,
             DamageCandidate(r)
      PROVE  ControlInv'
  BY <1>24 DEF DamageCandidate
<1>25. CASE UNCHANGED vars
  BY <1>25 DEF vars
<1>26. QED
  BY <1>1, <1>2, <1>3, <1>4, <1>5, <1>6, <1>7, <1>8, <1>9, <1>10, <1>11,
     <1>12, <1>13, <1>14, <1>15, <1>16, <1>17, <1>18, <1>19, <1>20, <1>21,
     <1>22, <1>23, <1>24, <1>25
     DEF Next, Start, Advance, Damage

\* Only CaptureRun and ReplayRun take a run, and only a fresh one; nobody but
\* its builder moves it on from pending.
LEMMA OwnershipStep ==
    ASSUME IInv, [Next]_vars
    PROVE  OwnershipInv'
<1> USE DEF IInv, TypeOK, ControlInv, OwnershipInv, RunId, NoRun, RunStatus, Task, Step,
        runColumns, artifactRows, bucket, releases, reads,
        Goto, Finish, BuildsRun, Caught
<1>1. ASSUME NEW o \in Operator, NEW r \in RunId, NEW bundle \in Evidence,
             CaptureRun(o, r, bundle)
      PROVE  OwnershipInv'
  BY <1>1 DEF CaptureRun, InsertRun, Fresh
<1>2. ASSUME NEW o \in Operator, NEW r \in RunId, NEW source \in RunId,
             ReplayRun(o, r, source)
      PROVE  OwnershipInv'
  BY <1>2 DEF ReplayRun, InsertRun, Fresh
<1>3. ASSUME NEW o \in Operator, NEW r \in RunId,
             PublishRun(o, r)
      PROVE  OwnershipInv'
  BY <1>3 DEF PublishRun, Inspect, Publishable, Downloads
<1>4. ASSUME NEW o \in Operator, NEW p \in publications,
             ReadRollbackTarget(o, p)
      PROVE  OwnershipInv'
  BY <1>4 DEF ReadRollbackTarget
<1>5. ASSUME NEW o \in Operator,
             UploadRaw(o)
      PROVE  OwnershipInv'
  BY <1>5 DEF UploadRaw
<1>6. ASSUME NEW o \in Operator,
             CopyRaw(o)
      PROVE  OwnershipInv'
  BY <1>6 DEF CopyRaw
<1>7. ASSUME NEW o \in Operator,
             InsertRawArtifact(o)
      PROVE  OwnershipInv'
  BY <1>7 DEF InsertRawArtifact
<1>8. ASSUME NEW o \in Operator,
             Normalise(o)
      PROVE  OwnershipInv'
  BY <1>8 DEF Normalise, Downloads
<1>9. ASSUME NEW o \in Operator,
             InsertCandidateArtifact(o)
      PROVE  OwnershipInv'
  BY <1>9 DEF InsertCandidateArtifact
<1>10. ASSUME NEW o \in Operator,
             MarkCompleted(o)
      PROVE  OwnershipInv'
  BY <1>10 DEF MarkCompleted
<1>11. ASSUME NEW o \in Operator,
             VerifyCapture(o)
      PROVE  OwnershipInv'
  BY <1>11 DEF VerifyCapture
<1>12. ASSUME NEW o \in Operator,
             Recover(o)
      PROVE  OwnershipInv'
  BY <1>12 DEF Recover, FailedStatus
<1>13. ASSUME NEW o \in Operator,
             RecoverFails(o)
      PROVE  OwnershipInv'
  BY <1>13 DEF RecoverFails, Abandon
<1>14. ASSUME NEW o \in Operator,
             PublishReplay(o)
      PROVE  OwnershipInv'
  BY <1>14 DEF PublishReplay, Inspect, Publishable, Downloads
<1>15. ASSUME NEW o \in Operator,
             BeginPublish(o)
      PROVE  OwnershipInv'
  BY <1>15 DEF BeginPublish
<1>16. ASSUME NEW o \in Operator,
             ReadPrevious(o)
      PROVE  OwnershipInv'
  BY <1>16 DEF ReadPrevious
<1>17. ASSUME NEW o \in Operator,
             CommitPublish(o)
      PROVE  OwnershipInv'
  BY <1>17 DEF CommitPublish, ApplyPublish, ReleasedStatus, GateInv
<1>18. ASSUME NEW o \in Operator,
             CommitUnacknowledged(o)
      PROVE  OwnershipInv'
  <2>1. CASE Caught(o) /\ Goto(o, "recover") /\ UNCHANGED <<task, subject, held, reads>>
    BY <1>18, <2>1 DEF CommitUnacknowledged, ApplyPublish, ReleasedStatus, GateInv
  <2>2. CASE Finish(o)
    BY <1>18, <2>2 DEF CommitUnacknowledged, ApplyPublish, ReleasedStatus, GateInv
  <2>3. QED
    BY <1>18, <2>1, <2>2, ThrowCases DEF CommitUnacknowledged
<1>19. ASSUME NEW o \in Operator,
             Purge(o)
      PROVE  OwnershipInv'
  BY <1>19 DEF Purge
<1>20. ASSUME NEW o \in Operator,
             InsertRollback(o)
      PROVE  OwnershipInv'
  BY <1>20 DEF InsertRollback, RollbackRow
<1>21. ASSUME NEW o \in Operator,
             AwaitFails(o)
      PROVE  OwnershipInv'
  <2>1. CASE Caught(o) /\ Goto(o, "recover") /\ UNCHANGED <<task, subject, held, reads>>
    BY <1>21, <2>1 DEF AwaitFails
  <2>2. CASE Finish(o)
    BY <1>21, <2>2 DEF AwaitFails
  <2>3. QED
    BY <1>21, <2>1, <2>2, ThrowCases DEF AwaitFails
<1>22. ASSUME NEW o \in Operator,
             Crash(o)
      PROVE  OwnershipInv'
  BY <1>22 DEF Crash, Abandon
<1>23. ASSUME NEW r \in RunId,
             DamageRaw(r)
      PROVE  OwnershipInv'
  BY <1>23 DEF DamageRaw
<1>24. ASSUME NEW r \in RunId,
             DamageCandidate(r)
      PROVE  OwnershipInv'
  BY <1>24 DEF DamageCandidate
<1>25. CASE UNCHANGED vars
  BY <1>25 DEF vars
<1>26. QED
  BY <1>1, <1>2, <1>3, <1>4, <1>5, <1>6, <1>7, <1>8, <1>9, <1>10, <1>11,
     <1>12, <1>13, <1>14, <1>15, <1>16, <1>17, <1>18, <1>19, <1>20, <1>21,
     <1>22, <1>23, <1>24, <1>25
     DEF Next, Start, Advance, Damage

\* Artifact rows are written only by the run's one builder, from what it has
\* downloaded and verified: damaged objects never reach a row.
LEMMA ArtifactStep ==
    ASSUME IInv, [Next]_vars
    PROVE  ArtifactInv'
<1> USE EvidenceAssumption
    DEF IInv, TypeOK, ControlInv, OwnershipInv, ArtifactInv, RunId, NoRun, RunStatus,
        Task, Step, runColumns, artifactRows, bucket, releases, reads,
        Goto, Finish, BuildsRun, Caught
<1>1. ASSUME NEW o \in Operator, NEW r \in RunId, NEW bundle \in Evidence,
             CaptureRun(o, r, bundle)
      PROVE  ArtifactInv'
  BY <1>1 DEF CaptureRun, InsertRun, Fresh
<1>2. ASSUME NEW o \in Operator, NEW r \in RunId, NEW source \in RunId,
             ReplayRun(o, r, source)
      PROVE  ArtifactInv'
  BY <1>2 DEF ReplayRun, InsertRun, Fresh
<1>3. ASSUME NEW o \in Operator, NEW r \in RunId,
             PublishRun(o, r)
      PROVE  ArtifactInv'
  BY <1>3 DEF PublishRun, Inspect, Publishable, Downloads
<1>4. ASSUME NEW o \in Operator, NEW p \in publications,
             ReadRollbackTarget(o, p)
      PROVE  ArtifactInv'
  BY <1>4 DEF ReadRollbackTarget
<1>5. ASSUME NEW o \in Operator,
             UploadRaw(o)
      PROVE  ArtifactInv'
  BY <1>5 DEF UploadRaw
<1>6. ASSUME NEW o \in Operator,
             CopyRaw(o)
      PROVE  ArtifactInv'
  BY <1>6 DEF CopyRaw
<1>7. ASSUME NEW o \in Operator,
             InsertRawArtifact(o)
      PROVE  ArtifactInv'
  BY <1>7 DEF InsertRawArtifact
<1>8. ASSUME NEW o \in Operator,
             Normalise(o)
      PROVE  ArtifactInv'
  BY <1>8 DEF Normalise, Downloads
<1>9. ASSUME NEW o \in Operator,
             InsertCandidateArtifact(o)
      PROVE  ArtifactInv'
  BY <1>9 DEF InsertCandidateArtifact
<1>10. ASSUME NEW o \in Operator,
             MarkCompleted(o)
      PROVE  ArtifactInv'
  BY <1>10 DEF MarkCompleted
<1>11. ASSUME NEW o \in Operator,
             VerifyCapture(o)
      PROVE  ArtifactInv'
  BY <1>11 DEF VerifyCapture
<1>12. ASSUME NEW o \in Operator,
             Recover(o)
      PROVE  ArtifactInv'
  BY <1>12 DEF Recover, FailedStatus
<1>13. ASSUME NEW o \in Operator,
             RecoverFails(o)
      PROVE  ArtifactInv'
  BY <1>13 DEF RecoverFails, Abandon
<1>14. ASSUME NEW o \in Operator,
             PublishReplay(o)
      PROVE  ArtifactInv'
  BY <1>14 DEF PublishReplay, Inspect, Publishable, Downloads
<1>15. ASSUME NEW o \in Operator,
             BeginPublish(o)
      PROVE  ArtifactInv'
  BY <1>15 DEF BeginPublish
<1>16. ASSUME NEW o \in Operator,
             ReadPrevious(o)
      PROVE  ArtifactInv'
  BY <1>16 DEF ReadPrevious
<1>17. ASSUME NEW o \in Operator,
             CommitPublish(o)
      PROVE  ArtifactInv'
  BY <1>17 DEF CommitPublish, ApplyPublish, ReleasedStatus, GateInv
<1>18. ASSUME NEW o \in Operator,
             CommitUnacknowledged(o)
      PROVE  ArtifactInv'
  <2>1. CASE Caught(o) /\ Goto(o, "recover") /\ UNCHANGED <<task, subject, held, reads>>
    BY <1>18, <2>1 DEF CommitUnacknowledged, ApplyPublish, ReleasedStatus
  <2>2. CASE Finish(o)
    BY <1>18, <2>2 DEF CommitUnacknowledged, ApplyPublish, ReleasedStatus
  <2>3. QED
    BY <1>18, <2>1, <2>2, ThrowCases DEF CommitUnacknowledged
<1>19. ASSUME NEW o \in Operator,
             Purge(o)
      PROVE  ArtifactInv'
  BY <1>19 DEF Purge
<1>20. ASSUME NEW o \in Operator,
             InsertRollback(o)
      PROVE  ArtifactInv'
  BY <1>20 DEF InsertRollback, RollbackRow
<1>21. ASSUME NEW o \in Operator,
             AwaitFails(o)
      PROVE  ArtifactInv'
  <2>1. CASE Caught(o) /\ Goto(o, "recover") /\ UNCHANGED <<task, subject, held, reads>>
    BY <1>21, <2>1 DEF AwaitFails
  <2>2. CASE Finish(o)
    BY <1>21, <2>2 DEF AwaitFails
  <2>3. QED
    BY <1>21, <2>1, <2>2, ThrowCases DEF AwaitFails
<1>22. ASSUME NEW o \in Operator,
             Crash(o)
      PROVE  ArtifactInv'
  BY <1>22 DEF Crash, Abandon
<1>23. ASSUME NEW r \in RunId,
             DamageRaw(r)
      PROVE  ArtifactInv'
  BY <1>23 DEF DamageRaw
<1>24. ASSUME NEW r \in RunId,
             DamageCandidate(r)
      PROVE  ArtifactInv'
  BY <1>24 DEF DamageCandidate
<1>25. CASE UNCHANGED vars
  BY <1>25 DEF vars
<1>26. QED
  BY <1>1, <1>2, <1>3, <1>4, <1>5, <1>6, <1>7, <1>8, <1>9, <1>10, <1>11,
     <1>12, <1>13, <1>14, <1>15, <1>16, <1>17, <1>18, <1>19, <1>20, <1>21,
     <1>22, <1>23, <1>24, <1>25
     DEF Next, Start, Advance, Damage

\* What passed the gate stays true until the commit: the candidate row is not
\* rewritten, the run does not return to pending, and timestamps are not reused.
LEMMA GateStep ==
    ASSUME IInv, [Next]_vars
    PROVE  GateInv'
<1> USE EvidenceAssumption
    DEF IInv, TypeOK, ControlInv, OwnershipInv, ArtifactInv, GateInv, RunId, NoRun, RunStatus,
        Task, Step, Publication, Snapshot, runColumns, artifactRows, bucket, releases, reads,
        Goto, Finish, BuildsRun, Caught
<1>1. ASSUME NEW o \in Operator, NEW r \in RunId, NEW bundle \in Evidence,
             CaptureRun(o, r, bundle)
      PROVE  GateInv'
  BY <1>1 DEF CaptureRun, InsertRun, Fresh
<1>2. ASSUME NEW o \in Operator, NEW r \in RunId, NEW source \in RunId,
             ReplayRun(o, r, source)
      PROVE  GateInv'
  BY <1>2 DEF ReplayRun, InsertRun, Fresh
<1>3. ASSUME NEW o \in Operator, NEW r \in RunId,
             PublishRun(o, r)
      PROVE  GateInv'
  BY <1>3 DEF PublishRun, Inspect, Publishable, Downloads
<1>4. ASSUME NEW o \in Operator, NEW p \in publications,
             ReadRollbackTarget(o, p)
      PROVE  GateInv'
  BY <1>4 DEF ReadRollbackTarget, ReleaseInv
<1>5. ASSUME NEW o \in Operator,
             UploadRaw(o)
      PROVE  GateInv'
  BY <1>5 DEF UploadRaw
<1>6. ASSUME NEW o \in Operator,
             CopyRaw(o)
      PROVE  GateInv'
  BY <1>6 DEF CopyRaw
<1>7. ASSUME NEW o \in Operator,
             InsertRawArtifact(o)
      PROVE  GateInv'
  BY <1>7 DEF InsertRawArtifact
<1>8. ASSUME NEW o \in Operator,
             Normalise(o)
      PROVE  GateInv'
  BY <1>8 DEF Normalise, Downloads
<1>9. ASSUME NEW o \in Operator,
             InsertCandidateArtifact(o)
      PROVE  GateInv'
  BY <1>9 DEF InsertCandidateArtifact
<1>10. ASSUME NEW o \in Operator,
             MarkCompleted(o)
      PROVE  GateInv'
  BY <1>10 DEF MarkCompleted
<1>11. ASSUME NEW o \in Operator,
             VerifyCapture(o)
      PROVE  GateInv'
  BY <1>11 DEF VerifyCapture
<1>12. ASSUME NEW o \in Operator,
             Recover(o)
      PROVE  GateInv'
  BY <1>12 DEF Recover, FailedStatus
<1>13. ASSUME NEW o \in Operator,
             RecoverFails(o)
      PROVE  GateInv'
  BY <1>13 DEF RecoverFails, Abandon
<1>14. ASSUME NEW o \in Operator,
             PublishReplay(o)
      PROVE  GateInv'
  BY <1>14 DEF PublishReplay, Inspect, Publishable, Downloads
<1>15. ASSUME NEW o \in Operator,
             BeginPublish(o)
      PROVE  GateInv'
  BY <1>15 DEF BeginPublish, ReleaseInv
<1>16. ASSUME NEW o \in Operator,
             ReadPrevious(o)
      PROVE  GateInv'
  BY <1>16 DEF ReadPrevious
<1>17. ASSUME NEW o \in Operator,
             CommitPublish(o)
      PROVE  GateInv'
  BY <1>17 DEF CommitPublish, ApplyPublish, ReleasedStatus
<1>18. ASSUME NEW o \in Operator,
             CommitUnacknowledged(o)
      PROVE  GateInv'
  <2>1. CASE Caught(o) /\ Goto(o, "recover") /\ UNCHANGED <<task, subject, held, reads>>
    BY <1>18, <2>1 DEF CommitUnacknowledged, ApplyPublish, ReleasedStatus
  <2>2. CASE Finish(o)
    BY <1>18, <2>2 DEF CommitUnacknowledged, ApplyPublish, ReleasedStatus
  <2>3. QED
    BY <1>18, <2>1, <2>2, ThrowCases DEF CommitUnacknowledged
<1>19. ASSUME NEW o \in Operator,
             Purge(o)
      PROVE  GateInv'
  BY <1>19 DEF Purge
<1>20. ASSUME NEW o \in Operator,
             InsertRollback(o)
      PROVE  GateInv'
  BY <1>20 DEF InsertRollback, RollbackRow, ReleaseInv
<1>21. ASSUME NEW o \in Operator,
             AwaitFails(o)
      PROVE  GateInv'
  <2>1. CASE Caught(o) /\ Goto(o, "recover") /\ UNCHANGED <<task, subject, held, reads>>
    BY <1>21, <2>1 DEF AwaitFails
  <2>2. CASE Finish(o)
    BY <1>21, <2>2 DEF AwaitFails
  <2>3. QED
    BY <1>21, <2>1, <2>2, ThrowCases DEF AwaitFails
<1>22. ASSUME NEW o \in Operator,
             Crash(o)
      PROVE  GateInv'
  BY <1>22 DEF Crash, Abandon
<1>23. ASSUME NEW r \in RunId,
             DamageRaw(r)
      PROVE  GateInv'
  BY <1>23 DEF DamageRaw
<1>24. ASSUME NEW r \in RunId,
             DamageCandidate(r)
      PROVE  GateInv'
  BY <1>24 DEF DamageCandidate
<1>25. CASE UNCHANGED vars
  BY <1>25 DEF vars
<1>26. QED
  BY <1>1, <1>2, <1>3, <1>4, <1>5, <1>6, <1>7, <1>8, <1>9, <1>10, <1>11,
     <1>12, <1>13, <1>14, <1>15, <1>16, <1>17, <1>18, <1>19, <1>20, <1>21,
     <1>22, <1>23, <1>24, <1>25
     DEF Next, Start, Advance, Damage

\* Committing a publish, acknowledged or not, keeps every release backed and
\* every event's snapshot in place.
LEMMA ReleaseApplied ==
    ASSUME IInv, NEW o \in Operator, pc[o] = "commit", ApplyPublish(o)
    PROVE  ReleaseInv'
<1> DEFINE r == subject[o]
           s0 == [id |-> startedAt[o], run |-> r, replayOf |-> replayOf[r],
                  payload |-> held[o]]
           p0 == [createdAt |-> startedAt[o], action |-> "publish",
                  snapshot |-> startedAt[o], previous |-> previous[o]]
<1>1. /\ r \in RunId
      /\ status[r] \notin {"absent", "pending"}
      /\ held[o] = candidateArtifact[r]
      /\ QualityOf[held[o]] # "partial"
      /\ startedAt[o] \in 1..clock
      /\ \A p \in publications : p.createdAt # startedAt[o]
  BY DEF IInv, TypeOK, ControlInv, GateInv
<1>2. /\ snapshots' = snapshots \cup {s0}
      /\ publications' = publications \cup {p0}
      /\ status' = [status EXCEPT ![r] = ReleasedStatus(r)]
      /\ UNCHANGED <<replayOf, candidateArtifact, clock>>
  BY DEF ApplyPublish, artifactRows
<1>3. /\ status'[r] \in {"published", "replayed"}
      /\ status'[r] = "replayed" <=> replayOf[r] # NoRun
      /\ \A q \in RunId : q # r => status'[q] = status[q]
  BY <1>1, <1>2 DEF IInv, TypeOK, ReleasedStatus
<1>4. \A s \in snapshots' :
          /\ status'[s.run] \notin {"absent", "pending", "completed"}
          /\ s.payload = candidateArtifact'[s.run]
          /\ QualityOf[s.payload] # "partial"
          /\ s.replayOf = replayOf'[s.run]
          /\ \E p \in publications' :
                 p.action = "publish" /\ p.createdAt = s.id /\ p.snapshot = s.id
  <2> SUFFICES ASSUME NEW s \in snapshots'
               PROVE  /\ status'[s.run] \notin {"absent", "pending", "completed"}
                      /\ s.payload = candidateArtifact[s.run]
                      /\ QualityOf[s.payload] # "partial"
                      /\ s.replayOf = replayOf[s.run]
                      /\ \E p \in publications' : /\ p.action = "publish"
                                                  /\ p.createdAt = s.id
                                                  /\ p.snapshot = s.id
    BY <1>2
  <2>1. CASE s = s0
    <3>1. p0 \in publications' /\ p0.action = "publish"
          /\ p0.createdAt = s.id /\ p0.snapshot = s.id
      BY <1>2, <2>1
    <3>2. /\ s.run = r
          /\ s.payload = candidateArtifact[r]
          /\ QualityOf[s.payload] # "partial"
          /\ s.replayOf = replayOf[r]
      BY <1>1, <2>1
    <3>3. QED
      BY <1>3, <3>1, <3>2
  <2>2. CASE s \in snapshots
    <3>1. s.run \in RunId
      BY <2>2 DEF IInv, TypeOK, Snapshot
    <3>2. QED
      BY <1>2, <1>3, <2>2, <3>1 DEF IInv, ReleaseInv
  <2>3. QED
    BY <1>2, <2>1, <2>2
<1>5. \A p \in publications' :
          /\ p.createdAt \in 1..clock'
          /\ \A q \in publications' : q.createdAt = p.createdAt => q = p
          /\ p.action = "publish" => p.snapshot = p.createdAt
          /\ \E s \in snapshots' : s.id = p.snapshot /\ s.id <= p.createdAt
  <2>1. \A p \in publications : p.createdAt # p0.createdAt
    BY <1>1
  <2>2. ASSUME NEW p \in publications
        PROVE  \E s \in snapshots : s.id = p.snapshot /\ s.id <= p.createdAt
    BY DEF IInv, ReleaseInv
  <2> SUFFICES ASSUME NEW p \in publications'
               PROVE  /\ p.createdAt \in 1..clock
                      /\ \A q \in publications' : q.createdAt = p.createdAt => q = p
                      /\ p.action = "publish" => p.snapshot = p.createdAt
                      /\ \E s \in snapshots' : s.id = p.snapshot /\ s.id <= p.createdAt
    BY <1>2
  <2>3. CASE p = p0
    <3>1. s0 \in snapshots' /\ s0.id = p.snapshot /\ s0.id <= p.createdAt
      BY <1>1, <1>2, <2>3
    <3>2. p.createdAt \in 1..clock /\ p.snapshot = p.createdAt
      BY <1>1, <2>3
    <3>3. \A q \in publications' : q.createdAt = p.createdAt => q = p
      BY <1>2, <2>1, <2>3
    <3>4. QED
      BY <3>1, <3>2, <3>3
  <2>4. CASE p \in publications
    <3>1. \E s \in snapshots' : s.id = p.snapshot /\ s.id <= p.createdAt
      BY <1>2, <2>2, <2>4
    <3>2. /\ p.createdAt \in 1..clock
          /\ p.action = "publish" => p.snapshot = p.createdAt
          /\ \A q \in publications : q.createdAt = p.createdAt => q = p
      BY <2>4 DEF IInv, ReleaseInv
    <3>3. \A q \in publications' : q.createdAt = p.createdAt => q = p
      BY <1>2, <2>1, <2>4, <3>2
    <3>4. QED
      BY <3>1, <3>2, <3>3
  <2>5. QED
    BY <1>2, <2>3, <2>4
<1>6. \A q \in RunId : status'[q] \in {"published", "replayed"} =>
          /\ \E s \in snapshots' : s.run = q
          /\ status'[q] = "replayed" <=> replayOf'[q] # NoRun
  <2> SUFFICES ASSUME NEW q \in RunId, status'[q] \in {"published", "replayed"}
               PROVE  /\ \E s \in snapshots' : s.run = q
                      /\ status'[q] = "replayed" <=> replayOf[q] # NoRun
    BY <1>2
  <2>1. CASE q = r
    <3>1. s0 \in snapshots' /\ s0.run = q
      BY <1>2, <2>1
    <3>2. QED
      BY <1>3, <2>1, <3>1
  <2>2. CASE q # r
    <3>1. status[q] \in {"published", "replayed"} /\ status'[q] = status[q]
      BY <1>3, <2>2
    <3>2. /\ \E s \in snapshots : s.run = q
          /\ status[q] = "replayed" <=> replayOf[q] # NoRun
      BY <3>1 DEF IInv, ReleaseInv
    <3>3. QED
      BY <1>2, <3>1, <3>2
  <2>3. QED
    BY <2>1, <2>2
<1>7. \A s, t \in snapshots' : s.id = t.id => s = t
  <2>1. \A s \in snapshots : s.id # s0.id
    BY <1>1 DEF IInv, ReleaseInv
  <2>2. QED
    BY <1>2, <2>1 DEF IInv, ReleaseInv
<1>8. QED
  BY <1>4, <1>5, <1>6, <1>7 DEF ReleaseInv

\* Every other step leaves the released rows, or adds a rollback event that names
\* a released snapshot.
LEMMA ReleaseStep ==
    ASSUME IInv, [Next]_vars
    PROVE  ReleaseInv'
<1> USE EvidenceAssumption
    DEF IInv, TypeOK, ControlInv, OwnershipInv, ArtifactInv, GateInv, ReleaseInv,
        RunId, NoRun, RunStatus, Publication, Snapshot,
        runColumns, artifactRows, bucket, releases, reads,
        Goto, Finish, BuildsRun, Caught
<1>1. ASSUME NEW o \in Operator, NEW r \in RunId, NEW bundle \in Evidence,
             CaptureRun(o, r, bundle)
      PROVE  ReleaseInv'
  BY <1>1 DEF CaptureRun, InsertRun, Fresh
<1>2. ASSUME NEW o \in Operator, NEW r \in RunId, NEW source \in RunId,
             ReplayRun(o, r, source)
      PROVE  ReleaseInv'
  BY <1>2 DEF ReplayRun, InsertRun, Fresh
<1>3. ASSUME NEW o \in Operator, NEW r \in RunId,
             PublishRun(o, r)
      PROVE  ReleaseInv'
  BY <1>3 DEF PublishRun, Inspect, Publishable, Downloads
<1>4. ASSUME NEW o \in Operator, NEW p \in publications,
             ReadRollbackTarget(o, p)
      PROVE  ReleaseInv'
  BY <1>4 DEF ReadRollbackTarget
<1>5. ASSUME NEW o \in Operator,
             UploadRaw(o)
      PROVE  ReleaseInv'
  BY <1>5 DEF UploadRaw
<1>6. ASSUME NEW o \in Operator,
             CopyRaw(o)
      PROVE  ReleaseInv'
  BY <1>6 DEF CopyRaw
<1>7. ASSUME NEW o \in Operator,
             InsertRawArtifact(o)
      PROVE  ReleaseInv'
  BY <1>7 DEF InsertRawArtifact
<1>8. ASSUME NEW o \in Operator,
             Normalise(o)
      PROVE  ReleaseInv'
  BY <1>8 DEF Normalise, Downloads
<1>9. ASSUME NEW o \in Operator,
             InsertCandidateArtifact(o)
      PROVE  ReleaseInv'
  BY <1>9 DEF InsertCandidateArtifact
<1>10. ASSUME NEW o \in Operator,
             MarkCompleted(o)
      PROVE  ReleaseInv'
  BY <1>10 DEF MarkCompleted
<1>11. ASSUME NEW o \in Operator,
             VerifyCapture(o)
      PROVE  ReleaseInv'
  BY <1>11 DEF VerifyCapture
<1>12. ASSUME NEW o \in Operator,
             Recover(o)
      PROVE  ReleaseInv'
  BY <1>12 DEF Recover, FailedStatus
<1>13. ASSUME NEW o \in Operator,
             RecoverFails(o)
      PROVE  ReleaseInv'
  BY <1>13 DEF RecoverFails, Abandon
<1>14. ASSUME NEW o \in Operator,
             PublishReplay(o)
      PROVE  ReleaseInv'
  BY <1>14 DEF PublishReplay, Inspect, Publishable, Downloads
<1>15. ASSUME NEW o \in Operator,
             BeginPublish(o)
      PROVE  ReleaseInv'
  BY <1>15 DEF BeginPublish
<1>16. ASSUME NEW o \in Operator,
             ReadPrevious(o)
      PROVE  ReleaseInv'
  BY <1>16 DEF ReadPrevious
<1>17. ASSUME NEW o \in Operator,
             CommitPublish(o)
      PROVE  ReleaseInv'
  <2>1. pc[o] = "commit" /\ ApplyPublish(o)
    BY <1>17 DEF CommitPublish
  <2>2. QED
    BY <2>1, ReleaseApplied
<1>18. ASSUME NEW o \in Operator,
             CommitUnacknowledged(o)
      PROVE  ReleaseInv'
  <2>1. pc[o] = "commit" /\ ApplyPublish(o)
    BY <1>18 DEF CommitUnacknowledged
  <2>2. QED
    BY <2>1, ReleaseApplied
<1>19. ASSUME NEW o \in Operator,
             Purge(o)
      PROVE  ReleaseInv'
  BY <1>19 DEF Purge
<1>20. ASSUME NEW o \in Operator,
             InsertRollback(o)
      PROVE  ReleaseInv'
  BY <1>20 DEF InsertRollback, RollbackRow
<1>21. ASSUME NEW o \in Operator,
             AwaitFails(o)
      PROVE  ReleaseInv'
  <2>1. CASE Caught(o) /\ Goto(o, "recover") /\ UNCHANGED <<task, subject, held, reads>>
    BY <1>21, <2>1 DEF AwaitFails
  <2>2. CASE Finish(o)
    BY <1>21, <2>2 DEF AwaitFails
  <2>3. QED
    BY <1>21, <2>1, <2>2, ThrowCases DEF AwaitFails
<1>22. ASSUME NEW o \in Operator,
             Crash(o)
      PROVE  ReleaseInv'
  BY <1>22 DEF Crash, Abandon
<1>23. ASSUME NEW r \in RunId,
             DamageRaw(r)
      PROVE  ReleaseInv'
  BY <1>23 DEF DamageRaw
<1>24. ASSUME NEW r \in RunId,
             DamageCandidate(r)
      PROVE  ReleaseInv'
  BY <1>24 DEF DamageCandidate
<1>25. CASE UNCHANGED vars
  BY <1>25 DEF vars
<1>26. QED
  BY <1>1, <1>2, <1>3, <1>4, <1>5, <1>6, <1>7, <1>8, <1>9, <1>10, <1>11,
     <1>12, <1>13, <1>14, <1>15, <1>16, <1>17, <1>18, <1>19, <1>20, <1>21,
     <1>22, <1>23, <1>24, <1>25
     DEF Next, Start, Advance, Damage

\* Only three actions write an event, and each adds one row: a latest event
\* therefore exists whenever there is an event at all.
LEMMA LatestStep ==
    ASSUME IInv, [Next]_vars
    PROVE  LatestInv'
<1>1. ASSUME NEW row \in Publication, publications' = publications \cup {row}
      PROVE  LatestInv'
  <2>1. row.createdAt \in Nat /\ \A q \in publications : q.createdAt \in Nat
    BY DEF IInv, TypeOK, Publication
  <2>2. CASE publications = {}
    BY <1>1, <2>1, <2>2 DEF LatestInv
  <2>3. CASE publications # {}
    <3>1. PICK p \in publications : \A q \in publications : q.createdAt <= p.createdAt
      BY <2>3 DEF IInv, LatestInv
    <3>2. CASE row.createdAt <= p.createdAt
      BY <1>1, <2>1, <3>1, <3>2 DEF LatestInv
    <3>3. CASE p.createdAt < row.createdAt
      <4>1. \A q \in publications' : q.createdAt <= row.createdAt
        BY <1>1, <2>1, <3>1, <3>3
      <4>2. QED
        BY <1>1, <4>1 DEF LatestInv
    <3>4. QED
      BY <2>1, <3>2, <3>3
  <2>4. QED
    BY <2>2, <2>3
<1>2. ASSUME NEW o \in Operator, InsertRollback(o)
      PROVE  LatestInv'
  <2>1. RollbackRow(o) \in Publication
    BY DEF IInv, TypeOK, RollbackRow, Publication
  <2>2. QED
    BY <1>1, <1>2, <2>1 DEF InsertRollback
<1>3. ASSUME NEW o \in Operator, ApplyPublish(o)
      PROVE  LatestInv'
  <2> DEFINE row == [createdAt |-> startedAt[o], action |-> "publish",
                     snapshot |-> startedAt[o], previous |-> previous[o]]
  <2>1. row \in Publication
    BY DEF IInv, TypeOK, Publication
  <2>2. publications' = publications \cup {row}
    BY <1>3 DEF ApplyPublish
  <2>3. QED
    BY <1>1, <2>1, <2>2
<1>4. CASE publications' = publications
  BY <1>4 DEF IInv, LatestInv
<1>5. QED
  BY <1>2, <1>3, <1>4
     DEF Next, Start, Advance, Damage, vars, releases, bucket, artifactRows,
         CaptureRun, ReplayRun, PublishRun, Inspect, ReadRollbackTarget, UploadRaw,
         CopyRaw, InsertRawArtifact, Normalise, InsertCandidateArtifact, MarkCompleted,
         VerifyCapture, Recover, RecoverFails, PublishReplay, BeginPublish, ReadPrevious,
         CommitPublish, CommitUnacknowledged, Purge, AwaitFails, Crash, Abandon,
         DamageRaw, DamageCandidate

\* The initial state: nothing is stored, released or in flight.
LEMMA InitIInv == Init => IInv
<1> SUFFICES ASSUME Init PROVE IInv
  OBVIOUS
<1>1. TypeOK
  BY DEF Init, TypeOK, RunStatus, QualityState, Step, Task, NoRun
<1>2. ControlInv
  BY DEF Init, ControlInv
<1>3. OwnershipInv
  BY DEF Init, OwnershipInv, BuildsRun
<1>4. ArtifactInv
  BY DEF Init, ArtifactInv
<1>5. GateInv
  BY DEF Init, GateInv
<1>6. ReleaseInv
  BY DEF Init, ReleaseInv
<1>7. LatestInv
  BY DEF Init, LatestInv
<1>8. QED
  BY <1>1, <1>2, <1>3, <1>4, <1>5, <1>6, <1>7 DEF IInv

\* The inductive invariant holds in every reachable state.
THEOREM InductiveInvariant == Spec => []IInv
<1>1. IInv /\ [Next]_vars => IInv'
  BY TypeStep, ControlStep, OwnershipStep, ArtifactStep, GateStep, ReleaseStep,
     LatestStep DEF IInv
<1>2. QED
  BY InitIInv, <1>1, PTL DEF Spec

-----------------------------------------------------------------------------
(* What the runs check, for every instance *)

\* Every row, object and step stays within the schema.
THEOREM TypeCorrect == Spec => []TypeOK
<1>1. IInv => TypeOK
  BY DEF IInv
<1>2. QED
  BY InductiveInvariant, <1>1, PTL

\* No interleaving, failure, crash or damage releases anything but the gated
\* candidate that both artifact rows vouch for; a replay releases the bundle of
\* the run it replays.
THEOREM ReleasesBacked == Spec => []ReleasesAreBackedByEvidence
<1>1. ASSUME IInv PROVE ReleasesAreBackedByEvidence
  <2> SUFFICES ASSUME NEW s \in snapshots
               PROVE  /\ s.payload \in {rawArtifact[s.run], candidateArtifact[s.run]}
                      /\ rawArtifact[s.run] = candidateArtifact[s.run]
                      /\ QualityOf[s.payload] # "partial"
                      /\ s.replayOf = replayOf[s.run]
                      /\ s.replayOf # NoRun => rawArtifact[s.replayOf] = s.payload
    BY DEF ReleasesAreBackedByEvidence
  <2>1. s.run \in RunId /\ s.payload \in Evidence
    BY <1>1 DEF IInv, TypeOK, Snapshot
  <2>2. /\ s.payload = candidateArtifact[s.run]
        /\ QualityOf[s.payload] # "partial"
        /\ s.replayOf = replayOf[s.run]
    BY <1>1 DEF IInv, ReleaseInv
  <2>3. candidateArtifact[s.run] # NoContent
    BY <2>1, <2>2, EvidenceAssumption
  <2>4. rawArtifact[s.run] = candidateArtifact[s.run]
    BY <1>1, <2>1, <2>3 DEF IInv, ArtifactInv
  <2>5. s.replayOf # NoRun => rawArtifact[s.replayOf] = s.payload
    BY <1>1, <2>1, <2>2, <2>3, <2>4 DEF IInv, ArtifactInv
  <2>6. QED
    BY <2>2, <2>4, <2>5
<1>2. QED
  BY InductiveInvariant, <1>1, PTL

\* The sweep's reading of "completed" as "not yet released" is safe, however
\* many publishes, replays and failures interleave.
THEOREM CompletedUnreleased == Spec => []CompletedMeansUnreleased
<1>1. IInv => CompletedMeansUnreleased
  BY DEF IInv, ReleaseInv, CompletedMeansUnreleased
<1>2. QED
  BY InductiveInvariant, <1>1, PTL

\* Runs, snapshots and events always tell the same story.
THEOREM HistoryConsistent == Spec => []HistoryIsConsistent
<1>1. ASSUME IInv PROVE HistoryIsConsistent
  <2>1. \A r \in RunId : status[r] \in {"published", "replayed"} =>
            /\ \E s \in snapshots : s.run = r
            /\ status[r] = "replayed" <=> replayOf[r] # NoRun
    BY <1>1 DEF IInv, ReleaseInv
  <2>2. \A s \in snapshots : \E p \in publications :
            p.action = "publish" /\ p.createdAt = s.id /\ p.snapshot = s.id
    BY <1>1 DEF IInv, ReleaseInv
  <2>3. ASSUME NEW p \in publications
        PROVE  \E q \in publications :
                   /\ q.action = "publish" /\ q.snapshot = p.snapshot
                   /\ q.createdAt <= p.createdAt
                   /\ \E s \in snapshots : s.id = q.snapshot
    <3>1. PICK s \in snapshots : s.id = p.snapshot /\ s.id <= p.createdAt
      BY <1>1 DEF IInv, ReleaseInv
    <3>2. PICK q \in publications :
              q.action = "publish" /\ q.createdAt = s.id /\ q.snapshot = s.id
      BY <2>2
    <3>3. QED
      BY <3>1, <3>2
  <2>4. QED
    BY <2>1, <2>2, <2>3 DEF HistoryIsConsistent
<1>2. QED
  BY InductiveInvariant, <1>1, PTL

-----------------------------------------------------------------------------
(* What follows from the invariant: a rollback takes effect at once, the pipeline  *)
(* implements the log of releases its readers see, and pending runs are attended.  *)


\* Only the rows of releases decide what readers see.
LEMMA SurfaceFrame ==
    ASSUME UNCHANGED publications
    PROVE  ActiveSnapshot' = ActiveSnapshot
BY DEF ActiveSnapshot, LatestPublication

\* A new event either becomes the latest one or leaves the latest one alone.
LEMMA NewEventDecides ==
    ASSUME IInv, NEW row \in Publication,
           publications' = publications \cup {row},
           \A p \in publications : p.createdAt # row.createdAt
    PROVE  /\ ActiveSnapshot' \in {ActiveSnapshot, row.snapshot}
           /\ publications = {} => ActiveSnapshot' = row.snapshot
           /\ (\A p \in publications : p.createdAt < row.createdAt)
                  => ActiveSnapshot' = row.snapshot
           /\ (\E p \in publications : row.createdAt < p.createdAt)
                  => ActiveSnapshot' = ActiveSnapshot
<1> DEFINE top == LatestPublication
           top2 == CHOOSE p \in publications' :
                       \A q \in publications' : q.createdAt <= p.createdAt
<1>1. row.createdAt \in Nat /\ \A q \in publications : q.createdAt \in Nat
  BY DEF IInv, TypeOK, Publication
<1>2. \A p, q \in publications : p.createdAt = q.createdAt => p = q
  BY DEF IInv, ReleaseInv
<1>3. publications' # {} /\ ActiveSnapshot' = top2.snapshot
  BY DEF ActiveSnapshot, LatestPublication
<1>4. ASSUME \A p \in publications : p.createdAt < row.createdAt
      PROVE  ActiveSnapshot' = row.snapshot
  <2>1. \A q \in publications' : q.createdAt <= row.createdAt
    BY <1>1, <1>4
  <2>2. \A p \in publications' :
            (\A q \in publications' : q.createdAt <= p.createdAt) => p = row
    BY <1>1, <1>4
  <2>3. top2 = row
    BY <2>1, <2>2
  <2>4. QED
    BY <1>3, <2>3
<1>5. ASSUME publications # {}, row.createdAt < top.createdAt
      PROVE  ActiveSnapshot' = ActiveSnapshot
  <2>1. top \in publications /\ \A q \in publications : q.createdAt <= top.createdAt
    BY <1>5, LatestFacts DEF IInv
  <2>2. \A q \in publications' : q.createdAt <= top.createdAt
    BY <1>1, <1>5, <2>1
  <2>3. \A p \in publications' :
            (\A q \in publications' : q.createdAt <= p.createdAt) => p = top
    BY <1>1, <1>2, <1>5, <2>1
  <2>4. top2 = top
    BY <2>1, <2>2, <2>3
  <2>5. QED
    BY <1>3, <1>5, <2>4 DEF ActiveSnapshot
<1>6. CASE publications = {}
  BY <1>4, <1>6
<1>7. CASE publications # {}
  <2>1. top \in publications /\ \A q \in publications : q.createdAt <= top.createdAt
    BY <1>7, LatestFacts DEF IInv
  <2>2. CASE row.createdAt < top.createdAt
    BY <1>1, <1>4, <1>5, <1>7, <2>1, <2>2
  <2>3. CASE top.createdAt < row.createdAt
    BY <1>1, <1>4, <1>7, <2>1, <2>3
  <2>4. QED
    BY <1>1, <2>1, <2>2, <2>3
<1>8. QED
  BY <1>6, <1>7

-----------------------------------------------------------------------------
(* Rollback *)

\* The event of a rollback is newer than every event there is, so it decides.
LEMMA RollbackDecides ==
    ASSUME IInv, NEW o \in Operator, InsertRollback(o)
    PROVE  ActiveSnapshot' = target[o]
<1>1. /\ RollbackRow(o) \in Publication
      /\ RollbackRow(o).createdAt = clock + 1
      /\ RollbackRow(o).snapshot = target[o]
  BY DEF IInv, TypeOK, RollbackRow, Publication
<1>2. \A p \in publications : p.createdAt < RollbackRow(o).createdAt
  BY <1>1 DEF IInv, TypeOK, ReleaseInv
<1>3. \A p \in publications : p.createdAt # RollbackRow(o).createdAt
  BY <1>2 DEF IInv, TypeOK, Publication
<1>4. QED
  BY <1>1, <1>2, <1>3, NewEventDecides DEF InsertRollback

\* A publish that began before some event changes nothing that readers see.
LEMMA OvertakenPublish ==
    ASSUME IInv, NEW o \in Operator, pc[o] = "commit", ApplyPublish(o),
           NEW p \in publications, startedAt[o] < p.createdAt
    PROVE  ActiveSnapshot' = ActiveSnapshot
<1>1. PICK row : row = [createdAt |-> startedAt[o], action |-> "publish",
                        snapshot |-> startedAt[o], previous |-> previous[o]]
  OBVIOUS
<1>2. /\ row \in Publication /\ row.createdAt = startedAt[o]
      /\ publications' = publications \cup {row}
  BY <1>1 DEF ApplyPublish, IInv, TypeOK, Publication
<1>3. \A q \in publications : q.createdAt # startedAt[o]
  BY DEF IInv, TypeOK, GateInv
<1> QED
  BY <1>2, <1>3, NewEventDecides

\* An operator leaves "commit" with its rows written, or having changed no release.
LEMMA LeavesCommit ==
    ASSUME IInv, [Next]_vars, NEW o \in Operator, pc[o] = "commit", pc'[o] # "commit"
    PROVE  ApplyPublish(o) \/ UNCHANGED publications
<1> USE DEF IInv, TypeOK, Goto, Finish, Throw, Caught
<1>1. ASSUME NEW other \in Operator, other # o, Start(other) \/ Advance(other) \/ Crash(other)
      PROVE  pc'[o] = pc[o]
  BY <1>1 DEF Start, Advance, Crash, Abandon,
      CaptureRun, ReplayRun, PublishRun, Inspect, ReadRollbackTarget, UploadRaw, CopyRaw,
      InsertRawArtifact, Normalise, InsertCandidateArtifact, MarkCompleted, VerifyCapture,
      Recover, RecoverFails, PublishReplay, BeginPublish, ReadPrevious, CommitPublish,
      CommitUnacknowledged, Purge, InsertRollback, AwaitFails
<1>2. Damage \/ UNCHANGED vars => pc'[o] = pc[o]
  BY DEF Damage, DamageRaw, DamageCandidate, vars
<1>3. Start(o) \/ Advance(o) \/ Crash(o)
  BY <1>1, <1>2 DEF Next
<1>4. QED
  BY <1>3 DEF Start, Advance, Crash, Abandon, releases,
      CaptureRun, ReplayRun, PublishRun, Inspect, ReadRollbackTarget, UploadRaw, CopyRaw,
      InsertRawArtifact, Normalise, InsertCandidateArtifact, MarkCompleted, VerifyCapture,
      Recover, RecoverFails, PublishReplay, BeginPublish, ReadPrevious, CommitPublish,
      CommitUnacknowledged, Purge, InsertRollback, AwaitFails

\* The only step that takes an operator from "rollback" to "purge" is its own
\* InsertRollback.
LEMMA OnlyInsertRollback ==
    ASSUME IInv, [Next]_vars, NEW o \in Operator, pc[o] = "rollback", pc'[o] = "purge"
    PROVE  InsertRollback(o)
<1> USE DEF IInv, TypeOK, Goto, Finish, Throw, Caught
<1>1. ASSUME NEW other \in Operator, other # o, Start(other) \/ Advance(other) \/ Crash(other)
      PROVE  pc'[o] = pc[o]
  BY <1>1 DEF Start, Advance, Crash, Abandon,
      CaptureRun, ReplayRun, PublishRun, Inspect, ReadRollbackTarget, UploadRaw, CopyRaw,
      InsertRawArtifact, Normalise, InsertCandidateArtifact, MarkCompleted, VerifyCapture,
      Recover, RecoverFails, PublishReplay, BeginPublish, ReadPrevious, CommitPublish,
      CommitUnacknowledged, Purge, InsertRollback, AwaitFails
<1>2. Damage \/ UNCHANGED vars => pc'[o] = pc[o]
  BY DEF Damage, DamageRaw, DamageCandidate, vars
<1>3. Start(o) \/ Advance(o) \/ Crash(o)
  BY <1>1, <1>2 DEF Next
<1>4. QED
  BY <1>3 DEF Start, Advance, Crash, Abandon,
      CaptureRun, ReplayRun, PublishRun, Inspect, ReadRollbackTarget, UploadRaw, CopyRaw,
      InsertRawArtifact, Normalise, InsertCandidateArtifact, MarkCompleted, VerifyCapture,
      Recover, RecoverFails, PublishReplay, BeginPublish, ReadPrevious, CommitPublish,
      CommitUnacknowledged, Purge, AwaitFails

\* A rollback is what readers see the moment its event is written, and no publish
\* that was in flight by then takes its place.
THEOREM RollbacksStay == Spec => RollbackStays
<1>1. IInv /\ [Next]_vars =>
          [\A o \in Operator :
              /\ pc[o] = "rollback" /\ pc'[o] = "purge" => ActiveSnapshot' = target[o]
              /\ (\E p \in publications : p.action = "rollback" /\ InFlightSince(o, p)) /\ pc'[o] # "commit"
                    => ActiveSnapshot' = ActiveSnapshot]_vars
  <2> SUFFICES ASSUME IInv, [Next]_vars, NEW o \in Operator
               PROVE  /\ pc[o] = "rollback" /\ pc'[o] = "purge" => ActiveSnapshot' = target[o]
                      /\ (\E p \in publications : p.action = "rollback" /\ InFlightSince(o, p)) /\ pc'[o] # "commit"
                            => ActiveSnapshot' = ActiveSnapshot
    OBVIOUS
  <2>1. pc[o] = "rollback" /\ pc'[o] = "purge" => ActiveSnapshot' = target[o]
    BY OnlyInsertRollback, RollbackDecides
  <2>2. ASSUME NEW p \in publications, InFlightSince(o, p), pc'[o] # "commit"
        PROVE  ActiveSnapshot' = ActiveSnapshot
    <3>1. pc[o] = "commit" /\ startedAt[o] < p.createdAt
      BY <2>2 DEF InFlightSince
    <3>2. ApplyPublish(o) \/ UNCHANGED publications
      BY <2>2, <3>1, LeavesCommit
    <3> QED
      BY <3>1, <3>2, OvertakenPublish, SurfaceFrame
  <2> QED
    BY <2>1, <2>2
<1>2. QED
  BY InductiveInvariant, <1>1, PTL DEF Spec, RollbackStays

-----------------------------------------------------------------------------
(* The pipeline implements PublicationLog *)

\* Committing a publish is a Release of the log: a gated payload under a new id,
\* on the surface only if no event overtook it.
LEMMA PublishReleases ==
    ASSUME IInv, NEW o \in Operator, pc[o] = "commit", ApplyPublish(o)
    PROVE  Log!Release
<1> DEFINE Shown == {[id |-> s.id, payload |-> s.payload] : s \in snapshots}
           x == [id |-> startedAt[o], payload |-> held[o]]
           row == [createdAt |-> startedAt[o], action |-> "publish",
                   snapshot |-> startedAt[o], previous |-> previous[o]]
<1>1. /\ startedAt[o] \in 1..clock
      /\ held[o] \in {e \in Evidence : QualityOf[e] # "partial"}
      /\ \A p \in publications : p.createdAt # startedAt[o]
  BY DEF IInv, TypeOK, GateInv
<1>2. Shown' = Shown \cup {x}
  <2> DEFINE s0 == [id |-> startedAt[o], run |-> subject[o],
                    replayOf |-> replayOf[subject[o]], payload |-> held[o]]
  <2>1. snapshots' = snapshots \cup {s0}
    BY DEF ApplyPublish
  <2>2. Shown' = {[id |-> s.id, payload |-> s.payload] : s \in snapshots'}
    OBVIOUS
  <2>3. [id |-> s0.id, payload |-> s0.payload] = x
    OBVIOUS
  <2> HIDE DEF s0, x
  <2>4. QED
    BY <2>1, <2>2, <2>3
<1>3. \A t \in Shown : t.id # startedAt[o]
  BY <1>1 DEF IInv, ReleaseInv
<1>4. x \notin Shown
  BY <1>3
<1>5. row \in Publication /\ publications' = publications \cup {row}
  BY DEF ApplyPublish, IInv, TypeOK, Publication
<1>6. /\ ActiveSnapshot' \in {ActiveSnapshot, startedAt[o]}
      /\ publications = {} => ActiveSnapshot' = startedAt[o]
  BY <1>1, <1>5, NewEventDecides
<1>7. publications # {} => ActiveSnapshot # 0
  <2> SUFFICES ASSUME publications # {} PROVE ActiveSnapshot # 0
    OBVIOUS
  <2>1. LatestPublication \in publications
    BY LatestFacts DEF IInv
  <2>2. PICK s \in snapshots : s.id = LatestPublication.snapshot
    BY <2>1 DEF IInv, ReleaseInv
  <2>3. PICK p \in publications : p.createdAt = s.id
    BY DEF IInv, ReleaseInv
  <2>4. p.createdAt \in 1..clock
    BY <2>3 DEF IInv, ReleaseInv
  <2>5. QED
    BY <2>2, <2>3, <2>4 DEF ActiveSnapshot, IInv, TypeOK
<1>8. ActiveSnapshot' \in {ActiveSnapshot, x.id} \ {0}
  BY <1>1, <1>6, <1>7
<1>9. /\ x \in Shown' \ Shown
      /\ x \in [id : Nat, payload : {e \in Evidence : QualityOf[e] # "partial"}]
      /\ \A t \in Shown : t.id # x.id
  BY <1>1, <1>2, <1>3, <1>4
<1>10. QED
  BY <1>2, <1>8, <1>9 DEF Log!Release

\* Writing a rollback event is a RollBack of the log.
LEMMA RollbackRollsBack ==
    ASSUME IInv, NEW o \in Operator, InsertRollback(o)
    PROVE  Log!RollBack
<1>1. PICK s \in snapshots : s.id = target[o]
  BY DEF InsertRollback, IInv, GateInv
<1>2. ActiveSnapshot' = target[o] /\ UNCHANGED snapshots
  BY RollbackDecides DEF InsertRollback
<1>3. QED
  BY <1>1, <1>2 DEF Log!RollBack

\* No other step touches what readers see.
LEMMA OtherStepsStutter ==
    ASSUME UNCHANGED <<snapshots, publications>>
    PROVE  UNCHANGED <<{[id |-> s.id, payload |-> s.payload] : s \in snapshots},
                       ActiveSnapshot>>
BY SurfaceFrame

\* Every step of the pipeline commits a publish, writes a rollback, or leaves
\* the released rows alone.
LEMMA StepKinds ==
    ASSUME [Next]_vars
    PROVE  \/ \E o \in Operator : pc[o] = "commit" /\ ApplyPublish(o)
           \/ \E o \in Operator : InsertRollback(o)
           \/ UNCHANGED <<snapshots, publications>>
BY DEF Next, Start, Advance, Damage, vars, releases, bucket, artifactRows,
       CaptureRun, ReplayRun, PublishRun, Inspect, ReadRollbackTarget, UploadRaw,
       CopyRaw, InsertRawArtifact, Normalise, InsertCandidateArtifact, MarkCompleted,
       VerifyCapture, Recover, RecoverFails, PublishReplay, BeginPublish, ReadPrevious,
       CommitPublish, CommitUnacknowledged, Purge, AwaitFails, Crash, Abandon,
       DamageRaw, DamageCandidate

\* Readers see a log of gated releases: the pipeline, with all its operators,
\* failures and damage, implements PublicationLog.
THEOREM Refinement == Spec => ImplementsPublicationLog
<1>1. Init => Log!Init
  BY DEF Init, Log!Init, ActiveSnapshot
<1>2. IInv /\ [Next]_vars =>
          [Log!Next]_<<{[id |-> s.id, payload |-> s.payload] : s \in snapshots},
                       ActiveSnapshot>>
  BY StepKinds, PublishReleases, RollbackRollsBack, OtherStepsStutter DEF Log!Next
<1>3. QED
  BY InductiveInvariant, <1>1, <1>2, PTL DEF Spec, ImplementsPublicationLog, Log!Spec

-----------------------------------------------------------------------------
(* Pending runs *)

\* Once a builder has marked its run completed, the run is never pending again.
SettledInv ==
    \A o \in Operator :
        BuildsRun(o) /\ pc[o] \in {"verify", "inspect", "begin", "previous", "commit", "purge"}
            => status[subject[o]] # "pending"

\* No run enters pending but a fresh one, at the hands of its new builder.
LEMMA PendingOrigin ==
    ASSUME IInv, [Next]_vars, NEW r \in RunId, status'[r] = "pending"
    PROVE  \/ status[r] = "pending"
           \/ \E o \in Operator : BuildsRun(o)' /\ subject'[o] = r
<1> DEFINE Origin == \/ status[r] = "pending"
                    \/ \E o \in Operator : BuildsRun(o)' /\ subject'[o] = r
<1> USE DEF IInv, TypeOK, runColumns, Goto, Finish, Throw, BuildsRun
<1>1. ASSUME NEW a \in Operator, Start(a)
      PROVE  Origin
  BY SMTT(40), <1>1 DEF Start, CaptureRun, ReplayRun, InsertRun, Fresh, PublishRun, Inspect,
        ReadRollbackTarget
<1>2. ASSUME NEW a \in Operator, \/ UploadRaw(a) \/ CopyRaw(a) \/ InsertRawArtifact(a)
                                \/ Normalise(a) \/ InsertCandidateArtifact(a)
      PROVE  Origin
  BY SMTT(40), <1>2 DEF UploadRaw, CopyRaw, InsertRawArtifact, Normalise, InsertCandidateArtifact
<1>3. ASSUME NEW a \in Operator, \/ MarkCompleted(a) \/ VerifyCapture(a) \/ Recover(a)
                                \/ RecoverFails(a) \/ PublishReplay(a) \/ BeginPublish(a)
      PROVE  Origin
  BY SMTT(40), <1>3 DEF MarkCompleted, VerifyCapture, Recover, FailedStatus, RecoverFails, Abandon,
        PublishReplay, Inspect, BeginPublish
<1>4. ASSUME NEW a \in Operator, \/ ReadPrevious(a) \/ CommitPublish(a) \/ Purge(a)
                                \/ CommitUnacknowledged(a) \/ InsertRollback(a)
      PROVE  Origin
  BY SMTT(40), <1>4 DEF ReadPrevious, CommitPublish, CommitUnacknowledged, ApplyPublish,
        ReleasedStatus, Purge, InsertRollback
<1>5. ASSUME NEW a \in Operator, AwaitFails(a) \/ Crash(a)
      PROVE  Origin
  BY SMTT(40), <1>5 DEF AwaitFails, Crash, Abandon
<1>6. CASE Damage \/ UNCHANGED vars
  BY SMTT(40), <1>6 DEF Damage, DamageRaw, DamageCandidate, vars
<1>7. QED
  BY <1>1, <1>2, <1>3, <1>4, <1>5, <1>6 DEF Next, Advance

\* A builder lets go of its run only when the run is settled, or by dying.
LEMMA BuilderLeaves ==
    ASSUME IInv, SettledInv, [Next]_vars, NEW o \in Operator, BuildsRun(o)
    PROVE  \/ BuildsRun(o)' /\ subject'[o] = subject[o]
           \/ subject[o] \in abandoned'
           \/ status'[subject[o]] # "pending"
<1> DEFINE Leaves == \/ BuildsRun(o)' /\ subject'[o] = subject[o]
                    \/ subject[o] \in abandoned'
                    \/ status'[subject[o]] # "pending"
<1> USE DEF IInv, TypeOK, ControlInv, SettledInv, Caught, reads, runColumns, Goto, Finish, Throw, BuildsRun
<1>1. ASSUME NEW a \in Operator, Start(a)
      PROVE  Leaves
  BY SMTT(40), <1>1 DEF Start, CaptureRun, ReplayRun, InsertRun, Fresh, PublishRun, Inspect,
        ReadRollbackTarget
<1>2. ASSUME NEW a \in Operator, \/ UploadRaw(a) \/ CopyRaw(a) \/ InsertRawArtifact(a)
                                \/ Normalise(a) \/ InsertCandidateArtifact(a)
      PROVE  Leaves
  BY SMTT(40), <1>2 DEF UploadRaw, CopyRaw, InsertRawArtifact, Normalise, InsertCandidateArtifact
<1>3. ASSUME NEW a \in Operator, \/ MarkCompleted(a) \/ VerifyCapture(a) \/ Recover(a)
                                \/ RecoverFails(a) \/ PublishReplay(a) \/ BeginPublish(a)
      PROVE  Leaves
  BY SMTT(40), <1>3 DEF MarkCompleted, VerifyCapture, Recover, FailedStatus, RecoverFails, Abandon,
        PublishReplay, Inspect, BeginPublish
<1>4. ASSUME NEW a \in Operator, \/ ReadPrevious(a) \/ CommitPublish(a) \/ Purge(a)
                                \/ CommitUnacknowledged(a) \/ InsertRollback(a)
      PROVE  Leaves
  BY SMTT(40), <1>4 DEF ReadPrevious, CommitPublish, CommitUnacknowledged, ApplyPublish,
        ReleasedStatus, Purge, InsertRollback
<1>5. ASSUME NEW a \in Operator, AwaitFails(a) \/ Crash(a)
      PROVE  Leaves
  BY SMTT(40), <1>5 DEF AwaitFails, Crash, Abandon
<1>6. CASE Damage \/ UNCHANGED vars
  BY SMTT(40), <1>6 DEF Damage, DamageRaw, DamageCandidate, vars
<1>7. QED
  BY <1>1, <1>2, <1>3, <1>4, <1>5, <1>6 DEF Next, Advance

\* Nothing removes a run from the abandoned ones.
LEMMA AbandonedGrows ==
    ASSUME [Next]_vars
    PROVE  abandoned \subseteq abandoned'
<1> USE DEF runColumns, reads, Goto, Finish, Throw, BuildsRun
<1>1. ASSUME NEW a \in Operator, Start(a)
      PROVE  abandoned \subseteq abandoned'
  BY SMTT(40), <1>1 DEF Start, CaptureRun, ReplayRun, InsertRun, Fresh, PublishRun, Inspect,
        ReadRollbackTarget
<1>2. ASSUME NEW a \in Operator, \/ UploadRaw(a) \/ CopyRaw(a) \/ InsertRawArtifact(a)
                                \/ Normalise(a) \/ InsertCandidateArtifact(a)
      PROVE  abandoned \subseteq abandoned'
  BY SMTT(40), <1>2 DEF UploadRaw, CopyRaw, InsertRawArtifact, Normalise, InsertCandidateArtifact
<1>3. ASSUME NEW a \in Operator, \/ MarkCompleted(a) \/ VerifyCapture(a) \/ Recover(a)
                                \/ RecoverFails(a) \/ PublishReplay(a) \/ BeginPublish(a)
      PROVE  abandoned \subseteq abandoned'
  BY SMTT(40), <1>3 DEF MarkCompleted, VerifyCapture, Recover, FailedStatus, RecoverFails, Abandon,
        PublishReplay, Inspect, BeginPublish
<1>4. ASSUME NEW a \in Operator, \/ ReadPrevious(a) \/ CommitPublish(a) \/ Purge(a)
                                \/ CommitUnacknowledged(a) \/ InsertRollback(a)
      PROVE  abandoned \subseteq abandoned'
  BY SMTT(40), <1>4 DEF ReadPrevious, CommitPublish, CommitUnacknowledged, ApplyPublish,
        ReleasedStatus, Purge, InsertRollback
<1>5. ASSUME NEW a \in Operator, AwaitFails(a) \/ Crash(a)
      PROVE  abandoned \subseteq abandoned'
  BY SMTT(40), <1>5 DEF AwaitFails, Crash, Abandon
<1>6. CASE Damage \/ UNCHANGED vars
  BY SMTT(40), <1>6 DEF Damage, DamageRaw, DamageCandidate, vars
<1>7. QED
  BY <1>1, <1>2, <1>3, <1>4, <1>5, <1>6 DEF Next, Advance

\* The steps past "complete" stay settled: whatever another operator does, no
\* run returns to pending.
LEMMA SettledStep ==
    ASSUME IInv, SettledInv, [Next]_vars
    PROVE  SettledInv'
<1> USE DEF IInv, TypeOK, ControlInv, OwnershipInv, SettledInv, Caught, reads, runColumns, Goto, Finish, Throw, BuildsRun
<1>1. ASSUME NEW a \in Operator, Start(a)
      PROVE  SettledInv'
  BY SMTT(40), <1>1 DEF Start, CaptureRun, ReplayRun, InsertRun, Fresh, PublishRun, Inspect,
        ReadRollbackTarget
<1>2. ASSUME NEW a \in Operator, \/ UploadRaw(a) \/ CopyRaw(a) \/ InsertRawArtifact(a)
                                \/ Normalise(a) \/ InsertCandidateArtifact(a)
      PROVE  SettledInv'
  BY SMTT(40), <1>2 DEF UploadRaw, CopyRaw, InsertRawArtifact, Normalise, InsertCandidateArtifact
<1>3. ASSUME NEW a \in Operator, \/ MarkCompleted(a) \/ VerifyCapture(a) \/ Recover(a)
                                \/ RecoverFails(a) \/ PublishReplay(a) \/ BeginPublish(a)
      PROVE  SettledInv'
  BY SMTT(40), <1>3 DEF MarkCompleted, VerifyCapture, Recover, FailedStatus, RecoverFails, Abandon,
        PublishReplay, Inspect, BeginPublish
<1>4. ASSUME NEW a \in Operator, \/ ReadPrevious(a) \/ CommitPublish(a) \/ Purge(a)
                                \/ CommitUnacknowledged(a) \/ InsertRollback(a)
      PROVE  SettledInv'
  BY SMTT(40), <1>4 DEF ReadPrevious, CommitPublish, CommitUnacknowledged, ApplyPublish,
        ReleasedStatus, Purge, InsertRollback
<1>5. ASSUME NEW a \in Operator, AwaitFails(a) \/ Crash(a)
      PROVE  SettledInv'
  BY SMTT(40), <1>5 DEF AwaitFails, Crash, Abandon
<1>6. CASE Damage \/ UNCHANGED vars
  BY SMTT(40), <1>6 DEF Damage, DamageRaw, DamageCandidate, vars
<1>7. QED
  BY <1>1, <1>2, <1>3, <1>4, <1>5, <1>6 DEF Next, Advance

\* Every pending run has its builder, or its builder died: capture and replay
\* never leave a run behind by themselves, whatever throws.
THEOREM PendingAttended == Spec => []PendingRunsAreAttended
<1> DEFINE Attended == SettledInv /\ PendingRunsAreAttended
<1>1. Init => Attended
  BY DEF Init, SettledInv, PendingRunsAreAttended, BuildsRun
<1>2. IInv /\ Attended /\ [Next]_vars => Attended'
  <2> SUFFICES ASSUME IInv, Attended, [Next]_vars,
                      NEW r \in RunId, status'[r] = "pending", r \notin abandoned'
               PROVE  \E o \in Operator : BuildsRun(o)' /\ subject'[o] = r
    BY SettledStep DEF PendingRunsAreAttended
  <2>1. CASE status[r] = "pending"
    <3>1. PICK o \in Operator : BuildsRun(o) /\ subject[o] = r
      BY <2>1, AbandonedGrows DEF PendingRunsAreAttended
    <3>2. QED
      BY <3>1, BuilderLeaves
  <2>2. QED
    BY <2>1, PendingOrigin
<1>3. QED
  BY InductiveInvariant, <1>1, <1>2, PTL DEF Spec

-----------------------------------------------------------------------------
(* One invocation at a time *)

OneAtATime == \A o1, o2 \in Operator : o1 = o2

\* Alone, an operator commits on the status it inspected, under the newest
\* timestamp, and knows the event that its own will follow.
SerialInv ==
    /\ \A o \in Operator :
           /\ pc[o] \in {"begin", "previous", "commit"} => status[subject[o]] = "completed"
           /\ pc[o] \in {"commit", "rollback"} => previous[o] = LatestId
           /\ pc[o] \in {"previous", "commit"} => \A p \in publications : p.createdAt < startedAt[o]
    /\ ReleasedOnceInOrder

\* An event newer than all others, that names the latest of them, keeps the order.
LEMMA AppendKeepsOrder ==
    ASSUME IInv, ReleasedOnceInOrder, NEW row \in Publication,
           publications' = publications \cup {row},
           \A p \in publications : p.createdAt < row.createdAt,
           row.previous = LatestId,
           \A s, t \in snapshots' : s.run = t.run => s = t
    PROVE  ReleasedOnceInOrder'
<1>1. \A p \in publications : p.createdAt \in Nat /\ p.createdAt < row.createdAt
  BY DEF IInv, TypeOK, Publication
<1>2. row.createdAt \in Nat
  BY DEF Publication
<1> SUFFICES ASSUME NEW p \in publications'
             PROVE  LET earlier == {q \in publications' : q.createdAt < p.createdAt}
                    IN  IF earlier = {} THEN p.previous = 0
                        ELSE /\ \E q \in earlier : q.createdAt = p.previous
                             /\ \A q \in earlier : q.createdAt <= p.previous
  BY DEF ReleasedOnceInOrder
<1>3. CASE p = row
  <2>1. {q \in publications' : q.createdAt < p.createdAt} = publications
    BY <1>1, <1>2, <1>3
  <2>2. CASE publications = {}
    BY <1>3, <2>1, <2>2 DEF LatestId
  <2>3. CASE publications # {}
    <3>1. /\ LatestPublication \in publications /\ p.previous = LatestPublication.createdAt
          /\ \A q \in publications : q.createdAt <= LatestPublication.createdAt
      BY <1>3, <2>3, LatestFacts DEF IInv, LatestId
    <3> QED
      BY <2>1, <2>3, <3>1
  <2> QED
    BY <2>2, <2>3
<1>4. CASE p \in publications
  <2>1. {q \in publications' : q.createdAt < p.createdAt} = {q \in publications : q.createdAt < p.createdAt}
    BY <1>1, <1>2, <1>4
  <2> QED
    BY <1>4, <2>1 DEF ReleasedOnceInOrder
<1> QED
  BY <1>3, <1>4

\* The row a publish writes, and the run it releases.
LEMMA SerialCommit ==
    ASSUME IInv, SerialInv, NEW o \in Operator, pc[o] = "commit", ApplyPublish(o)
    PROVE  /\ ReleasedOnceInOrder'
           /\ \A s \in snapshots' \ snapshots : status[s.run] = "completed"
<1> DEFINE row == [createdAt |-> startedAt[o], action |-> "publish",
                   snapshot |-> startedAt[o], previous |-> previous[o]]
           new == [id |-> startedAt[o], run |-> subject[o],
                   replayOf |-> replayOf[subject[o]], payload |-> held[o]]
<1>1. publications' = publications \cup {row} /\ snapshots' = snapshots \cup {new}
  BY DEF ApplyPublish
<1>2. row \in Publication /\ row.previous = LatestId /\ \A p \in publications : p.createdAt < row.createdAt
  BY DEF IInv, TypeOK, Publication, SerialInv
<1>3. status[new.run] = "completed"
  BY DEF SerialInv
<1>4. \A s \in snapshots : s.run # new.run
  BY <1>3 DEF IInv, ReleaseInv
<1> HIDE DEF new, row
<1>5. \A s, t \in snapshots' : s.run = t.run => s = t
  BY <1>1, <1>4 DEF SerialInv, ReleasedOnceInOrder
<1> QED
  BY <1>1, <1>2, <1>3, <1>5, AppendKeepsOrder DEF SerialInv

\* The other conjuncts, and every step of the only operator there is.
LEMMA SerialRollback ==
    ASSUME IInv, SerialInv, NEW o \in Operator, InsertRollback(o)
    PROVE  ReleasedOnceInOrder'
<1>1. publications' = publications \cup {RollbackRow(o)} /\ snapshots' = snapshots
  BY DEF InsertRollback
<1>2. /\ RollbackRow(o) \in Publication /\ RollbackRow(o).createdAt = clock + 1
      /\ RollbackRow(o).previous = LatestId
  BY DEF IInv, TypeOK, RollbackRow, Publication, InsertRollback, SerialInv
<1>3. \A p \in publications : p.createdAt < RollbackRow(o).createdAt
  BY <1>2 DEF IInv, TypeOK, ReleaseInv
<1> QED
  BY <1>1, <1>2, <1>3, AppendKeepsOrder DEF SerialInv, ReleasedOnceInOrder

\* What an operator alone has read is still so at its next step.
LEMMA SerialReads ==
    ASSUME OneAtATime, IInv, SerialInv, [Next]_vars, NEW o \in Operator
    PROVE  /\ pc'[o] \in {"begin", "previous", "commit"} => status'[subject'[o]] = "completed"
           /\ pc'[o] \in {"commit", "rollback"} => previous'[o] = LatestId'
           /\ pc'[o] \in {"previous", "commit"} => \A p \in publications' : p.createdAt < startedAt'[o]
<1>1. CASE Damage \/ UNCHANGED vars
  BY <1>1 DEF Damage, DamageRaw, DamageCandidate, vars, runColumns, releases, reads, SerialInv,
              LatestId, LatestPublication
<1>2. CASE Start(o) \/ Crash(o)
  BY <1>2 DEF Start, Crash, Abandon, Finish, CaptureRun, ReplayRun, PublishRun, Inspect, Publishable,
              ReadRollbackTarget, Goto, IInv, TypeOK, runColumns, releases, reads, LatestId, LatestPublication
<1>3. CASE Advance(o)
  <2>1. CASE BeginPublish(o)
    BY <2>1 DEF BeginPublish, Goto, IInv, TypeOK, ReleaseInv, Publication, SerialInv, runColumns
  <2>2. CASE ReadPrevious(o)
    BY <2>2 DEF ReadPrevious, Goto, IInv, TypeOK, SerialInv, runColumns, releases, LatestId, LatestPublication
  <2>3. CASE PublishReplay(o)
    BY <2>3 DEF PublishReplay, Inspect, Publishable, Goto, IInv, TypeOK, runColumns
  <2>4. CASE UploadRaw(o) \/ CopyRaw(o) \/ InsertRawArtifact(o) \/ Normalise(o)
             \/ InsertCandidateArtifact(o) \/ MarkCompleted(o) \/ VerifyCapture(o) \/ Recover(o) \/ RecoverFails(o)
             \/ CommitPublish(o) \/ CommitUnacknowledged(o) \/ Purge(o) \/ InsertRollback(o) \/ AwaitFails(o)
    BY <2>4 DEF UploadRaw, CopyRaw, InsertRawArtifact, Normalise, InsertCandidateArtifact, MarkCompleted,
                VerifyCapture, Recover, RecoverFails, Abandon, CommitPublish, CommitUnacknowledged, Purge,
                InsertRollback, AwaitFails, Throw, Finish, Goto, IInv, TypeOK
  <2> QED
    BY <1>3, <2>1, <2>2, <2>3, <2>4 DEF Advance
<1> QED
  BY <1>1, <1>2, <1>3 DEF Next, OneAtATime

LEMMA SerialStep ==
    ASSUME OneAtATime, IInv, SerialInv, [Next]_vars
    PROVE  SerialInv' /\ \A s \in snapshots' \ snapshots : status[s.run] = "completed"
<1>1. ReleasedOnceInOrder' /\ \A s \in snapshots' \ snapshots : status[s.run] = "completed"
  <2>1. CASE \E o \in Operator : pc[o] = "commit" /\ ApplyPublish(o)
    BY <2>1, SerialCommit
  <2>2. CASE \E o \in Operator : InsertRollback(o)
    BY <2>2, SerialRollback DEF InsertRollback
  <2>3. CASE UNCHANGED <<snapshots, publications>>
    BY <2>3 DEF SerialInv, ReleasedOnceInOrder
  <2> QED
    BY <2>1, <2>2, <2>3, StepKinds
<1> QED
  BY <1>1, SerialReads DEF SerialInv

LEMMA SerialInit == Init => SerialInv
BY DEF Init, SerialInv, ReleasedOnceInOrder

\* Without concurrency a run is released at most once, and every event names the
\* one before it (publishRun, rollbackPublication): what two operators can break.
THEOREM SerialHistory ==
    ASSUME OneAtATime
    PROVE  Spec => []ReleasedOnceInOrder
<1>1. IInv /\ SerialInv /\ [Next]_vars => SerialInv'
  BY SerialStep
<1>2. SerialInv => ReleasedOnceInOrder
  BY DEF SerialInv
<1> QED
  BY InductiveInvariant, SerialInit, <1>1, <1>2, PTL DEF Spec

\* Without concurrency a release lands on a completed run, as the documentation of
\* Publish says; [pipeline_stale_gate] shows that two operators break it.
THEOREM SerialPublishes ==
    ASSUME OneAtATime
    PROVE  Spec => PublishRequiresCompletedRun
<1>1. IInv /\ SerialInv /\ [Next]_vars => SerialInv'
  BY SerialStep
<1>2. IInv /\ SerialInv /\ [Next]_vars => [\A s \in snapshots' \ snapshots : status[s.run] = "completed"]_vars
  BY SerialStep
<1> QED
  BY InductiveInvariant, SerialInit, <1>1, <1>2, PTL DEF Spec, PublishRequiresCompletedRun

=============================================================================
