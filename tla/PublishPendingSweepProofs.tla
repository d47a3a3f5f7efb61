----------------------- MODULE PublishPendingSweepProofs -----------------------
(***************************************************************************)
(* Proofs about PublishPendingSweep, for any number of runs, publications  *)
(* and counts.  What a sweep says when it ends depends on the order it     *)
(* works in: every candidate still to do is newer than every one that is   *)
(* done.  The gate's decision matters to the size of its steps only.       *)
(***************************************************************************)
EXTENDS PublishPendingSweep, SortingProofs, SequenceTheorems, FiniteSetTheorems, WellFoundedInduction, TLAPS

Working == {"inspect", "publish", "commit", "purge", "confirm", "warn", "alarm"}
Done == candidates \ todo

\* The sweep's memory, and the history it is compared with.
MemoryInv ==
    /\ phase \in Phase
    /\ events \in Seq(RunId)
    /\ candidates \subseteq RunId /\ todo \subseteq candidates
    /\ heldReviews \subseteq Done /\ failed \subseteq Done /\ digest \subseteq heldReviews
    /\ results \in [RunId -> Result]
    /\ todo # {} <=> phase \in Working
    /\ phase # "done" => digest = {}

\* Candidates are taken oldest first; what is still to do has no result.
OrderInv ==
    /\ \A c \in Done, d \in todo : c < d
    /\ \A d \in todo : results[d] = "none"

\* A reported publication is in the history, and so is one that is about to be reported.
ReleaseInv ==
    /\ \A c \in candidates : results[c] = "published" => IsReleased(c)
    /\ phase \in {"purge", "warn"} => IsReleased(Candidate)

\* Nothing newer than a held review was published; all else that was done is
\* published, failed or superseded; and a sweep ends only when its reviews are announced.
ReviewInv ==
    /\ \A c \in heldReviews : results[c] = "skipped_review"
    /\ \A c \in heldReviews, d \in candidates : d > c => results[d] # "published"
    /\ \A c \in Done :
         \/ results[c] = "published"
         \/ c \in failed \cup heldReviews
         \/ results[c] = "skipped_review" /\ \E d \in candidates : d > c /\ results[d] = "published"
    /\ phase = "done" => heldReviews \subseteq failed \cup digest

IInv == MemoryInv /\ OrderInv /\ ReleaseInv /\ ReviewInv

-----------------------------------------------------------------------------
(* The least candidate, and histories that grow *)

LEMMA LeastNumber ==
    ASSUME NEW T \in SUBSET Nat, T # {} PROVE \E m \in T : \A k \in T : m <= k
<1>1. PICK m \in T : \A k \in T : ~(<<k, m>> \in OpToRel(<, Nat))
  BY NatLessThanWellFounded, WFMin, Zenon
<1>2. \A k \in T : ~(k < m)
  BY <1>1 DEF OpToRel
<1> QED
  BY <1>2

LEMMA CandidateIsFirst ==
    ASSUME MemoryInv, phase \in Working
    PROVE  Candidate \in todo /\ \A d \in todo : Candidate <= d
<1>1. todo \in SUBSET Nat /\ todo # {}
  BY DEF MemoryInv, RunId
<1>2. \E m \in todo : \A d \in todo : m <= d
  BY <1>1, LeastNumber
<1> QED
  BY <1>2 DEF Candidate, Min

LEMMA GreatestIsMember ==
    ASSUME NEW T \in SUBSET RunId, T # {} PROVE Max(T) \in T /\ \A k \in T : k <= Max(T)
<1>1. MaxRuns \in Nat /\ \A k \in T : k \in Nat /\ k <= MaxRuns
  BY SweepAssumption DEF RunId
<1>2. PICK below : below = {MaxRuns - k : k \in T}
  OBVIOUS
<1>3. below \in SUBSET Nat /\ below # {}
  BY <1>1, <1>2
<1>4. PICK m \in below : \A b \in below : m <= b
  BY <1>3, LeastNumber
<1>5. PICK greatest \in T : m = MaxRuns - greatest
  BY <1>2, <1>4
<1>6. \A k \in T : k <= greatest
  <2> SUFFICES ASSUME NEW k \in T PROVE k <= greatest
    OBVIOUS
  <2>1. m <= MaxRuns - k
    BY <1>2, <1>4
  <2> QED
    BY <1>1, <1>5, <2>1
<1> QED
  BY <1>6 DEF Max

LEMMA AppendReleases ==
    ASSUME NEW s \in Seq(RunId), NEW r \in RunId
    PROVE  Append(s, r) \in Seq(RunId) /\ ToSet(Append(s, r)) = ToSet(s) \cup {r}
<1>1. /\ Append(s, r) \in Seq(RunId) /\ Len(Append(s, r)) = Len(s) + 1
      /\ \A i \in 1..Len(s) : Append(s, r)[i] = s[i]
      /\ Append(s, r)[Len(s) + 1] = r
  BY AppendProperties
<1>2. DOMAIN Append(s, r) = DOMAIN s \cup {Len(s) + 1} /\ Len(s) \in Nat /\ DOMAIN s = 1..Len(s)
  BY <1>1
<1> QED
  BY <1>1, <1>2 DEF ToSet

-----------------------------------------------------------------------------
(* Steps *)

LEMMA InitIInv == Init => IInv
BY DEF Init, IInv, MemoryInv, OrderInv, ReleaseInv, ReviewInv, Done, Phase, Working, Result

\* Other operators touch none of the sweep's memory and only add to the history.
LEMMA OthersStep ==
    ASSUME IInv, UNCHANGED sweep,
           events' = events \/ \E r \in RunId : events' = Append(events, r)
    PROVE  IInv'
<1>1. events' \in Seq(RunId) /\ ToSet(events) \subseteq ToSet(events')
  BY AppendReleases DEF IInv, MemoryInv
<1>2. \A r \in RunId : IsReleased(r) => IsReleased(r)'
  BY <1>1 DEF IsReleased
<1>3. /\ phase' = phase /\ candidates' = candidates /\ todo' = todo /\ heldReviews' = heldReviews
      /\ results' = results /\ failed' = failed /\ digest' = digest
      /\ Done' = Done /\ Candidate' = Candidate
  BY DEF sweep, Done, Candidate
<1>4. MemoryInv' /\ OrderInv' /\ ReviewInv'
  BY <1>1, <1>3 DEF IInv, MemoryInv, OrderInv, ReviewInv
<1>5. ReleaseInv'
  <2>1. phase \in {"purge", "warn"} => Candidate \in RunId
    BY CandidateIsFirst DEF IInv, MemoryInv, Working
  <2>2. candidates \subseteq RunId
    BY DEF IInv, MemoryInv
  <2> QED
    BY <1>2, <1>3, <2>1, <2>2 DEF IInv, ReleaseInv
<1> QED
  BY <1>4, <1>5 DEF IInv

LEMMA OthersPreserve == ASSUME IInv, Others PROVE IInv'
<1>1. UNCHANGED sweep
  BY DEF Others, Fetch, Replay, Complete, PublishElsewhere, ReplayFails, ReplayEnds, Rollback
<1>2. events' = events \/ \E r \in RunId : events' = Append(events, r)
  BY DEF Others, Fetch, Replay, Complete, PublishElsewhere, Release, ReplayFails, ReplayEnds, Rollback
<1> QED
  BY <1>1, <1>2, OthersStep

LEMMA ListStep == ASSUME IInv, NEW since \in RunId, List(since) PROVE IInv'
<1>1. /\ phase' = "inspect" /\ candidates' \subseteq RunId /\ candidates' # {} /\ todo' = candidates'
      /\ heldReviews' = {} /\ failed' = {} /\ digest' = {} /\ results' = [r \in RunId |-> "none"]
      /\ events' = events
  BY DEF List, FindUnpublishedCompleteRuns, NoReviews, tables
<1> QED
  BY <1>1 DEF IInv, MemoryInv, OrderInv, ReleaseInv, ReviewInv, Done, Phase, Working, Result

\* The step that reports a candidate, with the reviews it leaves.
LEMMA ReportStep ==
    ASSUME IInv, NEW action \in {"published", "skipped_review", "publish_failed", "error"}, NEW ok \in BOOLEAN,
           NEW reviews \in SUBSET RunId, Report(Candidate, action, ok, reviews), phase \in Working,
           action = "published" => IsReleased(Candidate) /\ reviews = {},
           action = "skipped_review" => reviews = heldReviews \cup {Candidate},
           action \in {"publish_failed", "error"} => reviews = heldReviews /\ ~ok
    PROVE  IInv'
<1> DEFINE c == Candidate
<1>1. /\ c \in todo /\ c \in RunId /\ c \notin Done /\ \A d \in todo : d # c => c < d
  <2>1. Candidate \in todo /\ \A d \in todo : Candidate <= d
    BY CandidateIsFirst DEF IInv
  <2>2. todo \subseteq Nat /\ todo \subseteq RunId
    BY DEF IInv, MemoryInv, RunId
  <2>3. Candidate \notin Done
    BY <2>1 DEF Done
  <2> HIDE DEF c
  <2>4. \A d \in todo : d # Candidate => Candidate < d
    BY <2>1, <2>2
  <2> QED
    BY <2>1, <2>2, <2>3, <2>4 DEF c
<1>2. /\ results' = [results EXCEPT ![c] = action]
      /\ failed' = IF ok THEN failed ELSE failed \cup {c}
      /\ heldReviews' = reviews /\ todo' = todo \ {c}
      /\ phase' = IF todo' # {} THEN "inspect" ELSE IF reviews # {} THEN "digest" ELSE "done"
      /\ events' = events /\ candidates' = candidates /\ digest' = digest
  BY DEF Report, tables
<1>3. Done' = Done \cup {c} /\ Done \subseteq RunId /\ Done \subseteq candidates
  <2>1. todo \subseteq candidates /\ candidates \subseteq RunId
    BY DEF IInv, MemoryInv
  <2>2. c \in todo /\ candidates' = candidates /\ todo' = todo \ {c}
    BY <1>1, <1>2
  <2> HIDE DEF c
  <2> QED
    BY <2>1, <2>2 DEF Done
<1>4. /\ c \in candidates /\ results[c] = "none" /\ results'[c] = action
      /\ \A d \in candidates : d # c => results'[d] = results[d]
      /\ \A d \in Done : d # c /\ d < c
      /\ \A d \in candidates : d > c => d \in todo /\ results[d] = "none"
  BY <1>1, <1>2 DEF IInv, MemoryInv, OrderInv, Done, RunId
<1>5. MemoryInv'
  <2>1. failed' \subseteq Done' /\ heldReviews' \subseteq Done' /\ digest' = {}
    BY <1>1, <1>2, <1>3 DEF IInv, MemoryInv, Working
  <2>2. phase' \in Phase /\ (todo' # {} <=> phase' \in Working) /\ todo' \subseteq candidates'
    BY <1>2 DEF Phase, Working, IInv, MemoryInv
  <2>3. results' \in [RunId -> Result]
    BY <1>1, <1>2 DEF IInv, MemoryInv, Result
  <2> QED
    BY <1>2, <2>1, <2>2, <2>3 DEF IInv, MemoryInv
<1>6. OrderInv'
  BY <1>1, <1>2, <1>3, <1>4 DEF IInv, MemoryInv, OrderInv
<1>7. ReleaseInv'
  <2>1. \A r : IsReleased(r)' <=> IsReleased(r)
    BY <1>2 DEF IsReleased
  <2>2. phase' \notin {"purge", "warn"}
    BY <1>2
  <2> QED
    BY <1>2, <1>4, <2>1, <2>2 DEF IInv, ReleaseInv
<1>8. ReviewInv'
  <2>1. \A r \in heldReviews' : results'[r] = "skipped_review"
    BY <1>2, <1>3, <1>4 DEF IInv, MemoryInv, ReviewInv
  <2>2. \A r \in heldReviews', d \in candidates' : d > r => results'[d] # "published"
    BY <1>2, <1>3, <1>4 DEF IInv, MemoryInv, ReviewInv
  <2>3. ASSUME NEW r \in Done'
        PROVE  \/ results'[r] = "published"
               \/ r \in failed' \cup heldReviews'
               \/ results'[r] = "skipped_review" /\ \E d \in candidates' : d > r /\ results'[d] = "published"
    <3>1. CASE r = c
      BY <3>1, <1>2, <1>4
    <3>2. CASE r \in heldReviews /\ action = "published"
      BY <3>2, <1>2, <1>3, <1>4 DEF IInv, MemoryInv, ReviewInv, RunId
    <3>3. CASE r # c /\ ~(r \in heldReviews /\ action = "published")
      BY <3>3, <1>2, <1>3, <1>4 DEF IInv, ReviewInv
    <3> QED
      BY <3>1, <3>2, <3>3
  <2>4. phase' = "done" => heldReviews' \subseteq failed' \cup digest'
    BY <1>2
  <2> QED
    BY <2>1, <2>2, <2>3, <2>4 DEF ReviewInv
<1> QED
  BY <1>5, <1>6, <1>7, <1>8 DEF IInv

\* The steps between an inspection and a report change the phase only, and never
\* into one that promises a release without there being one.
LEMMA PhaseStep ==
    ASSUME IInv, NEW step \in Working, phase \in Working, Goto(step),
           events' = events \/ events' = Append(events, Candidate),
           step \in {"purge", "warn"} => IsReleased(Candidate)'
    PROVE  IInv'
<1>1. /\ phase' = step /\ candidates' = candidates /\ todo' = todo /\ heldReviews' = heldReviews
      /\ results' = results /\ failed' = failed /\ digest' = digest
      /\ Done' = Done /\ Candidate' = Candidate
  BY DEF Goto, Done, Candidate
<1>2. Candidate \in RunId
  BY CandidateIsFirst DEF IInv, MemoryInv
<1>3. events' \in Seq(RunId) /\ ToSet(events) \subseteq ToSet(events')
  <2>1. events \in Seq(RunId)
    BY DEF IInv, MemoryInv
  <2>2. CASE events' = events
    BY <2>1, <2>2
  <2>3. CASE events' = Append(events, Candidate)
    BY <1>2, <2>1, <2>3, AppendReleases
  <2> QED
    BY <2>2, <2>3
<1>4. MemoryInv' /\ OrderInv' /\ ReviewInv'
  BY <1>1, <1>3 DEF IInv, MemoryInv, OrderInv, ReviewInv, Working, Phase
<1>5. ReleaseInv'
  BY <1>1, <1>3 DEF IInv, ReleaseInv, IsReleased
<1> QED
  BY <1>4, <1>5 DEF IInv

LEMMA GateStep == ASSUME IInv, GateCandidate \/ InspectFails PROVE IInv'
<1>1. phase = "inspect" /\ phase \in Working /\ Candidate \in RunId
  BY CandidateIsFirst DEF GateCandidate, InspectFails, Working, IInv, MemoryInv
<1>2. CASE GateCandidate /\ Gate(Candidate) = "publish"
  BY <1>1, <1>2, PhaseStep DEF GateCandidate, Goto, Working, tables
<1>3. CASE GateCandidate /\ Gate(Candidate) # "publish"
  <2>1. heldReviews \cup {Candidate} \in SUBSET RunId
    BY <1>1 DEF IInv, MemoryInv, Done
  <2> QED
    BY <1>1, <1>3, <2>1, ReportStep DEF GateCandidate
<1>4. CASE InspectFails
  <2>1. heldReviews \in SUBSET RunId
    BY DEF IInv, MemoryInv, Done
  <2> QED
    BY <1>1, <1>4, <2>1, ReportStep DEF InspectFails
<1> QED
  BY <1>2, <1>3, <1>4

LEMMA PublishStep == ASSUME IInv, InspectBeforePublish \/ PublishThrows \/ CommitPublish PROVE IInv'
<1>1. CASE InspectBeforePublish \/ PublishThrows
  BY <1>1, PhaseStep DEF InspectBeforePublish, PublishThrows, Goto, Working, tables
<1>2. CASE CommitPublish
  <2>1. phase \in Working /\ Candidate \in RunId /\ events' = Append(events, Candidate)
    BY <1>2, CandidateIsFirst DEF CommitPublish, Release, Working, IInv, MemoryInv
  <2>2. PICK step \in {"purge", "confirm"} : Goto(step)
    BY <1>2 DEF CommitPublish
  <2>3. IsReleased(Candidate)'
    BY <2>1, <2>2, AppendReleases DEF IsReleased, IInv, MemoryInv, Goto, Candidate
  <2> QED
    BY <2>1, <2>2, <2>3, PhaseStep DEF Working
<1> QED
  BY <1>1, <1>2

LEMMA ConfirmStep == ASSUME IInv, ConfirmPublished \/ ConfirmNotPublished PROVE IInv'
<1>1. CASE ConfirmPublished
  <2>1. Last(events) \in ToSet(events)
    BY <1>1 DEF ConfirmPublished, HasPublishedRun, IInv, MemoryInv, ToSet, Last
  <2>2. IsReleased(Candidate)'
    BY <1>1, <2>1 DEF ConfirmPublished, HasPublishedRun, IsReleased, Goto, Candidate, tables
  <2> QED
    BY <1>1, <2>2, PhaseStep DEF ConfirmPublished, Working, tables
<1>2. CASE ConfirmNotPublished
  BY <1>2, PhaseStep DEF ConfirmNotPublished, Working, tables
<1> QED
  BY <1>1, <1>2

LEMMA ReportingStep == ASSUME IInv, PurgeSucceeds \/ Warn \/ Alarm PROVE IInv'
<1>1. phase \in {"purge", "warn", "alarm"} /\ phase \in Working /\ heldReviews \in SUBSET RunId
  BY DEF PurgeSucceeds, Warn, Alarm, Working, IInv, MemoryInv, Done
<1>2. CASE PurgeSucceeds \/ Warn
  <2>1. PICK ok \in BOOLEAN : Report(Candidate, "published", ok, {})
    BY <1>2 DEF PurgeSucceeds, Warn, ReportPublished, ReviewsSuperseded
  <2>2. IsReleased(Candidate)
    BY <1>2 DEF PurgeSucceeds, Warn, IInv, ReleaseInv
  <2> QED
    BY <1>1, <2>1, <2>2, ReportStep
<1>3. CASE Alarm
  <2>1. PICK action \in {"publish_failed", "error"} : Report(Candidate, action, FALSE, heldReviews)
    BY <1>3 DEF Alarm
  <2> QED
    BY <1>1, <2>1, ReportStep
<1> QED
  BY <1>2, <1>3

LEMMA EndStep == ASSUME IInv, SendDigest \/ Crash PROVE IInv'
<1>1. CASE SendDigest
  <2>1. /\ phase = "digest" /\ phase' = "done" /\ events' = events /\ candidates' = candidates /\ todo' = todo
        /\ heldReviews' = heldReviews /\ results' = results /\ Done' = Done
        /\ \E delivered \in BOOLEAN :
              /\ digest' = IF delivered THEN heldReviews ELSE {}
              /\ failed' = IF delivered THEN failed ELSE failed \cup heldReviews
    BY <1>1 DEF SendDigest, FailedAfterDigest, tables, Done
  <2>2. failed' \subseteq Done /\ failed \subseteq failed' /\ heldReviews \subseteq failed' \cup digest'
        /\ digest' \subseteq heldReviews
    BY <2>1 DEF IInv, MemoryInv
  <2> QED
    BY <2>1, <2>2 DEF IInv, MemoryInv, OrderInv, ReleaseInv, ReviewInv, IsReleased, Phase, Working
<1>2. CASE Crash
  BY <1>2 DEF Crash, tables, IInv, MemoryInv, OrderInv, ReleaseInv, ReviewInv, Done, Phase, Working, Result
<1> QED
  BY <1>1, <1>2

LEMMA NextIInv == IInv /\ [Next]_vars => IInv'
<1> SUFFICES ASSUME IInv, [Next]_vars PROVE IInv'
  OBVIOUS
<1>1. ASSUME UNCHANGED vars PROVE IInv'
  BY <1>1, OthersStep DEF vars, tables
<1> QED
  BY <1>1, OthersPreserve, ListStep, GateStep, PublishStep, ConfirmStep, ReportingStep, EndStep DEF Next, Sweep

\* The order of the sweep and what it remembers, for any number of runs.
THEOREM InductiveInvariant == Spec => []IInv
BY InitIInv, NextIInv, PTL DEF Spec

\* A candidate reported as published is in the history, whatever threw or was lost.
THEOREM ReportsAreTrue == Spec => []ReportedPublishedIsReleased
<1>1. IInv => ReportedPublishedIsReleased
  BY DEF IInv, ReleaseInv, ReportedPublishedIsReleased
<1> QED
  BY <1>1, InductiveInvariant, PTL

\* A sweep that ends has published, announced, superseded or failed all it listed.
THEOREM CandidatesAccountedFor == Spec => []EveryCandidateIsAccountedFor
<1>1. IInv => EveryCandidateIsAccountedFor
  <2> SUFFICES ASSUME IInv, phase = "done", NEW c \in candidates
               PROVE  \/ results[c] = "published" /\ IsReleased(c)
                      \/ c \in failed \cup digest
                      \/ results[c] = "skipped_review" /\ \E d \in candidates : d > c /\ results[d] = "published"
    BY DEF EveryCandidateIsAccountedFor
  <2>1. c \in Done
    BY DEF IInv, MemoryInv, Done, Working
  <2> QED
    BY <2>1 DEF IInv, ReviewInv, ReleaseInv
<1> QED
  BY <1>1, InductiveInvariant, PTL

\* The digest names no review that a newer publication of the sweep superseded.
THEOREM DigestCurrent == Spec => []DigestIsCurrent
<1>1. IInv => DigestIsCurrent
  BY DEF IInv, MemoryInv, ReviewInv, DigestIsCurrent
<1> QED
  BY <1>1, InductiveInvariant, PTL

-----------------------------------------------------------------------------
(* The size of a sweep's steps *)

Reported == {c \in candidates : results[c] = "published"}

\* What the gate knows of a run that was fetched is what it will always know of it.
TablesInv ==
    /\ DOMAIN status = RunId /\ DOMAIN quality = RunId /\ DOMAIN trend = RunId
    /\ pending \in [RunId -> Counts \cup {Missing}]
    /\ \A c \in candidates : status[c] # "absent"

\* The baseline handed on is the count last reported; a publication under way has
\* passed the gate, and would pass it now.
PassedInv ==
    /\ override = IF Reported = {} THEN Missing ELSE pending[Max(Reported)]
    /\ phase \in {"publish", "commit"} => Gate(Candidate) = "publish"

StepInv == TablesInv /\ PassedInv

LEMMA NothingToSort == Positive(<<>>) = <<>>
<1>1. {i \in DOMAIN <<>> : <<>>[i] > 0} = {} /\ Cardinality({}) = 0
  BY FS_EmptySet
<1>2. PICK order : order = Ascending({}, <<>>)
  OBVIOUS
<1>3. PICK ranks : ranks = [k \in 1 .. 0 |-> CHOOSE x \in {} : Cardinality(Below(x, {}, ByValue({}, <<>>))) = k - 1]
  OBVIOUS
<1>4. order = SubSeq(ranks, 1, 0)
  BY <1>1, <1>2, <1>3 DEF Ascending, Ranked
<1>5. order \in Seq({}) /\ Len(order) = 0
  <2>1. ranks = [k \in 1 .. 0 |-> ranks[k]] /\ 0 \in Nat
    BY <1>3
  <2>2. SubSeq(ranks, 1, 0) = ranks /\ Len(ranks) = 0
    BY <2>1, WholeList
  <2>3. ranks \in [1 .. 0 -> {}]
    BY <2>1
  <2> QED
    BY <1>4, <2>2, <2>3
<1>6. DOMAIN order = {}
  BY <1>5, LenProperties
<1> QED
  BY <1>1, <1>2, <1>6 DEF Positive

\* A candidate gated against one count that publishes is near it, if it is a count.
LEMMA GatedAgainstOne ==
    ASSUME NEW state, NEW count \in Int, NEW previous \in Int, previous > 0,
           Decision(state, count, previous, <<>>) = "publish"
    PROVE  ~Far(count, previous)
<1>1. SelectBaseline(<<>>, previous) = 2 * previous
  BY NothingToSort DEF SelectBaseline
<1>2. 2 * previous > 0
  OBVIOUS
<1> QED
  BY <1>1, <1>2 DEF Decision, Far

\* No step changes what the gate reads of a run, once there is one.
TablesStay ==
    /\ DOMAIN status' = RunId /\ DOMAIN quality' = RunId /\ DOMAIN trend' = RunId
    /\ pending' \in [RunId -> Counts \cup {Missing}]
    /\ \A c \in RunId : status[c] # "absent" =>
         /\ status'[c] # "absent"
         /\ quality'[c] = quality[c] /\ pending'[c] = pending[c] /\ trend'[c] = trend[c]

LEMMA OthersKeepTables == ASSUME StepInv, Others PROVE TablesStay
<1>1. /\ DOMAIN status = RunId /\ DOMAIN quality = RunId /\ DOMAIN trend = RunId
      /\ pending \in [RunId -> Counts \cup {Missing}]
  BY DEF StepInv, TablesInv
<1>2. ASSUME NEW r \in RunId, NEW bundle, NEW count \in Counts \cup {Missing}, NEW state, Complete(r, bundle, count, state)
      PROVE  TablesStay
  <2>1. status[r] = "absent"
    BY <1>2 DEF Complete, Fresh
  <2> QED
    BY <1>1, <1>2, <2>1 DEF Complete, TablesStay
<1>3. ASSUME NEW r \in RunId, NEW state, state # "absent", status' = [status EXCEPT ![r] = state],
             UNCHANGED <<quality, pending, trend>>
      PROVE  TablesStay
  BY <1>1, <1>3 DEF TablesStay
<1>4. ASSUME NEW r \in RunId, Fetch(r) PROVE TablesStay
  BY <1>2, <1>4 DEF Fetch
<1>5. ASSUME NEW r \in RunId, NEW source \in RunId, Replay(r, source) PROVE TablesStay
  <2>1. pending[source] \in Counts \cup {Missing}
    BY <1>1
  <2> QED
    BY <1>2, <1>5, <2>1 DEF Replay
<1>6. ASSUME NEW r \in RunId, PublishElsewhere(r) PROVE TablesStay
  BY <1>3, <1>6 DEF PublishElsewhere, Release
<1>7. ASSUME NEW r \in RunId, ReplayFails(r) PROVE TablesStay
  BY <1>3, <1>7 DEF ReplayFails
<1>8. ASSUME UNCHANGED <<status, quality, pending, trend>> PROVE TablesStay
  BY <1>1, <1>8 DEF TablesStay
<1> QED
  BY <1>4, <1>5, <1>6, <1>7, <1>8 DEF Others, Rollback, ReplayEnds

LEMMA SweepKeepsTables ==
    ASSUME IInv, StepInv, UNCHANGED tables \/ CommitPublish
    PROVE  TablesStay
<1>1. CASE UNCHANGED tables
  BY <1>1 DEF tables, StepInv, TablesInv, TablesStay
<1>2. CASE CommitPublish
  <2>1. Candidate \in RunId
    BY <1>2, CandidateIsFirst DEF CommitPublish, IInv, MemoryInv, Working
  <2> QED
    BY <1>2, <2>1 DEF CommitPublish, Release, StepInv, TablesInv, TablesStay
<1> QED
  BY <1>1, <1>2

\* A step that reports no publication: the baseline stays, and a publication that
\* goes on, or begins, is of a candidate that passed the gate.
LEMMA BaselineStays ==
    ASSUME IInv, StepInv, TablesStay, UNCHANGED <<candidates, override>>, Reported' = Reported,
           phase' \in {"publish", "commit"} => todo' = todo /\ phase \in Working /\ Gate(Candidate) = "publish"
    PROVE  StepInv'
<1>1. candidates \subseteq RunId /\ \A c \in candidates : status[c] # "absent"
  BY DEF StepInv, TablesInv, IInv, MemoryInv
<1>2. TablesInv'
  BY <1>1 DEF TablesStay, TablesInv
<1>3. ASSUME Reported # {} PROVE pending'[Max(Reported)] = pending[Max(Reported)]
  <2>1. Reported \subseteq candidates
    BY DEF Reported
  <2>2. Max(Reported) \in Reported
    BY <1>1, <1>3, <2>1, GreatestIsMember
  <2> QED
    BY <1>1, <2>1, <2>2 DEF TablesStay
<1>4. ASSUME phase' \in {"publish", "commit"} PROVE Gate(Candidate)' = "publish"
  <2>1. Candidate' = Candidate
    BY <1>4 DEF Candidate
  <2>2. Candidate \in candidates
    BY <1>4, CandidateIsFirst DEF IInv, MemoryInv
  <2>3. Gate(Candidate)' = Gate(Candidate)
    BY <1>1, <2>1, <2>2 DEF Gate, GateInputs, FetchedInputs, TablesStay
  <2> QED
    BY <1>4, <2>3
<1> QED
  BY <1>2, <1>3, <1>4 DEF StepInv, PassedInv

LEMMA ReportKeepsBaseline ==
    ASSUME IInv, StepInv, phase \in Working, NEW action, action # "published", NEW ok, NEW reviews,
           Report(Candidate, action, ok, reviews), UNCHANGED override
    PROVE  StepInv'
<1>1. Candidate \in todo /\ results[Candidate] = "none" /\ results \in [RunId -> Result] /\ candidates \subseteq RunId
  BY CandidateIsFirst DEF IInv, OrderInv, MemoryInv
<1>2. /\ results' = [results EXCEPT ![Candidate] = action] /\ candidates' = candidates /\ UNCHANGED tables
      /\ phase' \in {"inspect", "digest", "done"}
  BY DEF Report
<1>3. Reported' = Reported
  BY <1>1, <1>2 DEF Reported
<1> QED
  BY <1>2, <1>3, SweepKeepsTables, BaselineStays

\* A reported publication is the newest one, and its count is the next baseline.
LEMMA ReportPublishedStep ==
    ASSUME IInv, StepInv, phase \in Working, NEW ok, ReportPublished(ok)
    PROVE  StepInv'
<1>1. PICK c : c = Candidate
  OBVIOUS
<1>2. /\ c \in todo /\ c \in candidates /\ c \in RunId /\ \A d \in Done : d < c
      /\ \A d \in todo : results[d] = "none"
  BY <1>1, CandidateIsFirst DEF IInv, OrderInv, MemoryInv
<1>3. /\ results' = [results EXCEPT ![c] = "published"] /\ candidates' = candidates /\ UNCHANGED tables
      /\ phase' \in {"inspect", "digest", "done"} /\ override' = pending[c]
  BY <1>1 DEF ReportPublished, Report
<1>4. results \in [RunId -> Result] /\ candidates \subseteq RunId
  BY DEF IInv, MemoryInv
<1>5. Reported' = Reported \cup {c} /\ Reported \subseteq Done
  BY <1>2, <1>3, <1>4 DEF Reported, Done
<1>6. PICK reported : reported = Reported \cup {c}
  OBVIOUS
<1>7. Max(reported) \in reported /\ \A k \in reported : k <= Max(reported)
  <2>1. reported \in SUBSET RunId /\ reported # {}
    BY <1>2, <1>4, <1>6 DEF Reported
  <2> QED
    BY <2>1, GreatestIsMember
<1>8. Max(reported) = c
  <2>1. c <= Max(reported) /\ (Max(reported) = c \/ Max(reported) < c)
    BY <1>2, <1>5, <1>6, <1>7
  <2>2. Max(reported) \in Nat /\ c \in Nat
    <3>1. Reported \subseteq RunId
      BY <1>4 DEF Reported
    <3>2. reported \subseteq RunId
      BY <1>2, <1>6, <3>1
    <3>3. Max(reported) \in RunId /\ c \in RunId
      BY <1>2, <1>7, <3>2
    <3>4. RunId \subseteq Nat
      BY DEF RunId
    <3> QED
      BY <3>3, <3>4
  <2> QED
    BY <2>1, <2>2
<1>9. TablesInv'
  BY <1>3, SweepKeepsTables DEF TablesStay, TablesInv, StepInv, IInv, MemoryInv
<1>10. Reported' # {} /\ Max(Reported') = c /\ pending' = pending
  BY <1>3, <1>5, <1>6, <1>8 DEF tables
<1> QED
  BY <1>3, <1>9, <1>10 DEF StepInv, PassedInv

LEMMA InitStepInv == Init => StepInv
BY DEF Init, StepInv, TablesInv, PassedInv, Reported

\* A sweep begins, or dies: nothing is reported, and there is no baseline.
LEMMA EmptyHanded ==
    ASSUME IInv, StepInv, UNCHANGED tables, override' = Missing, results' = [r \in RunId |-> "none"],
           candidates' \subseteq {r \in RunId : status[r] # "absent"}, phase' \notin {"publish", "commit"}
    PROVE  StepInv'
<1>1. Reported' = {}
  BY DEF Reported
<1>2. TablesInv'
  BY DEF StepInv, TablesInv, tables
<1> QED
  BY <1>1, <1>2 DEF StepInv, PassedInv

LEMMA NextStepInv == IInv /\ StepInv /\ [Next]_vars => StepInv'
<1> SUFFICES ASSUME IInv, StepInv, [Next]_vars PROVE StepInv'
  OBVIOUS
<1>1. ASSUME UNCHANGED sweep, TablesStay PROVE StepInv'
  <2>1. UNCHANGED <<phase, candidates, todo, override, results>>
    BY <1>1 DEF sweep
  <2>2. Reported' = Reported
    BY <2>1 DEF Reported
  <2> QED
    BY <1>1, <2>1, <2>2, BaselineStays DEF StepInv, PassedInv, Working
<1>2. CASE Others
  <2>1. UNCHANGED sweep
    BY <1>2 DEF Others, Fetch, Replay, Complete, PublishElsewhere, ReplayFails, ReplayEnds, Rollback
  <2> QED
    BY <1>1, <1>2, <2>1, OthersKeepTables
<1>3. CASE UNCHANGED vars
  BY <1>1, <1>3, SweepKeepsTables DEF vars
<1>4. ASSUME NEW since \in RunId, List(since) PROVE StepInv'
  <2>1. candidates' \subseteq {r \in RunId : status[r] # "absent"}
    BY <1>4 DEF List, FindUnpublishedCompleteRuns
  <2> QED
    BY <1>4, <2>1, EmptyHanded DEF List
<1>5. CASE Crash
  BY <1>5, EmptyHanded DEF Crash
<1>6. ASSUME NEW step, Goto(step), UNCHANGED tables \/ CommitPublish,
             step \in {"publish", "commit"} => phase \in Working /\ Gate(Candidate) = "publish"
      PROVE  StepInv'
  <2>1. TablesStay
    BY <1>6, SweepKeepsTables
  <2>2. phase' = step /\ UNCHANGED <<candidates, todo, override, results>>
    BY <1>6 DEF Goto
  <2>3. Reported' = Reported
    BY <2>2 DEF Reported
  <2> QED
    BY <1>6, <2>1, <2>2, <2>3, BaselineStays
<1>7. CASE GateCandidate
  <2>1. phase \in Working
    BY <1>7 DEF GateCandidate, Working
  <2>2. CASE Gate(Candidate) = "publish"
    BY <1>6, <1>7, <2>1, <2>2 DEF GateCandidate, Goto
  <2>3. CASE Gate(Candidate) # "publish"
    BY <1>7, <2>1, <2>3, ReportKeepsBaseline DEF GateCandidate
  <2> QED
    BY <2>2, <2>3
<1>8. CASE InspectFails \/ Alarm
  BY <1>8, ReportKeepsBaseline DEF InspectFails, Alarm, Working
<1>9. CASE InspectBeforePublish
  <2>1. phase \in Working /\ Gate(Candidate) = "publish"
    BY <1>9 DEF InspectBeforePublish, StepInv, PassedInv, Working
  <2> QED
    BY <1>6, <1>9, <2>1 DEF InspectBeforePublish
<1>10. CASE PublishThrows \/ ConfirmPublished \/ ConfirmNotPublished
  BY <1>6, <1>10 DEF PublishThrows, ConfirmPublished, ConfirmNotPublished
<1>11. CASE CommitPublish
  <2>1. Goto("purge") \/ Goto("confirm")
    BY <1>11 DEF CommitPublish
  <2> QED
    BY <1>6, <1>11, <2>1
<1>12. CASE PurgeSucceeds \/ Warn
  BY <1>12, ReportPublishedStep DEF PurgeSucceeds, Warn, Working
<1>13. CASE SendDigest
  <2>1. phase' = "done" /\ UNCHANGED tables /\ UNCHANGED <<candidates, todo, override, results>>
    BY <1>13 DEF SendDigest
  <2>2. Reported' = Reported
    BY <2>1 DEF Reported
  <2> QED
    BY <2>1, <2>2, SweepKeepsTables, BaselineStays
<1> QED
  BY <1>2, <1>3, <1>4, <1>5, <1>7, <1>8, <1>9, <1>10, <1>11, <1>12, <1>13 DEF Next, Sweep

\* Whatever others do between the sweep's awaits, and whatever throws: what a sweep
\* releases is within a fifth of the count it reported last, if that was a count.
THEOREM SweepsTakeSmallSteps == Spec => SweepStepsAreSmall
<1>1. ASSUME IInv, StepInv, [Next]_vars, committed' # committed, committed' # NoRun,
             Reported # {}, pending[Max(Reported)] > 0
      PROVE  ~Far(pending[committed'], pending[Max(Reported)])
  <2>1. CommitPublish
    BY <1>1 DEF Next, Sweep, Others, Fetch, Replay, Complete, PublishElsewhere, ReplayFails, ReplayEnds, Rollback, sweep,
                vars, List, GateCandidate, InspectFails, Report, InspectBeforePublish, PublishThrows, PurgeSucceeds,
                ReportPublished, ConfirmPublished, ConfirmNotPublished, Warn, Alarm, SendDigest, Crash
  <2>2. committed' = Candidate /\ Gate(Candidate) = "publish" /\ override = pending[Max(Reported)]
    BY <1>1, <2>1 DEF CommitPublish, StepInv, PassedInv
  <2>3. Candidate \in RunId
    BY <1>1, <2>1, CandidateIsFirst DEF CommitPublish, IInv, MemoryInv, Working
  <2>4. Max(Reported) \in RunId
    BY <1>1, GreatestIsMember DEF Reported, IInv, MemoryInv
  <2>5. pending[Candidate] \in Int /\ pending[Max(Reported)] \in Int /\ override # Missing
    <3>1. pending \in [RunId -> Counts \cup {Missing}]
      BY <1>1 DEF StepInv, TablesInv
    <3>2. Counts \cup {Missing} \subseteq Int
      BY SweepAssumption DEF Missing
    <3>3. ~(Missing > 0)
      BY DEF Missing
    <3> QED
      BY <1>1, <2>2, <2>3, <2>4, <3>1, <3>2, <3>3
  <2>6. Decision(quality[Candidate], pending[Candidate], override, <<>>) = "publish"
    BY <2>2, <2>5 DEF Gate, GateInputs
  <2> QED
    BY <1>1, <2>2, <2>5, <2>6, GatedAgainstOne
<1>2. IInv /\ StepInv /\ [Next]_vars =>
        [committed' # committed /\ committed' # NoRun =>
          LET before == {d \in candidates : results[d] = "published"}
          IN  before # {} /\ pending[Max(before)] > 0
                  => ~Far(pending[committed'], pending[Max(before)])]_vars
  BY <1>1 DEF Reported
<1>3. Spec => []IInv /\ []StepInv
  BY InitIInv, NextIInv, InitStepInv, NextStepInv, PTL DEF Spec
<1> QED
  BY <1>2, <1>3, PTL DEF Spec, SweepStepsAreSmall

=============================================================================
