------------------------- MODULE DailyOperationsProofs -------------------------
(***************************************************************************)
(* What holds of every number of scopes and days, of every threshold of    *)
(* the watchdog and every lookback of the sweep: no scope goes stale       *)
(* unnoticed, and no run lapses unannounced before that many sweeps        *)
(* missed it.                                                              *)
(***************************************************************************)
EXTENDS DailyOperations, TLAPS

\* A fetch is of the scope its task is at, and ends on the day it started: the
\* watchdog, which ends a day, waits for the task.
FlightInv ==
    /\ now >= 2
    /\ inFlight # Never =>
          task.pc = "running" /\ task.at \in Scope /\ inFlight <= now /\ Day(inFlight) = Day(now)

\* Sweeps held since the day after a run was created.
SweepsSince(r) == IF Morning(now) THEN Day(now) - Day(r) - 1 ELSE Day(now) - Day(r)
NextSweep == IF Morning(now) THEN now ELSE now + 1

\* A run nobody announced can still be listed, and was missed by every sweep so far.
LookbackInv ==
    Lookback > 1 => \A s \in Scope : \A r \in open[s] \ announced[s] :
        InLookback(r, NextSweep) /\ unswept[s] >= SweepsSince(r)

\* A scope that gave no cause for an alert was fetched no earlier than the first one.
KeepsUpWithAnchor == \A s \in Scope \ alerted : LastSign(s) >= latest[Anchor].completed
AnchorFetched == task.pc = "running" /\ task.at > Anchor /\ Anchor \notin task.failed
AlertInv ==
    /\ \A s \in Scope : latest[s].completed <= latest[s].measured /\ latest[s].completed <= Day(now)
    /\ ~AnchorFetched => KeepsUpWithAnchor
    /\ task.pc = "running" =>
          /\ Day(now) <= MaxDays
          /\ \A s \in task.failed : s < task.at
          /\ \A s \in Scope : s < task.at => s \in task.failed \/ latest[s].completed = Day(now)

IInv == TypeOK /\ FlightInv /\ LookbackInv /\ AlertInv

-----------------------------------------------------------------------------

LEMMA ConstantsAreNaturals ==
    /\ Scopes \in Nat /\ Scopes > 0 /\ LagDays \in Nat /\ LagDays > 0
    /\ ReportLagDays \in Nat /\ ReportLagDays <= LagDays /\ Public \subseteq Scope
    /\ Lookback \in Nat /\ Lookback > 0 /\ MaxDays \in Nat /\ MaxDays > 0 /\ MaxChanges \in Nat
    /\ Anchor = 1 /\ Anchor \in Scope /\ Never = 0 /\ Never \in Time
    /\ \A s \in Scope : s \in Nat /\ 1 <= s /\ s <= Scopes
    /\ \A s \in 1..Scopes + 1 : s <= Scopes => s \in Scope
BY DailyAssumption DEF Anchor, Never, Scope, Time

\* The halves of a day.
LEMMA Halves ==
    ASSUME NEW t \in Nat
    PROVE  /\ Day(t) \in Nat /\ Morning(t) \in BOOLEAN
           /\ t = IF Morning(t) THEN 2 * Day(t) ELSE 2 * Day(t) + 1
           /\ Morning(t + 1) = ~Morning(t)
           /\ Day(t + 1) = IF Morning(t) THEN Day(t) ELSE Day(t) + 1
BY DEF Day, Morning

LEMMA Clock ==
    ASSUME TypeOK
    PROVE  /\ now \in Nat /\ Day(now) \in 0..MaxDays + 1 /\ Morning(now) \in BOOLEAN
           /\ now = IF Morning(now) THEN 2 * Day(now) ELSE 2 * Day(now) + 1
BY ConstantsAreNaturals, Halves DEF TypeOK, Time

LEMMA Numbers ==
    ASSUME TypeOK
    PROVE  /\ \A s \in Scope : latest[s].completed \in Nat /\ latest[s].measured \in Nat
           /\ \A s \in Scope : unswept[s] \in Nat /\ \A r \in open[s] : r \in Nat /\ Day(r) \in Nat
           /\ schedule.updated \in Nat /\ task.at \in 1..Scopes + 1 /\ inFlight \in Nat /\ Day(inFlight) \in Nat
BY ConstantsAreNaturals, Halves DEF TypeOK, Time

LEMMA InitIInv == Init => IInv
<1> SUFFICES ASSUME Init PROVE IInv
  OBVIOUS
<1> USE ConstantsAreNaturals DEF Init
<1>1. TypeOK
  BY DEF TypeOK, Idle, NoRun, Time
<1>2. FlightInv /\ LookbackInv
  BY DEF FlightInv, LookbackInv
<1>3. AlertInv
  BY <1>1, Clock DEF AlertInv, KeepsUpWithAnchor, LastSign, Idle, NoRun
<1> QED
  BY <1>1, <1>2, <1>3 DEF IInv

\* Steps that change neither the time nor what was fetched and published.
LEMMA StartTaskStep == ASSUME IInv, StartTask PROVE IInv'
<1> USE ConstantsAreNaturals, Clock, Numbers DEF IInv, StartTask, Idle
<1>1. TypeOK'
  BY DEF TypeOK
<1>2. FlightInv'
  BY DEF FlightInv, TypeOK
<1>3. LookbackInv'
  BY DEF LookbackInv, SweepsSince, NextSweep, InLookback
<1>4. AlertInv'
  BY DEF AlertInv, AnchorFetched, KeepsUpWithAnchor, LastSign
<1> QED
  BY <1>1, <1>2, <1>3, <1>4

LEMMA BeginFetchStep == ASSUME IInv, BeginFetch PROVE IInv'
<1> USE ConstantsAreNaturals, Clock, Numbers DEF IInv, BeginFetch
<1>1. TypeOK'
  BY DEF TypeOK
<1>2. FlightInv'
  BY DEF FlightInv, TypeOK
<1>3. LookbackInv'
  BY DEF LookbackInv, SweepsSince, NextSweep, InLookback
<1>4. AlertInv'
  BY DEF AlertInv, AnchorFetched, KeepsUpWithAnchor, LastSign
<1> QED
  BY <1>1, <1>2, <1>3, <1>4

LEMMA FetchSucceedsStep == ASSUME IInv, NEW complete \in BOOLEAN, FetchSucceeds(complete) PROVE IInv'
<1> DEFINE s == task.at
           run == [created |-> inFlight, completed |-> Day(now), measured |-> Day(now)]
           found == IF complete THEN open[s] \cup {inFlight} ELSE open[s]
<1>1. /\ inFlight # Never
      /\ latest' = [latest EXCEPT ![s] = run]
      /\ newest' = [newest EXCEPT ![s] = IF newest[s].created < inFlight THEN run ELSE newest[s]]
      /\ open' = [open EXCEPT ![s] = found]
      /\ inFlight' = Never
      /\ task' = [task EXCEPT !.at = @ + 1]
      /\ alerted' = alerted \ {s}
      /\ UNCHANGED <<now, schedule, announced, unswept, changes>>
  BY DEF FetchSucceeds
<1>2. TypeOK /\ FlightInv /\ LookbackInv /\ AlertInv
  BY DEF IInv
<1>3. s \in Scope /\ task.pc = "running" /\ inFlight <= now /\ Day(inFlight) = Day(now)
  BY <1>1, <1>2 DEF FlightInv
<1>4. s \in Nat /\ s <= Scopes /\ Day(now) \in 0..MaxDays /\ now \in Nat /\ inFlight \in Time
  BY <1>2, <1>3, ConstantsAreNaturals, Clock DEF AlertInv, TypeOK
<1>5. run \in [created : Time, completed : 0..MaxDays, measured : 0..MaxDays]
  BY <1>4
<1>6. /\ latest'[s] = run /\ run.completed = Day(now) /\ run.measured = Day(now)
      /\ \A u \in Scope : u # s => latest'[u] = latest[u]
      /\ \A u \in Scope : open'[u] \subseteq open[u] \cup {inFlight} /\ open[u] \subseteq open'[u]
      /\ task'.at = s + 1 /\ task'.pc = "running" /\ task'.failed = task.failed
  BY <1>1, <1>2, <1>3 DEF TypeOK
<1> HIDE DEF run, found
<1>7. TypeOK'
  <2>1. open' \in [Scope -> SUBSET Time] /\ \A u \in Scope : announced'[u] \subseteq open'[u]
    BY <1>1, <1>2, <1>4, <1>6 DEF TypeOK, found
  <2>2. latest' \in [Scope -> [created : Time, completed : 0..MaxDays, measured : 0..MaxDays]]
    BY <1>1, <1>2, <1>5 DEF TypeOK
  <2>9. newest' \in [Scope -> [created : Time, completed : 0..MaxDays, measured : 0..MaxDays]]
    BY <1>1, <1>2, <1>3, <1>5 DEF TypeOK
  <2>3. task' \in [pc : {"idle", "running", "ended"}, at : 1..Scopes + 1, failed : SUBSET Scope]
    BY <1>1, <1>2, <1>3, <1>4, ConstantsAreNaturals DEF TypeOK
  <2> QED
    BY <1>1, <1>2, <2>1, <2>2, <2>3, <2>9, ConstantsAreNaturals DEF TypeOK
<1>8. FlightInv'
  BY <1>1, <1>2 DEF FlightInv
<1>9. LookbackInv'
  <2> SUFFICES ASSUME Lookback > 1, NEW u \in Scope, NEW r \in open'[u] \ announced[u]
               PROVE  InLookback(r, NextSweep) /\ unswept[u] >= SweepsSince(r)
    BY <1>1 DEF LookbackInv, SweepsSince, NextSweep, InLookback
  <2>1. CASE r \in open[u]
    BY <2>1, <1>2 DEF LookbackInv
  <2>2. CASE r = inFlight
    <3>0. inFlight \in Nat
      BY <1>2, Numbers
    <3>1. inFlight = IF Morning(inFlight) THEN 2 * Day(now) ELSE 2 * Day(now) + 1
      BY <3>0, <1>3, Halves
    <3>2. unswept[u] \in Nat /\ Lookback \in Nat /\ Lookback > 0 /\ Morning(now) \in BOOLEAN
      BY <1>2, Numbers, ConstantsAreNaturals, Clock
    <3>3. now = IF Morning(now) THEN 2 * Day(now) ELSE 2 * Day(now) + 1
      BY <1>2, Clock
    <3> QED
      BY <2>2, <1>3, <1>4, <3>0, <3>1, <3>2, <3>3 DEF SweepsSince, NextSweep, InLookback
  <2> QED
    BY <2>1, <2>2, <1>6
<1>10. AlertInv'
  <2>1. \A u \in Scope : latest'[u].completed <= latest'[u].measured /\ latest'[u].completed <= Day(now)
    BY <1>2, <1>4, <1>6 DEF AlertInv
  <2>2. ASSUME ~AnchorFetched' PROVE KeepsUpWithAnchor'
    <3>1. Anchor \in task.failed /\ Anchor < s
      BY <2>2, <1>2, <1>3, <1>4, <1>6, ConstantsAreNaturals DEF AnchorFetched, AlertInv
    <3>2. KeepsUpWithAnchor
      BY <1>2, <3>1 DEF AlertInv, AnchorFetched
    <3>3. latest'[s].completed >= latest[Anchor].completed /\ latest'[Anchor] = latest[Anchor]
      BY <1>2, <1>3, <1>4, <1>6, <3>1, ConstantsAreNaturals, Numbers DEF AlertInv
    <3>4. schedule.updated \in Nat /\ latest'[s].completed \in Nat /\ latest[Anchor].completed \in Nat
      BY <1>2, <1>4, <1>6, ConstantsAreNaturals, Numbers
    <3> SUFFICES ASSUME NEW u \in Scope \ alerted' PROVE LastSign(u)' >= latest'[Anchor].completed
      BY DEF KeepsUpWithAnchor
    <3>5. CASE u = s
      BY <3>3, <3>4, <3>5, <1>1 DEF LastSign
    <3>6. CASE u # s
      BY <3>2, <3>3, <3>6, <1>1, <1>6 DEF LastSign, KeepsUpWithAnchor
    <3> QED
      BY <3>5, <3>6
  <2>3. \A u \in task.failed : u < s + 1
    BY <1>2, <1>3, <1>4, ConstantsAreNaturals DEF AlertInv, TypeOK
  <2>4. ASSUME NEW u \in Scope, u < s + 1 PROVE u \in task.failed \/ latest'[u].completed = Day(now)
    BY <2>4, <1>2, <1>3, <1>4, <1>6, ConstantsAreNaturals DEF AlertInv
  <2> QED
    BY <1>1, <1>4, <1>6, <2>1, <2>2, <2>3, <2>4 DEF AlertInv
<1> QED
  BY <1>7, <1>8, <1>9, <1>10 DEF IInv

LEMMA FetchManuallyStep ==
    ASSUME IInv, NEW s \in Scope, NEW complete \in BOOLEAN, FetchManually(s, complete)
    PROVE  IInv'
<1> DEFINE run == [created |-> now, completed |-> Day(now), measured |-> Day(now)]
           found == IF complete THEN open[s] \cup {now} ELSE open[s]
<1>1. /\ Day(now) <= MaxDays /\ changes < MaxChanges /\ changes' = changes + 1
      /\ newest' = [newest EXCEPT ![s] = run]
      /\ open' = [open EXCEPT ![s] = found]
      /\ UNCHANGED <<now, schedule, task, inFlight, latest, announced, unswept, alerted>>
  BY DEF FetchManually
<1>2. TypeOK /\ FlightInv /\ LookbackInv /\ AlertInv
  BY DEF IInv
<1>3. now \in Nat /\ now \in Time /\ Day(now) \in 0..MaxDays
  BY <1>1, <1>2, Clock, ConstantsAreNaturals DEF TypeOK
<1>4. run \in [created : Time, completed : 0..MaxDays, measured : 0..MaxDays]
  BY <1>3
<1>5. \A u \in Scope : open'[u] \subseteq open[u] \cup {now} /\ open[u] \subseteq open'[u]
  BY <1>1, <1>2 DEF TypeOK
<1> HIDE DEF run, found
<1>6. TypeOK'
  <2>1. newest' \in [Scope -> [created : Time, completed : 0..MaxDays, measured : 0..MaxDays]]
    BY <1>1, <1>2, <1>4 DEF TypeOK
  <2>2. open' \in [Scope -> SUBSET Time] /\ \A u \in Scope : announced'[u] \subseteq open'[u]
    BY <1>1, <1>2, <1>3, <1>5 DEF TypeOK, found
  <2>3. changes' \in 0..MaxChanges
    BY <1>1, <1>2, ConstantsAreNaturals DEF TypeOK
  <2> QED
    BY <1>1, <1>2, <2>1, <2>2, <2>3 DEF TypeOK
<1>7. FlightInv'
  BY <1>1, <1>2 DEF FlightInv
<1>8. LookbackInv'
  <2> SUFFICES ASSUME Lookback > 1, NEW u \in Scope, NEW r \in open'[u] \ announced[u]
               PROVE  InLookback(r, NextSweep) /\ unswept[u] >= SweepsSince(r)
    BY <1>1 DEF LookbackInv, SweepsSince, NextSweep, InLookback
  <2>1. CASE r \in open[u]
    BY <2>1, <1>2 DEF LookbackInv
  <2>2. CASE r = now
    <3>1. unswept[u] \in Nat /\ Lookback \in Nat /\ Lookback > 0 /\ Morning(now) \in BOOLEAN /\ Day(now) \in Nat
      BY <1>2, Numbers, ConstantsAreNaturals, Clock
    <3> QED
      BY <2>2, <1>3, <3>1 DEF SweepsSince, NextSweep, InLookback
  <2> QED
    BY <2>1, <2>2, <1>5
<1>9. AlertInv'
  BY <1>1, <1>2 DEF AlertInv, AnchorFetched, KeepsUpWithAnchor, LastSign
<1> QED
  BY <1>6, <1>7, <1>8, <1>9 DEF IInv

LEMMA FetchFailsStep == ASSUME IInv, FetchFails PROVE IInv'
<1> USE DEF FetchFails
<1>1. TypeOK /\ FlightInv /\ LookbackInv /\ AlertInv
  BY DEF IInv
<1>2. task.at \in Scope /\ task.pc = "running" /\ task.at \in Nat /\ task.at <= Scopes
  BY <1>1, ConstantsAreNaturals DEF FlightInv
<1>3. task'.at = task.at + 1 /\ task'.pc = "running" /\ task'.failed = task.failed \cup {task.at}
  BY <1>1, <1>2 DEF TypeOK
<1>4. TypeOK'
  <2>1. task' \in [pc : {"idle", "running", "ended"}, at : 1..Scopes + 1, failed : SUBSET Scope]
    <3>1. task \in [pc : {"idle", "running", "ended"}, at : 1..Scopes + 1, failed : SUBSET Scope]
      BY <1>1 DEF TypeOK
    <3>2. task.at + 1 \in 1..Scopes + 1 /\ task.failed \cup {task.at} \in SUBSET Scope
      BY <1>2, <3>1, ConstantsAreNaturals
    <3> QED
      BY <3>1, <3>2
  <2> QED
    BY <1>1, <2>1, ConstantsAreNaturals DEF TypeOK
<1>5. FlightInv'
  BY <1>1 DEF FlightInv
<1>6. LookbackInv'
  BY <1>1 DEF LookbackInv, SweepsSince, NextSweep, InLookback
<1>7. AlertInv'
  <2>1. ~AnchorFetched' => ~AnchorFetched
    BY <1>2, <1>3, <1>1, ConstantsAreNaturals DEF AnchorFetched, AlertInv
  <2>2. ~AnchorFetched' => KeepsUpWithAnchor'
    BY <2>1, <1>1 DEF AlertInv, KeepsUpWithAnchor, LastSign
  <2>3. \A s \in Scope : s \in Nat
    BY ConstantsAreNaturals
  <2>4. \A s \in task'.failed : s < task'.at
    BY <1>1, <1>2, <1>3, <2>3 DEF AlertInv, TypeOK
  <2>5. \A s \in Scope : s < task'.at => s \in task'.failed \/ latest[s].completed = Day(now)
    BY <1>1, <1>2, <1>3, <2>3 DEF AlertInv
  <2> QED
    BY <1>1, <1>2, <2>2, <2>4, <2>5 DEF AlertInv
<1> QED
  BY <1>4, <1>5, <1>6, <1>7 DEF IInv

LEMMA EndTaskStep == ASSUME IInv, EndTask PROVE IInv'
<1> USE ConstantsAreNaturals, Clock, Numbers DEF IInv, EndTask
<1>1. TypeOK'
  BY DEF TypeOK
<1>2. FlightInv'
  BY DEF FlightInv, TypeOK
<1>3. LookbackInv'
  BY DEF LookbackInv, SweepsSince, NextSweep, InLookback
<1>4. KeepsUpWithAnchor'
  <2>1. CASE task.failed = {}
    <3>1. \A s \in Scope : latest[s].completed = Day(now)
      BY <2>1 DEF AlertInv, TypeOK
    <3> QED
      BY <3>1 DEF KeepsUpWithAnchor, LastSign, TypeOK
  <2>2. CASE task.failed # {}
    BY <2>2 DEF KeepsUpWithAnchor, Alerts
  <2> QED
    BY <2>1, <2>2
<1>5. AlertInv'
  BY <1>4 DEF AlertInv, TypeOK
<1> QED
  BY <1>1, <1>2, <1>3, <1>5

LEMMA TaskDiesStep == ASSUME IInv, TaskDies PROVE IInv'
<1> USE ConstantsAreNaturals, Clock, Numbers DEF IInv, TaskDies
<1>1. TypeOK'
  BY DEF TypeOK
<1>2. FlightInv'
  BY DEF FlightInv
<1>3. LookbackInv'
  BY DEF LookbackInv, SweepsSince, NextSweep, InLookback
<1>4. KeepsUpWithAnchor'
  BY DEF AlertInv, AnchorFetched, KeepsUpWithAnchor, LastSign
<1>5. AlertInv'
  BY <1>4 DEF AlertInv, TypeOK
<1> QED
  BY <1>1, <1>2, <1>3, <1>5

-----------------------------------------------------------------------------
(* Publications and the end of a half-day *)

\* Publishing stamps a run anew, and leaves the rest of it.
LEMMA Stamping ==
    ASSUME TypeOK, Day(now) <= MaxDays, NEW published, NEW s \in Scope
    PROVE  /\ LET run == Stamp(latest[s], published)
              IN  /\ run \in [created : Time, completed : 0..MaxDays, measured : 0..MaxDays]
                  /\ run.completed = latest[s].completed
                  /\ run.measured = latest[s].measured \/ run.measured = Day(now)
           /\ Stamp(newest[s], published) \in
                  [created : Time, completed : 0..MaxDays, measured : 0..MaxDays]
<1>1. /\ latest[s] \in [created : Time, completed : 0..MaxDays, measured : 0..MaxDays]
      /\ newest[s] \in [created : Time, completed : 0..MaxDays, measured : 0..MaxDays]
  BY DEF TypeOK
<1>2. Day(now) \in 0..MaxDays
  BY Clock, ConstantsAreNaturals
<1> QED
  BY <1>1, <1>2 DEF Stamp

LEMMA PublishManuallyStep == ASSUME IInv, NEW s \in Scope, PublishManually(s) PROVE IInv'
<1> USE ConstantsAreNaturals, Clock, Numbers DEF IInv
<1>1. PICK r \in open[s] :
        /\ open' = [open EXCEPT ![s] = Newer(@, {r})]
        /\ announced' = [announced EXCEPT ![s] = Newer(@, {r})]
        /\ latest' = [latest EXCEPT ![s] = Stamp(@, {r})]
        /\ newest' = [newest EXCEPT ![s] = Stamp(@, {r})]
  BY DEF PublishManually
<1>2. Day(now) <= MaxDays /\ UNCHANGED <<now, schedule, task, inFlight, unswept, changes, alerted>>
  BY DEF PublishManually
<1>3. /\ Stamp(latest[s], {r}) \in [created : Time, completed : 0..MaxDays, measured : 0..MaxDays]
      /\ Stamp(latest[s], {r}).completed = latest[s].completed
      /\ Stamp(latest[s], {r}).measured \in {latest[s].measured, Day(now)}
      /\ Stamp(newest[s], {r}) \in [created : Time, completed : 0..MaxDays, measured : 0..MaxDays]
  BY <1>2, Stamping
<1>4. TypeOK'
  <2>1. /\ latest' \in [Scope -> [created : Time, completed : 0..MaxDays, measured : 0..MaxDays]]
        /\ newest' \in [Scope -> [created : Time, completed : 0..MaxDays, measured : 0..MaxDays]]
    BY <1>1, <1>3 DEF TypeOK
  <2> QED
    BY <2>1, <1>1, <1>2 DEF TypeOK, Newer
<1>5. FlightInv'
  BY <1>2 DEF FlightInv
<1>6. LookbackInv'
  <2>1. \A u \in Scope : open'[u] \ announced'[u] \subseteq open[u] \ announced[u]
    BY <1>1 DEF TypeOK, Newer
  <2> QED
    BY <2>1, <1>2 DEF LookbackInv, SweepsSince, NextSweep, InLookback
<1>7. AlertInv'
  <2>1. \A u \in Scope : /\ latest'[u].completed = latest[u].completed
                         /\ latest'[u].measured = latest[u].measured \/ latest'[u].measured = Day(now)
    BY <1>1, <1>3 DEF TypeOK
  <2>2. \A u \in Scope : latest[u].completed \in Int /\ latest[u].measured \in Int
    BY Numbers
  <2> QED
    BY <1>2, <2>1, <2>2 DEF AlertInv, AnchorFetched, KeepsUpWithAnchor, LastSign
<1> QED
  BY <1>4, <1>5, <1>6, <1>7

LEMMA WatchStep == ASSUME IInv, Watch PROVE IInv'
<1>1. TypeOK /\ FlightInv /\ LookbackInv /\ AlertInv
  BY DEF IInv
<1>2. /\ ~Morning(now) /\ task.pc # "running" /\ now' = now + 1
      /\ alerted' = alerted \cup dailyFetchLagTargets \/ alerted' = Scope
      /\ task' = [pc |-> "idle", at |-> 1, failed |-> {}]
      /\ UNCHANGED <<schedule, inFlight, latest, newest, open, announced, unswept, changes>>
  BY DEF Watch, Idle
<1>3. /\ now \in Nat /\ Day(now) \in Nat /\ Day(now') = Day(now) + 1 /\ now = 2 * Day(now) + 1 /\ Morning(now')
  BY <1>1, <1>2, Clock, Halves
<1>4. inFlight = Never
  BY <1>1, <1>2 DEF FlightInv
<1>5. TypeOK'
  <2>1. now' \in Time
    BY <1>1, <1>2, <1>3, ConstantsAreNaturals DEF TypeOK, Time
  <2>2. task' \in [pc : {"idle", "running", "ended"}, at : 1..Scopes + 1, failed : SUBSET Scope]
    BY <1>2, ConstantsAreNaturals
  <2>3. alerted' \subseteq Scope
    BY <1>1, <1>2, ConstantsAreNaturals DEF TypeOK, dailyFetchLagTargets
  <2> QED
    BY <1>1, <1>2, <2>1, <2>2, <2>3 DEF TypeOK
<1>6. FlightInv'
  BY <1>1, <1>2, <1>3, <1>4 DEF FlightInv
<1>7. LookbackInv'
  <2> SUFFICES ASSUME Lookback > 1, NEW s \in Scope, NEW r \in open[s] \ announced[s]
               PROVE  r > now' - 2 * Lookback /\ unswept[s] >= Day(now') - Day(r) - 1
    BY <1>2, <1>3 DEF LookbackInv, SweepsSince, NextSweep, InLookback
  <2>1. InLookback(r, NextSweep) /\ unswept[s] >= SweepsSince(r)
    BY <1>1 DEF LookbackInv
  <2>2. NextSweep = now' /\ SweepsSince(r) = Day(now) - Day(r)
    BY <1>2 DEF NextSweep, SweepsSince
  <2>3. r \in Nat /\ Day(r) \in Nat /\ unswept[s] \in Nat
    BY <1>1, Numbers
  <2> QED
    BY <1>3, <2>1, <2>2, <2>3 DEF InLookback
<1>8. AlertInv'
  <2>1. KeepsUpWithAnchor
    BY <1>1, <1>2 DEF AlertInv, AnchorFetched
  <2>2. KeepsUpWithAnchor'
    BY <1>2, <2>1 DEF KeepsUpWithAnchor, LastSign
  <2>3. \A s \in Scope : latest[s].completed <= latest[s].measured /\ latest[s].completed <= Day(now')
    BY <1>1, <1>3, Numbers DEF AlertInv
  <2> QED
    BY <1>2, <2>2, <2>3 DEF AlertInv
<1> QED
  BY <1>5, <1>6, <1>7, <1>8 DEF IInv

\* What a sweep does with the runs of each scope: facts, without the choice made.
SweepOutcome(u) ==
    /\ open'[u] \subseteq open[u] /\ announced'[u] \subseteq open'[u]
    /\ \A r \in open'[u] : InLookback(r, now + 2)
    /\ \A r \in open'[u] \ announced'[u] : r \notin announced[u]
    /\ unswept'[u] \in {0, unswept[u] + 1}
    /\ \A r \in open'[u] \ announced'[u] : r \in Candidates(u) => unswept'[u] = unswept[u] + 1
    /\ latest'[u].completed = latest[u].completed
    /\ latest'[u].measured \in {latest[u].measured, Day(now)}

LEMMA SweepChanges ==
    ASSUME TypeOK, Sweep
    PROVE  /\ Morning(now) /\ Day(now) <= MaxDays /\ now' = now + 1
           /\ UNCHANGED <<schedule, task, inFlight, changes, alerted>>
           /\ latest' \in [Scope -> [created : Time, completed : 0..MaxDays, measured : 0..MaxDays]]
           /\ newest' \in [Scope -> [created : Time, completed : 0..MaxDays, measured : 0..MaxDays]]
           /\ open' \in [Scope -> SUBSET Time] /\ announced' \in [Scope -> SUBSET Time]
           /\ unswept' \in [Scope -> Nat]
           /\ \A u \in Scope : SweepOutcome(u)
<1>1. Morning(now) /\ Day(now) <= MaxDays /\ now' = now + 1 /\ UNCHANGED <<schedule, task, inFlight, changes, alerted>>
  BY DEF Sweep
<1>2. PICK reached \in 0..Scopes, pass \in [Scope -> UNION {SUBSET Candidates(s) : s \in Scope}] :
        LET listed(s) == IF s <= reached THEN Candidates(s) ELSE {}
            later(s) == {r \in Newer(open[s], pass[s]) : InLookback(r, now + 2)}
        IN  /\ \A s \in Scope : pass[s] \subseteq listed(s)
            /\ open' = [s \in Scope |-> later(s)]
            /\ announced' = [s \in Scope |-> (announced[s] \cup listed(s)) \cap later(s)]
            /\ latest' = [s \in Scope |-> Stamp(latest[s], pass[s])]
            /\ newest' = [s \in Scope |-> Stamp(newest[s], pass[s])]
            /\ unswept' = [s \in Scope |->
                   IF s <= reached \/ open[s] = {} THEN 0 ELSE unswept[s] + 1]
  BY DEF Sweep
<1> DEFINE listed(s) == IF s <= reached THEN Candidates(s) ELSE {}
           later(s) == {r \in Newer(open[s], pass[s]) : InLookback(r, now + 2)}
<1>3. /\ open' = [s \in Scope |-> later(s)]
      /\ announced' = [s \in Scope |-> (announced[s] \cup listed(s)) \cap later(s)]
      /\ latest' = [s \in Scope |-> Stamp(latest[s], pass[s])]
      /\ newest' = [s \in Scope |-> Stamp(newest[s], pass[s])]
      /\ unswept' = [s \in Scope |-> IF s <= reached \/ open[s] = {} THEN 0 ELSE unswept[s] + 1]
  BY <1>2
<1>4. \A u \in Scope : later(u) \subseteq open[u] /\ \A r \in later(u) : InLookback(r, now + 2)
  BY DEF Newer
<1>5. \A u \in Scope : open[u] \subseteq Time /\ unswept[u] \in Nat
  BY DEF TypeOK
<1>6. \A u \in Scope : /\ Stamp(latest[u], pass[u]) \in [created : Time, completed : 0..MaxDays, measured : 0..MaxDays]
                       /\ Stamp(latest[u], pass[u]).completed = latest[u].completed
                       /\ Stamp(latest[u], pass[u]).measured \in {latest[u].measured, Day(now)}
                       /\ Stamp(newest[u], pass[u]) \in
                              [created : Time, completed : 0..MaxDays, measured : 0..MaxDays]
  BY <1>1, Stamping
<1>7. \A u \in Scope : /\ open'[u] = later(u) /\ announced'[u] = (announced[u] \cup listed(u)) \cap later(u)
                       /\ latest'[u] = Stamp(latest[u], pass[u])
                       /\ unswept'[u] = IF u <= reached \/ open[u] = {} THEN 0 ELSE unswept[u] + 1
  BY <1>3
<1> HIDE DEF later
<1>8. ASSUME NEW u \in Scope PROVE SweepOutcome(u)
  <2>1. open'[u] = later(u) /\ announced'[u] = (announced[u] \cup listed(u)) \cap later(u)
    BY <1>7
  <2>2. open'[u] \subseteq open[u] /\ announced'[u] \subseteq open'[u] /\ \A r \in open'[u] : InLookback(r, now + 2)
    BY <2>1, <1>4
  <2>3. \A r \in open'[u] \ announced'[u] : r \notin announced[u] /\ r \notin listed(u)
    BY <2>1
  <2>4. ASSUME NEW r \in open'[u] \ announced'[u], r \in Candidates(u) PROVE unswept'[u] = unswept[u] + 1
    <3>1. ~(u <= reached)
      BY <2>3, <2>4
    <3>2. open[u] # {}
      BY <2>2, <2>4
    <3> QED
      BY <3>1, <3>2, <1>7
  <2> QED
    BY <2>2, <2>3, <2>4, <1>6, <1>7 DEF SweepOutcome
<1>9. /\ open' \in [Scope -> SUBSET Time] /\ announced' \in [Scope -> SUBSET Time]
      /\ unswept' \in [Scope -> Nat]
  BY <1>3, <1>4, <1>5
<1>10. /\ latest' \in [Scope -> [created : Time, completed : 0..MaxDays, measured : 0..MaxDays]]
       /\ newest' \in [Scope -> [created : Time, completed : 0..MaxDays, measured : 0..MaxDays]]
  BY <1>3, <1>6
<1> QED
  BY <1>1, <1>8, <1>9, <1>10

\* A run nobody announced could be listed, so that the sweep did not reach its scope.
LEMMA SweepMisses ==
    ASSUME IInv, Sweep, Lookback > 1, NEW s \in Scope, NEW r \in open[s] \ announced[s]
    PROVE  r \in Candidates(s) /\ r \in Nat /\ unswept[s] >= Day(now) - Day(r) - 1
<1>1. Morning(now) /\ TypeOK
  BY SweepChanges DEF IInv
<1>2. InLookback(r, now) /\ unswept[s] >= Day(now) - Day(r) - 1
  BY <1>1 DEF IInv, LookbackInv, NextSweep, SweepsSince
<1> QED
  BY <1>1, <1>2, Numbers DEF Candidates

LEMMA SweepStep == ASSUME IInv, Sweep PROVE IInv'
<1>1. TypeOK /\ FlightInv /\ LookbackInv /\ AlertInv
  BY DEF IInv
<1>2. /\ Morning(now) /\ Day(now) <= MaxDays /\ now' = now + 1
      /\ UNCHANGED <<schedule, task, inFlight, changes, alerted>>
      /\ latest' \in [Scope -> [created : Time, completed : 0..MaxDays, measured : 0..MaxDays]]
      /\ newest' \in [Scope -> [created : Time, completed : 0..MaxDays, measured : 0..MaxDays]]
      /\ open' \in [Scope -> SUBSET Time] /\ announced' \in [Scope -> SUBSET Time]
      /\ unswept' \in [Scope -> Nat]
      /\ \A u \in Scope : SweepOutcome(u)
  BY <1>1, SweepChanges
<1>3. now \in Nat /\ Day(now) \in Nat /\ Day(now') = Day(now) /\ now = 2 * Day(now) /\ ~Morning(now')
  BY <1>1, <1>2, Clock, Halves
<1>4. TypeOK'
  <2>1. now' \in Time
    BY <1>2, <1>3, ConstantsAreNaturals DEF Time
  <2>2. \A u \in Scope : announced'[u] \subseteq open'[u]
    BY <1>2 DEF SweepOutcome
  <2> QED
    BY <1>1, <1>2, <2>1, <2>2 DEF TypeOK
<1>5. FlightInv'
  <2>1. inFlight \in Nat
    BY <1>1, Numbers
  <2> QED
    BY <1>1, <1>2, <1>3, <2>1 DEF FlightInv
<1>6. LookbackInv'
  <2> SUFFICES ASSUME Lookback > 1, NEW s \in Scope, NEW r \in open'[s] \ announced'[s]
               PROVE  InLookback(r, now' + 1) /\ unswept'[s] >= Day(now') - Day(r)
    BY <1>3 DEF LookbackInv, SweepsSince, NextSweep
  <2>1. SweepOutcome(s)
    BY <1>2
  <2>2. r \in open[s] \ announced[s] /\ InLookback(r, now + 2)
    BY <2>1 DEF SweepOutcome
  <2>3. r \in Candidates(s) /\ r \in Nat /\ unswept[s] >= Day(now) - Day(r) - 1
    BY <2>2, SweepMisses
  <2>4. unswept'[s] = unswept[s] + 1
    BY <2>1, <2>3 DEF SweepOutcome
  <2>5. Day(r) \in Nat /\ unswept[s] \in Nat /\ now' + 1 = now + 2
    BY <1>1, <1>2, <1>3, <2>2, Numbers
  <2> QED
    BY <1>3, <2>2, <2>3, <2>4, <2>5
<1>7. AlertInv'
  <2>1. \A u \in Scope : /\ latest'[u].completed = latest[u].completed
                         /\ latest'[u].measured = latest[u].measured \/ latest'[u].measured = Day(now)
    BY <1>2 DEF SweepOutcome
  <2>2. \A u \in Scope : latest[u].completed \in Int /\ latest[u].measured \in Int
    BY <1>1, Numbers
  <2>3. \A u \in Scope : latest'[u].completed <= latest'[u].measured /\ latest'[u].completed <= Day(now')
    BY <1>1, <1>3, <2>1, <2>2 DEF AlertInv
  <2>4. ~AnchorFetched' => KeepsUpWithAnchor'
    BY <1>1, <1>2, <2>1, ConstantsAreNaturals DEF AlertInv, AnchorFetched, KeepsUpWithAnchor, LastSign
  <2> QED
    BY <1>1, <1>2, <1>3, <2>1, <2>3, <2>4 DEF AlertInv
<1> QED
  BY <1>4, <1>5, <1>6, <1>7 DEF IInv

LEMMA ConfigurationStep == ASSUME IInv, Drift \/ Reconcile PROVE IInv'
<1> USE ConstantsAreNaturals, Clock, Numbers DEF IInv, Drift, Reconcile
<1>1. TypeOK'
  BY DEF TypeOK
<1>2. FlightInv'
  BY DEF FlightInv
<1>3. LookbackInv'
  BY DEF LookbackInv, SweepsSince, NextSweep, InLookback
<1>4. AlertInv'
  BY DEF AlertInv, AnchorFetched, KeepsUpWithAnchor, LastSign, TypeOK
<1> QED
  BY <1>1, <1>2, <1>3, <1>4

LEMMA NextIInv == IInv /\ [Next]_vars => IInv'
<1> SUFFICES ASSUME IInv, [Next]_vars PROVE IInv'
  OBVIOUS
<1>1. ASSUME UNCHANGED vars PROVE IInv'
  BY <1>1 DEF vars, IInv, TypeOK, FlightInv, LookbackInv, SweepsSince, NextSweep, InLookback,
              AlertInv, AnchorFetched, KeepsUpWithAnchor, LastSign
<1> QED
  BY <1>1, StartTaskStep, BeginFetchStep, FetchSucceedsStep, FetchManuallyStep, FetchFailsStep, EndTaskStep,
     TaskDiesStep, PublishManuallyStep, SweepStep, WatchStep, ConfigurationStep DEF Next

THEOREM InductiveInvariant == Spec => []IInv
BY InitIInv, NextIInv, PTL DEF Spec

-----------------------------------------------------------------------------
(* Only the sweep ends a morning, and only the watchdog a day *)

LEMMA EndOfMorning == ASSUME TypeOK, [Next]_vars, Morning(now), ~Morning(now') PROVE Sweep
<1>1. now' # now
  OBVIOUS
<1>2. ~Watch
  BY DEF Watch
<1> QED
  BY <1>1, <1>2 DEF Next, vars, StartTask, BeginFetch, FetchSucceeds, FetchManually, FetchFails,
                    EndTask, TaskDies, PublishManually, Drift, Reconcile

LEMMA EndOfDay == ASSUME TypeOK, [Next]_vars, ~Morning(now), Morning(now') PROVE Watch
<1>1. now' # now
  OBVIOUS
<1>2. ~Sweep
  BY DEF Sweep
<1> QED
  BY <1>1, <1>2 DEF Next, vars, StartTask, BeginFetch, FetchSucceeds, FetchManually, FetchFails,
                    EndTask, TaskDies, PublishManually, Drift, Reconcile

LEMMA LapsedWasMissed ==
    ASSUME IInv, Sweep, NEW s \in Scope, NEW r \in open[s] \ announced[s], Expires(s, r)
    PROVE  unswept'[s] >= Lookback - 1
<1>1. TypeOK /\ Morning(now) /\ SweepOutcome(s) /\ unswept' \in [Scope -> Nat]
  BY SweepChanges DEF IInv
<1>2. unswept'[s] \in Nat /\ unswept[s] \in Nat /\ Lookback \in Nat /\ Lookback > 0
  BY <1>1, Numbers, ConstantsAreNaturals
<1>3. CASE Lookback > 1
  <2>1. r \in Candidates(s) /\ r \in Nat /\ unswept[s] >= Day(now) - Day(r) - 1
    BY <1>3, SweepMisses
  <2>2. unswept'[s] > 0 /\ ~InLookback(r, now + 2)
    BY <2>1 DEF Expires
  <2>3. unswept'[s] = unswept[s] + 1
    BY <1>1, <1>2, <2>2 DEF SweepOutcome
  <2>4. Day(r) \in Nat /\ 2 * Day(r) <= r
    <3>1. r \in Nat
      BY <2>1
    <3>2. Day(r) \in Nat /\ r = IF Morning(r) THEN 2 * Day(r) ELSE 2 * Day(r) + 1
      BY <3>1, Halves
    <3> QED
      BY <3>1, <3>2
  <2>5. now \in Nat /\ Day(now) \in Nat /\ now = 2 * Day(now)
    BY <1>1, Clock
  <2>6. Day(r) <= Day(now) + 1 - Lookback
    BY <1>2, <2>1, <2>2, <2>4, <2>5 DEF InLookback
  <2> QED
    BY <1>2, <2>1, <2>3, <2>4, <2>5, <2>6
<1> QED
  BY <1>2, <1>3

\* No run lapses unannounced before as many sweeps in a row missed its scope as the
\* lookback has days but one (findUnpublishedCompleteRuns).
THEOREM NothingLapsesUnannounced == Spec => NothingExpiresUnannounced
<1>1. ASSUME IInv, [Next]_vars
      PROVE  [~Morning(now') /\ Morning(now) =>
                 \A s \in Scope : \A r \in open[s] \ announced[s] :
                     Expires(s, r) => unswept'[s] >= Lookback - 1]_vars
  BY <1>1, EndOfMorning, LapsedWasMissed DEF IInv
<1> QED
  BY <1>1, InductiveInvariant, PTL DEF Spec, NothingExpiresUnannounced

\* What the watchdog makes of the first scope.
LEMMA WatchNotices ==
    ASSUME IInv, Watch, NEW s \in Scope, freshnessDays(LastSign(s), now) > LagDays
    PROVE  s \in alerted' \/ Stamped
<1>1. CASE ~TierOk
  BY <1>1 DEF Watch
<1>2. CASE TierOk
  <2> SUFFICES ASSUME s \notin alerted, ~Stamped PROVE FALSE
    BY <1>2 DEF Watch
  <2>1. TypeOK /\ AlertInv /\ KeepsUpWithAnchor
    BY DEF IInv, AlertInv, AnchorFetched, Watch
  <2>2. /\ latest[Anchor].completed \in Nat /\ latest[Anchor].measured \in Nat /\ latest[s].completed \in Nat
        /\ schedule.updated \in Nat /\ now \in Nat /\ Day(now) \in Nat /\ LagDays \in Nat
    BY <2>1, Numbers, Clock, ConstantsAreNaturals
  <2>3. LastSign(s) >= latest[Anchor].completed /\ LastSign(s) >= schedule.updated /\ LastSign(s) \in Nat
    BY <2>1, <2>2 DEF KeepsUpWithAnchor, LastSign
  <2>4. latest[Anchor].measured = latest[Anchor].completed
    BY <2>1, <2>2, ConstantsAreNaturals DEF AlertInv, Stamped
  <2>5. MeasuredAt \in Nat /\ LastSign(s) >= MeasuredAt
    BY <2>2, <2>3, <2>4 DEF MeasuredAt
  <2>6. ~(Day(now) - MeasuredAt > LagDays)
    BY <1>2 DEF TierOk, scheduleExecutionLagDetected, freshnessDays
  <2> QED
    BY <2>2, <2>3, <2>5, <2>6 DEF freshnessDays
<1> QED
  BY <1>1, <1>2

\* What the report makes of a public scope, by itself.
LEMMA ReportNotices ==
    ASSUME TypeOK, Watch, NEW s \in Public, freshnessDays(LastSign(s), now) > LagDays
    PROVE  s \in alerted' \/ Refreshed(s)
<1> SUFFICES ASSUME ~Refreshed(s) PROVE s \in alerted'
  OBVIOUS
<1>1. s \in Scope /\ LagDays \in Nat /\ ReportLagDays \in Nat /\ ReportLagDays <= LagDays
  BY ConstantsAreNaturals
<1>2. newest[s].measured \in Nat /\ latest[s].completed \in Nat /\ schedule.updated \in Nat /\ Day(now) \in Nat
  BY <1>1, Numbers, Clock, ConstantsAreNaturals DEF TypeOK
<1>3. newest[s].measured <= latest[s].completed /\ latest[s].completed <= LastSign(s)
  BY <1>2 DEF Refreshed, LastSign
<1>4. Day(now) - newest[s].measured > ReportLagDays
  BY <1>1, <1>2, <1>3 DEF freshnessDays, LastSign
<1>5. s \in dailyFetchLagTargets
  BY <1>4 DEF dailyFetchLagTargets, dailyFetchLagDetected, freshnessDays
<1> QED
  BY <1>1, <1>5 DEF Watch

\* The watchdog looks at the first scope of a tier, and yet no scope's fetches stop for
\* longer than its threshold without an alert (scheduleExecutionLagDetected), which the
\* report makes certain of the public ones that nobody refreshed (dailyFetchLagDetected).
THEOREM StaleScopesNoticed == Spec => NoScopeGoesStaleUnnoticed
<1>1. ASSUME IInv, [Next]_vars
      PROVE  [Morning(now') /\ ~Morning(now) =>
                 \A s \in Scope : freshnessDays(LastSign(s), now) > LagDays =>
                     s \in alerted' \/ (Stamped /\ (s \in Public => Refreshed(s)))]_vars
  BY <1>1, EndOfDay, WatchNotices, ReportNotices DEF IInv
<1> QED
  BY <1>1, InductiveInvariant, PTL DEF Spec, NoScopeGoesStaleUnnoticed

================================================================================
