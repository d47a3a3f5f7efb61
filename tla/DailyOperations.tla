---------------------------- MODULE DailyOperations ----------------------------
(***************************************************************************)
(* The days of one court tier: the scheduled task that fetches its scopes  *)
(* one after the other (dev/scheduled-fetch.ts and its copies), the sweep  *)
(* that publishes or announces what was fetched                            *)
(* (ops/publish-pending-runner.ts), operators, and the watchdog            *)
(* (dev/internal-fetch-schedule-watchdog.ts) and the report on the public  *)
(* site (dev/public-alpha-ops.ts) that are to notice when fetches stop.  A *)
(* day has two halves: fetches start in the morning, which ends with the   *)
(* sweep; slow ones go on in the afternoon, which ends with the workflow   *)
(* that runs the watchdog and the report.                                  *)
(***************************************************************************)
EXTENDS Integers, FiniteSets

CONSTANTS Scopes,     \* number of scopes, in the order of the profiles
          Public,     \* the scopes on the public site
          LagDays,    \* DEFAULT_FETCH_SCHEDULE_EXECUTION_LAG_THRESHOLD_DAYS
          ReportLagDays,  \* DEFAULT_DAILY_FETCH_LAG_THRESHOLD_DAYS
          Lookback,   \* LOOKBACK_DAYS
          MaxDays,    \* bound
          MaxChanges  \* bound: changes of the schedule, and fetches by hand

ASSUME DailyAssumption ==
    /\ {Scopes, LagDays, ReportLagDays, Lookback, MaxDays, MaxChanges} \subseteq Nat \ {0}
    /\ ReportLagDays <= LagDays
    /\ Public \subseteq 1..Scopes

Scope == 1..Scopes
Anchor == 1
Never == 0                      \* a time before the first day
Time == 0..2 * MaxDays + 2
Morning(t) == t % 2 = 0
Day(t) == t \div 2

\* Between days, since the watchdog comes last in a day.
freshnessDays(day, at) == Day(at) - day

VARIABLES
    now,
    schedule,   \* its state, and the day of its last modification
    task,       \* of the fetch: its state, the scope it is at, the scopes that failed
    inFlight,   \* created_at of the run the task is fetching, Never if none
    latest,     \* of a scope: its newest successful scheduled run
    newest,     \* of a scope: its newest successful run of any kind
    open,       \* of a scope: created_at of complete runs no publication superseded
    announced,  \* those of open that a digest, or a failed sweep, has named
    unswept,    \* of a scope with open runs: sweeps in a row that did not reach it
    changes,
    alerted     \* history: scopes about which the operators were alerted since their
                \* last successful fetch, or whose task died with the first scope fetched

vars == <<now, schedule, task, inFlight, latest, newest, open, announced, unswept, changes, alerted>>

NoRun == [created |-> Never, completed |-> Never, measured |-> Never]

TypeOK ==
    /\ now \in Time
    /\ schedule \in [state : {"ok", "drifted", "disabled"}, updated : 0..MaxDays + 1]
    /\ task \in [pc : {"idle", "running", "ended"}, at : 1..Scopes + 1, failed : SUBSET Scope]
    /\ inFlight \in Time
    /\ latest \in [Scope -> [created : Time, completed : 0..MaxDays, measured : 0..MaxDays]]
    /\ newest \in [Scope -> [created : Time, completed : 0..MaxDays, measured : 0..MaxDays]]
    /\ open \in [Scope -> SUBSET Time]
    /\ announced \in [Scope -> SUBSET Time]
    /\ \A s \in Scope : announced[s] \subseteq open[s]
    /\ unswept \in [Scope -> Nat]
    /\ changes \in 0..MaxChanges
    /\ alerted \subseteq Scope

Idle == [pc |-> "idle", at |-> 1, failed |-> {}]
Init ==
    /\ now = 2
    /\ schedule = [state |-> "ok", updated |-> 1]
    /\ task = Idle
    /\ inFlight = Never
    /\ latest = [s \in Scope |-> NoRun]
    /\ newest = [s \in Scope |-> NoRun]
    /\ open = [s \in Scope |-> {}]
    /\ announced = [s \in Scope |-> {}]
    /\ unswept = [s \in Scope |-> 0]
    /\ changes = 0
    /\ alerted = {}

-----------------------------------------------------------------------------
(* The scheduled fetch: one run per scope, a failing scope does not stop the *)
(* others, and a task with failures raises one alarm at its end. *)

StartTask ==
    /\ Morning(now) /\ Day(now) <= MaxDays /\ task.pc = "idle" /\ schedule.state # "disabled"
    /\ task' = [Idle EXCEPT !.pc = "running"]
    /\ UNCHANGED <<now, schedule, inFlight, latest, newest, open, announced, unswept, changes, alerted>>

BeginFetch ==
    /\ task.pc = "running" /\ task.at <= Scopes /\ inFlight = Never
    /\ newest[task.at].created # now
    /\ inFlight' = now
    /\ UNCHANGED <<now, schedule, task, latest, newest, open, announced, unswept, changes, alerted>>

\* The run completes, with a complete bundle or a partial one that nothing publishes.
FetchSucceeds(complete) ==
    LET s == task.at
        run == [created |-> inFlight, completed |-> Day(now), measured |-> Day(now)]
    IN  /\ inFlight # Never
        /\ latest' = [latest EXCEPT ![s] = run]
        /\ newest' = [newest EXCEPT ![s] = IF @.created < inFlight THEN run ELSE @]
        /\ open' = [open EXCEPT ![s] = IF complete THEN @ \cup {inFlight} ELSE @]
        /\ inFlight' = Never
        /\ task' = [task EXCEPT !.at = @ + 1]
        /\ alerted' = alerted \ {s}
        /\ UNCHANGED <<now, schedule, announced, unswept, changes>>

FetchFails ==
    /\ inFlight # Never
    /\ inFlight' = Never
    /\ task' = [task EXCEPT !.at = @ + 1, !.failed = @ \cup {task.at}]
    /\ UNCHANGED <<now, schedule, latest, newest, open, announced, unswept, changes, alerted>>

Alerts(failed) == failed # {}

\* The summary is asserted; the entrypoint alerts and exits with an error.
EndTask ==
    /\ task.pc = "running" /\ task.at > Scopes
    /\ task' = [task EXCEPT !.pc = "ended"]
    /\ alerted' = IF Alerts(task.failed) THEN Scope ELSE alerted
    /\ UNCHANGED <<now, schedule, inFlight, latest, newest, open, announced, unswept, changes>>

\* The container is killed: neither the loop nor the catch block goes on.
TaskDies ==
    /\ task.pc = "running"
    /\ task' = [task EXCEPT !.pc = "ended"]
    /\ inFlight' = Never
    /\ alerted' = IF task.at > Anchor /\ Anchor \notin task.failed THEN Scope ELSE alerted
    /\ UNCHANGED <<now, schedule, latest, newest, open, announced, unswept, changes>>

\* An operator fetches a scope; with one run of a scope in half a day, created_at tells
\* the runs apart.
FetchManually(s, complete) ==
    /\ Day(now) <= MaxDays /\ changes < MaxChanges /\ changes' = changes + 1
    /\ newest[s].created # now /\ ~(inFlight = now /\ task.at = s)
    /\ newest' = [newest EXCEPT ![s] = [created |-> now, completed |-> Day(now), measured |-> Day(now)]]
    /\ open' = [open EXCEPT ![s] = IF complete THEN @ \cup {now} ELSE @]
    /\ UNCHANGED <<now, schedule, task, inFlight, latest, announced, unswept, alerted>>

-----------------------------------------------------------------------------
(* Publications *)

\* Publishing a run supersedes the older ones, and updateRun stamps its
\* completed_at again.
Stamp(run, published) == IF run.created \in published
                         THEN [run EXCEPT !.measured = Day(now)] ELSE run
Newer(created, published) == {r \in created : \A x \in published : r > x}

PublishManually(s) ==
    /\ Day(now) <= MaxDays
    /\ \E r \in open[s] :
        /\ open' = [open EXCEPT ![s] = Newer(@, {r})]
        /\ announced' = [announced EXCEPT ![s] = Newer(@, {r})]
        /\ latest' = [latest EXCEPT ![s] = Stamp(@, {r})]
        /\ newest' = [newest EXCEPT ![s] = Stamp(@, {r})]
    /\ UNCHANGED <<now, schedule, task, inFlight, unswept, changes, alerted>>

\* findUnpublishedCompleteRuns: created at or after this time of day, a number of days
\* ago; the sweep comes later in the morning than a fetch starts.
InLookbackOfADay(created, at) == created > at - 2
InLookback(created, at) == created > at - 2 * Lookback

Candidates(s) == {r \in open[s] : InLookback(r, now)}

\* The sweep walks the scopes; a query that fails, or the death of its task, or no sweep
\* at all, leaves the rest for the next day.  Of a scope's candidates the gate publishes
\* some; those older than the last of these are superseded, and the others are held and
\* announced, in the digest or, if that cannot be sent, by the failure of the sweep.
\* Runs that later sweeps cannot list either are no longer followed.
Sweep ==
    /\ Morning(now) /\ Day(now) <= MaxDays
    /\ \E reached \in 0..Scopes :
       \E pass \in [Scope -> UNION {SUBSET Candidates(s) : s \in Scope}] :
        LET listed(s) == IF s <= reached THEN Candidates(s) ELSE {}
            later(s) == {r \in Newer(open[s], pass[s]) : InLookback(r, now + 2)}
        IN  /\ \A s \in Scope : pass[s] \subseteq listed(s)
            /\ open' = [s \in Scope |-> later(s)]
            /\ announced' = [s \in Scope |-> (announced[s] \cup listed(s)) \cap later(s)]
            /\ latest' = [s \in Scope |-> Stamp(latest[s], pass[s])]
            /\ newest' = [s \in Scope |-> Stamp(newest[s], pass[s])]
            /\ unswept' = [s \in Scope |->
                   IF s <= reached \/ open[s] = {} THEN 0 ELSE unswept[s] + 1]
    /\ now' = now + 1
    /\ UNCHANGED <<schedule, task, inFlight, changes, alerted>>

-----------------------------------------------------------------------------
(* The watchdog, and the end of the day *)

configHealthy == schedule.state = "ok"

\* What the lag is measured from: the newest successful scheduled run's completed_at,
\* or the schedule's own age if it never had one.
MeasuredAt == IF latest[Anchor] # NoRun THEN latest[Anchor].measured ELSE schedule.updated
scheduleExecutionLagDetected == freshnessDays(MeasuredAt, now) > LagDays

TierOkByConfig == configHealthy
TierOk == configHealthy /\ ~scheduleExecutionLagDetected

\* The report goes over the public scopes: it reads the newest successful run of each,
\* whoever started it.
dailyFetchLagDetected(s) == newest[s] = NoRun \/ freshnessDays(newest[s].measured, now) > ReportLagDays
AnchorTarget == {s \in Public : s = Anchor /\ dailyFetchLagDetected(s)}
dailyFetchLagTargets == {s \in Public : dailyFetchLagDetected(s)}

\* The workflow runs both whatever becomes of either, and alerts with what they found.
\* What else the report names (old figures, a page or a history it could not read) would
\* only add to the alerts.  A check that cannot read what it needs throws, which alerts as
\* well; a workflow that does not run at all leaves the same state to the next.
Watch ==
    /\ ~Morning(now) /\ task.pc # "running"
    /\ alerted' = IF TierOk THEN alerted \cup dailyFetchLagTargets ELSE Scope
    /\ now' = now + 1
    /\ task' = Idle
    /\ UNCHANGED <<schedule, inFlight, latest, newest, open, announced, unswept, changes>>

\* A deployment changes the service's task definition, or somebody disables the schedule.
Drift ==
    /\ schedule.state = "ok"
    /\ changes < MaxChanges /\ changes' = changes + 1
    /\ \E st \in {"drifted", "disabled"} : schedule' = [schedule EXCEPT !.state = st]
    /\ UNCHANGED <<now, task, inFlight, latest, newest, open, announced, unswept, alerted>>

Reconcile ==
    /\ changes < MaxChanges /\ changes' = changes + 1
    /\ schedule' = [state |-> "ok", updated |-> Day(now)]
    /\ alerted' = {}
    /\ UNCHANGED <<now, task, inFlight, latest, newest, open, announced, unswept>>

Next ==
    \/ StartTask \/ BeginFetch \/ (\E complete \in BOOLEAN : FetchSucceeds(complete))
    \/ FetchFails \/ EndTask \/ TaskDies
    \/ (\E s \in Scope, complete \in BOOLEAN : FetchManually(s, complete))
    \/ (\E s \in Scope : PublishManually(s))
    \/ Sweep \/ Watch \/ Drift \/ Reconcile

Spec == Init /\ [][Next]_vars

-----------------------------------------------------------------------------
(* Properties *)

\* When watchdog and report have run, every scope whose scheduled fetches stopped more
\* than the threshold ago (counted from the schedule's last change if that is later) has
\* been the subject of an alert since, although the watchdog looks at the first scope only:
\* unless a task died after fetching that one, or a publication has stamped its newest run
\* again and, for a public scope, a publication or a fetch by hand has refreshed its own.
LastSign(s) == IF latest[s].completed > schedule.updated
               THEN latest[s].completed ELSE schedule.updated
Stamped == latest[Anchor].measured > latest[Anchor].completed
Refreshed(s) == newest[s].measured > latest[s].completed
NoScopeGoesStaleUnnoticed ==
    [][Morning(now') /\ ~Morning(now) =>
        \A s \in Scope : freshnessDays(LastSign(s), now) > LagDays =>
            s \in alerted' \/ (Stamped /\ (s \in Public => Refreshed(s)))]_vars

\* A run that no later sweep lists, and this one did not publish or announce.
Expires(s, r) ==
    /\ ~InLookback(r, now + 2)
    /\ r \notin Candidates(s) \/ unswept'[s] > 0

\* A complete run that no later sweep can list, unpublished, not superseded and never
\* announced, has been missed by two sweeps in a row (with a lookback of three days): one
\* missed sweep loses nothing.
NothingExpiresUnannounced ==
    [][~Morning(now') /\ Morning(now) =>
        \A s \in Scope : \A r \in open[s] \ announced[s] :
            Expires(s, r) => unswept'[s] >= Lookback - 1]_vars

=============================================================================
