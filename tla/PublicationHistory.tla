-------------------------- MODULE PublicationHistory --------------------------
(***************************************************************************)
(* What the three services read of a scope's publication history, and what *)
(* their normalizers make of it: the trend of a lower-court candidate, the *)
(* trend and the carried-forward reading of a high-court candidate, the    *)
(* trend and the finalized months of a Supreme Court candidate, and the    *)
(* lineage table of the methodology pages.  The tables are the same for    *)
(* the three; each tier orders and reduces them in its own way.            *)
(***************************************************************************)
EXTENDS AutoPublishGate, FiniteSets, FiniteSetsExt

CONSTANTS Totals,          \* a total of a snapshot: pending cases, or cases instituted
          TrendDays,       \* prior points of a lower-court candidate (4 in the code)
          TrendWindow,     \* points of a high-court or Supreme Court trend (5 in the code)
          InstantsPerDay,  \* reference dates that fall on one day
          DaysPerMonth,
          Days,            \* bound: days
          MaxSnapshots,    \* bound: published snapshots
          MaxEvents        \* bound: rows of publication_history

ASSUME HistoryAssumption ==
    /\ Totals \subseteq Nat \ {0}
    /\ {TrendDays, TrendWindow, InstantsPerDay, DaysPerMonth} \subseteq Nat \ {0}
    /\ {Days, MaxSnapshots, MaxEvents} \subseteq Nat

VARIABLES snapshots,  \* rows of published_snapshots, in order of publishedAt
          events      \* rows of publication_history: the snapshot each made active

vars == <<snapshots, events>>

Instant == 0 .. InstantsPerDay * Days - 1
Snapshot == [referenceDateAt : Instant, total : Totals]
Day(instant) == instant \div InstantsPerDay
Month(instant) == Day(instant) \div DaysPerMonth
At(s) == snapshots[s].referenceDateAt
Total(s) == snapshots[s].total

Init == snapshots = <<>> /\ events = <<>>

MakeActive(s) == Len(events) < MaxEvents /\ events' = Append(events, s)

\* publishRun's transaction, with a candidate of whatever date.
Publish(candidate) ==
    /\ Len(snapshots) < MaxSnapshots
    /\ snapshots' = Append(snapshots, candidate)
    /\ MakeActive(Len(snapshots) + 1)

\* rollbackPublication names a publication; its snapshot becomes active again.
Rollback(s) == MakeActive(s) /\ UNCHANGED snapshots

Next ==
    \/ \E candidate \in Snapshot : Publish(candidate)
    \/ \E s \in ToSet(events) : Rollback(s)

Spec == Init /\ [][Next]_vars

-----------------------------------------------------------------------------

\* Where a loop that skips the keys it has seen does not skip.
FirstPlaces(places, keys) == {i \in places : \A j \in places : j < i => keys[j] # keys[i]}

\* listPublications is newest first; seenSnapshotIds keeps that order.
FirstOccurrences(seq) == Filtered(seq, FirstPlaces(DOMAIN seq, seq))
ByRecency == FirstOccurrences(Reverse(events))

\* The lower-court and Supreme Court services sort: referenceDateAt, publishedAt.
\* Snapshots are numbered in the order of publishedAt.
HistoryOrder(s, t) == At(s) < At(t) \/ (At(s) = At(t) /\ s < t)
Chronological == LET listed == ToSet(ByRecency) IN Ascending(listed, [s \in listed |-> At(s)])

\* A point is a snapshot, or the candidate's own.
Own == 0
PointAt(s, at) == IF s = Own THEN at ELSE At(s)
ByDate(points, at) ==
    LET order == Ascending(DOMAIN points, [i \in DOMAIN points |-> PointAt(points[i], at)])
    IN  [k \in DOMAIN points |-> points[order[k]]]

(* Lower courts: buildTrends *)

IsLaterInstant(s, at) == At(s) > at
IsLaterDay(s, at) == Day(At(s)) > Day(at)

DaysOf(points) == {Day(At(s)) : s \in ToSet(points)}

\* The walk, newest first: the first snapshot of a day stands for it.
PriorPoints(at) ==
    LET walk == Reverse(Chronological)
        past == {i \in DOMAIN walk : ~IsLaterDay(walk[i], at)}
    IN  Filtered(walk, FirstPlaces(past, [i \in past |-> Day(At(walk[i]))]))

\* sort, then slice(-4).  The candidate's own point follows these.
Trends(at) == Newest(ByDate(PriorPoints(at), at), TrendDays)

(* High courts: resolveMonthlyMetric, buildTrendPoints *)

NoSnapshot == 0

\* The first entry of the newest date that is not after the candidate's;
\* NoSnapshot stands for the error that there is none.
Eligible(seq, at) == {i \in DOMAIN seq : At(seq[i]) <= at}
FirstEligible(at) ==
    LET eligible == Eligible(ByRecency, at)
    IN  IF eligible = {} THEN NoSnapshot ELSE ByRecency[Min(eligible)]
CarriedForward(at) ==
    LET recent == ByRecency
        eligible == Eligible(recent, at)
        newest == Max({At(recent[i]) : i \in eligible})
    IN  IF eligible = {} THEN NoSnapshot ELSE recent[Min({i \in eligible : At(recent[i]) = newest})]

LastOfDate(seq) == {i \in DOMAIN seq : \A j \in DOMAIN seq : i < j => At(seq[j]) # At(seq[i])}
FirstOfDate(seq) == FirstPlaces(DOMAIN seq, [i \in DOMAIN seq |-> At(seq[i])])

\* The candidate's point is added last, when no published snapshot has its date.
WithOwn(points, at) ==
    IF \E s \in ToSet(points) : At(s) = at THEN points ELSE Append(points, Own)
HighCourtTrend(at) ==
    Newest(ByDate(WithOwn(Filtered(ByRecency, FirstOfDate(ByRecency)), at), at), TrendWindow)

(* Supreme Court: buildChronologicalCaptureHistory, buildMonthlyFinalized *)

\* A Map keeps the place of a key's first insertion and the value of its last.
Overwritten(seq) ==
    LET first == Filtered(seq, FirstOfDate(seq))
    IN  [k \in DOMAIN first |-> seq[Max({i \in DOMAIN seq : At(seq[i]) = At(first[k])})]]
CaptureHistoryByRecency(at) == WithOwn(Overwritten(ByRecency), at)
CaptureHistory(at) == WithOwn(Overwritten(Chronological), at)
SupremeCourtTrend(at) == Newest(CaptureHistory(at), TrendWindow)

\* Where the accumulator drops, the earlier capture holds its month's last total;
\* only the first drop of a month counts.
FinalizedMonths(candidate) ==
    LET points == CaptureHistory(candidate.referenceDateAt)
        at(i) == PointAt(points[i], candidate.referenceDateAt)
        total(i) == IF points[i] = Own THEN candidate.total ELSE Total(points[i])
        resets == {i \in 1 .. Len(points) - 1 : total(i + 1) < total(i)}
    IN  {[yearMonth |-> Month(at(i)), derivedFrom |-> points[i]] :
            i \in FirstPlaces(resets, [j \in resets |-> Month(at(j))])}

(* Methodology pages: dedupeLineageByReferenceDate over listPublicationHistory *)

\* One entry for each displayed date: the event with the latest created_at.
EarliestEvent(group) == Min(group)
LatestEvent(group) == Max(group)
Lineage ==
    LET labels == {Day(At(s)) : s \in ToSet(events)}
        winners == {LatestEvent({e \in DOMAIN events : Day(At(events[e])) = day}) : day \in labels}
    IN  Reverse(Ascending(winners, [e \in winners |-> At(events[e])]))

(* The auto-publish gate of a high-court candidate: every point but the last *)

GateTotals(points) == [i \in 1 .. Len(points) - 1 |-> IF points[i] = Own THEN NoCount ELSE Total(points[i])]
HighCourtGate(candidate) ==
    LET previous == GateTotals(HighCourtTrend(candidate.referenceDateAt))
    IN  Decision("complete", candidate.total,
                 IF previous = <<>> THEN NoCount ELSE Last(previous), previous)

-----------------------------------------------------------------------------

\* The snapshots that bear a date or a day, and the one of them made active last.
MadeActiveLast(group) == events[Max({e \in DOMAIN events : events[e] \in group})]
Published == ToSet(events)

\* Lower courts.  Whatever was published and rolled back in whatever order, the
\* prior points are one for each of the newest published days up to the
\* candidate's, oldest first, and a day is represented by its latest reference
\* date, published last.  A snapshot of the candidate's own day counts, be its
\* instant the later one (normalize/snapshot-candidate.ts:159-161).
TrendsAreNewestDays ==
    \A at \in Instant :
        LET points == Trends(at)
            past == {d \in DaysOf(ByRecency) : d <= Day(at)}
            newest == {d \in past : Cardinality({e \in past : e > d}) < TrendDays}
        IN  /\ DaysOf(points) = newest
            /\ Len(points) = Cardinality(newest)
            /\ \A i \in DOMAIN points :
                   /\ \A j \in 1 .. i - 1 : Day(At(points[j])) < Day(At(points[i]))
                   /\ \A s \in Published :
                          Day(At(s)) = Day(At(points[i])) => s = points[i] \/ HistoryOrder(s, points[i])

\* High courts.  The reading carried forward when the source has none is of the
\* newest period not after the candidate's, and within that period of the snapshot
\* made active last (the four cases of resolveMonthlyMetric's comment: a newer
\* period, a rollback, a same-date correction and a replay of an older capture).
CarriedForwardIsActive ==
    \A at \in Instant :
        LET eligible == {s \in Published : At(s) <= at}
            period == {s \in eligible : \A t \in eligible : At(t) <= At(s)}
        IN  CarriedForward(at) = IF eligible = {} THEN NoSnapshot ELSE MadeActiveLast(period)

\* High courts.  The trend of a candidate shows the newest dates among the
\* published ones and its own, in order, each once, and of a published date the
\* snapshot made active last: a correction that was rolled back does not show.
TrendPointsAreActive ==
    \A at \in Instant :
        LET points == HighCourtTrend(at)
            dates == {At(s) : s \in Published} \cup {at}
            newest == {d \in dates : Cardinality({e \in dates : e > d}) < TrendWindow}
        IN  /\ {PointAt(s, at) : s \in ToSet(points)} = newest
            /\ \A i, j \in DOMAIN points : i < j => PointAt(points[i], at) < PointAt(points[j], at)
            /\ \A s \in ToSet(points) \ {Own} : s = MadeActiveLast({t \in Published : At(t) = At(s)})

\* Supreme Court.  When the accumulators of the captures, each in its last
\* published version, only grow within a month and the candidate is the newest
\* capture, a month is finalized exactly when the first capture after it shows a
\* reset, and with the totals of its last capture, whatever was corrected, replayed
\* and rolled back in between.
MonthsAreFinalizedByTheirLastCapture ==
    \A candidate \in Snapshot :
        LET lastVersion == {s \in Published : \A t \in Published : At(t) = At(s) => t <= s}
            captures == {snapshots[s] : s \in lastVersion} \cup {candidate}
            grows == \A c, d \in captures :
                         /\ Month(c.referenceDateAt) = Month(d.referenceDateAt)
                         /\ c.referenceDateAt <= d.referenceDateAt
                         => c.total <= d.total
            closes(c, d) ==
                /\ c.referenceDateAt < d.referenceDateAt /\ d.total < c.total
                /\ \A e \in captures : e.referenceDateAt <= c.referenceDateAt
                                       \/ e.referenceDateAt >= d.referenceDateAt
        IN  /\ \A s \in Published : At(s) < candidate.referenceDateAt
            /\ grows
            => {<<f.yearMonth, snapshots[f.derivedFrom]>> : f \in FinalizedMonths(candidate)}
                   = {<<Month(c.referenceDateAt), c>> : c \in {c \in captures : \E d \in captures : closes(c, d)}}

\* Methodology pages.  The lineage has one row per displayed date, newest first,
\* and it is the publication that ended up live for that date, rollbacks included
\* (api/pages/methodology.ts:153).
LineageShowsWhatEndedUpLive ==
    /\ {Day(At(events[Lineage[i]])) : i \in DOMAIN Lineage} = {Day(At(s)) : s \in Published}
    /\ \A i, j \in DOMAIN Lineage : i < j => Day(At(events[Lineage[i]])) > Day(At(events[Lineage[j]]))
    /\ \A i \in DOMAIN Lineage :
           events[Lineage[i]] = MadeActiveLast({s \in Published : Day(At(s)) = Day(At(events[Lineage[i]]))})

\* README.md:148: the gate compares a run with its recent prior trend points, and a
\* sustained jump or conflicted history goes to review.  So a high-court candidate
\* published without review is within a fifth of some published count.  A
\* candidate whose date is already published has no point of its own, and the gate
\* drops a prior point in its place.
UnreviewedIsNearPublished ==
    \A candidate \in Snapshot :
        /\ Published # {}
        /\ \A s \in Published : At(s) <= candidate.referenceDateAt
        /\ HighCourtGate(candidate) = "publish"
        => \E s \in Published : ~Far(candidate.total, Total(s))

=============================================================================
