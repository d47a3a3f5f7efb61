---------------------------- MODULE DistrictReport ----------------------------
(***************************************************************************)
(* The lower-court normalizer: what one capture and the snapshots already  *)
(* published become as a candidate (normalize/snapshot-candidate.ts).      *)
(*                                                                         *)
(* A row of the source, for the state or for one district, is              *)
(*     [pending, filed, cleared, ages]                                     *)
(* with ages the counts of the five age buckets, youngest first.  Shares   *)
(* are in tenths of a percent, rounded half up as Math.round does; the     *)
(* binary fraction of a double is not modelled.  Sentences are reduced to  *)
(* the case they state.                                                    *)
(***************************************************************************)
EXTENDS Sorting, SequencesExt, FiniteSetsExt

CONSTANTS DistrictFlagLimit,  \* DISTRICT_FLAG_LIMIT (3)
          ShortWindow,        \* lastThree (3)
          LongWindow,         \* lastSix (6)
          TopFew,             \* topFive (5)
          TopMany,            \* topTen (10)
          TrendPoints         \* prior points of a trend (4)

ASSUME ReportAssumption ==
    {DistrictFlagLimit, ShortWindow, LongWindow, TopFew, TopMany, TrendPoints} \subseteq Nat \ {0}

Buckets == 1 .. 5
MedianDaysOfBucket == <<183, 730, 1461, 2739, 4018>>
Row == [pending : Nat, filed : Nat, cleared : Nat, ages : [Buckets -> Nat]]
Extract == [state : Row, expectedDistrictCount : Nat, isStale : BOOLEAN, districts : Seq([id : Nat, row : Row])]

\* {...record, ...fields}
With(record, fields) ==
    [field \in DOMAIN record \cup DOMAIN fields |->
        IF field \in DOMAIN fields THEN fields[field] ELSE record[field]]

AtLeastZero(x) == IF x < 0 THEN 0 ELSE x

-----------------------------------------------------------------------------

\* round(n / d * 100), in tenths, for d > 0.
Tenths(n, d) == (2000 * n + d) \div (2 * d)
Percentage(n, d) == IF d <= 0 THEN 0 ELSE Tenths(n, d)
PercentageGap(row) == IF row.filed <= 0 THEN 0 ELSE Tenths(row.filed - row.cleared, row.filed)

TenPlus(ages) == ages[5]
FivePlus(ages) == ages[4] + TenPlus(ages)
ThreePlus(ages) == ages[3] + FivePlus(ages)
Total(ages) == ages[1] + ages[2] + ThreePlus(ages)

\* The first bucket at which half of the cases are reached.
InferMedianAgeDays(ages) ==
    LET reached == <<ages[1], ages[1] + ages[2], Total(ages) - FivePlus(ages), Total(ages) - TenPlus(ages), Total(ages)>>
    IN  IF Total(ages) <= 0 THEN 0
        ELSE MedianDaysOfBucket[Min({b \in Buckets : 2 * reached[b] >= Total(ages)})]

OldCaseBurden(ages) ==
    [threePlus |-> ThreePlus(ages), fivePlus |-> FivePlus(ages), tenPlus |-> TenPlus(ages),
     threePlusShare |-> Percentage(ThreePlus(ages), Total(ages)),
     fivePlusShare |-> Percentage(FivePlus(ages), Total(ages)),
     tenPlusShare |-> Percentage(TenPlus(ages), Total(ages))]

BacklogMovementShare(row) == IF row.pending <= 0 THEN 0 ELSE Tenths(row.filed - row.cleared, row.pending)
BreakEvenClearancesNeeded(row) == AtLeastZero(row.filed - row.cleared)

\* A tenth of the pending cases in a year, rounded up to whole cases a month.
MonthlyReductionTarget(row) == (row.pending + 119) \div 120
CatchUpClearancesPerMonth(row) == AtLeastZero(MonthlyReductionTarget(row) + row.filed - row.cleared)

(* Metrics of the state, which may be missing *)

Ok(value) == [state |-> "ok", value |-> value]
Missing(reason) == [state |-> "missing", reason |-> reason]

OldCaseBurdenMetric(row) ==
    IF Total(row.ages) > 0 THEN Ok(OldCaseBurden(row.ages))
    ELSE Missing(IF row.pending <= 0 THEN "not-applicable" ELSE "source-not-published")

UnlessEmpty(row, value) == IF row.pending <= 0 THEN Missing("not-applicable") ELSE Ok(value)
BacklogMovementMetric(row) == UnlessEmpty(row, BacklogMovementShare(row))
BreakEvenClearancesMetric(row) == Ok(BreakEvenClearancesNeeded(row))
CatchUpClearancesMetric(row) == UnlessEmpty(row, CatchUpClearancesPerMonth(row))

SumOf(seq) == FoldSeq(LAMBDA x, y : x + y, 0, seq)

\* The cases of the largest districts, counted.
SumTop(backlogs, limit) ==
    LET sorted == StableSort(backlogs, LAMBDA x, y : x > y)
    IN  Cardinality(UNION {{i} \X (1 .. sorted[i]) : i \in 1 .. Min({limit, Len(sorted)})})

BacklogConcentrationMetric(backlogs, pending) ==
    IF pending <= 0 THEN Missing("not-applicable")
    ELSE IF backlogs = <<>> THEN Missing("incomplete-breakdown")
    ELSE Ok([topFewShare |-> Percentage(SumTop(backlogs, TopFew), pending),
             topManyShare |-> Percentage(SumTop(backlogs, TopMany), pending)])

-----------------------------------------------------------------------------

(* What is said of a district *)

HasNoRecentDistrictActivity(d) ==
    d.backlog = 0 /\ d.medianAge = 0 /\ d.disposalRate = 0 /\ d.gap = 0

SourceReportsNoMonthlyActivity(d) == d.backlog > 0 /\ d.filed = 0 /\ d.cleared = 0

FlagReason(d, isFlagged, state) ==
    IF HasNoRecentDistrictActivity(d) THEN "nothing reported"
    ELSE IF SourceReportsNoMonthlyActivity(d) THEN "no monthly activity"
    ELSE IF d.filed <= 0 THEN "no filed count"
    ELSE IF d.gap > 0 /\ isFlagged THEN "queue is growing"
    ELSE IF d.medianAge > state.medianAge /\ isFlagged THEN "longer waits"
    ELSE IF d.disposalRate < state.disposalRate THEN "slower than the state"
    ELSE "no pressure"

\* Only the last form quotes a rate, and the first does not mention the list.
Summary(d, isFlagged) ==
    LET listed == IF isFlagged THEN {"listed"} ELSE {}
    IN  IF HasNoRecentDistrictActivity(d) THEN {"nothing reported"}
        ELSE IF SourceReportsNoMonthlyActivity(d) THEN {"pace is N/A"} \cup listed
        ELSE IF d.filed <= 0 THEN {"pace is N/A"} \cup listed
        ELSE {"rate"} \cup listed

(* The watch list of the earlier snapshots in which the district appears *)

DistrictIn(snapshot, id) == Where(snapshot.districts, LAMBDA d : d.id = id)
IsOnWatchlistExclusive(d, snapshot) == d.rank < snapshot.flagged
IsOnWatchlist(d, snapshot) == d.rank <= (IF snapshot.flagged < 1 THEN 1 ELSE snapshot.flagged)
Flags(id, rank, previousSnapshots) ==
    LET present == Where(previousSnapshots, LAMBDA s : DistrictIn(s, id) # <<>>)
    IN  Append([i \in DOMAIN present |-> IsOnWatchlist(DistrictIn(present[i], id)[1], present[i])],
               rank <= DistrictFlagLimit)

Count(flags) == Len(Where(flags, LAMBDA flag : flag))

WatchlistPersistence(id, rank, previousSnapshots) ==
    LET flags == Flags(id, rank, previousSnapshots)
        lastThree == Newest(flags, ShortWindow)
        lastSix == Newest(flags, LongWindow)
    IN  [flaggedInLastThree |-> Count(lastThree), lastThreeWindow |-> Len(lastThree),
         flaggedInLastSix |-> Count(lastSix), lastSixWindow |-> Len(lastSix)]

-----------------------------------------------------------------------------

DistrictFigures(id, row) ==
    [id |-> id, backlog |-> row.pending, filed |-> row.filed, cleared |-> row.cleared,
     disposalRate |-> Percentage(row.cleared, row.filed),
     medianAge |-> InferMedianAgeDays(row.ages),
     gap |-> PercentageGap(row),
     oldCaseBurden |-> OldCaseBurden(row.ages),
     movement |-> BacklogMovementShare(row),
     breakEven |-> BreakEvenClearancesNeeded(row),
     catchUp |-> CatchUpClearancesPerMonth(row)]

LargerFirst(d, e) == d.backlog > e.backlog \/ (d.backlog = e.backlog /\ d.medianAge > e.medianAge)

\* An extract: the state's row, the districts' rows in the order of the source
\* with their ids, how many districts the source lists, and whether the reference
\* date is long past.
Districts(extract, state, previousSnapshots) ==
    LET figures == [i \in DOMAIN extract.districts |->
                        DistrictFigures(extract.districts[i].id, extract.districts[i].row)]
        sorted == StableSort(figures, LargerFirst)
    IN  [i \in DOMAIN sorted |->
            With(sorted[i],
                 [rank |-> i,
                  persistence |-> WatchlistPersistence(sorted[i].id, i, previousSnapshots),
                  flagReason |-> FlagReason(sorted[i], i <= DistrictFlagLimit, state),
                  summary |-> Summary(sorted[i], i <= DistrictFlagLimit)])]

QualityState(extract) ==
    IF Len(extract.districts) # extract.expectedDistrictCount THEN "partial"
    ELSE IF extract.isStale THEN "stale" ELSE "complete"

\* One prior point for each day up to the candidate's, then its own.
TrendPoint(snapshot) ==
    [at |-> snapshot.at, pending |-> snapshot.stats.pending, filed |-> snapshot.stats.filed,
     cleared |-> snapshot.stats.cleared, disposalRate |-> snapshot.stats.disposalRate]
Trends(previousSnapshots, own) ==
    LET priors == FoldRight(LAMBDA s, points :
                                IF s.at > own.at \/ \E i \in DOMAIN points : points[i].at = s.at
                                THEN points ELSE <<TrendPoint(s)>> \o points,
                            previousSnapshots, <<>>)
    IN  Append(Newest(priors, TrendPoints), own)

BuildSnapshotCandidate(extract, at, previousSnapshots) ==
    LET row == extract.state
        stats == [pending |-> row.pending, filed |-> row.filed, cleared |-> row.cleared,
                  disposalRate |-> Percentage(row.cleared, row.filed),
                  medianAge |-> InferMedianAgeDays(row.ages),
                  oldCaseBurden |-> OldCaseBurdenMetric(row),
                  movement |-> BacklogMovementMetric(row),
                  breakEven |-> BreakEvenClearancesMetric(row),
                  catchUp |-> CatchUpClearancesMetric(row),
                  concentration |-> BacklogConcentrationMetric(
                      [i \in DOMAIN extract.districts |-> extract.districts[i].row.pending], row.pending)]
    IN  [at |-> at,
         quality |-> QualityState(extract),
         stats |-> stats,
         flagged |-> Min({DistrictFlagLimit, Len(extract.districts)}),
         districts |-> Districts(extract, stats, previousSnapshots),
         trends |-> Trends(previousSnapshots,
                           [at |-> at, pending |-> row.pending, filed |-> row.filed,
                            cleared |-> row.cleared, disposalRate |-> stats.disposalRate])]

=============================================================================
