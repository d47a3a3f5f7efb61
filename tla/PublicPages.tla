----------------------------- MODULE PublicPages -----------------------------
(***************************************************************************)
(* The pages, widgets, cards and downloads of one geography, as functions  *)
(* of the snapshot they show and of the publication history: what each     *)
(* prints of each district, in which order, and under which heading.       *)
(* Markup, wording, links to fixed pages and the layout of numbers are     *)
(* left out.  Cells are those of MetricInsights.                           *)
(***************************************************************************)
EXTENDS MetricInsights

Months(days) == (2 * days + 30) \div 60  \* Math.round(days / 30)
AbsOf(x) == IF x < 0 THEN -x ELSE x
Ids(rows) == [i \in DOMAIN rows |-> rows[i].id]
FirstOrNone(rows) == IF rows = <<>> THEN {} ELSE {rows[1].id}
UpTo(rows, n) == SubSeq(rows, 1, Min({n, Len(rows)}))

ByRank(snapshot) == StableSort(snapshot.districts, LAMBDA d, e : d.rank < e.rank)
ByBacklog(snapshot) == StableSort(snapshot.districts, LAMBDA d, e : d.backlog > e.backlog)
ByDisposalRate(snapshot) == StableSort(snapshot.districts, LAMBDA d, e : d.disposalRate < e.disposalRate)

\* What every listing prints of a district.
DistrictCells(d) ==
    [id |-> d.id, rank |-> d.rank, backlog |-> d.backlog, months |-> Months(d.medianAge),
     pace |-> FormatClearancePer100(MonthlyActivity(d))]

-----------------------------------------------------------------------------
(* The district workspace: districts.ts *)

Views == {"all", "flagged"}
Sorts == {"rank", "backlog", "disposal", "age", "gap"}

\* isBefore: whether d comes first when both or neither is available.
AvailableFirst(d, e, isBefore) ==
    LET available(x) == CanComputeClearancePace(MonthlyActivity(x))
    IN  IF available(d) # available(e) THEN available(d) ELSE isBefore

ComesBefore(d, e, x, y) == x < y \/ (x = y /\ d.rank < e.rank)
CompareDistricts(d, e, sort) ==
    CASE sort = "backlog"  -> ComesBefore(d, e, -d.backlog, -e.backlog)
      [] sort = "disposal" -> AvailableFirst(d, e, ComesBefore(d, e, d.disposalRate, e.disposalRate))
      [] sort = "age"      -> ComesBefore(d, e, -d.medianAge, -e.medianAge)
      [] sort = "gap"      -> AvailableFirst(d, e, ComesBefore(d, e, -d.gap, -e.gap))
      [] sort = "rank"     -> d.rank < e.rank

\* options.matches stands for the search: the districts it matches.
FilterAndSortDistricts(districts, options, flaggedCount) ==
    StableSort(Where(districts, LAMBDA d : /\ options.view = "all" \/ d.rank <= flaggedCount
                                           /\ d.id \in options.matches),
               LAMBDA d, e : CompareDistricts(d, e, options.sort))

TableRow(d) ==
    With(DistrictCells(d),
         [fivePlusShare |-> d.oldCaseBurden.fivePlusShare,
          repeat |-> <<d.persistence.flaggedInLastSix, d.persistence.lastSixWindow>>,
          gap |-> FormatFileClearGap(MonthlyActivity(d)),
          flagReason |-> d.flagReason, summary |-> d.summary])

Comparison(highest, slowest) == IF highest # slowest THEN highest \cup slowest ELSE {}

DistrictsPage(snapshot, options) ==
    LET listed == FilterAndSortDistricts(snapshot.districts, options, snapshot.flagged)
        highestBacklog == FirstOrNone(ByBacklog(snapshot))
        slowestClearance == FirstOrNone(ByDisposalRate(snapshot))
    IN  [rows |-> [i \in DOMAIN listed |-> TableRow(listed[i])],
         highestBacklog |-> highestBacklog, slowestClearance |-> slowestClearance,
         toWatch |-> snapshot.flagged,
         comparison |-> Comparison(highestBacklog, slowestClearance)]

-----------------------------------------------------------------------------
(* The evidence page of a district: district-detail.ts *)

\* One point for each published snapshot in which the district appears.
BuildDistrictHistoryPoint(snapshot, id) ==
    LET d == DistrictIn(snapshot, id)[1]
    IN  With(d, [at |-> snapshot.at, publishedAt |-> snapshot.publishedAt, quality |-> snapshot.quality])
DistrictHistory(snapshots, id) ==
    LET present == Where(snapshots, LAMBDA s : DistrictIn(s, id) # <<>>)
    IN  [i \in DOMAIN present |-> BuildDistrictHistoryPoint(present[i], id)]

NoPoint == 0
CurrentPointByDate(snapshot, history) ==
    LET found == {i \in DOMAIN history : history[i].at = snapshot.at}
    IN  IF found # {} THEN Min(found) ELSE NoPoint
CurrentPoint(snapshot, history) ==
    LET found == {i \in DOMAIN history :
                      history[i].at = snapshot.at /\ history[i].publishedAt = snapshot.publishedAt}
    IN  IF found # {} THEN Min(found) ELSE NoPoint

\* currentPoint and previousPoint, as indices of the history or NoPoint.
ShownPoint(snapshot, history) ==
    IF CurrentPoint(snapshot, history) # NoPoint THEN CurrentPoint(snapshot, history) ELSE Len(history)
PriorPoint(snapshot, history) ==
    IF CurrentPoint(snapshot, history) > 1 THEN CurrentPoint(snapshot, history) - 1
    ELSE IF Len(history) > 1 THEN Len(history) - 1 ELSE NoPoint

\* direction is -1 where a smaller number is the better one.
Delta(snapshot, history, field, direction) ==
    LET current == ShownPoint(snapshot, history)
        previous == PriorPoint(snapshot, history)
    IN  IF current = NoPoint \/ previous = NoPoint THEN NotAvailable
        ELSE Shown(direction * (history[current][field] - history[previous][field]))

RenderWaitingClock(months) ==
    LET capped == Min({months, 48}) IN [squares |-> capped, columns |-> Min({capped, 12})]

HistoryBars(history) ==
    LET max == Max({history[i].backlog : i \in DOMAIN history} \cup {1})
        width(point) == (200 * point.backlog + max) \div (2 * max)
    IN  [i \in DOMAIN history |-> Max({6, width(history[i])})]

HistoryTableRow(point) == With(DistrictCells(point), [at |-> point.at, quality |-> point.quality])

\* The header and the tiles.
DistrictTiles(snapshot, id, history) ==
    LET d == DistrictIn(snapshot, id)[1]
        activity == MonthlyActivity(d)
        missing == SourceReportsMissingMonthlyActivity(activity)
        disposalDelta == Delta(snapshot, history, "disposalRate", 1)
    IN  With(TableRow(d),
            [backlogDelta |-> Delta(snapshot, history, "backlog", 1),
             disposalNote |-> IF missing THEN NotAvailable ELSE disposalDelta,
             rankDelta |-> Delta(snapshot, history, "rank", -1),
             clock |-> RenderWaitingClock(Months(d.medianAge)),
             movement |-> FormatBacklogMovementFromMonthlyActivity(activity),
             movementNote |-> DescribeBacklogMovementFromMonthlyActivity(activity),
             breakEven |-> FormatBreakEvenFromMonthlyActivity(activity),
             breakEvenNote |-> DescribeBreakEvenFromMonthlyActivity(activity),
             persistenceNote |-> BuildWatchlistPersistenceMetric(d.persistence.flaggedInLastSix,
                                                                d.persistence.lastSixWindow)])

\* The card on the flag and the published history.
DistrictPage(snapshot, id, history) ==
    LET d == DistrictIn(snapshot, id)[1]
    IN  With(DistrictTiles(snapshot, id, history),
             [catchUpNote |-> IF SourceReportsMissingMonthlyActivity(MonthlyActivity(d)) THEN "not computed"
                              ELSE DescribeCatchUp(d.catchUp),
              bars |-> HistoryBars(history),
              history |-> [i \in DOMAIN history |-> HistoryTableRow(history[i])]])

-----------------------------------------------------------------------------
(* The movers page: listMovers and movers.ts *)

\* current, previous: the two newest snapshots of the history.
Movers(current, previous) ==
    LET both == Where(current.districts, LAMBDA d : DistrictIn(previous, d.id) # <<>>)
        mover(d) == LET prev == DistrictIn(previous, d.id)[1]
                    IN  [id |-> d.id, rank |-> d.rank, backlog |-> d.backlog,
                         filed |-> d.filed, cleared |-> d.cleared, medianAge |-> d.medianAge,
                         backlogDelta |-> d.backlog - prev.backlog,
                         disposalDelta |-> d.disposalRate - prev.disposalRate,
                         rankDelta |-> prev.rank - d.rank]
    IN  [i \in DOMAIN both |-> mover(both[i])]

MoversTable(movers) ==
    [i \in DOMAIN movers |-> With(DistrictCells(movers[i]), [change |-> AbsOf(movers[i].backlogDelta)])]
RankTable(movers) ==
    [i \in DOMAIN movers |->
        [id |-> movers[i].id, previousRank |-> movers[i].rank - movers[i].rankDelta,
         rank |-> movers[i].rank, places |-> AbsOf(movers[i].rankDelta)]]

MoversPage(movers, limit) ==
    LET jumps == StableSort(movers, LAMBDA m, n : m.backlogDelta > n.backlogDelta)
        improving == StableSort(Where(movers, LAMBDA m : m.backlogDelta < 0),
                                LAMBDA m, n : m.backlogDelta < n.backlogDelta)
        rises == StableSort(Where(movers, LAMBDA m : m.rankDelta > 0),
                            LAMBDA m, n : m.rankDelta > n.rankDelta)
    IN  [biggestJumps |-> MoversTable(UpTo(jumps, limit)),
         fastestImproving |-> MoversTable(UpTo(improving, limit)),
         biggestRankRises |-> RankTable(UpTo(rises, limit)),
         comparison |-> IF Len(UpTo(jumps, limit)) >= 2 THEN {jumps[1].id, jumps[2].id} ELSE {}]

-----------------------------------------------------------------------------
(* Two districts side by side: compare.ts *)

ClearanceDiffOfStoredRates(a, b) == Shown(a.disposalRate - b.disposalRate)
ClearanceDiff(a, b) ==
    IF CanComputeClearancePace(MonthlyActivity(a)) /\ CanComputeClearancePace(MonthlyActivity(b))
    THEN Shown(a.disposalRate - b.disposalRate) ELSE NotAvailable

ComparePage(snapshot, idA, idB) ==
    LET a == DistrictIn(snapshot, idA)[1]
        b == DistrictIn(snapshot, idB)[1]
    IN  [panels |-> <<DistrictCells(a), DistrictCells(b)>>,
         gaps |-> <<FormatFileClearGap(MonthlyActivity(a)), FormatFileClearGap(MonthlyActivity(b))>>,
         backlogDiff |-> a.backlog - b.backlog,
         clearanceDiff |-> ClearanceDiff(a, b),
         waitDiff |-> Months(a.medianAge) - Months(b.medianAge)]

-----------------------------------------------------------------------------
(* The home page of the geography: home.ts, view-model.ts, copy.ts, waiting-room.ts *)

BuildViewModel(snapshot) ==
    LET trends == StableSort(snapshot.trends, LAMBDA p, q : p.at < q.at)
        oldest == trends[1]
        newest == trends[Len(trends)]
    IN  [pending |-> snapshot.stats.pending,
         clearanceRate |-> snapshot.stats.disposalRate,
         clearancePaceAvailable |-> snapshot.stats.filed > 0,
         typicalWaitMonths |-> Months(snapshot.stats.medianAge),
         flaggedCount |-> snapshot.flagged,
         topDistrict |-> FirstOrNone(ByRank(snapshot)),
         topThree |-> UpTo(ByRank(snapshot), 3),
         trendsOldestFirst |-> trends,
         backlogDelta |-> newest.pending - oldest.pending]

ClearanceCaption(snapshot) ==
    LET model == BuildViewModel(snapshot)
    IN  IF ~model.clearancePaceAvailable
        THEN DescribeClearancePer100(StateActivity(snapshot.stats))
        ELSE IF model.clearanceRate >= 1000 THEN "clearing faster"
        ELSE IF model.clearanceRate >= 900 THEN "nearly keeping pace" ELSE "backlog keeps growing"

\* The lede adds the wait of the first district by rank that waits a year or more.
HeroLede(snapshot) ==
    LET model == BuildViewModel(snapshot)
        long == Where(ByRank(snapshot), LAMBDA d : d.medianAge >= 365 /\ d.backlog > 0)
    IN  IF long # <<>> /\ Months(long[1].medianAge) > model.typicalWaitMonths
        THEN [districts |-> Len(long), months |-> {Months(long[1].medianAge)}]
        ELSE [districts |-> 0, months |-> {}]

\* Nothing when the month is missing; else whether the backlog grows.  The hourly
\* rates derive from the backlog, the wait and the rate of disposal.
ComputeWaitingRoomRates(stats) ==
    IF SourceReportsMissingMonthlyActivity(StateActivity(stats)) THEN NotAvailable
    ELSE IF stats.disposalRate <= 1000 \/ stats.pending = 0 THEN Shown("grows") ELSE Shown("shrinks")

\* "What the pressure means".
HomeTiles(snapshot) ==
    LET activity == StateActivity(snapshot.stats)
        top == ByRank(snapshot)[1]
    IN  [oldCases |-> FormatOldCaseBurdenValue(snapshot.stats.oldCaseBurden),
         movement |-> FormatBacklogMovementFromMonthlyActivity(activity),
         movementNote |-> DescribeBacklogMovementFromMonthlyActivity(activity),
         breakEven |-> FormatBreakEvenFromMonthlyActivity(activity),
         breakEvenNote |-> DescribeBreakEvenFromMonthlyActivity(activity),
         catchUp |-> FormatCatchUpFromMonthlyActivity(activity),
         catchUpNote |-> DescribeCatchUpFromMonthlyActivity(activity),
         concentration |-> FormatBacklogConcentrationValue(snapshot.stats.concentration),
         topPersistence |-> BuildWatchlistPersistenceMetric(top.persistence.flaggedInLastSix,
                                                           top.persistence.lastSixWindow)]

\* renderTrendChart: bars in tenths of a percent of the widest.
TrendChart(model) ==
    LET max == Max({model.trendsOldestFirst[i].pending : i \in DOMAIN model.trendsOldestFirst})
    IN  [i \in DOMAIN model.trendsOldestFirst |-> Percentage(model.trendsOldestFirst[i].pending, max)]

HomePage(snapshot) ==
    LET model == BuildViewModel(snapshot)
    IN  With(HomeTiles(snapshot),
             [cards |-> [i \in DOMAIN model.topThree |->
                            With(DistrictCells(model.topThree[i]), [flagReason |-> model.topThree[i].flagReason,
                                                                    summary |-> model.topThree[i].summary])],
              pace |-> FormatClearancePer100(StateActivity(snapshot.stats)),
              caption |-> ClearanceCaption(snapshot),
              lede |-> HeroLede(snapshot),
              waitingRoom |-> ComputeWaitingRoomRates(snapshot.stats),
              flaggedCount |-> model.flaggedCount,
              trend |-> TrendChart(model)])

-----------------------------------------------------------------------------
(* Widgets, cards and downloads: embed.ts, og-routes.ts, evidence-packs.ts, CSV *)

DistrictEmbed(d) == With(DistrictCells(d), [summary |-> d.summary])
StateEmbed(snapshot) ==
    LET model == BuildViewModel(snapshot)
    IN  [pending |-> model.pending, months |-> model.typicalWaitMonths,
         pace |-> IF model.clearancePaceAvailable THEN Shown(model.clearanceRate) ELSE NotAvailable]

\* The cards print the stored rate, be there one or not.
StateCard(snapshot) ==
    LET model == BuildViewModel(snapshot)
    IN  [pending |-> model.pending, months |-> model.typicalWaitMonths,
         pace |-> Shown(model.clearanceRate), flaggedCount |-> model.flaggedCount]
DistrictCard(d) ==
    [rank |-> d.rank, backlog |-> d.backlog, months |-> Months(d.medianAge), pace |-> Shown(d.disposalRate)]

\* The packs and the downloads export the stored fields, also where pages say N/A.
DistrictExport(d) ==
    [id |-> d.id, rank |-> d.rank, backlog |-> d.backlog, filed |-> d.filed, cleared |-> d.cleared,
     disposalRate |-> d.disposalRate, gap |-> d.gap, movement |-> d.movement, breakEven |-> d.breakEven,
     repeat |-> <<d.persistence.flaggedInLastSix, d.persistence.lastSixWindow>>,
     flagReason |-> d.flagReason, summary |-> d.summary]
DistrictCsv(snapshot) == [i \in DOMAIN snapshot.districts |-> DistrictExport(snapshot.districts[i])]
DistrictHistoryCsv(history) ==
    [i \in DOMAIN history |-> With(DistrictExport(history[i]), [at |-> history[i].at])]
DistrictEvidencePack(d, history) == [metrics |-> DistrictExport(d), recentHistory |-> DistrictHistoryCsv(history)]
StateExport(snapshot) ==
    LET highestBacklog == FirstOrNone(ByBacklog(snapshot))
        slowestClearance == FirstOrNone(ByDisposalRate(snapshot))
    IN  [stats |-> snapshot.stats, flagged |-> snapshot.flagged,
         topDistricts |-> LET top == UpTo(ByRank(snapshot), TopFew)
                          IN  [i \in DOMAIN top |-> DistrictExport(top[i])],
         comparison |-> Comparison(highestBacklog, slowestClearance)]

\* The feed lists the last twenty publications, and every item quotes the numbers
\* that are current, not its own.
RssFeed(publications, current) ==
    [i \in DOMAIN UpTo(publications, 20) |->
        [publication |-> publications[i], pending |-> current.stats.pending,
         months |-> Months(current.stats.medianAge), flagged |-> current.flagged,
         pace |-> FormatClearancePer100(StateActivity(current.stats))]]

=============================================================================
