---------------------------- MODULE MetricInsights ----------------------------
(***************************************************************************)
(* What the pages print of a row's monthly activity and of the state's     *)
(* metrics (api/pages/metric-insights.ts).  A cell is a set: {} for "N/A", *)
(* {x} for the figure x; shares and rates are in tenths.  A sentence is    *)
(* reduced to the case it states.                                          *)
(***************************************************************************)
EXTENDS DistrictReport

NotAvailable == {}
Shown(x) == {x}

\* The monthly activity of a district of a snapshot, and of its state.
MonthlyActivity(d) == [pending |-> d.backlog, filed |-> d.filed, cleared |-> d.cleared]
StateActivity(stats) == [pending |-> stats.pending, filed |-> stats.filed, cleared |-> stats.cleared]

SourceReportsMissingMonthlyActivity(a) == a.pending > 0 /\ a.filed = 0 /\ a.cleared = 0
CanComputeClearancePace(a) == a.filed > 0 /\ ~SourceReportsMissingMonthlyActivity(a)

(* Clearance pace and the file-clear gap *)

FormatClearancePer100(a) ==
    IF CanComputeClearancePace(a) THEN Shown(Tenths(a.cleared, a.filed)) ELSE NotAvailable

DescribeClearancePer100(a) ==
    IF SourceReportsMissingMonthlyActivity(a) THEN "no monthly activity"
    ELSE IF a.filed <= 0 THEN "no filed count" ELSE "rate"

FormatFileClearGap(a) ==
    IF CanComputeClearancePace(a) THEN Shown(Tenths(a.filed - a.cleared, a.filed)) ELSE NotAvailable

(* The figures computed from monthly activity *)

UnlessActivityMissing(a, figure) ==
    IF SourceReportsMissingMonthlyActivity(a) THEN NotAvailable ELSE Shown(figure)

FormatBacklogMovementFromMonthlyActivity(a) == UnlessActivityMissing(a, BacklogMovementShare(a))
FormatBreakEvenFromMonthlyActivity(a) == UnlessActivityMissing(a, BreakEvenClearancesNeeded(a))
FormatCatchUpFromMonthlyActivity(a) == UnlessActivityMissing(a, CatchUpClearancesPerMonth(a))

DescribeBacklogMovement(share) ==
    IF share > 0 THEN "grew" ELSE IF share < 0 THEN "shrank" ELSE "did not move"
DescribeBreakEven(needed) == IF needed <= 0 THEN "cleared enough" ELSE "needed more"
DescribeCatchUp(perMonth) == IF perMonth <= 0 THEN "no extra clearances" ELSE "extra clearances"

DescribeBacklogMovementFromMonthlyActivity(a) ==
    IF SourceReportsMissingMonthlyActivity(a) THEN "not computed"
    ELSE DescribeBacklogMovement(BacklogMovementShare(a))
DescribeBreakEvenFromMonthlyActivity(a) ==
    IF SourceReportsMissingMonthlyActivity(a) THEN "not computed"
    ELSE DescribeBreakEven(BreakEvenClearancesNeeded(a))
DescribeCatchUpFromMonthlyActivity(a) ==
    IF SourceReportsMissingMonthlyActivity(a) THEN "not computed"
    ELSE DescribeCatchUp(CatchUpClearancesPerMonth(a))

(* The state's stored metrics *)

FormatValue(metric) == IF metric.state = "missing" THEN NotAvailable ELSE Shown(metric.value)
FormatOldCaseBurdenValue(metric) ==
    IF metric.state = "missing" THEN NotAvailable ELSE Shown(metric.value.fivePlusShare)
FormatBacklogConcentrationValue(metric) ==
    IF metric.state = "missing" THEN NotAvailable ELSE Shown(metric.value.topFewShare)

\* A window of one snapshot shows no persistence.
BuildWatchlistPersistenceMetric(flagged, window) ==
    IF window <= 1 THEN Missing("insufficient-history") ELSE Ok(<<flagged, window>>)

=============================================================================
