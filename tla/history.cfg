CONSTANTS
    Totals = {1, 2}
    TrendDays = 2
    TrendWindow = 2
    InstantsPerDay = 2
    DaysPerMonth = 2
    Days = 3
    MaxSnapshots = 3
    MaxEvents = 5
SPECIFICATION Spec
CHECK_DEADLOCK FALSE
INVARIANT TrendsAreNewestDays
INVARIANT CarriedForwardIsActive
INVARIANT TrendPointsAreActive
INVARIANT MonthsAreFinalizedByTheirLastCapture
INVARIANT LineageShowsWhatEndedUpLive
