CONSTANTS
    Counts = {5, 6, 8}
    TrendDays = 4
    MaxRuns = 3
    MaxEvents = 3
SPECIFICATION Spec
CHECK_DEADLOCK FALSE
INVARIANT EveryCandidateIsAccountedFor
INVARIANT ReportedPublishedIsReleased
INVARIANT DigestIsCurrent
PROPERTY SweepStepsAreSmall
