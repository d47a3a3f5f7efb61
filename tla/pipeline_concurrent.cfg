CONSTANTS
    Operator = {o1, o2}
    full = full
    short = short
    Evidence = {full, short}
    QualityOf <- MCQualityOf
    NoContent = NoContent
    Damaged = Damaged
    MaxRuns = 2
    MaxTicks = 3
SPECIFICATION Spec
SYMMETRY OperatorSymmetry
CHECK_DEADLOCK FALSE
INVARIANT TypeOK
INVARIANT ReleasesAreBackedByEvidence
INVARIANT CompletedMeansUnreleased
INVARIANT HistoryIsConsistent
INVARIANT PendingRunsAreAttended
PROPERTY RollbackStays
PROPERTY ImplementsPublicationLog
