CONSTANTS
    Operator = {o1}
    full = full
    short = short
    Evidence = {full, short}
    QualityOf <- MCQualityOf
    NoContent = NoContent
    Damaged = Damaged
    MaxRuns = 2
    MaxTicks = 4
SPECIFICATION FairSpec
CHECK_DEADLOCK FALSE
INVARIANT ReleasedOnceInOrder
PROPERTY PublishRequiresCompletedRun
PROPERTY PendingRunsSettle
