CONSTANTS
    Process = {p1, p2}
    Code = {"HP", "HPHC", "SCI"}
    ScopeOf <- MCScopeOf
    MaxFaults = 2
SPECIFICATION FairMigrationSpec
CHECK_DEADLOCK FALSE
INVARIANT LedgerMatchesSchema
INVARIANT EveryRowIsFound
PROPERTY EveryStartServes
