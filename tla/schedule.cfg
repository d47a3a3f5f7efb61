CONSTANTS
    Scopes = 2
    Public = {2}
    LagDays = 1
    ReportLagDays = 1
    Lookback = 2
    MaxDays = 3
    MaxChanges = 1
SPECIFICATION Spec
CHECK_DEADLOCK FALSE
PROPERTY NoScopeGoesStaleUnnoticed
PROPERTY NothingExpiresUnannounced
