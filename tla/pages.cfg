CONSTANTS
    East = East
    West = West
    Geographies <- Registry
    Extracts <- Sources
    Dates = {1, 2}
    Read <- Opened
    DistrictFlagLimit = 1
    ShortWindow = 1
    LongWindow = 2
    TopFew = 1
    TopMany = 2
    TrendPoints = 2
    DistrictRows = 2
    RampBins = 3
    MaxWaiting = 2
    MaxSnapshots = 3
    MaxEvents = 3
SPECIFICATION Spec
CHECK_DEADLOCK FALSE
INVARIANT RepeatSignalCountsTheWatchlists
INVARIANT PaceIsShownOrNotEverywhere
INVARIANT DistrictPageIsOfOneSnapshot
INVARIANT MoversAgreeWithDistrictPages
INVARIANT HeadlinesOpenTheirWatchroom
