CONSTANTS
    Counts = {0, 5, 6, 7, 12, 20}
    GatePoints = 4
SPECIFICATION GateSpec
INVARIANT OneBadPublicationDoesNotPoison
PROPERTY UnreviewedIsNearHistory
