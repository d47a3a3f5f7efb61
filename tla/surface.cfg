SPECIFICATION Spec
CONSTANTS
    LowerScopes = {"HP", "PB"}
    HighCourts = {"HCPB"}
    SupremeCourt = "SC"
    DefaultState = "HP"
    SlugOf <- MCSlugOf
    Commands <- MCCommands
    Captures <- MCCaptures
    CloudflareConfigured = TRUE
    NewsletterConfigured = TRUE
    BatchSize = 4
    FillPaths <- MCFillPaths
    KeptAnyway <- MCKeptAnyway
    MaxRestarts = 1
    MaxInvocations = 2
    CheckedScopes = {"HP", "HCPB"}
    Beginnings <- MCBeginnings
INVARIANTS OperatorIsToldTheTruth DigestIsOfTheRelease DownloadsAreFresh PassedVerificationIsOfOneSnapshot ReleasedRoutesAnswer
CHECK_DEADLOCK FALSE
