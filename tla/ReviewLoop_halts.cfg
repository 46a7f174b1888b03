SPECIFICATION FairSpec
CONSTANTS
    MaxCycles <- MCMaxCycles
    Standards <- MCStandards
    Adrs = {"old", "new"}
    NoRef = "none"
    Decisions <- MCDecisions
    Overridable <- MCOverridable
    Reviews <- MCReviews
    UncountFails = FALSE
    MaxHead = 4
    MaxActs = 1
    MaxFaults = 0
PROPERTIES
    HaltHolds
CHECK_DEADLOCK FALSE
