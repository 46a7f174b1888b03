SPECIFICATION FairSpec
CONSTANTS
    MaxCycles <- MCMaxCycles
    Standards <- MCStandards
    Adrs = {"old", "new"}
    NoRef = "none"
    Decisions <- MCDecisions
    Overridable <- MCOverridable
    Reviews <- MCReviews
    UncountFails = FALSE
    MaxHead = 3
    MaxActs = 2
    MaxFaults = 1
INVARIANTS
    LoopIsCapped
    ReviewsTestedHead
    FreeOnce
PROPERTIES
    LoopEnds
    ObjectionIsAnswered
CHECK_DEADLOCK FALSE
