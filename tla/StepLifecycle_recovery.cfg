SPECIFICATION FairSpec
CONSTANTS
    NumSteps = 1
    Deps <- OneStepDeps
    Trigger <- OneStepDeps
    Gated = {1}
    SelfGates = {}
    Headless = headless
    Interactive = {}
    MaxRetries = 1
    MaxWall = 2
    Grace = 1
    MaxActs = 3
    MaxFaults = 2
    MaxRevision = 3
INVARIANTS
    LeaseOutlivesRun
PROPERTIES
    RequestServed
    PromotionHappens
    StrandedWipReclaimed
