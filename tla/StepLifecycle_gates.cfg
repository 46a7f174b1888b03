SPECIFICATION Spec
CONSTANTS
    NumSteps = 2
    Deps <- TwoStepDeps
    Trigger <- TwoStepDeps
    Gated = {1}
    SelfGates = {}
    Headless = headless
    Interactive = {}
    MaxRetries = 0
    MaxWall = 0
    Grace = 0
    MaxActs = 3
    MaxFaults = 1
    MaxRevision = 2
INVARIANTS
    TypeOK
    GateNeedsPerson
    DependentsNeedPerson
    HaltNeedsPerson
