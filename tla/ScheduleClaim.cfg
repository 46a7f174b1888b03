SPECIFICATION FairSpec
CONSTANTS
    Runners = {r1}
    Period <- MCPeriod
    Lease <- MCLease
    MaxTick <- MCMaxTick
    NumSteps = 2
    MaxFaults = 4
INVARIANTS
    SweepIsClaimed
    SweepOnlyWhenDue
PROPERTIES
    FiringServed
