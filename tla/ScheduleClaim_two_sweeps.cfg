SPECIFICATION Spec
CONSTANTS
    Runners = {r1, r2}
    Period <- MCPeriod
    Lease <- MCLease
    MaxTick <- MCMaxTick
    NumSteps = 1
    MaxFaults = 0
INVARIANTS
    NoTwoSweeps
