SPECIFICATION Spec
CONSTANTS
    home = home
    NumRuns = 2
    Sessions = {}
    Clones = {home}
    Clone <- MCClone
    Hosted = {}
    MaxRetries = 0
    MaxCommits = 1
    MaxFaults = 0
INVARIANTS
    LaterRunsRecover
CHECK_DEADLOCK FALSE
