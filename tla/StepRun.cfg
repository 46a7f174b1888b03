SPECIFICATION FairSpec
CONSTANTS
    home = home
    NumRuns = 2
    Sessions = {}
    Clones = {home}
    Clone <- MCClone
    Hosted = {home}
    MaxRetries = 1
    MaxCommits = 1
    MaxFaults = 1
INVARIANTS
    CompleteIsDurable
    NothingLostInSilence
    SpentIsSalvaged
    ResultIsOwn
PROPERTIES
    WorkIsDurable
    RunsEnd
CHECK_DEADLOCK FALSE
