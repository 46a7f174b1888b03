SPECIFICATION FairSpec
CONSTANTS
    patcher = patcher
    replacer = replacer
    tasks = tasks
    wanted = wanted
    barred = barred
    Whole = Whole
    Writers = {patcher, replacer}
    Sections = {tasks}
    Section <- MCSection
    Unsure = {replacer}
    Ticks = {t1}
    Labels = {wanted, barred}
    Requested <- MCRequested
    Allowed <- MCAllowed
    Raisers = {patcher, replacer}
    Declared = {patcher}
    Opening = {replacer}
    MaxAttempts = 2
    MaxRetries = 1
    MaxEdits = 1
    MaxReruns = 1
    MaxFaults = 2
INVARIANTS
    OnlyUnseenIsLost
    OriginalsAreKept
    RaisedOnce
    GivesUpLate
PROPERTIES
    EffectsFollow
CHECK_DEADLOCK FALSE
