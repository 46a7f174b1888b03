SPECIFICATION FairSpec
CONSTANTS
    a = a
    b = b
    c = c
    x = x
    y = y
    tick = tick
    session = session
    Items = {a, b, c}
    Turn <- MCTurn
    Components <- MCComponents
    BlockedBy <- MCBlockedBy
    Through <- MCThrough
    NumSteps = 2
    StopOn <- MCStopOn
    SweepStopOn = 2
    Ticks = {tick}
    Sessions = {session}
    Target <- MCTarget
    Asked = {b}
    MaxLaunches = 1
    MaxActs = 1
    MaxFaults = 1
INVARIANTS
    StartsSpareSeen
    BudgetHolds
    ControlsTakeHold
    BlockedWaits
PROPERTIES
    ItemsComeToRest
CHECK_DEADLOCK FALSE
