SPECIFICATION Spec
CONSTANTS
    Runs = {r1, r2}
    Ends <- MCEnds
    Sweepers = {s1, s2}
    Hours = 5
    Days = 2
    Horizon = 20
    Offset <- MCOffset
    Star = Star
    Cron <- MCCron
    MaxSlow = 2
    MaxFaults = 1
SYMMETRY MCSymmetry
INVARIANTS
    RowsAreExact
    CountedOnce
    NoBucketPassedOver
PROPERTIES
    ReportHasTheWeek
CHECK_DEADLOCK FALSE
