SPECIFICATION Spec
CONSTANTS
    Writers = {w1, w2}
    MaxRetries = 2
    MaxAppends = 2
    MaxFaults = 3
SYMMETRY WriterSymmetry
INVARIANTS
    AppendedIsRecorded
    DoublesNeedLostAnswer
    RejectionNeedsRival
PROPERTIES
    LedgerIsAppendOnly
CHECK_DEADLOCK FALSE
