SPECIFICATION Spec
CONSTANTS
    Ops = {o1, o2}
    Tabs = {t1, t2}
    BusinessKey <- SameKey
    Window = 1
    MaxLag = 2
    MaxLedger = 3
SYMMETRY Symmetry
INVARIANT ExpiredNeverApplied
CHECK_DEADLOCK FALSE
