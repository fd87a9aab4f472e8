SPECIFICATION FairSpec
CONSTANTS
    k1 = k1
    k2 = k2
    w1 = w1
    f1 = f1
    f2 = f2
    l1 = l1
    l2 = l2
    Docs = {k1, k2}
    Writes = {w1}
    Foreign = {f1, f2}
    Early = {f2}
    Where <- Places
    Absent = Absent
    Listeners = {l1, l2}
    MaxLookups = 1
    MaxDeletes = 1
    MaxFaults = 1
INVARIANTS
    TargetsInStep
    AssertionsHold
    ViewIsLocal
    SyncedUnlessTorn
    ListenersAgree
    QueryFindsAll
PROPERTIES
    NoStepBack
    Settles
CHECK_DEADLOCK FALSE
