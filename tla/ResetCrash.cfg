SPECIFICATION Spec
CONSTANTS
    k1 = k1
    k2 = k2
    w1 = w1
    f1 = f1
    f2 = f2
    l1 = l1
    l2 = l2
    Docs = {k1, k2}
    Writes = {}
    Foreign = {f1, f2}
    Early = {f2}
    Where <- Places
    Absent = Absent
    Listeners = {l1}
    MaxLookups = 1
    MaxDeletes = 1
    MaxFaults = 2
INVARIANTS
    SyncedIsServer
CHECK_DEADLOCK FALSE
