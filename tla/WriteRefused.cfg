SPECIFICATION Spec
CONSTANTS
    u1 = u1
    u2 = u2
    Nobody = Nobody
    w1 = w1
    w2 = w2
    w3 = w3
    w4 = w4
    NoWrite = NoWrite
    Users = {u1, u2, Nobody}
    AtStart = {u1}
    Writes = {w1, w2, w3, w4}
    Bad = {w3}
    Then <- Chain
    PipelineSize = 3
    MaxSwitches = 0
    MaxBreaks = 0
    MaxCrashes = 0
INVARIANTS
    RefusedIsBad
CHECK_DEADLOCK FALSE
