SPECIFICATION Spec
CONSTANTS
    p1 = p1
    p2 = p2
    p3 = p3
    k1 = k1
    k2 = k2
    Cleared = Cleared
    NoKey = NoKey
    People = {p1, p2, p3}
    Keys = {k1, k2}
    Matches <- TwoTexts
CHECK_DEADLOCK FALSE
PROPERTIES
    Refetching
