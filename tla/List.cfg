SPECIFICATION FairSpec
CONSTANTS
    p1 = p1
    p2 = p2
    p3 = p3
    m1 = m1
    m2 = m2
    Partners = {p1, p2, p3}
    Profiled = {p1, p2}
    Messages = {m1, m2}
    NoMsg = NoMsg
    Clock <- Times
    MaxChanges = 2
    MaxFailures = 1
INVARIANTS
    LastChangeKept
    OneRowEach
    ShownWhenAnswered
    TopRowIsLatest
PROPERTIES
    NoRowTakenByOthers
    EventuallyShown
CHECK_DEADLOCK FALSE
