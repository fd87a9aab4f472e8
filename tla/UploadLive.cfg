SPECIFICATION FairSpec
CONSTANTS
    u1 = u1
    u2 = u2
    t1 = t1
    Users = {u1, u2}
    Texts = {t1}
    NoUser = NoUser
    NoText = NoText
    NoMsg = NoMsg
    PipelineSize = 2
    MaxTime <- TwoTicksForOne
    MaxCrashes = 1
    MaxRefusals = 1

PROPERTIES
    EventuallyDelivered
    KeepsPromise
