SPECIFICATION Spec
CONSTANTS
    u1 = u1
    u2 = u2
    t1 = t1
    Users = {u1, u2}
    Texts = {t1}
    NoUser = NoUser
    NoText = NoText
    NoMsg = NoMsg
    PipelineSize = 2
    MaxTime <- TwoTicksAgainstOne
    MaxCrashes = 1
    MaxRefusals = 1
INVARIANTS
    CopiesBacked
    ReceiverSeesPrefix
    RecentIsLatest
    RecentsAgree
PROPERTIES
    ClearsOnlyStored
