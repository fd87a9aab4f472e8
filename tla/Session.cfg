SPECIFICATION FairSpec
CONSTANTS
    a1 = a1
    a2 = a2
    a3 = a3
    s1 = s1
    s2 = s2
    Nobody = Nobody
    NoSignUp = NoSignUp
    Accounts = {a1, a2, a3}
    SignUps = {s1, s2}
INVARIANTS
    ProfilesMatch
    HomeListIsMine
    CrashesAfterMisstep
    NoneForgotten
PROPERTIES
    RegisteredAtHome
    WaitsEnd
