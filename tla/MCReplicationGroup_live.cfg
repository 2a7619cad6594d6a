\* Deaths after the bootstrap and a connect that fails, under fairness.
SPECIFICATION FairSpec
CONSTANTS
    b = b
    r1 = r1
    r2 = r2
    r3 = r3
    NoPeer = NoPeer
    Peer = {b, r1, r2, r3}
    Boot = b
    Recruits <- ThreeRecruits
    Promotable = FALSE
    MaxCrash = 3
    MaxBindFail = 1
    CrashWhileForming = FALSE
PROPERTIES
    PrimaryAgreed
CHECK_DEADLOCK FALSE
