\* Deaths at any moment, three recruits.
SPECIFICATION Spec
CONSTANTS
    b = b
    r1 = r1
    r2 = r2
    r3 = r3
    NoPeer = NoPeer
    Peer = {b, r1, r2, r3}
    Boot = b
    Recruits <- ThreeRecruits
    Promotable = TRUE
    MaxCrash = 2
    MaxBindFail = 0
    CrashWhileForming = TRUE
INVARIANTS
    NoSplitBrain
    SuccessionOrder
    FullMesh
PROPERTIES
    FailoverSpec
CHECK_DEADLOCK FALSE
