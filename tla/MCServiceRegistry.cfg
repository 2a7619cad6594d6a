\* A plain instance, a replica, a stopper and the close of the runtime, under fairness.
SPECIFICATION FairSpec
CONSTANTS
    Instance = {i1, i2}
    Stopper = {s1}
    Replicated = {i2}
    MaxCalls = 2
    Nobody = Nobody
INVARIANTS
    TeardownOnce
    Findable
    CloseSettles
PROPERTIES
    CloseReturns
CHECK_DEADLOCK FALSE
