\* Replies, deaths and the waiter in any order, three channels, under fairness.
SPECIFICATION FairSpec
CONSTANT Channel = {c1, c2, c3}
INVARIANTS
    GroupComplete
    NoLockInversion
PROPERTIES
    WaitEnds
CHECK_DEADLOCK FALSE
