\* Two clients, three calls, two replicas, which may crash.
SPECIFICATION FairSpec
CONSTANTS
    Workers = {w1, w2}
    Replicas = {r1, r2}
    MaxCalls = 3
INVARIANTS
    AnsweredIsReplicated
    InSync
PROPERTIES
    InvocationsReturn
CHECK_DEADLOCK FALSE
