\* Two runtimes that crash, one whose threads call together, two in either build
\* that end in order; three packets in any pieces, but for their headers.
SPECIFICATION MCSpec
CONSTANTS
    r1 = r1
    r2 = r2
    Runtimes = {r1, r2}
    NoRuntime = none
    Workers = {"w"}
    Partitioning = FALSE
    Orderly = FALSE
    MaxCalls = 1
    MaxFaults = 1
    MaxRestarts = 1
    HeaderSize = 6
    MaxBody = 3
    MaxPackets = 3
    WholeHeaders = TRUE
INVARIANTS
    Reserved
    AnswersFindTheirCaller
PROPERTIES
    CallsAreServed
CHECK_DEADLOCK FALSE
