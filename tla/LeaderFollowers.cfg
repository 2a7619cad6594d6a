\* Two static threads, a dynamic one, and a thread that waits for an event, with a timeout.
SPECIFICATION FairSpec
CONSTANTS
    Static = {s1, s2}
    Dynamic = {d1}
    Waiters = {w}
    NoThread = NoThread
    Completer = Completer
    MaxEvents = 2
    MaxDynamic = 1
INVARIANTS
    LeaderIsComing
PROPERTIES
    EventsHandled
CHECK_DEADLOCK FALSE
