\* Joins and two deaths in a cell of four, with four slots and with three, under fairness.
SPECIFICATION MCSpec
CONSTANTS
    Peer = {p1, p2, p3, p4}
    Founder = p1
    NoPeer = NoPeer
    MaxSP = 4
    MaxCrash = 2
INVARIANTS
    OneCoordinator
    SuccessorFound
    SuccessionAgreed
    NotForgotten
PROPERTIES
    EventuallyReunited
CHECK_DEADLOCK FALSE
