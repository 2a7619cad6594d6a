\* Three super-peers, one fault; a leaf and three coordinators, of which two crash.
SPECIFICATION MCSpec
CONSTANTS
    Peers = {1, 2, 3}
    ReplyTimeout = 2
    MaxWait = 7
    MaxFaults = 1
    Coordinators = {c1, c2, c3}
    MaxCrashes = 2
INVARIANTS
    Attached
    OneRoot

    
CHECK_DEADLOCK FALSE
