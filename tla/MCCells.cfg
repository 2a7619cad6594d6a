\* Chains of four and of three coordinators; trees of four cells and of three.
SPECIFICATION MCSpec
CONSTANTS
    None = None
    p1 = p1
    p2 = p2
    p3 = p3
    p4 = p4
    s1 = s1
    Root = Root
    c1 = c1
    c2 = c2
    c3 = c3
INVARIANTS
    MeshInv
    WellFormed
    Searched
PROPERTIES
    OrphansOfThreeBind
CHECK_DEADLOCK FALSE
