\* f is there and publishes, g joins and publishes, a leaf tells of itself, a
\* call is given up; or two deployments, by anyone, one connection fails.
CONSTANTS
    None = None
    R = R
    C = C
    r = r
    f = f
    g = g
    l = l
    Coordinators = {R, C}
    Followers = {r, f, g}
    Leaves = {l}
    Above <- MCAbove
    Early = {r, f}
    Publishers = {f, g}
    MaxUpdates = 2
    MaxTimeouts = 1
    MaxWithLeaf = 2
    Absent = Absent
    Targets = {f, Absent}
    MaxDeployments = 2
    Replicas = 2
    MaxFaults = 1
SPECIFICATION MCSpec
INVARIANTS
    Unharmed
    Informed
PROPERTIES
    CallersReturn
CHECK_DEADLOCK FALSE
