SPECIFICATION Spec
CONSTANTS
    c1 = c1
    c2 = c2
    c3 = c3
    Calls = {c1, c2, c3}
    theirs = theirs
    copy = copy
    other = other
    Names = {theirs, copy, other}
    Mine <- MyNames
    ForkOf <- KeepsName
    MaxRepos = 1
    Ops = {"create", "fork", "delete", "push", "lfs", "asset"}
    None = None
    MaxFaults = 1
    MaxLeaves = 1
SYMMETRY CallSymmetry
INVARIANTS TypeOK Settled  Quota
CHECK_DEADLOCK FALSE
