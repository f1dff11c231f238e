\* Three requests about two names, one of them cut anywhere.
SPECIFICATION Spec
CONSTANTS
    a = a
    b = b
    c1 = c1
    c2 = c2
    c3 = c3
    Names = {a, b}
    Calls = {c1, c2, c3}
    None = None
    MaxFaults = 1
    MaxAdmin = 1
SYMMETRY CallSymmetry
INVARIANTS TypeOK  Linked ResetLinks
PROPERTIES StatusKept
CHECK_DEADLOCK FALSE
