\* Three requests for one account, from one address or none.
SPECIFICATION Spec
CONSTANTS
    c1 = c1
    c2 = c2
    c3 = c3
    i1 = i1
    Calls = {c1, c2, c3}
    Ips = {i1}
    All = All
    Old = Old
    None = None
    Starts <- MyStarts
    Batch = 2
    MaxFaults = 1
    MaxTicks = 1
    MaxSigns = 2
SYMMETRY CallSymmetry
VIEW WithoutFinished
INVARIANTS TypeOK  SetupSettled
 
CHECK_DEADLOCK FALSE
