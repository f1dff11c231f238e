\* Three pushes to two branches; packs have names of their own.
SPECIFICATION Spec
CONSTANTS
    c1 = c1
    c2 = c2
    c3 = c3
    Calls = {c1, c2, c3}
    Refs = {main, dev}
    Tips = {1, 2}
    Needs <- Chain
    None = None
    SamePacks = FALSE
    MaxFaults = 1
    MaxLeaves = 1
SYMMETRY CallSymmetry
INVARIANTS  NoTrace 
PROPERTIES ImplementsAtomicRefs
CHECK_DEADLOCK FALSE
