\* Two requests at once, three in all, between the issue's author and another user.
SPECIFICATION Spec
CONSTANTS
    c1 = c1
    c2 = c2
    ann = ann
    bob = bob
    Calls = {c1, c2}
    Users = {ann, bob}
    Author = ann
    Labels = {"high", "low", "bug"}
    ScopeOf <- MyScope
    NoScope = "none"
    MaxAttempts = 2
    Starts <- MyStarts
    MaxCalls = 3
    MaxFaults = 1
SYMMETRY CallSymmetry
INVARIANTS TypeOK Numbers Told Kept
CHECK_DEADLOCK FALSE
