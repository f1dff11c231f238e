\* Two requests between the creator and one other user.
SPECIFICATION Spec
CONSTANTS
    c1 = c1
    c2 = c2
    owner = owner
    dev = dev
    Calls = {c1, c2}
    Users = {owner, dev}
    Creator = owner
    Pat = Pat
    PatUser = dev
    Key = Key
    Anonymous = Anonymous
    Owners = Owners
    Dev = Dev
    Starts <- MyStarts
    Levels = {0, 2}
    MaxCalls = 2
    MaxFaults = 1
SYMMETRY CallSymmetry
INVARIANTS TypeOK EntitledOnce RuleAsAsked
CHECK_DEADLOCK FALSE
