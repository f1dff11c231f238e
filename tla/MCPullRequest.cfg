\* Two handlers at a time around one pull request, faults anywhere.
SPECIFICATION FairSpec
CONSTANTS
    c1 = c1
    c2 = c2
    Calls = {c1, c2}
    Reviewers = {alice}
    None = None
    FromFork = FALSE
    RequiredApprovals = 1
    DismissStale = TRUE
    RequireChecks = TRUE
    MaxPushes = 1
    MaxOthers = 1
    MaxCalls = 2
    MaxReviews = 1
    MaxFaults = 1
INVARIANTS  MergeRecorded
PROPERTIES FreshApprovals CallsReturn
CHECK_DEADLOCK FALSE
