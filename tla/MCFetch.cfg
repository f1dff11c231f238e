SPECIFICATION Spec
CONSTANTS
    k1 = k1
    f1 = f1
    f2 = f2
    f3 = f3
    t1 = t1
    t2 = t2
    Clients = {k1}
    N = 6
    Parents <- MyParents
    Content <- MyContent
    Tags = {t1, t2}
    Target <- MyTarget
    Date <- MyDate
    Local = {6}
    Deepens <- MyDeepens
    Full = Full
    RefStates <- MyRefs
    MaxFetches = 2
INVARIANTS TypeOK UnboundedFetchesComplete ShallowAnswers
CHECK_DEADLOCK FALSE
