\* One process that is never killed with work in hand; fairness of its loops.
SPECIFICATION FairSpec
CONSTANTS
    p1 = p1
    Procs = {p1}
    Events = {e1}
    Targets = {t1, t2}
    Permanent = {t1}
    None = None
    JobIds = {1, 2, 3}
    MaxAttempts = 2
    BatchSize = 1
    MaxConcurrent = 1
    MaxFaults = 0
    MaxGlitches = 1
    MaxStops = 1
    MaxRequeues = 0
VIEW WithoutHistory
PROPERTIES EventsDispatched JobsSettle
