\* The shipped deployment: one process, everything that can happen to it.
SPECIFICATION Spec
CONSTANTS
    p1 = p1
    Procs = {p1}
    Events = {e1}
    Targets = {t1, t2}
    Permanent = {t1}
    None = None
    JobIds = {1, 2}
    MaxAttempts = 2
    BatchSize = 2
    MaxConcurrent = 2
    MaxFaults = 1
    MaxGlitches = 1
    MaxStops = 1
    MaxRequeues = 1
INVARIANTS RetryBudget
PROPERTIES ImplementsOutbox
