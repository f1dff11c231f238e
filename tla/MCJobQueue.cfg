\* Two processes sharing the tables, one event, faults anywhere.
SPECIFICATION Spec
CONSTANTS
    p1 = p1
    p2 = p2
    Procs = {p1, p2}
    Events = {e1}
    Targets = {t1, t2}
    Permanent = {t1}
    None = None
    JobIds = {1, 2}
    MaxAttempts = 2
    BatchSize = 2
    MaxConcurrent = 1
    MaxFaults = 1
    MaxGlitches = 1
    MaxStops = 0
    MaxRequeues = 0
SYMMETRY ProcSymmetry
VIEW WithoutHistory
INVARIANTS ExclusiveClaim FanOutExactlyOnce
