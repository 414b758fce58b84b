SPECIFICATION Spec
CONSTANTS
    k1 = k1
    k2 = k2
    k3 = k3
    NoRun = NoRun
    Calls = {k1, k2}
    Overlap = TRUE
    Faults = {}
CHECK_DEADLOCK FALSE
INVARIANT RecordKept
