SPECIFICATION ListingSpec
CONSTANTS
    k1 = k1
    k2 = k2
    k3 = k3
    NoRun = NoRun
    Calls = {k1, k2}
    Overlap = FALSE
    Faults = {"kill", "error", "launcher"}
CHECK_DEADLOCK FALSE
INVARIANTS TypeOK RecordKept ReplayFaithful UnavailableTruthful
PROPERTIES ImplementsSessionAbs ServingListed
SYMMETRY Symmetry
