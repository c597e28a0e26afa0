SPECIFICATION Spec
CONSTANTS
    Node = {n1}
    MaxRevision = 5
INVARIANTS
    TypeOK
    ReleasedGapsWereDecided
    ResolvedWasConfirmed
    GapInv
CHECK_DEADLOCK FALSE
