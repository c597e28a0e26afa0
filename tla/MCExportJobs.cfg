SPECIFICATION FairSpec
CONSTANTS
    Job = {j1, j2}
    Worker = {w1, w2}
    NoKey = NoKey
    MaxFaults = 2
INVARIANTS
    TypeOK
    OneHolder
    CompletedIsServable
    OrphansBoundedByFaults
PROPERTIES
    ImplementsPromise
    EveryJobSettles
    DueDocumentsAreSwept
CHECK_DEADLOCK FALSE
