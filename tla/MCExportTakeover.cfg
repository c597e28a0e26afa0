SPECIFICATION Spec
CONSTANTS
    Job = {j1}
    Worker = {w1, w2}
    NoKey = NoKey
    MaxFaults = 1
PROPERTY HolderFailsOnlyByFault
CHECK_DEADLOCK FALSE
