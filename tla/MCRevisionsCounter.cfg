SPECIFICATION Spec
CONSTANTS
    Client = {c1, c2}
    First = 0
    MaxRevision = 2
INVARIANT NextNumberIsFree
