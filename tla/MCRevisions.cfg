SPECIFICATION Spec
CONSTANTS
    Client = {c1, c2, c3}
    First = 0
    MaxRevision = 3
SYMMETRY ClientSymmetry
INVARIANTS
    TypeOK
    CurrentIsNewest
    HistoryInv
PROPERTY ImplementsHistory
