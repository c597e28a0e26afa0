SPECIFICATION Spec
CONSTANTS
    Client = {c1, c2}
    User = {u1, u2, u3}
    Owner = u1
    MaxTime = 4
INVARIANTS TypeOK AdminRemainsAlone AuditTellsRoles AloneInv
CHECK_DEADLOCK FALSE
