SPECIFICATION Spec
CONSTANTS
    Beat = 6
    Stale = 18
    ClaimTime = 4
    RenewalTime = 1
INVARIANTS
    TypeOK
    HeartbeatAge
PROPERTY TakeoverNeedsCause
CHECK_DEADLOCK FALSE
