CONSTANTS
    Caller = {c1, c2, c3}
    Key = {k1, k2}
    MaxEntries = 1
    MaxFlights = 4
SPECIFICATION Spec
SYMMETRY CacheSymmetry
CHECK_DEADLOCK FALSE
INVARIANTS TypeOK OneCallPerKey CallsAreWanted CachedIsNewest
