\* Violation expected: a GET after an acknowledged DELETE returns the
\* deleted version from a replica the DELETE missed (no tombstones).
CONSTANTS
    n1 = n1  n2 = n2  n3 = n3  k1 = k1
    Nodes = {n1, n2, n3}
    Coords = {n1, n2}
    Keys = {k1}
    Vals = {v1}
    OpIds = {1, 2, 3}
    Pref <- MCPref
    R = 2
    W = 2
    MaxTs <- MCMaxTs
    MaxInFlight = 2
    MaxCrashes = 0
    NoEntry = NoEntry
    Torn = Torn
SPECIFICATION Spec
INVARIANTS
    DeleteNotUndone
CHECK_DEADLOCK FALSE
