\* Two operations through two coordinators, with one node crash (a
\* coordinator or the third replica) and its restart: every operation
\* answers, its calls ending with a reply or the replica's crash.
CONSTANTS
    n1 = n1  n2 = n2  n3 = n3  k1 = k1
    Nodes = {n1, n2, n3}
    Coords = {n1, n2}
    Keys = {k1}
    Vals = {v1}
    OpIds = {1, 2}
    Pref <- MCPref
    R = 2
    W = 2
    MaxTs <- MCMaxTs
    MaxInFlight = 2
    MaxCrashes = 1
    NoEntry = NoEntry
    Torn = Torn
SPECIFICATION Spec
INVARIANTS
    TypeOK

    
CHECK_DEADLOCK FALSE
