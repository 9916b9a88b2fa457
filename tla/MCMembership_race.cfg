\* Two nodes, one crash and restart: the detector's on_leave and a
\* worker's revival on_join race outside the member lock.
CONSTANTS
    n1 = n1
    n2 = n2
    n3 = n3
    Nodes <- MCNodes2
    Seeds <- MCSeeds2
    Skew <- NoSkew2
    ClockModulus <- MCClockModulus
    Fanout = 2
    Timeout = 2
    AgeCap = 3
    MaxLoss = 0
    MaxCrashes = 1
    SharedHost = TRUE
    Late = {}
    NoInfo = NoInfo
    None = None
    NoOwner = NoOwner
    HashSpace <- MCHashSpace
    VnodePos <- MCVnodePos2
SPECIFICATION Spec
INVARIANT RingMatchesMembership
