\* Two nodes, one crash that is never followed by a restart (restarts get
\* no fairness): once a node is down for good every up node that knew it
\* marks it dead; every ring the callbacks build gives the clockwise
\* preference lists.

CONSTANTS
    n1 = n1
    n2 = n2
    n3 = n3
    Nodes <- MCNodes2
    Seeds <- MCSeeds2
    Skew <- NoSkew2
    ClockModulus <- MCClockModulus
    Fanout = 2
    Timeout = 2
    AgeCap = 3
    MaxLoss = 0
    MaxCrashes = 1
    SharedHost = TRUE
    Late = {}
    NoInfo = NoInfo
    None = None
    NoOwner = NoOwner
    HashSpace <- MCHashSpace
    VnodePos <- MCVnodePos2
SPECIFICATION Spec
INVARIANTS TypeOK PreferenceListsFollowRing
PROPERTIES CrashDetected
