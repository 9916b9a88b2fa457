\* node2's clock one interval ahead of node1's; no fault at all.  The
\* failure detector's unsigned now - last_heartbeat wraps when the heartbeat
\* is from node1's future.
CONSTANTS
    n1 = n1
    n2 = n2
    n3 = n3
    Nodes <- MCNodes2
    Seeds <- MCSeeds2
    Skew <- Node2Ahead
    ClockModulus <- MCClockModulus
    Fanout = 2
    Timeout = 2
    AgeCap = 3
    MaxLoss = 0
    MaxCrashes = 0
    SharedHost = TRUE
    Late = {}
    NoInfo = NoInfo
    None = None
    NoOwner = NoOwner
    HashSpace <- MCHashSpace
    VnodePos <- MCVnodePos2
SPECIFICATION Spec
PROPERTY MarkedDeadOnlyWhenSilent
