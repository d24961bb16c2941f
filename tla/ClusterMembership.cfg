SPECIFICATION Spec
CONSTANTS
    a1 = a1
    a2 = a2
    a3 = a3
    p1 = p1
    p2 = p2
    p3 = p3
    c1 = c1
    c2 = c2
    c3 = c3
    c4 = c4
    Nodes = {1, 2, 3}
    Genesis = 1
    Candidates <- JoinCandidates
    Weights = {2}
    Pins = {p3}
    Capabilities = {c4}
    VoterTarget = 2
    MaxPending = 2
    MaxLogIndex = 16
INVARIANTS
    TypeOK
    RestartSafe
    PinNamesOneNode
PROPERTIES
    PlacementNamesActiveSet
    RemovedNodeStaysOut
CHECK_DEADLOCK FALSE
