SPECIFICATION FairSpec
CONSTANTS
    A = A
    B = B
    J = J
    w1 = w1
    Active = {A, B}
    Joiner = J
    Coordinator = A
    Origins = {A, J}
    Writes = {w1}
    NoLeader = NoLeader
    MaxTerm = 2
    MaxFaults = 1
CHECK_DEADLOCK FALSE
INVARIANTS
    TypeOK
    AckedCarried
PROPERTIES
    HandoffCompletes
    GatesReopen
