SPECIFICATION Spec
CONSTANTS
    n1 = n1
    n2 = n2
    i1 = i1
    i2 = i2
    Nodes = {n1, n2}
    Invocations = {i1, i2}
    MaxCommitEntries = 1
    MaxInvocations = 2
    Retention = 2
    MaxTime = 3
    MaxLogIndex = 8
SYMMETRY Symmetry
INVARIANTS
    TypeOK
    AtMostOncePerWindow
    RecoveryTailComplete
    PreparedHeldByExecutor
    SerialFencedDecisions
    RetainedStateBounded
CHECK_DEADLOCK FALSE
