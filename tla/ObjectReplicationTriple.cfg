SPECIFICATION Spec
CONSTANTS
    A = A
    B = B
    C = C
    p1 = p1
    p2 = p2
    p3 = p3
    c1 = c1
    c2 = c2
    Snapshot = Snapshot
    Current = Current
    Unknown = Unknown
    Replicas = {A, B, C}
    Coordinator = A
    Required = 2
    Commands = {c1, c2}
    Procs = {p1, p2}
SYMMETRY Symmetry
CHECK_DEADLOCK FALSE
INVARIANTS
    AckedSurvives
