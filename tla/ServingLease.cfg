SPECIFICATION Spec
CONSTANTS
    n1 = n1
    n2 = n2
    Nodes = {n1, n2}
    Coordinators = {}
    ProofAge = 1
    Lifetime = 1
    CutoverWait = 2
    MaxTerm = 2
    MaxPlacement = 1
SYMMETRY Symmetry
INVARIANTS
    TypeOK
    OnePlacementServes
