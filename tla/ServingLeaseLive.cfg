SPECIFICATION TimelySpec
CONSTANTS
    n1 = n1
    n2 = n2
    Nodes = {n1, n2}
    Coordinators = {n1}
    ProofAge = 1
    Lifetime = 2
    CutoverWait = 3
    MaxTerm = 2
    MaxPlacement = 0
INVARIANT PauseDrainsLeases
PROPERTY
    EveryNodeServesAgain
