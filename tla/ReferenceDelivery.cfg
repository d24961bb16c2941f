SPECIFICATION FairSpec
CONSTANTS
    n1 = n1
    n2 = n2
    p1 = p1
    Nodes = {n1, n2}
    Owners = {n2}
    Paths = {p1}
    Coordinator <- MCCoordinator
    Gateways = {n2}
    MaxRetained = 2
    Ttl = 1
    UploadTicks = 0
    GcTicks = 0
    MaxRequests = 2
INVARIANTS
    TypeOK
    NoDestinationGap
    ReferencesConserved
    PublishedBytesKept
PROPERTY
    WaitingWriterServed
CHECK_DEADLOCK FALSE
