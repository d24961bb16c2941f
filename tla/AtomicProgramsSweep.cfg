SPECIFICATION Spec
SYMMETRY Alike
CONSTANTS
    n1 = n1
    n2 = n2
    x = x
    y = y
    first = first
    second = second
    wide = wide
    Nodes = {n1, n2}
    Paths = {x, y}
    CoordinatorOf <- Authority
    Invocations = {first, second, wide}
    Participants <- ProgramPaths
    Written <- ProgramWrites
    Sweepers = {n1}
    FirstExecutor = n1
    MaxParticipants = 2
    MaxLog = 6
    MaxDisruptions = 2
INVARIANT
    ReservationsExcludeOthers
CHECK_DEADLOCK FALSE
