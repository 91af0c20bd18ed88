SPECIFICATION MCSpec
CONSTANTS
    None = None
    e1 = e1
    e2 = e2
    g1 = g1
    g2 = g2
    r1 = r1
    r2 = r2
    o1 = o1
    o2 = o2
    p1 = p1
    p2 = p2
    MaxItems = 2
    Experiments = {e1, e2}
    Gpus = {g1, g2}
    Operators = {o1, o2}
    Priorities = {0, 1}
    Requests = {r1, r2}
    MaxSegments = 2
    MaxFailures = 2
    MaxCrashes = 1
    Sources <- MCSources
    Paths = {p1, p2}
    MaxRuns = 2
    MaxCuts = 1
    MaxChanges = 1
INVARIANTS
    RowsMatchProcesses
    DispatchIsSound
    PendingReservationHasYielder
    EvidenceStaysImportable
    ReceiptsAreTrue
    DestinationIsSound
PROPERTIES
    StopIsFinal
CHECK_DEADLOCK FALSE
