SPECIFICATION Spec
CONSTANTS
    Items = {1}
    g1 = g1
    g2 = g2
    p1 = p1
    Gpus = {g1}
    NoGpu = NoGpu
    Projects = {p1}
    projectOf <- MCOneProject
    dependsOn <- MCNoDependencies
    Preemptible = {1}
    Priorities = {0, 1}
    MaxSegment = 2
INVARIANTS
    ArchivedIsTerminal
    RowInv
    SegmentsHaveReceipts
PROPERTIES
    OutcomeIsFinal
    TerminationWins
