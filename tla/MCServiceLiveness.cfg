SPECIFICATION FairServiceSpec
CONSTANTS
    g1 = g1
    g2 = g2
    p1 = p1
    NoGpu = NoGpu
    NoItem = NoItem
    Items = {1, 2}
    Gpus = {g1}
    Projects = {p1}
    projectOf <- MCOneProject
    dependsOn <- MCNoDependencies
    Preemptible = {1}
    Priorities = {0}
    MaxSegment = 2
    Faults = {"crash", "detached", "launch"}
    Commands = {"yield"}
    MaxCrashes = 1
INVARIANTS
    OneExecutorPerGpu
PROPERTIES
    LeaseEventuallyFree
    ReceiptEventuallyApplied
