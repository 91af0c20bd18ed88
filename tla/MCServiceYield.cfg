SPECIFICATION ServiceSpec
CONSTANTS
    g1 = g1
    g2 = g2
    p1 = p1
    NoGpu = NoGpu
    NoItem = NoItem
    Items = {1}
    Gpus = {g1}
    Projects = {p1}
    projectOf <- MCOneProject
    dependsOn <- MCNoDependencies
    Preemptible = {1}
    Priorities = {0}
    MaxSegment = 2
    Faults = {"detached", "evidence", "dirty"}
    Commands = {"terminate", "yield", "close"}
    MaxCrashes = 0
PROPERTIES
    ReleaseIsProven
    CleanupFollowsRelease
