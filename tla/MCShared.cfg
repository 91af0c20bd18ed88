SPECIFICATION SharedSpec
CONSTANTS
    g1 = g1
    g2 = g2
    p1 = p1
    NoGpu = NoGpu
    Items = {1, 2, 3}
    Gpus = {g1, g2}
    Projects = {p1}
    projectOf <- MCOneProject
    dependsOn <- MCPair
    Preemptible = {3}
    Priorities = {0}
    MaxSegment = 2
INVARIANTS
    StartedAfterDependencies
    GpuIsExclusive
PROPERTIES
    ImplementsOwnership
SYMMETRY MCGpuSymmetry
