SPECIFICATION MCSpec
CONSTANTS
    pNew = pNew
    pOld = pOld
    rA = rA
    rB = rB
    rC = rC
    o1 = o1
    o2 = o2
    Projects = {pNew, pOld}
    Imported = {pOld}
    Roots = {rA, rB, rC}
    Nested <- MCNested
    LegacyRoot = rC
    Operators = {o1, o2}
    MaxRevisions = 3
    MaxItems = 2
    Faults = {"git", "payload", "launch", "dirty", "ref", "crash", "root"}
    MaxCrashes = 2
INVARIANTS
    WorktreeTypeOK
    RootsStayDisjoint
    AdmissionIsOrdered
    TreesAreWhole
    AttemptsAreSwept
PROPERTIES
    HistoryMovesForward
    WrittenTreeIsKept
    CleanupSettles
CHECK_DEADLOCK FALSE
