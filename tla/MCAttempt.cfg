SPECIFICATION FairSpec
CONSTANTS
    Scheduler = Scheduler
    o1 = o1
    Operators = {o1}
    Commands = {"yield", "terminate", "kill"}
    Faults = {"scheduler", "operator", "executor", "host", "io"}
    MaxCrashes = 1
INVARIANTS
    OneBroadcastPerSignal
    EvidenceIsDurable
    ExitReceiptMeansOver
    RequestPrecedesSignal
    GracefulFirst
PROPERTIES
    EvidenceIsNeverLost
    TerminationLands
    YieldIsDelivered
CHECK_DEADLOCK FALSE
