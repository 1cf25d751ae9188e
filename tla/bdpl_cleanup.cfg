SPECIFICATION Spec
CONSTANTS
    IG = {router, nats}
    Svc = {svc0}
    Var = {ca}
    MaxSpec = 1
    MaxRefs = 0
    Groups <- ShrinkingGroups
    Vars <- GrowingVars
    Window = 1
    Backoff = 0
    FaultKinds = {"error", "lostReply", "crash", "userDelete"}
    MaxFaults = 2
    MaxStatusWrites = 0
INVARIANTS
    TypeOK
    WithOpsComesLast
    OrphanQuarksStatefulSetsDeleted
CHECK_DEADLOCK FALSE
