SPECIFICATION FairSpec
CONSTANTS
    IG = {}
    Svc = {}
    Var = {}
    MaxSpec = 1
    MaxRefs = 1
    Groups <- ShrinkingGroups
    Vars <- NoVars
    Window = 2
    Backoff = 1
    FaultKinds = {"error", "lostReply", "crash", "deleteBDPL"}
    MaxFaults = 1
    MaxStatusWrites = 1
INVARIANTS
    NoForgottenChange
PROPERTIES
    DeploysAreSpaced
    ImplementsDebounce
    StatusWriterKeepsMeltdown
    DeployedOrStranded
CHECK_DEADLOCK FALSE
