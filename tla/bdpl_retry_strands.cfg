SPECIFICATION FairSpec
CONSTANTS
    IG = {}
    Svc = {}
    Var = {}
    MaxSpec = 0
    MaxRefs = 1
    Groups <- NoGroups
    Vars <- NoVars
    Window = 1
    Backoff = 0
    FaultKinds = {}
    MaxFaults = 0
    MaxStatusWrites = 0
PROPERTIES
    EveryChangeDeployed
CHECK_DEADLOCK FALSE
