CONSTANTS
    diego = diego
    errand = errand
    IG <- OneGroup
    Errands = {}
    MaxVersion = 2
    Members <- Steady
    MaxWorkers = 1
    FaultKinds = {"error"}
    MaxFaults = 1
SPECIFICATION Spec
INVARIANT CorrespondingManifest
CHECK_DEADLOCK FALSE
