CONSTANTS
    diego = diego
    errand = errand
    IG <- TwoGroups
    Errands <- OneErrand
    MaxVersion = 2
    Members <- Growing
    MaxWorkers = 1
    FaultKinds = {"error", "annotate", "crash"}
    MaxFaults = 1
SPECIFICATION FairSpec
INVARIANT TypeOK
INVARIANT NoForgottenBPM
PROPERTY InputsNeverGoBack
PROPERTY EveryBPMRolledOut
CHECK_DEADLOCK FALSE
