CONSTANTS
    Owners = {"db", "web"}
    KindsOf <- Any
    Links = {"link", "cert"}
    Consumes <- WebConsumes
    Waits <- WebWaits
    MaxData <- OneChanges
    MaxPods = 2
    MaxFaults = 1
SPECIFICATION FairSpec
PROPERTY RestartedOrMissed
PROPERTY RestartsCease
CHECK_DEADLOCK FALSE
