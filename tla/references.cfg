CONSTANTS
    Names = {"a", "b"}
    Specs <- ThreeSpecs
    Keys <- AllKeys
    Manifest <- ThreeManifests
    Service <- ThreeServices
    LinkSecrets <- OneLink
    CallsFail = TRUE
    NoIP = {1}
    Starts <- SomeStarts
    MaxData = 3
    MaxChanges = 3
SPECIFICATION FairSpec
INVARIANT NoChangeMissed
PROPERTY EveryRequestAnswered
CHECK_DEADLOCK FALSE
