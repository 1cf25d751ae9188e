CONSTANTS
    cert = cert
    pw = pw
    Var <- TwoVars
    MaxManifest = 2
    MaxRotation = 2
    Window = 2
    NotGenerated = 1
    Backoff = 1
    FaultKinds = {"error", "lostReply", "crash"}
    MaxFaults = 1
SPECIFICATION FairSpec
INVARIANT TypeOK
INVARIANT NothingMissed
INVARIANT DNSFollowsManifest
PROPERTY PublishedOrStranded
CHECK_DEADLOCK FALSE
