CONSTANTS
    Names = {"a", "b"}
    Specs <- ThreeSpecs
    Keys <- AllKeys
    Manifest <- ThreeManifests
    Service <- ThreeServices
    LinkSecrets <- OneLink
    CallsFail = FALSE
    NoIP = {1}
    Starts <- SlashStart
    MaxData = 3
    MaxChanges = 3
SPECIFICATION Spec
CHECK_DEADLOCK FALSE
INVARIANT SecretChangesNoticed
