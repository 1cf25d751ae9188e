\* The deployments of MCRollout, one deletion of a pod and one restart of a
\* container.  A rollout comes to an end.
CONSTANTS
    Sanitized <- MCSanitized
    Indexed <- MCIndexed
    Specs <- MCSpecs
    Deployments <- MCDeployments
    MaxDeletions = 1
    MaxRestarts = 1
SPECIFICATION Spec
INVARIANTS
    TypeOK
    SerialOrder
    InstanceIdentity
    PublishedAddressesServed
    LinksResolveToProvider
    MountsHaveVolumes
    DrainedBeforeStop
    WaitsForAllAhead
    HooksCountDrains
PROPERTIES
    DrainEnds
    EveryGroupStarts
CHECK_DEADLOCK FALSE
