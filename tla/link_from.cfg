\* A consumer whose "from" key names the second of two providers.
CONSTANTS
    Sanitized <- MCSanitized
    Indexed <- MCIndexed
    Specs <- MCSpecs
    Deployments <- FromDeployments
    MaxDeletions = 0
    MaxRestarts = 0
SPECIFICATION Spec
INVARIANT FromNamesProvider
CHECK_DEADLOCK FALSE
