CONSTANTS
    j1 = j1
    q1 = q1
    QJobs <- OneQJob
    QSTS <- OneQSTS
    MaxWorkers = 1
    MaxChanges = 2
    MaxDeletes = 1
    MaxDeploys = 1
    MaxFaults = 1
SPECIFICATION FairSpec
INVARIANT TypeOK
PROPERTY StatusConverges
PROPERTY StatusNeverGoesBack
CHECK_DEADLOCK FALSE
