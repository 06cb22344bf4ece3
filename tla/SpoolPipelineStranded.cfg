SPECIFICATION Spec
CONSTANTS
    MaxMessages = 2
    MaxEpochs = 2
    AdmissionCapacity = 1
    QueueCapacity = 1
    BatchSize = 2
    MaxCrashes = 0
    MaxStorageFaults = 1
    MaxDatabaseFaults = 0
    Invalid = {}
INVARIANT PendingFramesClaimable
CHECK_DEADLOCK FALSE
