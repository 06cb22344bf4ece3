SPECIFICATION IngestSpec
CONSTANTS
    \* Directory
    Workers = {w1, w2}
    Gaps = {g1, g2}
    OldGaps = {g2}
    Freezers = {f1}
    FriendLists <- MCFriends
    GroupLists <- MCGroups
    RecentLists <- MCRecent
    max_entries = 8
    snapshot_ttl = 1
    None = None
    MaxSnapshots = 2
    MaxNow = 2
    MaxFaults = 1
    \* SpoolPipeline: the second message is refused by MySQL
    MaxMessages = 3
    MaxEpochs = 3
    AdmissionCapacity = 2
    QueueCapacity = 2
    BatchSize = 2
    MaxCrashes = 1
    MaxStorageFaults = 1
    MaxDatabaseFaults = 1
    Invalid = {2}
    \* RecallSpool and InboundStore
    m1 = m1
    m2 = m2
    c1 = c1
    NoMessage = NoMessage
    RecallMessages = {m1, m2}
    RecallCapacity = 2
    MaxAttempts = 2
    MaxNotices = 3
    MaxRecallFaults = 2
    MaxTorn = 1
    StoreMessages = {m1, m2}
    Conversations = {c1}
    Conv <- MCConv
    Time <- MCTime
    MaxStoreFaults = 1
    \* MemoryQueue
    queue_capacity = 2
    batch_size = 3
    Poison = {3}
    QueueMessages = 6
    MaxQueueFaults = 1
    MaxGapFaults = 1
    MaxTimeouts = 1
    \* NapCatLink
    enabled = TRUE
    startup_grace_secs = 6
    min_interval_secs = 1
    max_interval_secs = 3
    default_interval_secs = 3
    timeout_multiplier = 2
    reconnect_initial_secs = 1
    reconnect_max_secs = 3
    Periods = {1, 2}
    Unknown <- MCUnknown
    HandlerTimes = {0, 1}
    MaxFrames = 2
    MaxLinkFaults = 3
INVARIANTS
    NoSilentLoss StoreSound QueueLossCovered
    CompleteHoldsAll FreezersAgree
PROPERTIES LinkWatched FramesKept NoticesKept
CHECK_DEADLOCK FALSE
