SPECIFICATION FairSpec
CONSTANTS
    MaxEpochs = 2
    NumConversations = 1
    Tasks = {t1, t2}
    MaxRuns = 2
    MaxPages = 1
    MaxAborts = 1
    MaxExpiries = 0
    Proven = FALSE
    Answers = {"denied", "protocol", "cutoff", "budget", "stop"}
INVARIANT OneActiveRun
PROPERTY RunsSettle
CHECK_DEADLOCK FALSE
