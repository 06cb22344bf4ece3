SPECIFICATION Spec
CONSTANTS
    MaxEpochs = 2
    NumConversations = 2
    Tasks = {t1, t2}
    MaxRuns = 1
    MaxPages = 1
    MaxAborts = 0
    MaxExpiries = 1
    Proven = TRUE
    Answers = {"boundary", "protocol"}
SYMMETRY TaskSymmetry
INVARIANTS EvidenceIsPersisted VerifiedMeansRead
CHECK_DEADLOCK FALSE
