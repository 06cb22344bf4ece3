SPECIFICATION FairSpec
CONSTANTS
    Workers = {w1}
    Gateway = gateway
    MaxRuns = 2
    MaxProposals = 2
    MaxReplanRounds = 1
    MaxSteps = 6
    MaxFaults = 2
    Poisoned = {}
INVARIANTS ImpactfulApproved SuspendedResumable
PROPERTY EndedIsFinal
PROPERTY RunsAnswered
CHECK_DEADLOCK FALSE
