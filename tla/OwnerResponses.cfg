SPECIFICATION FairSpec
CONSTANTS
    Responses = {r1, r2}
    Blank = {r2}
    Loops = {w1, w2}
    None = None
    MaxAge = 1
    LeaseTime = 1
    MaxBackoff = 1
    BatchLimit = 1
    MaxNow = 4
    MaxFaults = 1
INVARIANTS AtMostOneReply StatusTruthful
PROPERTY RepliesSettled
CHECK_DEADLOCK FALSE
