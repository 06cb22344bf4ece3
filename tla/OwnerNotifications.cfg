SPECIFICATION Spec
CONSTANTS
    None = None
    Agenda = {a1}
    Commitments = {c1}
    Blockers = {b1}
    Expectations = {e1}
    talk = talk
    mention = mention
    hush = hush
    Families = {talk, mention, hush}
    Kind <- MCKind
    Covers <- MCCovers
    Rules <- MCRules
    Owners = {o1, o2}
    Evaluators = {w1}
    Senders = {s1, s2}
    MaxItems = 1
    MaxVersion = 2
    MaxWrites = 2
    MaxFaults = 1
INVARIANTS AtMostOneSend ControlWithdraws SentToOwner
PROPERTY DecidedUnderCurrentPolicy
CHECK_DEADLOCK FALSE
SYMMETRY Symmetric
