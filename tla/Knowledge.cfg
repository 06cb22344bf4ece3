SPECIFICATION KnowledgeSpec
CONSTANTS
    NoFact = NoFact
    \* Memory
    FactBounds <- MCFacts
    RevisionBounds <- MCRevisions
    ScanBounds <- MCScan
    \* Retrieval
    Remotely <- MCRemotely
    Locally <- MCLocally
    \* PagedQueries
    Rows = {1, 2, 3}
    Ranks = {1, 2}
    Times = {1, 2}
    Kinds = {1, 2}
    created_at <- MCCreatedAt
    Limit = 1
    MaxChanges = 2
    Lists = {"threads", "work", "decisions"}
INVARIANTS
    FactsConsistent ScanSkipsNothing NothingHiddenShown PagesStable
CHECK_DEADLOCK FALSE
