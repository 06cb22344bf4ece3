SPECIFICATION ConversationsSpec
CONSTANTS
    \* OwnerGateway
    c1 = c1
    yes = yes
    None = None
    Commands = {c1}
    Approvals = {yes, ok}
    Others = {x}
    Oversized = {x}
    Target <- MCNamed
    MaxSessions = 2
    MaxFaults = 2
    \* ReplyThreads
    ThreadEvents = {1, 3, 4}
    Recalls = {4}
    Parent <- MCParent
    Legacy = {1, 3}
    Window = 1
    ProjectionBatch = 2
    MaxThreadFaults = 1
    \* ThreadOverlay
    OverlayEvents = {1, 2, 3}
    OverlayConv <- MCConv
    Base = {A, B}
    Replies = {2}
    Proposals = {P, Q}
    Linked = {}
    LinkProposals = {P}
    LinksLinked = {1, 2, 3}
    \* ThreadSemantics
    Last = 3
    Conv <- MCTwoConvs
    Says <- MCSays
    MaxBatch = 2
    MaxCommands = 2
    \* Participants: two messages of a group and of a private chat, or three
    \* of the private one
    Chats = {grp, priv}
    Groups = {grp}
    Names = {n1, n2, empty}
    Cards = {n1, empty}
    Empty = empty
    MaxSources = 2
    MaxAliases = 1
    MaxEvents = 2
    RenameChats = {priv}
    MaxRenameEvents = 3
INVARIANTS
    NothingSkipped ThreadsConsistent OverlayConsistent SemanticsConsistent NamesSupported
PROPERTIES CommandRunsOnce VerdictsStand
CHECK_DEADLOCK FALSE
