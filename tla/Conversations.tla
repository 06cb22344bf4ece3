---------------------------- MODULE Conversations ----------------------------
(***************************************************************************)
(* What the secretary makes of messages: runs of the owner's commands and, *)
(* from conversations, threads, the owner's merges and splits of them,     *)
(* what was asked and decided in them, and who took part.  A behaviour is  *)
(* one of one component, as in Ingest.  The overlay comes twice, for many  *)
(* proposals or for many links, and so do the participants, for several    *)
(* conversations or for many messages.                                     *)
(***************************************************************************)
EXTENDS OwnerGateway

CONSTANTS
    ThreadEvents, Recalls, Parent, Legacy, Window, ProjectionBatch,
    MaxThreadFaults,                                                     \* ReplyThreads
    OverlayEvents, OverlayConv, Base, Replies, Proposals, Linked,
    LinkProposals, LinksLinked,                                          \* ThreadOverlay
    Last, Conv, Says, MaxBatch, MaxCommands,                             \* ThreadSemantics
    Chats, Groups, Names, Cards, Empty, MaxSources, MaxAliases, MaxEvents,
    RenameChats, MaxRenameEvents                                         \* Participants

VARIABLES
    part,
    threaded, reply, queue, rec, heal, thread, status, rel, claim, plan, scan, derived,
    snapshot, fence, missed, threadFaults,
    projected, overlayStatus, late, alias, split, prop, hint, linkScan, held, cand,
    joined, mode, semanticStatus, why, state, era, rows, pending, batch, commands,
    people, early, recalled, peopleMode, profile, obs

threadVars == <<threaded, reply, queue, rec, heal, thread, status, rel, claim, plan, scan,
                derived, snapshot, fence, missed, threadFaults>>
overlayVars == <<projected, overlayStatus, late, alias, split, prop, hint, linkScan, held, cand>>
semanticVars == <<joined, mode, semanticStatus, why, state, era, rows, pending, batch, commands>>
peopleVars == <<people, early, recalled, peopleMode, profile, obs>>

Threads == INSTANCE ReplyThreads WITH
    Events <- ThreadEvents, BatchSize <- ProjectionBatch, MaxFaults <- MaxThreadFaults,
    stored <- threaded, faults <- threadFaults

Overlay == INSTANCE ThreadOverlay WITH
    Events <- OverlayEvents, Conv <- OverlayConv,
    raw <- projected, status <- overlayStatus, scan <- linkScan
Links == INSTANCE ThreadOverlay WITH
    Events <- OverlayEvents, Conv <- OverlayConv, Proposals <- LinkProposals,
    Linked <- LinksLinked,
    raw <- projected, status <- overlayStatus, scan <- linkScan

Semantics == INSTANCE ThreadSemantics WITH
    status <- semanticStatus

Named(chats, events) == INSTANCE Participants WITH
    Conversations <- chats, Groups <- Groups \cap chats, MaxEvents <- events,
    stored <- people, mode <- peopleMode

ASSUME ConversationsAssumption ==
    /\ Threads!ThreadAssumption /\ Overlay!OverlayAssumption /\ Links!OverlayAssumption
    /\ Semantics!SemanticsAssumption
    /\ Named(Chats, MaxEvents)!ParticipantAssumption
    /\ Named(RenameChats, MaxRenameEvents)!ParticipantAssumption

ConversationsInit ==
    /\ part \in {"gateway", "threads", "overlay", "links", "semantics", "people",
                 "renames"}
    /\ Init /\ Threads!Init /\ Semantics!Init
    /\ IF part = "links" THEN Links!Init ELSE Overlay!Init
    /\ IF part = "renames" THEN Named(RenameChats, MaxRenameEvents)!Init
       ELSE Named(Chats, MaxEvents)!Init

OnlyGateway == UNCHANGED <<part, threadVars, overlayVars, semanticVars, peopleVars>>
OnlyThreads == UNCHANGED <<part, vars, overlayVars, semanticVars, peopleVars>>
OnlyOverlay == UNCHANGED <<part, vars, threadVars, semanticVars, peopleVars>>
OnlySemantics == UNCHANGED <<part, vars, threadVars, overlayVars, peopleVars>>
OnlyPeople == UNCHANGED <<part, vars, threadVars, overlayVars, semanticVars>>

ConversationsNext ==
    \/ part = "gateway" /\ Next /\ OnlyGateway
    \/ part = "threads" /\ Threads!Next /\ OnlyThreads
    \/ part = "overlay" /\ Overlay!Next /\ OnlyOverlay
    \/ part = "links" /\ Links!Next /\ OnlyOverlay
    \/ part = "semantics" /\ Semantics!Next /\ OnlySemantics
    \/ part = "people" /\ Named(Chats, MaxEvents)!Next /\ OnlyPeople
    \/ part = "renames" /\ Named(RenameChats, MaxRenameEvents)!Next /\ OnlyPeople

conversations == <<part, vars, threadVars, overlayVars, semanticVars, peopleVars>>
ConversationsSpec == ConversationsInit /\ [][ConversationsNext]_conversations

-----------------------------------------------------------------------------
(* Whatever order replies, their parents, projections and recalls come in:  *)
(* a thread closed because its last message left stays empty, nothing is    *)
(* derived from an empty thread, unless a member came or went behind the    *)
(* snapshot of the transaction that emptied it, relations lie in the        *)
(* threads of their messages, and the reconcile worker has no lease on a    *)
(* resolved reply (ReplyThreads).                                           *)
ThreadsConsistent ==
    part = "threads" =>
        /\ Threads!ClosedIsEmpty /\ Threads!NothingDerivedFromEmpty
        /\ Threads!RelationsFollowEvents /\ Threads!QueueIsPending

(* Merges and splits, approved, applied and reverted in any order above a   *)
(* projection that goes on: no alias leads to a merged thread, a message is *)
(* away from its own thread only under a proposal that is applied, and the  *)
(* thread of a reverted split is open just when it has messages             *)
(* (ThreadOverlay).                                                         *)
OverlayConsistent ==
    part = "overlay" =>
        Overlay!NoAliasChain /\ Overlay!OverlayIsLive /\ Overlay!SplitThreadOpenWithMembers

(* What the owner decided about a pair of threads stands, whatever the link *)
(* worker scans and whatever is merged or split afterwards, and no patch of *)
(* the model resolves a thread while the owner is shown an open question of *)
(* it, however old the claim is (ThreadOverlay, ThreadSemantics).           *)
VerdictsStand == Links!ReviewStands /\ Semantics!ResolvesCleanly

(* A conversation that may not be kept leaves no row derived of it, even    *)
(* when the batch was claimed before the owner said so, and a batch claimed *)
(* again after its lease ran out makes no second row of one message         *)
(* (ThreadSemantics).                                                       *)
SemanticsConsistent ==
    part = "semantics" => Semantics!RestrictedLeavesNothing /\ Semantics!OneRowPerReading

(* A name or a group card is shown, and a person is found under a name, an  *)
(* old name or a card, only while a message that may be used carries it; an *)
(* old name is shown without one only when later messages have pushed its   *)
(* message out of the profile's bounded list (Participants).                *)
NamesSupported ==
    /\ part = "people" =>
        /\ Named(Chats, MaxEvents)!NameShownIsSupported
        /\ Named(Chats, MaxEvents)!CardShownIsSupported
        /\ Named(Chats, MaxEvents)!OldNameShownIsSupported
        /\ Named(Chats, MaxEvents)!ByNameIsSupported
    /\ part = "renames" =>
        /\ Named(RenameChats, MaxRenameEvents)!NameShownIsSupported
        /\ Named(RenameChats, MaxRenameEvents)!CardShownIsSupported
        /\ Named(RenameChats, MaxRenameEvents)!OldNameShownIsSupported
        /\ Named(RenameChats, MaxRenameEvents)!ByNameIsSupported
===============================================================================
