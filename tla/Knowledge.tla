------------------------------ MODULE Knowledge ------------------------------
(***************************************************************************)
(* What the secretary remembers and what a question is answered from:      *)
(* memory candidates and facts, the retriever's views, and the lists that  *)
(* are read page by page.  A behaviour is one of one component, as in      *)
(* Ingest; topic says which.  Memory comes with three sets of constants    *)
(* and Retrieval with two, each for one of the things to be checked.       *)
(***************************************************************************)
EXTENDS Naturals, Sequences

CONSTANTS
    NoFact,
    FactBounds, RevisionBounds, ScanBounds,                              \* Memory
    Remotely, Locally,                                                   \* Retrieval
    Rows, Ranks, Times, Kinds, created_at, Limit, MaxChanges, Lists      \* PagedQueries

VARIABLES
    topic,
    mStored, mRecalled, mMode, mLocal, mState, mDeferred, mBatch, mCands, mFacts, mRead, mBehind,
    mCommands,
    rStored, rRecalled, rMode, rAlias, rDerived, call,
    pList, pRows, pCursor, pages, stable, changes

memoryVars == <<mStored, mRecalled, mMode, mLocal, mState, mDeferred, mBatch, mCands, mFacts,
                mRead, mBehind, mCommands>>
retrievalVars == <<rStored, rRecalled, rMode, rAlias, rDerived, call>>
pageVars == <<pList, pRows, pCursor, pages, stable, changes>>

(* Within bounds b: what is proposed and remembered, how a fact is revised, *)
(* or what is scanned.                                                      *)
Remembered(b) == INSTANCE Memory WITH
    Last <- b.Last, Conv <- b.Conv, Subject <- b.Subject, Says <- b.Says, MaxBatch <- b.MaxBatch,
    MaxCited <- b.MaxCited, MaxFacts <- b.MaxFacts, MaxCommands <- b.MaxCommands,
    None <- NoFact,
    stored <- mStored, recalled <- mRecalled, mode <- mMode, local <- mLocal, state <- mState,
    deferred <- mDeferred, batch <- mBatch, cands <- mCands, facts <- mFacts, read <- mRead,
    behind <- mBehind, commands <- mCommands

(* Views for a remote model and what is derived of threads, or for a local  *)
(* model and what is confirmed.                                             *)
Viewed(b, local) == INSTANCE Retrieval WITH
    Events <- b.Events, Commands <- b.Commands, Conversations <- b.Conversations,
    Threads <- b.Threads,
    Actors <- b.Actors, conversation <- b.conversation, actor <- b.actor,
    reply_to <- b.reply_to, thread <- b.thread, root_event <- b.root_event,
    DerivedKinds <- b.DerivedKinds, CandidateLimit <- b.CandidateLimit,
    MaxDerived <- b.MaxDerived, Modes <- b.Modes, LocalModel <- local,
    stored <- rStored, recalled <- rRecalled, mode <- rMode, alias <- rAlias,
    derived <- rDerived

Pages == INSTANCE PagedQueries WITH
    Ids <- Rows, list <- pList, rows <- pRows, cursor <- pCursor, read <- pages

ASSUME KnowledgeAssumption ==
    /\ Remembered(FactBounds)!MemoryAssumption /\ Remembered(RevisionBounds)!MemoryAssumption
    /\ Remembered(ScanBounds)!MemoryAssumption
    /\ Viewed(Remotely, FALSE)!RetrievalAssumption /\ Viewed(Locally, TRUE)!RetrievalAssumption
    /\ Pages!PagedAssumption

KnowledgeInit ==
    /\ topic \in {"facts", "revisions", "scan", "remote", "local", "pages"}
    /\ CASE topic = "facts" -> Remembered(FactBounds)!Init
         [] topic = "revisions" -> Remembered(RevisionBounds)!Init
         [] OTHER -> Remembered(ScanBounds)!Init
    /\ IF topic = "local" THEN Viewed(Locally, TRUE)!Init ELSE Viewed(Remotely, FALSE)!Init
    /\ Pages!Init /\ (topic # "pages" => pList = "work")

KnowledgeNext ==
    \/ /\ \/ topic = "facts" /\ Remembered(FactBounds)!Next
          \/ topic = "revisions" /\ Remembered(RevisionBounds)!Next
          \/ topic = "scan" /\ Remembered(ScanBounds)!Next
       /\ UNCHANGED <<topic, retrievalVars, pageVars>>
    \/ /\ \/ topic = "remote" /\ Viewed(Remotely, FALSE)!Next
          \/ topic = "local" /\ Viewed(Locally, TRUE)!Next
       /\ UNCHANGED <<topic, memoryVars, pageVars>>
    \/ topic = "pages" /\ Pages!Next /\ UNCHANGED <<topic, memoryVars, retrievalVars>>

knowledge == <<topic, memoryVars, retrievalVars, pageVars>>
KnowledgeSpec == KnowledgeInit /\ [][KnowledgeNext]_knowledge

-----------------------------------------------------------------------------
(* The owner's approvals, corrections and retractions, in any order and     *)
(* against candidates read before: a subject has one fact that is current,  *)
(* the revisions of a fact are a chain, and a conversation that may not be  *)
(* kept leaves no candidate and no fact of it, also when it was restricted  *)
(* under a claimed batch (Memory).                                          *)
FactsConsistent ==
    /\ topic = "facts" => /\ Remembered(FactBounds)!OneFactPerSubject
                          /\ Remembered(FactBounds)!RestrictedLeavesNothing
    /\ topic = "revisions" => Remembered(RevisionBounds)!RevisionsAreAChain

(* The one cursor of the account jumps over no message of a conversation it *)
(* may read, across restricted and lifted modes, lost leases and changes of *)
(* the model, unless the message was committed after the claim that moved   *)
(* the cursor past it had looked; and a message read twice proposes nothing *)
(* twice (Memory).                                                          *)
ScanSkipsNothing ==
    topic = "scan" => Remembered(ScanBounds)!NothingSkipped /\ Remembered(ScanBounds)!ProposedOnce

(* No view, put together by several statements with recalls and changes of  *)
(* mode between them, shows a message that was hidden all through the call, *)
(* unless it is the parent of a reply that was linked after the first       *)
(* statement: that one is named as it is (Retrieval).                       *)
NothingHiddenShown ==
    /\ topic = "remote" => Viewed(Remotely, FALSE)!NothingHiddenShown
    /\ topic = "local" => Viewed(Locally, TRUE)!NothingHiddenShown

(* A row that does not change while a list is read page by page is returned *)
(* once, whatever rows come, go and change around it (PagedQueries).        *)
PagesStable == topic = "pages" => Pages!StableRowsOnce /\ Pages!NoRevisionTwice
===============================================================================
