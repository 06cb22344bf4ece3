------------------------------ MODULE MCProgress ------------------------------
(***************************************************************************)
(* What must happen in the end, for the components that work something     *)
(* off: a small instance of each, under the fairness its module states.    *)
(* A behaviour is one of one component, as in MCIngest.                    *)
(***************************************************************************)
EXTENDS Integers, Sequences, FiniteSets, TLC

CONSTANTS m1, m2, c1, w1, None

VARIABLES
    part,
    pipelineEpoch, pipelineGap, pipelineClaim, pipelineStored, pipelineHooked, pipelineLog,
    pipelineDone, pipelineCut, pipelinePhase, pipelineCur, pipelineMine, pipelineReplayed,
    pipelineEnding, pipelineAdmission, pipelineWriter, pipelineQueue, pipelineWorker,
    pipelineBatch, pipelineFatal, pipelineArrived, pipelineCrashes, pipelineStorageFaults,
    pipelineDatabaseFaults,
    noticesWal, noticesUp, noticesStop, noticesJob, noticesInbox, noticesRecorded,
    noticesSubject, noticesAcked, noticesCopied, noticesFaults, noticesTorn,
    storeStored, storeTomb, storeArt, storeDeriv, storeDeriver, storeHook, storeConnected,
    storeCursor, storeLive, storeEarly, storeFaults,
    queueLink, queueArrived, queueQueue, queueDrop, queueDropped_count, queueGap_persisted,
    queueOverflow_pending, queueWorker, queueStored, queueGap, queueUnrecorded, queueFaults,
    queueGapFaults, queueTimeouts,
    linkLink, linkLifecycle, linkDeclared_interval_secs, linkAge, linkFrames, linkSent,
    linkBusy, linkWait, linkBackoff, linkPeer, linkSteady, linkFaults,
    syncNow, syncSnapshots, syncFrozen, syncSync, syncFreezer, syncFaults,
    gatewayLog, gatewayOpened, gatewayLive, gatewaySent, gatewayStored, gatewaySession,
    gatewayPc, gatewayMessages, gatewayRaw, gatewayRun, gatewayResumed, gatewayFaults,
    linksRaw, linksStatus, linksLate, linksAlias, linksSplit, linksProp, linksHint, linksScan,
    linksHeld, linksCand,
    semanticsJoined, semanticsMode, semanticsStatus, semanticsWhy, semanticsState, semanticsEra,
    semanticsRows, semanticsPending, semanticsBatch, semanticsCommands,
    scanStored, scanRecalled, scanMode, scanLocal, scanState, scanDeferred, scanBatch,
    scanCands, scanFacts, scanRead, scanBehind, scanCommands

pipelineVars == <<pipelineEpoch, pipelineGap, pipelineClaim, pipelineStored, pipelineHooked,
    pipelineLog, pipelineDone, pipelineCut, pipelinePhase, pipelineCur, pipelineMine,
    pipelineReplayed, pipelineEnding, pipelineAdmission, pipelineWriter, pipelineQueue,
    pipelineWorker, pipelineBatch, pipelineFatal, pipelineArrived, pipelineCrashes,
    pipelineStorageFaults, pipelineDatabaseFaults>>
noticesVars == <<noticesWal, noticesUp, noticesStop, noticesJob, noticesInbox, noticesRecorded,
    noticesSubject, noticesAcked, noticesCopied, noticesFaults, noticesTorn>>
storeVars == <<storeStored, storeTomb, storeArt, storeDeriv, storeDeriver, storeHook,
    storeConnected, storeCursor, storeLive, storeEarly, storeFaults>>
queueVars == <<queueLink, queueArrived, queueQueue, queueDrop, queueDropped_count,
    queueGap_persisted, queueOverflow_pending, queueWorker, queueStored, queueGap,
    queueUnrecorded, queueFaults, queueGapFaults, queueTimeouts>>
linkVars == <<linkLink, linkLifecycle, linkDeclared_interval_secs, linkAge, linkFrames,
    linkSent, linkBusy, linkWait, linkBackoff, linkPeer, linkSteady, linkFaults>>
syncVars == <<syncNow, syncSnapshots, syncFrozen, syncSync, syncFreezer, syncFaults>>
gatewayVars == <<gatewayLog, gatewayOpened, gatewayLive, gatewaySent, gatewayStored,
    gatewaySession, gatewayPc, gatewayMessages, gatewayRaw, gatewayRun, gatewayResumed,
    gatewayFaults>>
linksVars == <<linksRaw, linksStatus, linksLate, linksAlias, linksSplit, linksProp, linksHint,
    linksScan, linksHeld, linksCand>>
semanticsVars == <<semanticsJoined, semanticsMode, semanticsStatus, semanticsWhy,
    semanticsState, semanticsEra, semanticsRows, semanticsPending, semanticsBatch,
    semanticsCommands>>
scanVars == <<scanStored, scanRecalled, scanMode, scanLocal, scanState, scanDeferred, scanBatch,
    scanCands, scanFacts, scanRead, scanBehind, scanCommands>>

MCTwo == <<m1, m2>>
MCTexts == <<"question", "done">>

Pipeline == INSTANCE SpoolPipeline WITH
    MaxMessages <- 2, MaxEpochs <- 2, AdmissionCapacity <- 1, QueueCapacity <- 2,
    BatchSize <- 2, MaxCrashes <- 1, MaxStorageFaults <- 0, MaxDatabaseFaults <- 1,
    Invalid <- {}, epoch <- pipelineEpoch, gap <- pipelineGap, claim <- pipelineClaim,
    stored <- pipelineStored, hooked <- pipelineHooked, log <- pipelineLog,
    done <- pipelineDone, cut <- pipelineCut, phase <- pipelinePhase, cur <- pipelineCur,
    mine <- pipelineMine, replayed <- pipelineReplayed, ending <- pipelineEnding,
    admission <- pipelineAdmission, writer <- pipelineWriter, queue <- pipelineQueue,
    worker <- pipelineWorker, batch <- pipelineBatch, fatal <- pipelineFatal,
    arrived <- pipelineArrived, crashes <- pipelineCrashes,
    storageFaults <- pipelineStorageFaults, databaseFaults <- pipelineDatabaseFaults

Notices == INSTANCE RecallSpool WITH
    Messages <- {m1, m2}, Capacity <- 2, MaxAttempts <- 2, MaxNotices <- 2, MaxFaults <- 1,
    MaxTorn <- 1, wal <- noticesWal, up <- noticesUp, stop <- noticesStop, job <- noticesJob,
    inbox <- noticesInbox, recorded <- noticesRecorded, subject <- noticesSubject,
    acked <- noticesAcked, copied <- noticesCopied, faults <- noticesFaults, torn <- noticesTorn

Store == INSTANCE InboundStore WITH
    Messages <- {m1}, Conversations <- {c1}, Conv <- m1 :> c1, Time <- m1 :> 1, MaxFaults <- 2,
    stored <- storeStored, tomb <- storeTomb, art <- storeArt, deriv <- storeDeriv,
    deriver <- storeDeriver, hook <- storeHook, connected <- storeConnected,
    cursor <- storeCursor, live <- storeLive, early <- storeEarly, faults <- storeFaults

Queue == INSTANCE MemoryQueue WITH
    queue_capacity <- 1, batch_size <- 2, Poison <- {2}, MaxMessages <- 3, MaxFaults <- 1,
    MaxGapFaults <- 1, MaxTimeouts <- 0, link <- queueLink, arrived <- queueArrived,
    queue <- queueQueue, drop <- queueDrop, dropped_count <- queueDropped_count,
    gap_persisted <- queueGap_persisted, overflow_pending <- queueOverflow_pending,
    worker <- queueWorker, stored <- queueStored, gap <- queueGap,
    unrecorded <- queueUnrecorded, faults <- queueFaults, gapFaults <- queueGapFaults,
    timeouts <- queueTimeouts

Link == INSTANCE NapCatLink WITH
    enabled <- TRUE, startup_grace_secs <- 2, min_interval_secs <- 1, max_interval_secs <- 2,
    default_interval_secs <- 2, timeout_multiplier <- 2, reconnect_initial_secs <- 1,
    reconnect_max_secs <- 2, Periods <- {1}, Unknown <- -1, HandlerTimes <- {0, 1},
    MaxFrames <- 1, MaxFaults <- 1, link <- linkLink, lifecycle <- linkLifecycle,
    declared_interval_secs <- linkDeclared_interval_secs, age <- linkAge, frames <- linkFrames,
    sent <- linkSent, busy <- linkBusy, wait <- linkWait, backoff <- linkBackoff,
    peer <- linkPeer, steady <- linkSteady, faults <- linkFaults

Sync == INSTANCE Directory WITH
    Workers <- {w1}, Gaps <- {c1}, OldGaps <- {}, Freezers <- {m1}, FriendLists <- {<<1>>},
    GroupLists <- {<<>>}, RecentLists <- {<<>>}, max_entries <- 9, snapshot_ttl <- 1,
    MaxSnapshots <- 4, MaxNow <- 4, MaxFaults <- 1, now <- syncNow, snapshots <- syncSnapshots,
    frozen <- syncFrozen, sync <- syncSync, freezer <- syncFreezer, faults <- syncFaults

Gateway == INSTANCE OwnerGateway WITH
    Commands <- {c1}, Approvals <- {m1}, Others <- {m2}, Oversized <- {}, Target <- m1 :> None,
    MaxSessions <- 2, MaxFaults <- 1, log <- gatewayLog, opened <- gatewayOpened,
    live <- gatewayLive, sent <- gatewaySent, stored <- gatewayStored,
    session <- gatewaySession, pc <- gatewayPc, messages <- gatewayMessages, raw <- gatewayRaw,
    run <- gatewayRun, resumed <- gatewayResumed, faults <- gatewayFaults

Links == INSTANCE ThreadOverlay WITH
    Events <- {1, 2}, Conv <- MCTwo, Base <- {m1, m2}, Proposals <- {c1}, Replies <- {2},
    Linked <- {1, 2}, raw <- linksRaw, status <- linksStatus, late <- linksLate,
    alias <- linksAlias, split <- linksSplit, prop <- linksProp, hint <- linksHint,
    scan <- linksScan, held <- linksHeld, cand <- linksCand

Semantics == INSTANCE ThreadSemantics WITH
    Last <- 2, Conv <- MCTwo, Says <- MCTexts, MaxBatch <- 2, MaxCommands <- 1,
    joined <- semanticsJoined, mode <- semanticsMode, status <- semanticsStatus,
    why <- semanticsWhy, state <- semanticsState, era <- semanticsEra, rows <- semanticsRows,
    pending <- semanticsPending, batch <- semanticsBatch, commands <- semanticsCommands

Scan == INSTANCE Memory WITH
    Last <- 2, Conv <- MCTwo, Subject <- MCTwo, Says <- MCTexts, MaxBatch <- 1, MaxCited <- 1,
    MaxFacts <- 0, MaxCommands <- 1, stored <- scanStored,
    recalled <- scanRecalled, mode <- scanMode, local <- scanLocal, state <- scanState,
    deferred <- scanDeferred, batch <- scanBatch, cands <- scanCands, facts <- scanFacts,
    read <- scanRead, behind <- scanBehind, commands <- scanCommands

ASSUME ProgressAssumption ==
    /\ Pipeline!PipelineAssumption /\ Notices!SpoolAssumption /\ Store!StoreAssumption
    /\ Queue!QueueAssumption /\ Link!LinkAssumption /\ Sync!DirectoryAssumption
    /\ Gateway!GatewayAssumption /\ Links!OverlayAssumption /\ Semantics!SemanticsAssumption
    /\ Scan!MemoryAssumption

(* Only the variables of part p change. *)
Only(p) ==
    /\ part = p /\ UNCHANGED part
    /\ IF p = "pipeline" THEN TRUE ELSE UNCHANGED pipelineVars
    /\ IF p = "notices" THEN TRUE ELSE UNCHANGED noticesVars
    /\ IF p = "store" THEN TRUE ELSE UNCHANGED storeVars
    /\ IF p = "queue" THEN TRUE ELSE UNCHANGED queueVars
    /\ IF p = "link" THEN TRUE ELSE UNCHANGED linkVars
    /\ IF p = "sync" THEN TRUE ELSE UNCHANGED syncVars
    /\ IF p = "gateway" THEN TRUE ELSE UNCHANGED gatewayVars
    /\ IF p = "links" THEN TRUE ELSE UNCHANGED linksVars
    /\ IF p = "semantics" THEN TRUE ELSE UNCHANGED semanticsVars
    /\ IF p = "scan" THEN TRUE ELSE UNCHANGED scanVars

ProgressInit ==
    /\ part \in {"pipeline", "notices", "store", "queue", "link", "sync", "gateway", "links",
                 "semantics", "scan"}
    /\ Pipeline!Init /\ Notices!Init /\ Store!Init /\ Queue!Init /\ Link!Init
    /\ Sync!Init /\ Gateway!Init /\ Links!Init /\ Semantics!Init /\ Scan!Init

ProgressNext ==
    \/ Only("pipeline") /\ Pipeline!Next
    \/ Only("notices") /\ Notices!Next
    \/ Only("store") /\ Store!Next
    \/ Only("queue") /\ Queue!Next
    \/ Only("link") /\ Link!Next
    \/ Only("sync") /\ Sync!Next
    \/ Only("gateway") /\ Gateway!Next
    \/ Only("links") /\ Links!Next
    \/ Only("semantics") /\ Semantics!Next
    \/ Only("scan") /\ Scan!Next

progress == <<part, pipelineVars, noticesVars, storeVars, queueVars, linkVars, syncVars,
              gatewayVars, linksVars, semanticsVars, scanVars>>

(* The fairness that each component states for itself.  Since a behaviour   *)
(* is of one part, the k-th strong conditions of the parts are one.         *)
Strong(k) ==
    \/ /\ Only("notices")
       /\ \/ k = 1 /\ Notices!claim_recall(m1)
          \/ k = 2 /\ Notices!claim_recall(m2)
    \/ /\ Only("link")
       /\ \/ k = 1 /\ Link!Tick
    \/ /\ Only("links")
       /\ \/ k = 1 /\ Links!commit_link_hints
    \/ /\ Only("semantics")
       /\ \/ k = 1 /\ Semantics!Commit
    \/ /\ Only("scan")
       /\ \/ k = 1 /\ Scan!Commit

ProgressSpec ==
    /\ ProgressInit /\ [][ProgressNext]_progress
    /\ WF_pipelineVars(part = "pipeline" /\ Pipeline!Recovery)
    /\ WF_pipelineVars(part = "pipeline" /\ Pipeline!RecoveryFails)
    /\ WF_pipelineVars(part = "pipeline" /\ Pipeline!WriterThread)
    /\ WF_pipelineVars(part = "pipeline" /\ Pipeline!IngestionWorker)
    /\ WF_pipelineVars(part = "pipeline" /\ Pipeline!Ending)
    /\ WF_pipelineVars(part = "pipeline" /\ Pipeline!LeaseExpires(1))
    /\ WF_pipelineVars(part = "pipeline" /\ Pipeline!LeaseExpires(2))
    /\ WF_noticesVars(part = "notices" /\ Notices!Worker)
    /\ WF_noticesVars(part = "notices" /\ Notices!open)
    /\ WF_noticesVars(part = "notices" /\ Notices!LeaseEnds(m1))
    /\ WF_noticesVars(part = "notices" /\ Notices!LeaseEnds(m2))
    /\ WF_storeVars(part = "store" /\ Store!derive_claimed_artifacts)
    /\ WF_storeVars(part = "store" /\ Store!update_derivation_status)
    /\ WF_storeVars(part = "store" /\ Store!claim_artifact_derivation(m1))
    /\ WF_storeVars(part = "store" /\ Store!LeaseEnds(m1))
    /\ WF_queueVars(part = "queue" /\ Queue!PersistOverflowGap)
    /\ WF_queueVars(part = "queue" /\ Queue!Batch)
    /\ WF_queueVars(part = "queue" /\ Queue!FinishConnection)
    /\ WF_linkVars(part = "link" /\ Link!Listener)
    /\ WF_linkVars(part = "link" /\ (Link!Connect \/ Link!ConnectFails))
    /\ WF_linkVars(part = "link" /\ Link!SendHeartbeat)
    /\ WF_syncVars(part = "sync" /\ Sync!Sync(w1))
    /\ WF_gatewayVars(part = "gateway" /\ Gateway!Client)
    /\ WF_linksVars(part = "links" /\ Links!claim_link_batch)
    /\ WF_linksVars(part = "links" /\ Links!fail_link_batch)
    /\ WF_linksVars(part = "links" /\ Links!LinkLeaseEnds)
    /\ WF_semanticsVars(part = "semantics" /\ Semantics!claim_semantic_batch)
    /\ WF_semanticsVars(part = "semantics" /\ Semantics!release_semantic_claim)
    /\ WF_semanticsVars(part = "semantics" /\ Semantics!LeaseEnds)
    /\ WF_scanVars(part = "scan" /\ Scan!claim_deferred_batch)
    /\ WF_scanVars(part = "scan" /\ Scan!claim_candidate_batch)
    /\ WF_scanVars(part = "scan" /\ Scan!Lose)
    /\ WF_scanVars(part = "scan" /\ Scan!LeaseEnds)
    /\ \A k \in 1 .. 2 : SF_progress(Strong(k))

-----------------------------------------------------------------------------
(* What was made durable is worked off: a complete frame of the message     *)
(* spool is covered by the checkpoint, an acknowledged recall is recorded   *)
(* or given up, every stored message is derived, and what the platform has  *)
(* sent in a session that lives is stored, across kills, lost leases and    *)
(* failed transactions (SpoolPipeline, RecallSpool, InboundStore,           *)
(* OwnerGateway).                                                           *)
DurableWorkDone ==
    /\ part = "pipeline" => Pipeline!EveryFrameReplayed
    /\ part = "notices" => Notices!AckedRecallApplied
    /\ part = "store" => Store!EveryMessageDerived
    /\ part = "gateway" => Gateway!EventsStored

(* The workers catch up: every link is scanned, no message a worker may     *)
(* read stays unread though leases run out and commits come too late, a     *)
(* connection that closes empties its queue, a peer that went silent is     *)
(* left, and a directory that is out of date is refreshed (ThreadOverlay,   *)
(* ThreadSemantics, Memory, MemoryQueue, NapCatLink, Directory).            *)
WorkersCatchUp ==
    /\ part = "links" => Links!EveryLinkScanned
    /\ part = "semantics" => Semantics!CatchesUp
    /\ part = "scan" => Scan!EveryMessageRead
    /\ part = "queue" => Queue!Drains
    /\ part = "link" => Link!SilentPeerLeft
    /\ part = "sync" => Sync!Refreshed
===============================================================================
