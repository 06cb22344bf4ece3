-------------------------------- MODULE Ingest --------------------------------
(***************************************************************************)
(* How messages, recalls and conversations get into the store: the         *)
(* components on that way, side by side.                                   *)
(*                                                                         *)
(* The components keep disjoint state, and what one leaves to another is   *)
(* already in the model of the other.  So a behaviour is one of one        *)
(* component: the initial state picks it (part), and the others stay in    *)
(* their initial states.  TLC explores the sum of their state spaces, and  *)
(* what is proved of a component holds of its part.                        *)
(***************************************************************************)
EXTENDS Directory

CONSTANTS
    MaxMessages, MaxEpochs, AdmissionCapacity, QueueCapacity, BatchSize, MaxCrashes,
    MaxStorageFaults, MaxDatabaseFaults, Invalid,                        \* SpoolPipeline
    NoMessage,
    RecallMessages, RecallCapacity, MaxAttempts, MaxNotices, MaxRecallFaults,
    MaxTorn,                                                             \* RecallSpool
    StoreMessages, Conversations, Conv, Time, MaxStoreFaults,            \* InboundStore
    queue_capacity, batch_size, Poison, QueueMessages, MaxQueueFaults, MaxGapFaults,
    MaxTimeouts,                                                         \* MemoryQueue
    enabled, startup_grace_secs, min_interval_secs, max_interval_secs,
    default_interval_secs, timeout_multiplier, reconnect_initial_secs, reconnect_max_secs,
    Periods, Unknown, HandlerTimes, MaxFrames, MaxLinkFaults             \* NapCatLink

VARIABLES
    part,
    epoch, gap, claim, stored, hooked, log, done, cut, phase, cur, mine, replayed, ending,
    admission, writer, queue, worker, batch, fatal, arrived, crashes, storageFaults,
    databaseFaults,
    wal, up, stop, job, inbox, recorded, subject, acked, copied, recallFaults, torn,
    messages, tomb, art, deriv, deriver, hook, connected, cursor, live, early, storeFaults,
    qLink, qArrived, qQueue, drop, dropped_count, gap_persisted, overflow_pending, qWorker,
    qStored, qGap, unrecorded, qFaults, gapFaults, timeouts,
    socket, lifecycle, declared_interval_secs, age, frames, sent, busy, wait, backoff, peer,
    steady, linkFaults

pipelineVars == <<epoch, gap, claim, stored, hooked, log, done, cut, phase, cur, mine, replayed,
                  ending, admission, writer, queue, worker, batch, fatal, arrived, crashes,
                  storageFaults, databaseFaults>>
recallVars == <<wal, up, stop, job, inbox, recorded, subject, acked, copied, recallFaults, torn>>
storeVars == <<messages, tomb, art, deriv, deriver, hook, connected, cursor, live, early,
               storeFaults>>
queueVars == <<qLink, qArrived, qQueue, drop, dropped_count, gap_persisted, overflow_pending,
               qWorker, qStored, qGap, unrecorded, qFaults, gapFaults, timeouts>>
linkVars == <<socket, lifecycle, declared_interval_secs, age, frames, sent, busy, wait, backoff,
              peer, steady, linkFaults>>

Pipeline == INSTANCE SpoolPipeline

Recalls == INSTANCE RecallSpool WITH
    Messages <- RecallMessages, None <- NoMessage, Capacity <- RecallCapacity,
    MaxFaults <- MaxRecallFaults, faults <- recallFaults

Store == INSTANCE InboundStore WITH
    Messages <- StoreMessages, None <- NoMessage, MaxFaults <- MaxStoreFaults,
    stored <- messages, faults <- storeFaults

Queue == INSTANCE MemoryQueue WITH
    MaxMessages <- QueueMessages, MaxFaults <- MaxQueueFaults,
    link <- qLink, arrived <- qArrived, queue <- qQueue, worker <- qWorker, stored <- qStored,
    gap <- qGap, faults <- qFaults

Link == INSTANCE NapCatLink WITH
    MaxFaults <- MaxLinkFaults, link <- socket, faults <- linkFaults

ASSUME IngestAssumption ==
    /\ Pipeline!PipelineAssumption /\ Recalls!SpoolAssumption /\ Store!StoreAssumption
    /\ Queue!QueueAssumption /\ Link!LinkAssumption

IngestInit ==
    /\ part \in {"directory", "pipeline", "recalls", "store", "queue", "link"}
    /\ Init /\ Pipeline!Init /\ Recalls!Init /\ Store!Init /\ Queue!Init /\ Link!Init
    /\ part # "link" => peer.period = CHOOSE p \in Periods : TRUE

OnlyDirectory == UNCHANGED <<part, pipelineVars, recallVars, storeVars, queueVars, linkVars>>
OnlyPipeline == UNCHANGED <<part, vars, recallVars, storeVars, queueVars, linkVars>>
OnlyRecalls == UNCHANGED <<part, vars, pipelineVars, storeVars, queueVars, linkVars>>
OnlyStore == UNCHANGED <<part, vars, pipelineVars, recallVars, queueVars, linkVars>>
OnlyQueue == UNCHANGED <<part, vars, pipelineVars, recallVars, storeVars, linkVars>>
OnlyLink == UNCHANGED <<part, vars, pipelineVars, recallVars, storeVars, queueVars>>

IngestNext ==
    \/ part = "directory" /\ Next /\ OnlyDirectory
    \/ part = "pipeline" /\ Pipeline!Next /\ OnlyPipeline
    \/ part = "recalls" /\ Recalls!Next /\ OnlyRecalls
    \/ part = "store" /\ Store!Next /\ OnlyStore
    \/ part = "queue" /\ Queue!Next /\ OnlyQueue
    \/ part = "link" /\ Link!Next /\ OnlyLink

ingest == <<part, vars, pipelineVars, recallVars, storeVars, queueVars, linkVars>>
IngestSpec == IngestInit /\ [][IngestNext]_ingest

-----------------------------------------------------------------------------
(* Whatever failed, crashed or was replayed: a frame the checkpoint covers  *)
(* is in MySQL and its hooks have converged, and the frames ahead of torn   *)
(* bytes are a durable log: each stays to be replayed until then, and they  *)
(* are let go in the order of arrival (SpoolPipeline).                      *)
FramesKept == Pipeline!FramesKept

(* A message NapCat delivered is in MySQL, or its epoch is open or carries  *)
(* a gap for the history backfill (SpoolPipeline).                          *)
NoSilentLoss == part = "pipeline" => Pipeline!NoSilentLoss

(* A recall notice whose append succeeded is in the file or in the inbox,   *)
(* a row of the inbox is closed only when the recall is recorded or all its *)
(* attempts are used, and the file is a durable log: held until the inbox   *)
(* has it, let go in the order of writing (RecallSpool).                    *)
NoticesKept == Recalls!NoticesKept

(* A recall reaches its message in whichever order the two arrive, and a    *)
(* message that was recalled before its derivation was claimed never has an *)
(* available artifact; the cursors a gap will start from stand at the       *)
(* newest message the live connection delivered (InboundStore).             *)
StoreSound == part = "store" => Store!StoreSound

(* Without the spool: no message overtakes one that waits, a refused one    *)
(* takes no other with it, and what is not stored when the connection is    *)
(* over lies above the boundary of the gap, but for what was lost when a    *)
(* write of that gap failed (MemoryQueue).                                  *)
QueueLossCovered ==
    part = "queue" => Queue!QueueLossCovered

(* A peer that sends its heartbeats in time is not given up, whatever       *)
(* interval they declare, one that went silent is noticed by the deadline,  *)
(* and after a connection that worked the first wait is the short one       *)
(* (NapCatLink).                                                            *)
LinkWatched == Link!LivePeerKept /\ Link!ShortFirstWait /\ []Link!SilenceNoticed
===============================================================================
