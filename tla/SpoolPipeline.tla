--------------------------- MODULE SpoolPipeline ----------------------------
(***************************************************************************)
(* The durable ingestion path of one account, composed: the NapCat reader, *)
(* the bounded admission queue, the blocking spool writer, the ingestion   *)
(* worker that replays into MySQL and advances the checkpoint, the         *)
(* connection loop that opens and ends connection epochs, and the startup  *)
(* recovery that claims the epochs an earlier process left open.           *)
(*                                                                         *)
(*   runtime/connection_loop.rs, runtime/realtime_spool_runtime.rs,        *)
(*   application/ingestion_worker.rs (spooled mode),                       *)
(*   repo/mysql_continuity.rs, repo/mysql_realtime_spool.rs                *)
(*                                                                         *)
(* The spool file is taken at the level RealtimeSpool establishes for a    *)
(* killed process: complete frames survive, the checkpoint is atomic, a    *)
(* torn tail is cut off by the next open.  A message inserted twice has    *)
(* the effect of one insertion (insert_messages_if_absent, idempotent      *)
(* hooks), so MySQL is the set of stored messages.                         *)
(***************************************************************************)
EXTENDS Integers, Sequences

CONSTANTS MaxMessages,         \* bound: messages NapCat pushes
          MaxEpochs,           \* bound: connection epochs begun
          AdmissionCapacity,   \* realtime_spool.admission_capacity
          QueueCapacity,       \* ingestion.queue_capacity
          BatchSize,           \* ingestion.batch_size
          MaxCrashes,          \* bound: process crashes
          MaxStorageFaults,    \* bound: failed spool operations
          MaxDatabaseFaults,   \* bound: failed or late database calls
          Invalid              \* messages MySQL rejects as InvalidData

(* What the constants are to satisfy; an instance assumes it. *)
PipelineAssumption ==
    /\ {MaxMessages, MaxEpochs, MaxCrashes, MaxStorageFaults, MaxDatabaseFaults}
          \subseteq Nat
    /\ {AdmissionCapacity, QueueCapacity, BatchSize} \subseteq Nat \ {0}
    /\ Invalid \subseteq 1..MaxMessages

Messages == 1..MaxMessages
Epochs == 1..MaxEpochs

VARIABLES
    (* MySQL *)
    epoch,       \* secretary_connection_epochs: status of each epoch
    gap,         \* epochs with a row in secretary_ingestion_gaps
    claim,       \* secretary_realtime_spool_recovery_claims: the lease
    stored,      \* messages committed as source events
    hooked,      \* messages whose required post-hooks converged
    (* the spool files *)
    log,         \* complete frames, oldest first: [msg, epoch]
    done,        \* how many of them the checkpoint covers
    cut,         \* NoCut, or how many complete frames precede torn bytes
    (* the process *)
    phase,       \* where the startup and connection loop stand
    cur,         \* the current connection epoch
    mine,        \* epochs this process has claimed for recovery
    replayed,    \* recovery: steps done for the frame being replayed
    ending,      \* which select! arm ended the connection
    admission,   \* sync_channel between reader and writer
    writer,      \* the writer thread
    queue,       \* mpsc channel between writer and worker: frame positions
    worker,      \* the ingestion worker
    batch,       \* positions of the frames the worker is processing
    fatal,       \* the unbounded fatal channel holds a message
    (* the environment *)
    arrived,     \* for each message pushed so far, the epoch it came in
    crashes, storageFaults, databaseFaults

mysql == <<epoch, gap, claim, stored, hooked>>
files == <<log, done, cut>>
tasks == <<admission, writer, queue, worker, batch, fatal>>
loopVars == <<phase, cur, mine, replayed, ending>>
env == <<arrived, crashes, storageFaults, databaseFaults>>
vars == <<mysql, files, tasks, loopVars, env>>

NoCut == -1
Open(e) == epoch[e] \in {"connecting", "connected"}
PendingFrames == {log[i] : i \in done + 1..Len(log)}

Init == /\ epoch = [e \in Epochs |-> "unused"]
        /\ gap = {} /\ claim = [e \in Epochs |-> "none"]
        /\ stored = {} /\ hooked = {}
        /\ log = <<>> /\ done = 0 /\ cut = NoCut
        /\ phase = "down" /\ cur = 0 /\ mine = {} /\ replayed = "none"
        /\ ending = "none"
        /\ admission = <<>> /\ writer = "off" /\ queue = <<>>
        /\ worker = "off" /\ batch = <<>> /\ fatal = FALSE
        /\ arrived = <<>>
        /\ crashes = 0 /\ storageFaults = 0 /\ databaseFaults = 0

StorageFault == /\ storageFaults < MaxStorageFaults
                /\ storageFaults' = storageFaults + 1
                /\ UNCHANGED <<arrived, crashes, databaseFaults>>
DatabaseFault == /\ databaseFaults < MaxDatabaseFaults
                 /\ databaseFaults' = databaseFaults + 1
                 /\ UNCHANGED <<arrived, crashes, storageFaults>>

TasksOff == /\ admission' = <<>> /\ writer' = "off" /\ queue' = <<>>
            /\ worker' = "off" /\ batch' = <<>> /\ fatal' = FALSE

(* The process ends: everything it kept in memory is gone. *)
Exit == /\ phase' = "down"
        /\ cur' = 0 /\ mine' = {} /\ replayed' = "none" /\ ending' = "none"
        /\ TasksOff

-----------------------------------------------------------------------------
(* Startup: open the spool, read the pending frames, claim the epochs left  *)
(* open by earlier processes, replay, end those epochs, then connect.       *)

(* Mutant: an incomplete tail is cut off back to the checkpoint. *)
OpenSpool_ToCheckpoint ==
    /\ phase = "down"
    /\ log' = IF cut = NoCut THEN log ELSE SubSeq(log, 1, done)
    /\ cut' = NoCut
    /\ phase' = "claim"
    /\ UNCHANGED <<mysql, done, tasks, cur, mine, replayed, ending, env>>
(* Bytes after the last complete frame that do not fill the length their    *)
(* header announces are an incomplete tail, and open cuts them off.         *)
OpenSpool == /\ phase = "down"
             /\ log' = IF cut = NoCut THEN log ELSE SubSeq(log, 1, cut)
             /\ cut' = NoCut
             /\ phase' = "claim"
             /\ UNCHANGED <<mysql, done, tasks, cur, mine, replayed, ending, env>>

(* A frame appended behind torn bytes completes their length, and the scan  *)
(* then fails authentication: fail closed.                                  *)
OpenRefused == /\ phase = "down"
               /\ cut # NoCut /\ cut < Len(log)
               /\ phase' = "refused"
               /\ UNCHANGED <<mysql, files, tasks, cur, mine, replayed, ending, env>>

Claimable == {e \in Epochs : Open(e) /\ claim[e] # "held"}

(* Every pending frame must belong to an epoch just claimed as connected.   *)
RecoveryPlanHolds(claimed) ==
    \A f \in PendingFrames : f.epoch \in claimed /\ epoch[f.epoch] = "connected"

ClaimLegacyEpochs ==
    /\ phase = "claim"
    /\ claim' = [e \in Epochs |-> IF e \in Claimable THEN "held" ELSE claim[e]]
    /\ IF RecoveryPlanHolds(Claimable)
       THEN /\ mine' = Claimable
            /\ phase' = "replay"
            /\ UNCHANGED <<cur, replayed, ending, tasks>>
       ELSE Exit
    /\ UNCHANGED <<epoch, gap, stored, hooked, files, env>>

(* renew_legacy_realtime_spool_epoch, then insert, hooks, checkpoint: one   *)
(* frame after the other.                                                   *)
ReplayInsert ==
    /\ phase = "replay" /\ replayed = "none" /\ done < Len(log)
    /\ claim[log[done + 1].epoch] = "held"
    /\ log[done + 1].msg \notin Invalid
    /\ stored' = stored \cup {log[done + 1].msg}
    /\ replayed' = "inserted"
    /\ UNCHANGED <<epoch, gap, claim, hooked, files, tasks, phase, cur, mine,
                   ending, env>>

ReplayHooks == /\ phase = "replay" /\ replayed = "inserted"
               /\ hooked' = hooked \cup {log[done + 1].msg}
               /\ replayed' = "hooked"
               /\ UNCHANGED <<epoch, gap, claim, stored, files, tasks, phase, cur,
                              mine, ending, env>>

ReplayCheckpoint == /\ phase = "replay" /\ replayed = "hooked"
                    /\ done' = done + 1
                    /\ replayed' = "none"
                    /\ UNCHANGED <<mysql, log, cut, tasks, phase, cur, mine,
                                   ending, env>>

(* finish_legacy_connecting_without_frames or finalize_recovered_connected_ *)
(* epoch: one transaction under the lease, which it deletes.                *)
FinishLegacyEpoch(e) ==
    /\ phase = "replay" /\ done = Len(log)
    /\ e \in mine /\ \A f \in mine : e <= f
    /\ claim[e] = "held"
    /\ gap' = IF epoch[e] = "connected" THEN gap \cup {e} ELSE gap
    /\ epoch' = [epoch EXCEPT ![e] = "ended"]
    /\ claim' = [claim EXCEPT ![e] = "none"]
    /\ mine' = mine \ {e}
    /\ UNCHANGED <<stored, hooked, files, tasks, phase, cur, replayed, ending, env>>

RecoveryFinished == /\ phase = "replay" /\ done = Len(log) /\ mine = {}
                    /\ phase' = "loop"
                    /\ UNCHANGED <<mysql, files, tasks, cur, mine, replayed, ending,
                                   env>>

(* The epoch whose lease recovery renews next. *)
Renewing == IF done < Len(log) THEN log[done + 1].epoch
            ELSE CHOOSE e \in mine : \A f \in mine : e <= f

(* A lost lease, an invalid message, a failed call or a failed checkpoint   *)
(* ends the startup; the leases stay in the database.                       *)
RecoveryFails ==
    /\ phase = "replay"
    /\ \/ /\ replayed = "none" /\ (done < Len(log) \/ mine # {})
          /\ claim[Renewing] # "held"
          /\ UNCHANGED env
       \/ /\ replayed = "none"
          /\ done < Len(log) /\ log[done + 1].msg \in Invalid
          /\ UNCHANGED env
       \/ DatabaseFault
       \/ replayed = "hooked" /\ StorageFault
    /\ Exit
    /\ UNCHANGED <<mysql, files>>

-----------------------------------------------------------------------------
(* The connection loop. *)

BeginConnection == /\ phase = "loop"
                   /\ \E e \in Epochs :
                         /\ epoch[e] = "unused"
                         /\ \A f \in 1..e - 1 : epoch[f] # "unused"
                         /\ epoch' = [epoch EXCEPT ![e] = "connecting"]
                         /\ cur' = e
                   /\ phase' = "up"
                   /\ writer' = "recv" /\ worker' = "recv"
                   /\ fatal' = FALSE
                   /\ UNCHANGED <<gap, claim, stored, hooked, files, mine, replayed,
                                  ending, admission, queue, batch, env>>

MarkConnected == /\ phase = "up" /\ epoch[cur] = "connecting"
                 /\ epoch' = [epoch EXCEPT ![cur] = "connected"]
                 /\ UNCHANGED <<gap, claim, stored, hooked, files, tasks, loopVars,
                                env>>

(* try_admit never waits: full or closed is fatal and the message is lost.  *)
Arrive == /\ phase = "up" /\ epoch[cur] = "connected"
          /\ Len(arrived) < MaxMessages
          /\ arrived' = Append(arrived, cur)
          /\ IF writer # "done" /\ Len(admission) < AdmissionCapacity
             THEN /\ admission' = Append(admission, Len(arrived) + 1)
                  /\ UNCHANGED fatal
             ELSE /\ fatal' = TRUE
                  /\ UNCHANGED admission
          /\ UNCHANGED <<mysql, files, writer, queue, worker, batch, loopVars,
                         crashes, storageFaults, databaseFaults>>

(* The select!: a ready fatal can lose to any other ready arm. *)
EndConnection(how) ==
    /\ phase = "up"
    /\ how = "fatal" => fatal
    /\ phase' = "drain"
    /\ ending' = how
    /\ UNCHANGED <<mysql, files, tasks, cur, mine, replayed, env>>

Drained == writer = "done" /\ worker = "done"

(* Mutants: a clean shutdown leaves no gap; the drains are not waited for.  *)
FinishConnection_NoShutdownGap ==
    /\ phase = "drain" /\ Drained /\ ending # "fatal"
    /\ epoch' = [epoch EXCEPT ![cur] = "ended"]
    /\ gap' = IF epoch[cur] = "connected" /\ ending # "shutdown"
              THEN gap \cup {cur} ELSE gap
    /\ IF ending = "shutdown"
       THEN Exit
       ELSE /\ phase' = "loop" /\ ending' = "none" /\ cur' = 0
            /\ TasksOff
            /\ UNCHANGED <<mine, replayed>>
    /\ UNCHANGED <<claim, stored, hooked, files, env>>
(* finish_connection: the epoch ends, and a connected one leaves a gap. The *)
(* channels of this connection, and what is left in them, are dropped.      *)
FinishConnection ==
    /\ phase = "drain" /\ Drained /\ ending # "fatal"
    /\ epoch' = [epoch EXCEPT ![cur] = "ended"]
    /\ gap' = IF epoch[cur] = "connected" THEN gap \cup {cur} ELSE gap
    /\ IF ending = "shutdown"
       THEN Exit
       ELSE /\ phase' = "loop" /\ ending' = "none" /\ cur' = 0
            /\ TasksOff
            /\ UNCHANGED <<mine, replayed>>
    /\ UNCHANGED <<claim, stored, hooked, files, env>>

(* The fatal arm: drain, try to record the gap for as long as the budget    *)
(* allows, and exit with the epoch still open.                              *)
FailClosed ==
    /\ phase = "drain" /\ ending = "fatal"
    /\ gap' \in IF epoch[cur] = "connected" THEN {gap, gap \cup {cur}} ELSE {gap}
    /\ Exit
    /\ UNCHANGED <<epoch, claim, stored, hooked, files, env>>

(* A drain deadline passed: exit, leaving the epoch open and the WAL as is. *)
DrainTimeout == /\ phase = "drain" /\ ending # "fatal" /\ ~Drained
                /\ Exit
                /\ UNCHANGED <<mysql, files, env>>

(* begin_connection or finish_connection failed, or a shutdown during the   *)
(* reconnect delay: exit.                                                   *)
LoopFails == /\ \/ phase = "loop"
                \/ phase = "drain" /\ ending # "fatal" /\ Drained
             /\ DatabaseFault
             /\ Exit
             /\ UNCHANGED <<mysql, files>>

ShutdownWhileWaiting == /\ phase = "loop"
                        /\ Exit
                        /\ UNCHANGED <<mysql, files, env>>

-----------------------------------------------------------------------------
(* The writer thread: append, then hand the receipted frame to the worker.  *)

Alive == phase \in {"up", "drain"}
Admitted == Head(admission)

WriterAppend ==
    /\ Alive /\ writer = "recv" /\ admission # <<>>
    /\ log' = Append(log, [msg |-> Admitted, epoch |-> cur])
    /\ admission' = Tail(admission)
    /\ writer' = "send"
    /\ UNCHANGED <<mysql, done, cut, queue, worker, batch, fatal, loopVars, env>>

(* append failed: part of the frame is in the file, or all of it but        *)
(* sync_all failed.  No receipt; the writer stops.                          *)
WriterAppendFails ==
    /\ Alive /\ writer = "recv" /\ admission # <<>>
    /\ StorageFault
    /\ \/ /\ cut' = IF cut = NoCut THEN Len(log) ELSE cut
          /\ UNCHANGED log
       \/ /\ log' = Append(log, [msg |-> Admitted, epoch |-> cur])
          /\ UNCHANGED cut
    /\ admission' = Tail(admission)
    /\ writer' = "done" /\ fatal' = TRUE
    /\ UNCHANGED <<mysql, done, queue, worker, batch, loopVars>>

(* blocking_enqueue_spooled waits for room, and fails once the worker left. *)
WriterEnqueue ==
    /\ Alive /\ writer = "send"
    /\ \/ /\ worker # "done" /\ Len(queue) < QueueCapacity
          /\ queue' = Append(queue, Len(log))
          /\ writer' = "recv"
          /\ UNCHANGED fatal
       \/ /\ worker = "done"
          /\ writer' = "done" /\ fatal' = TRUE
          /\ UNCHANGED queue
    /\ UNCHANGED <<mysql, files, admission, worker, batch, loopVars, env>>

(* The listener dropped the last sender and the queue is empty. *)
WriterClose == /\ phase = "drain" /\ writer = "recv" /\ admission = <<>>
               /\ writer' = "done"
               /\ UNCHANGED <<mysql, files, admission, queue, worker, batch, fatal,
                              loopVars, env>>

-----------------------------------------------------------------------------
(* The ingestion worker: a batch is inserted in one transaction, its hooks  *)
(* converge, and its record ids go to advance_checkpoint.  Retryable        *)
(* database errors repeat the step and are not seen here.                   *)

WorkerTake ==
    /\ Alive /\ worker = "recv" /\ queue # <<>>
    /\ \E n \in 1..BatchSize :
          /\ n <= Len(queue)
          /\ batch' = SubSeq(queue, 1, n)
          /\ queue' = SubSeq(queue, n + 1, Len(queue))
    /\ worker' = "insert"
    /\ UNCHANGED <<mysql, files, admission, writer, fatal, loopVars, env>>

BatchMessages == {log[batch[i]].msg : i \in 1..Len(batch)}

WorkerInsert ==
    /\ Alive /\ worker = "insert"
    /\ IF BatchMessages \cap Invalid = {}
       THEN /\ stored' = stored \cup BatchMessages
            /\ worker' = "hooks"
            /\ UNCHANGED fatal
       ELSE /\ worker' = "done" /\ fatal' = TRUE
            /\ UNCHANGED stored
    /\ UNCHANGED <<epoch, gap, claim, hooked, files, admission, writer, queue,
                   batch, loopVars, env>>

WorkerHooks == /\ Alive /\ worker = "hooks"
               /\ hooked' = hooked \cup BatchMessages
               /\ worker' = "checkpoint"
               /\ UNCHANGED <<epoch, gap, claim, stored, files, admission, writer,
                              queue, batch, fatal, loopVars, env>>

(* advance_checkpoint accepts only the first pending frames of a WAL that   *)
(* scans cleanly.                                                           *)
PrefixAccepted == /\ cut = NoCut
                  /\ \A i \in 1..Len(batch) : batch[i] = done + i

WorkerCheckpoint ==
    /\ Alive /\ worker = "checkpoint" /\ PrefixAccepted
    /\ done' = done + Len(batch)
    /\ batch' = <<>>
    /\ worker' = "recv"
    /\ UNCHANGED <<mysql, log, cut, admission, writer, queue, fatal, loopVars, env>>

WorkerCheckpointFails ==
    /\ Alive /\ worker = "checkpoint"
    /\ IF PrefixAccepted THEN StorageFault ELSE UNCHANGED env
    /\ worker' = "done" /\ fatal' = TRUE
    /\ UNCHANGED <<mysql, files, admission, writer, queue, batch, loopVars>>

WorkerClose == /\ Alive /\ worker = "recv" /\ writer = "done" /\ queue = <<>>
               /\ worker' = "done"
               /\ UNCHANGED <<mysql, files, admission, writer, queue, batch, fatal,
                              loopVars, env>>

-----------------------------------------------------------------------------
(* A crash, possibly in the middle of an append; leases run on without it.  *)

Crash == /\ phase \notin {"down", "refused"}
         /\ crashes < MaxCrashes
         /\ crashes' = crashes + 1
         /\ cut' \in IF Alive /\ writer = "recv" /\ admission # <<>> /\ cut = NoCut
                     THEN {NoCut, Len(log)} ELSE {cut}
         /\ Exit
         /\ UNCHANGED <<mysql, log, done, arrived, storageFaults, databaseFaults>>

LeaseExpires(e) == /\ claim[e] = "held" /\ e \notin mine
                   /\ claim' = [claim EXCEPT ![e] = "expired"]
                   /\ UNCHANGED <<epoch, gap, stored, hooked, files, tasks, loopVars,
                                  env>>

(* A database call of the recovery took longer than the lease. *)
LeaseLapses(e) == /\ claim[e] = "held" /\ e \in mine
                  /\ DatabaseFault
                  /\ claim' = [claim EXCEPT ![e] = "expired"]
                  /\ UNCHANGED <<epoch, gap, stored, hooked, files, tasks, loopVars>>

-----------------------------------------------------------------------------
Recovery == \/ OpenSpool \/ ClaimLegacyEpochs
            \/ ReplayInsert \/ ReplayHooks \/ ReplayCheckpoint
            \/ \E e \in Epochs : FinishLegacyEpoch(e)
            \/ RecoveryFinished
WriterThread == WriterAppend \/ WriterEnqueue \/ WriterClose
IngestionWorker == \/ WorkerTake \/ WorkerInsert \/ WorkerHooks
                   \/ WorkerCheckpoint \/ WorkerClose
Ending == FinishConnection \/ FailClosed \/ DrainTimeout

Next == \/ Recovery \/ OpenRefused \/ RecoveryFails
        \/ BeginConnection \/ MarkConnected \/ Arrive
        \/ \E how \in {"shutdown", "closed", "fatal"} : EndConnection(how)
        \/ Ending \/ LoopFails \/ ShutdownWhileWaiting
        \/ WriterThread \/ WriterAppendFails
        \/ IngestionWorker \/ WorkerCheckpointFails
        \/ Crash
        \/ \E e \in Epochs : LeaseExpires(e) \/ LeaseLapses(e)

Spec == Init /\ [][Next]_vars

(* A supervisor restarts the process, the runtime polls its tasks, a drain  *)
(* has a deadline, and a lease nobody renews runs out.  Neither a new       *)
(* connection nor the end of one is assumed.                                *)
Fairness == /\ WF_vars(Recovery) /\ WF_vars(RecoveryFails)
            /\ WF_vars(WriterThread) /\ WF_vars(IngestionWorker)
            /\ WF_vars(Ending)
            /\ \A e \in Epochs : WF_vars(LeaseExpires(e))

FairSpec == Spec /\ Fairness

-----------------------------------------------------------------------------
(* Properties. *)

Positions == 1..MaxMessages

Frames == [msg : Messages, epoch : Epochs]

DatabaseTyped ==
    /\ epoch \in [Epochs -> {"unused", "connecting", "connected", "ended"}]
    /\ gap \subseteq Epochs
    /\ claim \in [Epochs -> {"none", "held", "expired"}]
    /\ stored \subseteq Messages /\ hooked \subseteq Messages

FilesTyped ==
    /\ log \in Seq(Frames)
    /\ done \in 0..Len(log) /\ cut \in {NoCut} \cup done..Len(log)

LoopTyped ==
    /\ phase \in {"down", "refused", "claim", "replay", "loop", "up", "drain"}
    /\ cur \in {0} \cup Epochs /\ mine \subseteq Epochs
    /\ replayed \in {"none", "inserted", "hooked"}
    /\ ending \in {"none", "shutdown", "closed", "fatal"}
    /\ arrived \in Seq(Epochs)

TasksTyped ==
    /\ admission \in Seq(Messages) /\ Len(admission) <= AdmissionCapacity
    /\ writer \in {"off", "recv", "send", "done"}
    /\ queue \in Seq(Positions) /\ Len(queue) <= QueueCapacity
    /\ worker \in {"off", "recv", "insert", "hooks", "checkpoint", "done"}
    /\ batch \in Seq(Positions) /\ Len(batch) <= BatchSize
    /\ fatal \in BOOLEAN

(* Every variable keeps its type; channels stay within their capacity, and  *)
(* the checkpoint and the torn bytes lie inside the log.                    *)
TypeOK == DatabaseTyped /\ FilesTyped /\ LoopTyped /\ TasksTyped

(* EffectsBeforeCheckpoint: whatever failed, crashed or was replayed, a     *)
(* frame the checkpoint covers is in MySQL and its required hooks have      *)
(* converged, so dropping it from the WAL loses nothing.                    *)
EffectsBeforeCheckpoint ==
    \A i \in 1..done : log[i].msg \in stored \cap hooked

(* Refinement: held are the frames the next open keeps and the checkpoint   *)
(* does not cover, with a receipt or without.  A frame appended behind torn *)
(* bytes is not among them although it has a receipt: that such a frame may *)
(* be cut off is no step of DurableLog.                                     *)
Kept == IF cut = NoCut THEN Len(log) ELSE cut
Held == {log[i].msg : i \in done + 1..Kept}
Log == INSTANCE DurableLog WITH
    held <- Held, settled <- stored \cap hooked, Records <- Messages
ImplementsDurableLog == Log!Spec

(* FramesKept: the whole path, from the admission of a message to its       *)
(* checkpoint, keeps the promise of the file: a frame stays to be replayed  *)
(* until its message and the effects of its hooks are in MySQL, and frames  *)
(* are let go in the order in which they arrived, whatever the worker, the  *)
(* recovery, crashes and failed calls do in between.                        *)
FramesKept == []EffectsBeforeCheckpoint /\ ImplementsDurableLog

(* NoSilentLoss: a message NapCat delivered is in MySQL, or is still on its *)
(* way there, or the epoch it came in is open or carries an uncertain gap   *)
(* for the history backfill.                                                *)
NoSilentLoss ==
    \A m \in 1..Len(arrived) :
        \/ m \in stored
        \/ arrived[m] \in gap
        \/ Open(arrived[m])

(* PendingFramesClaimable: a frame that still has to be replayed belongs to *)
(* a connected epoch that has not ended, so the next start can claim it.    *)
(* This is what "fatal or a missed drain deadline keeps the epoch open" is  *)
(* for.                                                                     *)
PendingFramesClaimable ==
    \A f \in PendingFrames : epoch[f.epoch] = "connected"

(* LegacySettledBeforeConnect: the listener does not open a connection      *)
(* while an epoch of an earlier process is unfinished.                      *)
LegacySettledBeforeConnect ==
    phase = "up" => \A e \in Epochs \ {cur} : ~Open(e)

(* EveryFrameReplayed: a complete frame is eventually covered by the        *)
(* checkpoint, across crashes, restarts, lost leases and drain deadlines.   *)
EveryFrameReplayed ==
    \A i \in Positions : (Len(log) >= i) ~> (done >= i)

-----------------------------------------------------------------------------
(* What makes EffectsBeforeCheckpoint and NoSilentLoss inductive.           *)

(* Every frame, and every message that waits for one, has arrived. *)
Counted == Len(log) + Len(admission) <= Len(arrived) /\ Len(arrived) <= MaxMessages

(* The tasks of a connection end with it, before open can cut the log. *)
TasksOnlyAlive ==
    /\ ~Alive => admission = <<>> /\ queue = <<>> /\ batch = <<>>
                 /\ writer = "off" /\ worker = "off"
    /\ Alive => cur \in Epochs

(* What a task points at is in the log. *)
PositionsInLog ==
    /\ writer = "send" => log # <<>>
    /\ \A i \in 1..Len(queue) : queue[i] <= Len(log)
    /\ \A i \in 1..Len(batch) : batch[i] <= Len(log)

(* The worker and the recovery checkpoint what they have stored. *)
WorkerSound ==
    /\ worker \in {"hooks", "checkpoint"} => BatchMessages \subseteq stored
    /\ worker = "checkpoint" => BatchMessages \subseteq hooked

RecoverySound ==
    /\ phase \in {"claim", "replay"} => cut = NoCut
    /\ replayed # "none" => /\ phase = "replay" /\ done < Len(log)
                            /\ log[done + 1].msg \in stored
    /\ replayed = "hooked" => log[done + 1].msg \in hooked

(* An epoch in which a message arrived is connected until its gap is there. *)
ArrivalsCovered ==
    \A m \in 1..Len(arrived) : epoch[arrived[m]] = "connected" \/ arrived[m] \in gap

PipelineInv == /\ TypeOK /\ Counted /\ TasksOnlyAlive /\ PositionsInLog
               /\ WorkerSound /\ RecoverySound /\ ArrivalsCovered
               /\ EffectsBeforeCheckpoint

(* Messages are numbered as they arrive, so the frames of the log and the   *)
(* messages that wait for one ascend: what FramesKept needs besides.        *)
LogAscends ==
    /\ \A i \in 1..Len(log) : /\ log[i].msg <= Len(arrived)
                              /\ \A j \in 1..i - 1 : log[j].msg < log[i].msg
    /\ \A i \in 1..Len(admission) : /\ admission[i] <= Len(arrived)
                                    /\ \A j \in 1..i - 1 : admission[j] < admission[i]
                                    /\ \A j \in 1..Len(log) : log[j].msg < admission[i]
=============================================================================
