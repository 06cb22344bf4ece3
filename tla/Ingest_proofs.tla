----------------------------- MODULE Ingest_proofs -----------------------------
(***************************************************************************)
(* Proofs about the components of Ingest, for every value of their         *)
(* constants.                                                              *)
(*                                                                         *)
(* 1. Directory, for any lists, any number of gaps, of sync workers and of *)
(*    callers: a gap keeps the directory it was created with, and every    *)
(*    caller of freeze_for_gap is told of that one.                        *)
(* 2. SpoolPipeline, for any number of messages, epochs, crashes and       *)
(*    faults and any capacities: what the checkpoint covers is in MySQL,   *)
(*    no message is lost without an open epoch or a gap to show it, and    *)
(*    the whole path is a DurableLog.                                      *)
(* 3. InboundStore, for any messages, conversations and times: recalls     *)
(*    reach their messages, hide their artifacts, and the cursors stand at *)
(*    the newest message.                                                  *)
(* 4. RecallSpool, for any capacity and any number of notices, kills, torn *)
(*    writes and database errors: a notice whose append succeeded is kept, *)
(*    and the file is a DurableLog.                                        *)
(* 5. MemoryQueue, for any capacity and batches: the order of arrival is    *)
(*    kept, and what is not stored is above the boundary of a gap.         *)
(* 6. Directory again: a snapshot that is called complete holds all that   *)
(*    the lists named, if they fit.                                        *)
(* 7. NapCatLink, for any intervals, multipliers and handlers: a live peer *)
(*    is kept if the grace period covers the messages, a silent one        *)
(*    noticed.                                                             *)
(***************************************************************************)
EXTENDS Ingest, FiniteSetTheorems, NaturalsInduction, SequenceTheorems, TLAPS

SnapshotsOK == (\E S : snapshots \in Seq(S)) /\ Len(snapshots) <= MaxSnapshots

FunctionsOK ==
    /\ frozen \in [Gaps -> 0..MaxSnapshots \cup {None}]
    /\ freezer \in [Freezers -> [pc : {"idle", "write", "load", "done"}, gap : Gaps \cup {None},
                                 read : 0..MaxSnapshots, got : 0..MaxSnapshots \cup {None}]]

(* A call is about a gap, and one that is past its write has found or left  *)
(* something frozen.                                                        *)
CallsOK ==
    \A f \in Freezers :
        /\ freezer[f].pc # "idle" => freezer[f].gap \in Gaps
        /\ freezer[f].pc \in {"load", "done"} => frozen[freezer[f].gap] # None

Inv == SnapshotsOK /\ FunctionsOK /\ CallsOK /\ FreezersAgree

-----------------------------------------------------------------------------
LEMMA Constants == MaxSnapshots \in Nat /\ None \notin 0..MaxSnapshots
  BY DirectoryAssumption

LEMMA InitInv == Init => Inv
  <1> SUFFICES ASSUME Init PROVE Inv
    OBVIOUS
  <1>1. SnapshotsOK
    <2>1. snapshots = <<>> /\ <<>> \in Seq({})
      BY DEF Init
    <2> QED BY <2>1, Constants DEF SnapshotsOK
  <1>2. FunctionsOK
    BY Constants DEF Init, FunctionsOK, NoCall
  <1>3. CallsOK /\ FreezersAgree
    BY DEF Init, CallsOK, FreezersAgree, NoCall
  <1> QED BY <1>1, <1>2, <1>3 DEF Inv

(* What is read as the newest snapshot is one of those there are, or none. *)
LEMMA NewestType == ASSUME SnapshotsOK, NEW i \in Newest PROVE i \in 0..MaxSnapshots
  <1>1. PICK S : snapshots \in Seq(S)
    BY DEF SnapshotsOK
  <1>2. DOMAIN snapshots = 1..Len(snapshots) /\ Len(snapshots) \in Nat
    BY <1>1
  <1>3. CASE snapshots = <<>>
    BY <1>3, Constants DEF Newest
  <1>4. CASE snapshots # <<>>
    BY <1>2, <1>4, Constants DEF Newest, SnapshotsOK
  <1> QED BY <1>3, <1>4

(* The first freeze of a gap counts. *)
LEMMA FreezeFacts ==
    ASSUME FunctionsOK, NEW g \in Gaps, NEW i \in 0..MaxSnapshots
    PROVE  /\ Freeze(g, i) \in [Gaps -> 0..MaxSnapshots \cup {None}]
           /\ Freeze(g, i)[g] # None
           /\ \A h \in Gaps : frozen[h] # None => Freeze(g, i)[h] = frozen[h]
  <1> QED BY Constants DEF Freeze, FunctionsOK

(* A freeze changes nothing for the calls that are past theirs. *)
LEMMA FrozenInv ==
    ASSUME Inv, UNCHANGED <<snapshots, freezer>>,
           frozen' \in [Gaps -> 0..MaxSnapshots \cup {None}],
           \A h \in Gaps : frozen[h] # None => frozen'[h] = frozen[h]
    PROVE  Inv'
  <1>1. SnapshotsOK' /\ FunctionsOK'
    BY DEF Inv, SnapshotsOK, FunctionsOK
  <1>2. CallsOK' /\ FreezersAgree'
    BY DEF Inv, CallsOK, FreezersAgree
  <1> QED BY <1>1, <1>2 DEF Inv

LEMMA SnapshotInv ==
    ASSUME Inv, UNCHANGED <<frozen, freezer>>, SnapshotsOK' PROVE Inv'
  BY DEF Inv, FunctionsOK, CallsOK, FreezersAgree

(* One call goes on. *)
LEMMA CallInv ==
    ASSUME Inv, SnapshotsOK',
           NEW f \in Freezers, NEW call \in [pc : {"idle", "write", "load", "done"},
                       gap : Gaps \cup {None},
                       read : 0..MaxSnapshots, got : 0..MaxSnapshots \cup {None}],
           freezer' = [freezer EXCEPT ![f] = call],
           frozen' \in [Gaps -> 0..MaxSnapshots \cup {None}],
           \A h \in Gaps : frozen[h] # None => frozen'[h] = frozen[h],
           call.pc # "idle" => call.gap \in Gaps,
           call.pc \in {"load", "done"} => frozen'[call.gap] # None,
           call.pc = "done" => call.got = frozen'[call.gap]
    PROVE  Inv'
  <1>1. freezer'[f] = call /\ \A e \in Freezers : e # f => freezer'[e] = freezer[e]
    BY DEF Inv, FunctionsOK
  <1>2. FunctionsOK'
    BY DEF Inv, FunctionsOK
  <1>3. CallsOK' /\ FreezersAgree'
    BY <1>1 DEF Inv, CallsOK, FreezersAgree
  <1> QED BY <1>2, <1>3 DEF Inv

-----------------------------------------------------------------------------
LEMMA SyncInv ==
    ASSUME Inv, NEW w \in Workers, Sync(w) \/ SyncFails(w) PROVE Inv'
  <1>1. CASE SnapshotDirectory(w)
    <2>1. PICK e : snapshots' = Append(snapshots, e) /\ Len(snapshots) < MaxSnapshots
      BY <1>1 DEF SnapshotDirectory
    <2>2. PICK S : snapshots \in Seq(S)
      BY DEF Inv, SnapshotsOK
    <2>3. snapshots \in Seq(S \cup {e})
      BY <2>2
    <2>4. snapshots' \in Seq(S \cup {e}) /\ Len(snapshots') = Len(snapshots) + 1
      BY <2>1, <2>3
    <2>5. Len(snapshots) \in Nat
      BY <2>2
    <2>6. SnapshotsOK'
      BY <2>1, <2>4, <2>5, Constants DEF SnapshotsOK
    <2> QED BY <1>1, <2>6, SnapshotInv DEF SnapshotDirectory
  <1>2. CASE UNCHANGED <<snapshots, frozen, freezer>>
    <2>1. SnapshotsOK'
      BY <1>2 DEF Inv, SnapshotsOK
    <2> QED BY <1>2, <2>1, SnapshotInv
  <1> QED BY <1>1, <1>2 DEF Sync, SyncFails, BeginSync, ListFriends, ListGroups,
             ListRecentContacts

LEMMA CreateGapFrozen ==
    ASSUME Inv, NEW g \in Gaps, CreateGap(g)
    PROVE  /\ frozen' \in [Gaps -> 0..MaxSnapshots \cup {None}]
           /\ \A h \in Gaps : frozen[h] # None => frozen'[h] = frozen[h]
  <1>1. PICK i \in Newest : frozen' = Freeze(g, i)
    BY DEF CreateGap
  <1>2. i \in 0..MaxSnapshots
    BY NewestType DEF Inv
  <1> QED BY <1>1, <1>2, FreezeFacts DEF Inv

LEMMA FreezeForGapFrozen ==
    ASSUME Inv, NEW f \in Freezers, FreezeForGap(f)
    PROVE  /\ frozen' \in [Gaps -> 0..MaxSnapshots \cup {None}]
           /\ \A h \in Gaps : frozen[h] # None => frozen'[h] = frozen[h]
           /\ frozen'[freezer[f].gap] # None /\ freezer[f].gap \in Gaps
  <1>1. freezer[f].gap \in Gaps /\ freezer[f].read \in 0..MaxSnapshots
    BY DEF FreezeForGap, Inv, CallsOK, FunctionsOK
  <1>2. frozen' = Freeze(freezer[f].gap, freezer[f].read)
    BY DEF FreezeForGap
  <1> QED BY <1>1, <1>2, FreezeFacts DEF Inv

LEMMA ReadLatestInv ==
    ASSUME Inv, NEW f \in Freezers, NEW g \in Gaps, ReadLatest(f, g) PROVE Inv'
  <1>1. PICK i \in Newest :
           freezer' = [freezer EXCEPT ![f] = [pc |-> "write", gap |-> g, read |-> i, got |-> 0]]
    BY DEF ReadLatest
  <1>2. i \in 0..MaxSnapshots
    BY NewestType DEF Inv
  <1> DEFINE call == [pc |-> "write", gap |-> g, read |-> i, got |-> 0]
  <1>4. /\ call \in [pc : {"idle", "write", "load", "done"}, gap : Gaps \cup {None},
                     read : 0..MaxSnapshots, got : 0..MaxSnapshots \cup {None}]
        /\ call.pc = "write" /\ call.gap = g
    BY <1>2, Constants
  <1>5. freezer' = [freezer EXCEPT ![f] = call]
    BY <1>1
  <1>6. SnapshotsOK' /\ frozen' = frozen
    BY DEF ReadLatest, Inv, SnapshotsOK
  <1> HIDE DEF call
  <1> QED BY <1>4, <1>5, <1>6, CallInv DEF Inv, FunctionsOK

LEMMA FreezerInv ==
    ASSUME Inv, NEW f \in Freezers, FreezeForGap(f) \/ LoadFrozen(f) \/ Return(f) PROVE Inv'
  <1> DEFINE old == freezer[f]
             Calls == [pc : {"idle", "write", "load", "done"}, gap : Gaps \cup {None},
                       read : 0..MaxSnapshots, got : 0..MaxSnapshots \cup {None}]
  <1>0. old \in Calls
    BY DEF Inv, FunctionsOK
  <1>s. SnapshotsOK'
    BY DEF FreezeForGap, LoadFrozen, Return, Inv, SnapshotsOK
  <1>1. CASE FreezeForGap(f)
    <2> DEFINE call == [old EXCEPT !.pc = "load"]
    <2>1. call \in Calls /\ call.pc = "load" /\ call.gap = old.gap
      BY <1>0
    <2>2. freezer' = [freezer EXCEPT ![f] = call]
      BY <1>1 DEF FreezeForGap
    <2> HIDE DEF call
    <2> QED BY <1>1, <1>s, <2>1, <2>2, CallInv, FreezeForGapFrozen
  <1>2. CASE LoadFrozen(f)
    <2> DEFINE call == [old EXCEPT !.pc = "done", !.got = frozen[old.gap]]
    <2>0. old.gap \in Gaps /\ frozen[old.gap] # None
      BY <1>2 DEF LoadFrozen, Inv, CallsOK
    <2>1. call \in Calls /\ call.pc = "done" /\ call.gap = old.gap /\ call.got = frozen[old.gap]
      BY <1>0, <2>0 DEF Inv, FunctionsOK
    <2>2. freezer' = [freezer EXCEPT ![f] = call] /\ frozen' = frozen
      BY <1>2 DEF LoadFrozen
    <2> HIDE DEF call
    <2> QED BY <1>s, <2>0, <2>1, <2>2, CallInv DEF Inv, FunctionsOK
  <1>3. CASE Return(f)
    <2>1. NoCall \in Calls /\ NoCall.pc = "idle"
      BY Constants DEF NoCall
    <2>2. freezer' = [freezer EXCEPT ![f] = NoCall] /\ frozen' = frozen
      BY <1>3 DEF Return
    <2> QED BY <1>s, <2>1, <2>2, CallInv DEF Inv, FunctionsOK
  <1> QED BY <1>1, <1>2, <1>3

LEMMA NextInv == Inv /\ [Next]_vars => Inv'
  <1> SUFFICES ASSUME Inv, [Next]_vars PROVE Inv'
    OBVIOUS
  <1>1. CASE UNCHANGED <<snapshots, frozen, freezer>>
    BY <1>1, SnapshotInv DEF Inv, SnapshotsOK
  <1>2. ASSUME NEW g \in Gaps, CreateGap(g) PROVE Inv'
    BY <1>2, CreateGapFrozen, FrozenInv DEF CreateGap
  <1> QED BY <1>1, <1>2, SyncInv, ReadLatestInv, FreezerInv DEF Next, Tick, vars

(* Every reachable state satisfies the inductive invariant: a call holds a  *)
(* snapshot that exists, and a caller past its insert finds its gap frozen  *)
(* and returns what is frozen (freeze_for_gap).                             *)
THEOREM Invariant == Spec => []Inv
  BY InitInv, NextInv, PTL DEF Spec

-----------------------------------------------------------------------------
(* Whoever froze the gap first, and whatever was synced since: a caller of  *)
(* freeze_for_gap returns with the snapshot that is frozen.                 *)
THEOREM CallersAgree == Spec => []FreezersAgree
  <1>1. Inv => FreezersAgree
    BY DEF Inv
  <1> QED BY <1>1, Invariant, PTL

LEMMA KeptStep ==
    ASSUME Inv, [Next]_vars, NEW h \in Gaps, frozen[h] # None PROVE frozen'[h] = frozen[h]
  <1>1. CASE frozen' = frozen
    BY <1>1
  <1> QED BY <1>1, CreateGapFrozen, FreezeForGapFrozen
         DEF Next, Tick, Sync, SyncFails, BeginSync, ListFriends, ListGroups,
             ListRecentContacts, SnapshotDirectory, ReadLatest, LoadFrozen, Return, vars

(* A freeze is for good (ON DUPLICATE KEY UPDATE gap_id = gap_id).          *)
THEOREM FreezesLast == Spec => FrozenForGood
  <1>1. Inv /\ [Next]_vars =>
            [\A g \in Gaps : frozen[g] # None => frozen'[g] = frozen[g]]_vars
    BY KeptStep
  <1> QED BY <1>1, Invariant, PTL DEF Spec, FrozenForGood

-----------------------------------------------------------------------------
(* A behaviour of Ingest is one of each of its components: those whose part *)
(* is not played stutter.                                                   *)
LEMMA PartsOfSpec ==
    IngestSpec => Pipeline!Spec /\ Recalls!Spec /\ Store!Spec /\ Queue!Spec /\ Link!Spec
  <1>1. IngestInit => Pipeline!Init /\ Recalls!Init /\ Store!Init /\ Queue!Init /\ Link!Init
    BY DEF IngestInit
  <1>2. pipelineVars' = pipelineVars => Pipeline!vars' = Pipeline!vars
    BY DEF pipelineVars, Pipeline!vars, Pipeline!mysql, Pipeline!files, Pipeline!tasks,
           Pipeline!loopVars, Pipeline!env
  <1>3. recallVars' = recallVars => Recalls!vars' = Recalls!vars
    BY DEF recallVars, Recalls!vars, Recalls!file, Recalls!process
  <1>4. storeVars' = storeVars => Store!vars' = Store!vars
    BY DEF storeVars, Store!vars, Store!recalls, Store!jobs, Store!ingest
  <1>5. queueVars' = queueVars => Queue!vars' = Queue!vars
    BY DEF queueVars, Queue!vars, Queue!callback, Queue!overflow, Queue!database, Queue!bounds
  <1>6. [IngestNext]_ingest => [Pipeline!Next]_(Pipeline!vars)
    BY <1>2 DEF IngestNext, ingest, OnlyDirectory, OnlyPipeline, OnlyRecalls, OnlyStore, OnlyQueue,
                OnlyLink
  <1>7. [IngestNext]_ingest => [Recalls!Next]_(Recalls!vars)
    BY <1>3 DEF IngestNext, ingest, OnlyDirectory, OnlyPipeline, OnlyRecalls, OnlyStore, OnlyQueue,
                OnlyLink
  <1>8. [IngestNext]_ingest => [Store!Next]_(Store!vars)
    BY <1>4 DEF IngestNext, ingest, OnlyDirectory, OnlyPipeline, OnlyRecalls, OnlyStore, OnlyQueue,
                OnlyLink
  <1>9. [IngestNext]_ingest => [Queue!Next]_(Queue!vars)
    BY <1>5 DEF IngestNext, ingest, OnlyDirectory, OnlyPipeline, OnlyRecalls, OnlyStore, OnlyQueue,
                OnlyLink
  <1>10. linkVars' = linkVars => Link!vars' = Link!vars
    BY DEF linkVars, Link!vars, Link!heartbeat
  <1>11. [IngestNext]_ingest => [Link!Next]_(Link!vars)
    BY <1>10 DEF IngestNext, ingest, OnlyDirectory, OnlyPipeline, OnlyRecalls, OnlyStore,
                 OnlyQueue, OnlyLink
  <1> QED BY <1>1, <1>6, <1>7, <1>8, <1>9, <1>11, PTL
          DEF IngestSpec, Pipeline!Spec, Recalls!Spec, Store!Spec, Queue!Spec, Link!Spec

-----------------------------------------------------------------------------
(* 2. The spool pipeline.                                                   *)

USE DEF Pipeline!mysql, Pipeline!files, Pipeline!tasks, Pipeline!loopVars, Pipeline!env,
        Pipeline!NoCut, Pipeline!Alive

LEMMA PipelineConstants ==
    ASSUME Pipeline!PipelineAssumption
    PROVE  /\ MaxMessages \in Nat /\ MaxEpochs \in Nat
           /\ AdmissionCapacity \in Nat \ {0} /\ QueueCapacity \in Nat \ {0}
           /\ BatchSize \in Nat \ {0}
  BY DEF Pipeline!PipelineAssumption

LEMMA PipelineInit == Pipeline!PipelineAssumption /\ Pipeline!Init => Pipeline!PipelineInv
  <1> SUFFICES ASSUME Pipeline!PipelineAssumption, Pipeline!Init PROVE Pipeline!PipelineInv
    OBVIOUS
  <1>0. /\ MaxMessages >= 0 /\ AdmissionCapacity >= 0 /\ QueueCapacity >= 0 /\ BatchSize >= 0
    BY PipelineConstants
  <1>b. fatal \in BOOLEAN
    BY Zenon DEF Pipeline!Init
  <1>1. Pipeline!TypeOK
    BY <1>0, <1>b DEF Pipeline!Init, Pipeline!TypeOK, Pipeline!DatabaseTyped,
           Pipeline!FilesTyped, Pipeline!LoopTyped, Pipeline!TasksTyped
  <1>2. Pipeline!Counted /\ Pipeline!TasksOnlyAlive /\ Pipeline!PositionsInLog
    BY <1>0 DEF Pipeline!Init, Pipeline!Counted, Pipeline!TasksOnlyAlive, Pipeline!PositionsInLog
  <1>3. /\ Pipeline!WorkerSound /\ Pipeline!RecoverySound /\ Pipeline!ArrivalsCovered
        /\ Pipeline!EffectsBeforeCheckpoint
    BY DEF Pipeline!Init, Pipeline!WorkerSound, Pipeline!RecoverySound,
           Pipeline!ArrivalsCovered, Pipeline!EffectsBeforeCheckpoint
  <1> QED BY <1>1, <1>2, <1>3 DEF Pipeline!PipelineInv

(* Lengths, the message of a frame, a position in a channel. *)
LEMMA PipelineLog ==
    ASSUME Pipeline!PipelineAssumption, Pipeline!PipelineInv
    PROVE  /\ Len(log) \in Nat /\ Len(arrived) \in Nat /\ Len(admission) \in Nat
           /\ Len(queue) \in Nat /\ Len(batch) \in Nat
           /\ Len(log) <= MaxMessages /\ Len(arrived) <= MaxMessages
           /\ \A i \in 1..Len(log) : log[i].msg \in Pipeline!Messages
           /\ \A i \in 1..Len(batch) : batch[i] \in 1..Len(log)
           /\ \A i \in 1..Len(queue) : queue[i] \in 1..Len(log)
  <1>1. /\ log \in Seq(Pipeline!Frames)
        /\ arrived \in Seq(Pipeline!Epochs) /\ admission \in Seq(Pipeline!Messages)
        /\ queue \in Seq(Pipeline!Positions) /\ batch \in Seq(Pipeline!Positions)
    BY DEF Pipeline!PipelineInv, Pipeline!TypeOK, Pipeline!FilesTyped, Pipeline!LoopTyped,
           Pipeline!TasksTyped
  <1>2. /\ Len(log) \in Nat /\ Len(arrived) \in Nat /\ Len(admission) \in Nat
        /\ Len(queue) \in Nat /\ Len(batch) \in Nat
    BY <1>1
  <1>3. \A i \in 1..Len(log) : log[i] \in Pipeline!Frames
    BY <1>1, <1>2
  <1>f. \A f \in Pipeline!Frames : f.msg \in Pipeline!Messages
    BY DEF Pipeline!Frames
  <1>4. /\ \A i \in 1..Len(batch) : batch[i] \in Pipeline!Positions
        /\ \A i \in 1..Len(queue) : queue[i] \in Pipeline!Positions
    BY <1>1, <1>2
  <1> QED BY <1>2, <1>3, <1>4, <1>f, PipelineConstants
          DEF Pipeline!Positions, Pipeline!PipelineInv, Pipeline!Counted, Pipeline!PositionsInLog

(* The process ends: whatever its tasks were about to do, the files and the *)
(* database are as a start can take them up.                                *)
LEMMA PipelineExit ==
    ASSUME Pipeline!PipelineAssumption, Pipeline!PipelineInv, Pipeline!Exit,
           UNCHANGED <<log, done, stored, hooked, arrived>>, cut' \in {cut, Len(log)},
           Pipeline!DatabaseTyped', Pipeline!ArrivalsCovered'
    PROVE  Pipeline!PipelineInv'
  <1> USE DEF Pipeline!Exit, Pipeline!TasksOff
  <1>1. Pipeline!FilesTyped'
    BY DEF Pipeline!PipelineInv, Pipeline!TypeOK, Pipeline!FilesTyped
  <1>2. Pipeline!LoopTyped'
    BY DEF Pipeline!PipelineInv, Pipeline!TypeOK, Pipeline!LoopTyped
  <1>3. Pipeline!TasksTyped'
    <2>1. AdmissionCapacity >= 0 /\ QueueCapacity >= 0 /\ BatchSize >= 0
      BY PipelineConstants
    <2>2. fatal' \in BOOLEAN
      BY Zenon
    <2> QED BY <2>1, <2>2 DEF Pipeline!TasksTyped
  <1>4. Pipeline!Counted' /\ Pipeline!TasksOnlyAlive' /\ Pipeline!PositionsInLog'
    BY DEF Pipeline!PipelineInv, Pipeline!TypeOK, Pipeline!TasksTyped, Pipeline!FilesTyped,
           Pipeline!LoopTyped, Pipeline!Counted, Pipeline!TasksOnlyAlive, Pipeline!PositionsInLog
  <1>5. Pipeline!WorkerSound' /\ Pipeline!RecoverySound' /\ Pipeline!EffectsBeforeCheckpoint'
    BY DEF Pipeline!PipelineInv, Pipeline!WorkerSound, Pipeline!RecoverySound,
           Pipeline!EffectsBeforeCheckpoint
  <1> QED BY <1>1, <1>2, <1>3, <1>4, <1>5 DEF Pipeline!PipelineInv, Pipeline!TypeOK

(* The database keeps the gap of an epoch, and ends a connected epoch only  *)
(* with its gap.                                                            *)
LEMMA PipelineEpochs ==
    ASSUME Pipeline!PipelineAssumption, Pipeline!PipelineInv, UNCHANGED arrived,
           NEW e \in Pipeline!Epochs,
           \E status \in {"unused", "connecting", "connected", "ended"} :
               epoch' = [epoch EXCEPT ![e] = status],
           gap \subseteq gap', epoch[e] = "connected" => epoch'[e] = "connected" \/ e \in gap'
    PROVE  Pipeline!ArrivalsCovered'
  <1>1. epoch \in [Pipeline!Epochs -> {"unused", "connecting", "connected", "ended"}]
        /\ arrived \in Seq(Pipeline!Epochs)
    BY DEF Pipeline!PipelineInv, Pipeline!TypeOK, Pipeline!DatabaseTyped, Pipeline!LoopTyped
  <1>2. \A m \in 1..Len(arrived) : arrived[m] \in Pipeline!Epochs
    BY <1>1, PipelineConstants
  <1>3. \A m \in 1..Len(arrived) : epoch[arrived[m]] = "connected" \/ arrived[m] \in gap
    BY DEF Pipeline!PipelineInv, Pipeline!ArrivalsCovered
  <1>4. \A f \in Pipeline!Epochs : f # e => epoch'[f] = epoch[f]
    BY <1>1
  <1> QED BY <1>2, <1>3, <1>4 DEF Pipeline!ArrivalsCovered

(* A frame is appended: the others stay where they are. *)
LEMMA PipelineLogGrows ==
    ASSUME Pipeline!PipelineAssumption, Pipeline!PipelineInv,
           NEW f \in Pipeline!Frames, log' = Append(log, f)
    PROVE  /\ log' \in Seq(Pipeline!Frames) /\ Len(log') = Len(log) + 1
           /\ \A i \in 1..Len(log) : log'[i] = log[i]
  BY DEF Pipeline!PipelineInv, Pipeline!TypeOK, Pipeline!FilesTyped

(* The tasks of the connection, if there are any, do nothing. *)
LEMMA PipelineTasksRest ==
    ASSUME Pipeline!PipelineAssumption, Pipeline!PipelineInv,
           UNCHANGED <<log, admission, writer, queue, worker, batch, fatal, arrived>>,
           stored \subseteq stored', hooked \subseteq hooked',
           phase' \in {"up", "drain"} <=> phase \in {"up", "drain"},
           phase' \in {"up", "drain"} => cur' = cur
    PROVE  /\ Pipeline!TasksTyped' /\ Pipeline!Counted' /\ Pipeline!TasksOnlyAlive'
           /\ Pipeline!PositionsInLog' /\ Pipeline!WorkerSound'
  <1>1. Pipeline!TasksTyped'
    BY DEF Pipeline!PipelineInv, Pipeline!TypeOK, Pipeline!TasksTyped
  <1>2. Pipeline!Counted' /\ Pipeline!TasksOnlyAlive' /\ Pipeline!PositionsInLog'
    BY DEF Pipeline!PipelineInv, Pipeline!Counted, Pipeline!TasksOnlyAlive,
           Pipeline!PositionsInLog
  <1>3. Pipeline!WorkerSound'
    BY DEF Pipeline!PipelineInv, Pipeline!WorkerSound, Pipeline!BatchMessages
  <1> QED BY <1>1, <1>2, <1>3

-----------------------------------------------------------------------------
(* The startup. *)

LEMMA PipelineOpenSpool ==
    ASSUME Pipeline!PipelineAssumption, Pipeline!PipelineInv, Pipeline!OpenSpool
    PROVE  Pipeline!PipelineInv'
  <1> USE DEF Pipeline!OpenSpool
  <1>0. /\ phase = "down" /\ phase' = "claim" /\ cut' = -1 /\ done' = done
        /\ UNCHANGED <<admission, queue, batch, writer, worker, stored, hooked, arrived>>
    OBVIOUS
  <1>1. /\ log' \in Seq(Pipeline!Frames) /\ Len(log') \in done..Len(log)
        /\ \A i \in 1..Len(log') : log'[i] = log[i]
    BY DEF Pipeline!PipelineInv, Pipeline!TypeOK, Pipeline!FilesTyped
  <1>2. Pipeline!TypeOK'
    BY <1>0, <1>1, PipelineLog DEF Pipeline!PipelineInv, Pipeline!TypeOK,
           Pipeline!DatabaseTyped, Pipeline!FilesTyped, Pipeline!LoopTyped, Pipeline!TasksTyped
  <1>3. Pipeline!Counted' /\ Pipeline!TasksOnlyAlive' /\ Pipeline!PositionsInLog'
    BY <1>0, <1>1, PipelineLog DEF Pipeline!PipelineInv, Pipeline!Counted,
           Pipeline!TasksOnlyAlive, Pipeline!PositionsInLog
  <1>4. Pipeline!WorkerSound' /\ Pipeline!RecoverySound'
    BY <1>0 DEF Pipeline!PipelineInv, Pipeline!TasksOnlyAlive, Pipeline!WorkerSound,
           Pipeline!RecoverySound
  <1>5. Pipeline!ArrivalsCovered'
    BY DEF Pipeline!PipelineInv, Pipeline!ArrivalsCovered
  <1>6. Pipeline!EffectsBeforeCheckpoint'
    BY <1>0, <1>1, PipelineLog DEF Pipeline!PipelineInv, Pipeline!TypeOK,
           Pipeline!FilesTyped, Pipeline!EffectsBeforeCheckpoint
  <1> QED BY <1>2, <1>3, <1>4, <1>5, <1>6 DEF Pipeline!PipelineInv

LEMMA PipelineClaim ==
    ASSUME Pipeline!PipelineAssumption, Pipeline!PipelineInv, Pipeline!ClaimLegacyEpochs
    PROVE  Pipeline!PipelineInv'
  <1>1. Pipeline!DatabaseTyped' /\ Pipeline!ArrivalsCovered'
    BY DEF Pipeline!ClaimLegacyEpochs, Pipeline!PipelineInv, Pipeline!TypeOK,
           Pipeline!DatabaseTyped, Pipeline!ArrivalsCovered
  <1>2. UNCHANGED <<log, done, cut, stored, hooked, arrived>> /\ phase = "claim"
    BY DEF Pipeline!ClaimLegacyEpochs
  <1>3. CASE Pipeline!Exit
    BY <1>1, <1>2, <1>3, PipelineExit
  <1>4. CASE ~Pipeline!Exit
    <2>1. /\ mine' = Pipeline!Claimable /\ phase' = "replay"
          /\ UNCHANGED <<cur, replayed, ending, admission, writer, queue, worker, batch, fatal>>
      BY <1>4 DEF Pipeline!ClaimLegacyEpochs
    <2>2. mine' \subseteq Pipeline!Epochs
      BY <2>1 DEF Pipeline!Claimable
    <2>3. Pipeline!FilesTyped'
      BY <1>2 DEF Pipeline!PipelineInv, Pipeline!TypeOK, Pipeline!FilesTyped
    <2>4. Pipeline!LoopTyped'
      BY <1>2, <2>1, <2>2 DEF Pipeline!PipelineInv, Pipeline!TypeOK, Pipeline!LoopTyped
    <2>5. /\ Pipeline!TasksTyped' /\ Pipeline!Counted' /\ Pipeline!TasksOnlyAlive'
          /\ Pipeline!PositionsInLog' /\ Pipeline!WorkerSound'
      BY <1>2, <2>1, PipelineTasksRest
    <2>6. Pipeline!RecoverySound' /\ Pipeline!EffectsBeforeCheckpoint'
      BY <1>2, <2>1 DEF Pipeline!PipelineInv, Pipeline!RecoverySound,
             Pipeline!EffectsBeforeCheckpoint
    <2> QED BY <1>1, <2>3, <2>4, <2>5, <2>6 DEF Pipeline!PipelineInv, Pipeline!TypeOK
  <1> QED BY <1>3, <1>4

(* The replay of one frame: stored, then hooked, then checkpointed. *)
LEMMA PipelineReplay ==
    ASSUME Pipeline!PipelineAssumption, Pipeline!PipelineInv,
           Pipeline!ReplayInsert \/ Pipeline!ReplayHooks \/ Pipeline!ReplayCheckpoint
    PROVE  Pipeline!PipelineInv'
  <1> USE DEF Pipeline!ReplayInsert, Pipeline!ReplayHooks, Pipeline!ReplayCheckpoint
  <1>0. /\ UNCHANGED <<log, cut, admission, writer, queue, worker, batch, fatal, arrived>>
        /\ UNCHANGED <<epoch, gap, claim, phase, cur, mine, ending>> /\ phase = "replay"
    OBVIOUS
  <1>1. /\ done \in 0..Len(log) /\ Len(log) \in Nat /\ cut = -1
        /\ replayed # "none" => done < Len(log)
    BY <1>0, PipelineLog DEF Pipeline!PipelineInv, Pipeline!TypeOK, Pipeline!FilesTyped,
           Pipeline!RecoverySound
  <1>2. /\ stored \subseteq stored' /\ hooked \subseteq hooked' /\ stored' \subseteq Pipeline!Messages
        /\ hooked' \subseteq Pipeline!Messages
    BY <1>1, PipelineLog DEF Pipeline!PipelineInv, Pipeline!TypeOK, Pipeline!DatabaseTyped
  <1>3. Pipeline!DatabaseTyped' /\ Pipeline!ArrivalsCovered'
    BY <1>0, <1>2 DEF Pipeline!PipelineInv, Pipeline!TypeOK, Pipeline!DatabaseTyped,
           Pipeline!ArrivalsCovered
  <1>4. Pipeline!FilesTyped'
    BY <1>0, <1>1 DEF Pipeline!PipelineInv, Pipeline!TypeOK, Pipeline!FilesTyped
  <1>5. Pipeline!LoopTyped'
    BY <1>0 DEF Pipeline!PipelineInv, Pipeline!TypeOK, Pipeline!LoopTyped
  <1>6. /\ Pipeline!TasksTyped' /\ Pipeline!Counted' /\ Pipeline!TasksOnlyAlive'
        /\ Pipeline!PositionsInLog' /\ Pipeline!WorkerSound'
    BY <1>0, <1>2, PipelineTasksRest
  <1>7. Pipeline!RecoverySound'
    BY <1>0, <1>1 DEF Pipeline!PipelineInv, Pipeline!RecoverySound
  <1>8. Pipeline!EffectsBeforeCheckpoint'
    <2>1. CASE done' = done
      BY <1>0, <1>2, <2>1 DEF Pipeline!PipelineInv, Pipeline!EffectsBeforeCheckpoint
    <2>2. CASE Pipeline!ReplayCheckpoint
      <3>1. log[done + 1].msg \in stored \cap hooked
        BY <2>2 DEF Pipeline!PipelineInv, Pipeline!RecoverySound
      <3>2. 1..done' = 1..done \cup {done + 1}
        BY <1>1, <2>2
      <3> QED BY <1>0, <1>2, <3>1, <3>2 DEF Pipeline!PipelineInv, Pipeline!EffectsBeforeCheckpoint
    <2> QED BY <2>1, <2>2
  <1> QED BY <1>3, <1>4, <1>5, <1>6, <1>7, <1>8 DEF Pipeline!PipelineInv, Pipeline!TypeOK

(* Steps of the connection loop and of the database that leave the files,   *)
(* the tasks and the stored messages alone.                                 *)
LEMMA PipelineControl ==
    ASSUME Pipeline!PipelineAssumption, Pipeline!PipelineInv,
           UNCHANGED <<log, done, cut, admission, writer, queue, worker, batch, fatal, arrived>>,
           UNCHANGED <<stored, hooked, replayed>>,
           Pipeline!DatabaseTyped', Pipeline!LoopTyped', Pipeline!ArrivalsCovered',
           phase' \in {"up", "drain"} <=> phase \in {"up", "drain"},
           phase' \in {"up", "drain"} => cur' = cur,
           phase' \in {"claim", "replay"} => phase' = phase,
           replayed = "none" \/ phase' = phase
    PROVE  Pipeline!PipelineInv'
  <1>1. Pipeline!FilesTyped' /\ Pipeline!EffectsBeforeCheckpoint' /\ Pipeline!RecoverySound'
    BY DEF Pipeline!PipelineInv, Pipeline!TypeOK, Pipeline!FilesTyped,
           Pipeline!EffectsBeforeCheckpoint, Pipeline!RecoverySound
  <1>2. /\ Pipeline!TasksTyped' /\ Pipeline!Counted' /\ Pipeline!TasksOnlyAlive'
        /\ Pipeline!PositionsInLog' /\ Pipeline!WorkerSound'
    BY PipelineTasksRest
  <1> QED BY <1>1, <1>2 DEF Pipeline!PipelineInv, Pipeline!TypeOK

LEMMA PipelineFinishLegacy ==
    ASSUME Pipeline!PipelineAssumption, Pipeline!PipelineInv, NEW e \in Pipeline!Epochs,
           Pipeline!FinishLegacyEpoch(e)
    PROVE  Pipeline!PipelineInv'
  <1> USE DEF Pipeline!FinishLegacyEpoch
  <1>1. Pipeline!DatabaseTyped'
    BY DEF Pipeline!PipelineInv, Pipeline!TypeOK, Pipeline!DatabaseTyped
  <1>2. Pipeline!LoopTyped'
    BY DEF Pipeline!PipelineInv, Pipeline!TypeOK, Pipeline!LoopTyped
  <1>3. Pipeline!ArrivalsCovered'
    BY PipelineEpochs
  <1> QED BY <1>1, <1>2, <1>3, PipelineControl

(* The steps of the loop that are no more than a change of phase, and the   *)
(* leases of the database.                                                  *)
LEMMA PipelineQuiet ==
    ASSUME Pipeline!PipelineAssumption, Pipeline!PipelineInv,
           \/ Pipeline!OpenRefused \/ Pipeline!RecoveryFinished
           \/ \E how \in {"shutdown", "closed", "fatal"} : Pipeline!EndConnection(how)
           \/ \E e \in Pipeline!Epochs : Pipeline!LeaseExpires(e) \/ Pipeline!LeaseLapses(e)
    PROVE  Pipeline!PipelineInv'
  <1> USE DEF Pipeline!OpenRefused, Pipeline!RecoveryFinished, Pipeline!EndConnection,
              Pipeline!LeaseExpires, Pipeline!LeaseLapses, Pipeline!DatabaseFault
  <1>1. Pipeline!DatabaseTyped' /\ Pipeline!ArrivalsCovered'
    BY DEF Pipeline!PipelineInv, Pipeline!TypeOK, Pipeline!DatabaseTyped,
           Pipeline!ArrivalsCovered
  <1>2. Pipeline!LoopTyped'
    BY DEF Pipeline!PipelineInv, Pipeline!TypeOK, Pipeline!LoopTyped
  <1>3. Pipeline!RecoveryFinished \/ phase' # phase => replayed = "none"
    BY PipelineLog DEF Pipeline!PipelineInv, Pipeline!TypeOK, Pipeline!FilesTyped,
           Pipeline!RecoverySound
  <1> QED BY <1>1, <1>2, <1>3, PipelineControl

-----------------------------------------------------------------------------
(* The connection loop. *)

LEMMA PipelineBegin ==
    ASSUME Pipeline!PipelineAssumption, Pipeline!PipelineInv, Pipeline!BeginConnection
    PROVE  Pipeline!PipelineInv'
  <1>1. PICK e \in Pipeline!Epochs : /\ epoch[e] = "unused" /\ cur' = e
                                     /\ epoch' = [epoch EXCEPT ![e] = "connecting"]
    BY DEF Pipeline!BeginConnection
  <1>2. /\ UNCHANGED <<gap, claim, log, done, cut, stored, hooked, arrived, mine, replayed>>
        /\ UNCHANGED <<ending, admission, queue, batch>> /\ phase = "loop" /\ phase' = "up"
        /\ writer' = "recv" /\ worker' = "recv"
    BY DEF Pipeline!BeginConnection
  <1>3. Pipeline!DatabaseTyped'
    BY <1>1, <1>2 DEF Pipeline!PipelineInv, Pipeline!TypeOK, Pipeline!DatabaseTyped
  <1>4. Pipeline!ArrivalsCovered'
    BY <1>1, <1>2, PipelineEpochs
  <1>5. Pipeline!LoopTyped' /\ Pipeline!FilesTyped'
    BY <1>1, <1>2 DEF Pipeline!PipelineInv, Pipeline!TypeOK, Pipeline!LoopTyped,
           Pipeline!FilesTyped
  <1>6. Pipeline!TasksTyped'
    <2>1. fatal' \in BOOLEAN
      BY Zenon DEF Pipeline!BeginConnection
    <2> QED BY <1>2, <2>1 DEF Pipeline!PipelineInv, Pipeline!TypeOK, Pipeline!TasksTyped
  <1>7. Pipeline!Counted' /\ Pipeline!TasksOnlyAlive' /\ Pipeline!PositionsInLog'
    BY <1>1, <1>2 DEF Pipeline!PipelineInv, Pipeline!Counted, Pipeline!TasksOnlyAlive,
           Pipeline!PositionsInLog
  <1>8. Pipeline!WorkerSound' /\ Pipeline!RecoverySound' /\ Pipeline!EffectsBeforeCheckpoint'
    BY <1>2 DEF Pipeline!PipelineInv, Pipeline!WorkerSound, Pipeline!RecoverySound,
           Pipeline!EffectsBeforeCheckpoint
  <1> QED BY <1>3, <1>4, <1>5, <1>6, <1>7, <1>8 DEF Pipeline!PipelineInv, Pipeline!TypeOK

LEMMA PipelineMarkConnected ==
    ASSUME Pipeline!PipelineAssumption, Pipeline!PipelineInv, Pipeline!MarkConnected
    PROVE  Pipeline!PipelineInv'
  <1> USE DEF Pipeline!MarkConnected
  <1>0. cur \in Pipeline!Epochs
    BY DEF Pipeline!PipelineInv, Pipeline!TasksOnlyAlive
  <1>1. Pipeline!DatabaseTyped'
    BY <1>0 DEF Pipeline!PipelineInv, Pipeline!TypeOK, Pipeline!DatabaseTyped
  <1>2. Pipeline!LoopTyped'
    BY DEF Pipeline!PipelineInv, Pipeline!TypeOK, Pipeline!LoopTyped
  <1>3. Pipeline!ArrivalsCovered'
    BY <1>0, PipelineEpochs
  <1> QED BY <1>1, <1>2, <1>3, PipelineControl

(* A message arrives in the connected epoch, whether it is admitted or not. *)
LEMMA PipelineArrive ==
    ASSUME Pipeline!PipelineAssumption, Pipeline!PipelineInv, Pipeline!Arrive
    PROVE  Pipeline!PipelineInv'
  <1>0. /\ UNCHANGED <<epoch, gap, claim, stored, hooked, log, done, cut, writer, queue>>
        /\ UNCHANGED <<worker, batch, phase, cur, mine, replayed, ending>>
        /\ phase = "up" /\ epoch[cur] = "connected" /\ Len(arrived) < MaxMessages
        /\ arrived' = Append(arrived, cur)
    BY DEF Pipeline!Arrive
  <1>1. cur \in Pipeline!Epochs /\ arrived \in Seq(Pipeline!Epochs) /\ Len(arrived) \in Nat
    BY <1>0, PipelineLog DEF Pipeline!PipelineInv, Pipeline!TypeOK, Pipeline!LoopTyped,
           Pipeline!TasksOnlyAlive
  <1>2. /\ arrived' \in Seq(Pipeline!Epochs) /\ Len(arrived') = Len(arrived) + 1
        /\ arrived'[Len(arrived) + 1] = cur /\ \A i \in 1..Len(arrived) : arrived'[i] = arrived[i]
    BY <1>0, <1>1
  <1>3. /\ admission' \in Seq(Pipeline!Messages) /\ Len(admission') <= AdmissionCapacity
        /\ Len(admission') <= Len(admission) + 1
    <2>1. Len(arrived) + 1 \in Pipeline!Messages
      BY <1>0, <1>1, PipelineConstants DEF Pipeline!Messages
    <2>2. /\ admission \in Seq(Pipeline!Messages) /\ Len(admission) <= AdmissionCapacity
          /\ Len(admission) \in Nat
      BY PipelineLog DEF Pipeline!PipelineInv, Pipeline!TypeOK, Pipeline!TasksTyped
    <2>3. CASE admission' = admission
      BY <2>2, <2>3
    <2>4. CASE admission' = Append(admission, Len(arrived) + 1)
               /\ Len(admission) < AdmissionCapacity
      <3>1. admission' \in Seq(Pipeline!Messages) /\ Len(admission') = Len(admission) + 1
        BY <2>1, <2>2, <2>4
      <3> QED BY <2>2, <2>4, <3>1, PipelineConstants
    <2> QED BY <2>3, <2>4 DEF Pipeline!Arrive
  <1>4. Pipeline!DatabaseTyped' /\ Pipeline!FilesTyped' /\ Pipeline!LoopTyped'
    BY <1>0, <1>2 DEF Pipeline!PipelineInv, Pipeline!TypeOK, Pipeline!DatabaseTyped,
           Pipeline!FilesTyped, Pipeline!LoopTyped
  <1>5. Pipeline!TasksTyped'
    <2>1. fatal \in BOOLEAN
      BY DEF Pipeline!PipelineInv, Pipeline!TypeOK, Pipeline!TasksTyped
    <2>2. fatal' \in BOOLEAN
      BY <2>1, Zenon DEF Pipeline!Arrive
    <2> QED BY <1>0, <1>3, <2>2 DEF Pipeline!PipelineInv, Pipeline!TypeOK, Pipeline!TasksTyped
  <1>6. Pipeline!Counted' /\ Pipeline!TasksOnlyAlive' /\ Pipeline!PositionsInLog'
    <2>1. Len(admission') \in Nat
      BY <1>3
    <2>2. Pipeline!Counted'
      BY <1>0, <1>2, <1>3, <2>1, PipelineLog, PipelineConstants DEF Pipeline!PipelineInv,
             Pipeline!Counted
    <2> QED BY <1>0, <1>1, <2>2 DEF Pipeline!PipelineInv, Pipeline!TasksOnlyAlive,
               Pipeline!PositionsInLog
  <1>7. Pipeline!WorkerSound' /\ Pipeline!RecoverySound' /\ Pipeline!EffectsBeforeCheckpoint'
    BY <1>0 DEF Pipeline!PipelineInv, Pipeline!WorkerSound, Pipeline!RecoverySound,
           Pipeline!EffectsBeforeCheckpoint, Pipeline!BatchMessages
  <1>8. Pipeline!ArrivalsCovered'
    BY <1>0, <1>1, <1>2 DEF Pipeline!PipelineInv, Pipeline!ArrivalsCovered
  <1> QED BY <1>4, <1>5, <1>6, <1>7, <1>8 DEF Pipeline!PipelineInv, Pipeline!TypeOK

(* The connection is over and the loop goes on, or the process ends. *)
LEMMA PipelineFinish ==
    ASSUME Pipeline!PipelineAssumption, Pipeline!PipelineInv, Pipeline!FinishConnection
    PROVE  Pipeline!PipelineInv'
  <1>0. /\ UNCHANGED <<claim, stored, hooked, log, done, cut, arrived>> /\ phase = "drain"
        /\ epoch' = [epoch EXCEPT ![cur] = "ended"]
        /\ gap' = IF epoch[cur] = "connected" THEN gap \cup {cur} ELSE gap
    BY DEF Pipeline!FinishConnection
  <1>1. cur \in Pipeline!Epochs
    BY <1>0 DEF Pipeline!PipelineInv, Pipeline!TasksOnlyAlive
  <1>2. Pipeline!DatabaseTyped'
    BY <1>0, <1>1 DEF Pipeline!PipelineInv, Pipeline!TypeOK, Pipeline!DatabaseTyped
  <1>3. Pipeline!ArrivalsCovered'
    BY <1>0, <1>1, PipelineEpochs
  <1>4. CASE Pipeline!Exit
    BY <1>0, <1>2, <1>3, <1>4, PipelineExit
  <1>5. CASE /\ phase' = "loop" /\ ending' = "none" /\ cur' = 0 /\ Pipeline!TasksOff
             /\ UNCHANGED <<mine, replayed>>
    <2> USE DEF Pipeline!TasksOff
    <2>1. Pipeline!FilesTyped' /\ Pipeline!LoopTyped'
      BY <1>0, <1>5 DEF Pipeline!PipelineInv, Pipeline!TypeOK, Pipeline!FilesTyped,
             Pipeline!LoopTyped
    <2>2. Pipeline!TasksTyped'
      <3>1. fatal' \in BOOLEAN
        BY <1>5, Zenon
      <3>2. AdmissionCapacity >= 0 /\ QueueCapacity >= 0 /\ BatchSize >= 0
        BY PipelineConstants
      <3> QED BY <1>5, <3>1, <3>2 DEF Pipeline!TasksTyped
    <2>3. Pipeline!Counted' /\ Pipeline!TasksOnlyAlive' /\ Pipeline!PositionsInLog'
      BY <1>0, <1>5, PipelineLog DEF Pipeline!PipelineInv, Pipeline!Counted,
             Pipeline!TasksOnlyAlive, Pipeline!PositionsInLog
    <2>4. Pipeline!WorkerSound' /\ Pipeline!RecoverySound' /\ Pipeline!EffectsBeforeCheckpoint'
      BY <1>0, <1>5 DEF Pipeline!PipelineInv, Pipeline!WorkerSound, Pipeline!RecoverySound,
             Pipeline!EffectsBeforeCheckpoint
    <2> QED BY <1>2, <1>3, <2>1, <2>2, <2>3, <2>4 DEF Pipeline!PipelineInv, Pipeline!TypeOK
  <1> QED BY <1>4, <1>5 DEF Pipeline!FinishConnection

(* The ways the process ends: each leaves what PipelineExit asks for. *)
LEMMA PipelineEnds ==
    ASSUME Pipeline!PipelineAssumption, Pipeline!PipelineInv,
           \/ Pipeline!RecoveryFails \/ Pipeline!FailClosed \/ Pipeline!DrainTimeout
           \/ Pipeline!LoopFails \/ Pipeline!ShutdownWhileWaiting \/ Pipeline!Crash
    PROVE  Pipeline!PipelineInv'
  <1> USE DEF Pipeline!RecoveryFails, Pipeline!FailClosed, Pipeline!DrainTimeout,
              Pipeline!LoopFails, Pipeline!ShutdownWhileWaiting, Pipeline!Crash,
              Pipeline!DatabaseFault, Pipeline!StorageFault
  <1>1. /\ Pipeline!Exit /\ UNCHANGED <<epoch, claim, stored, hooked, log, done, arrived>>
        /\ gap \subseteq gap' /\ gap' \subseteq gap \cup {cur}
        /\ gap' # gap => phase = "drain"
    OBVIOUS
  <1>2. cut' \in {cut, Len(log)}
    OBVIOUS
  <1>3. Pipeline!DatabaseTyped' /\ Pipeline!ArrivalsCovered'
    BY <1>1 DEF Pipeline!PipelineInv, Pipeline!TypeOK, Pipeline!DatabaseTyped,
           Pipeline!TasksOnlyAlive, Pipeline!ArrivalsCovered
  <1> QED BY <1>1, <1>2, <1>3, PipelineExit

-----------------------------------------------------------------------------
(* The writer thread. *)

(* An append, receipted or not: what the channels and the checkpoint point  *)
(* at stays what it was.                                                    *)
LEMMA PipelineAppend ==
    ASSUME Pipeline!PipelineAssumption, Pipeline!PipelineInv,
           Pipeline!WriterAppend \/ Pipeline!WriterAppendFails
    PROVE  Pipeline!PipelineInv'
  <1> DEFINE f == [msg |-> Head(admission), epoch |-> cur]
  <1>0. /\ UNCHANGED <<epoch, gap, claim, stored, hooked, done, queue, worker, batch, arrived>>
        /\ UNCHANGED <<phase, cur, mine, replayed, ending>> /\ phase \in {"up", "drain"}
        /\ admission # <<>> /\ admission' = Tail(admission) /\ writer' \in {"send", "done"}
    BY DEF Pipeline!WriterAppend, Pipeline!WriterAppendFails, Pipeline!StorageFault
  <1>1. \/ log' = Append(log, f) /\ cut' = cut
        \/ log' = log /\ cut' \in {cut, Len(log)} /\ writer' = "done"
    BY DEF Pipeline!WriterAppend, Pipeline!WriterAppendFails, Pipeline!Admitted
  <1>2. /\ admission \in Seq(Pipeline!Messages) /\ Len(admission) <= AdmissionCapacity
        /\ cur \in Pipeline!Epochs
    BY <1>0 DEF Pipeline!PipelineInv, Pipeline!TypeOK, Pipeline!TasksTyped,
           Pipeline!TasksOnlyAlive
  <1>3. /\ Head(admission) \in Pipeline!Messages /\ admission' \in Seq(Pipeline!Messages)
        /\ Len(admission') = Len(admission) - 1 /\ Len(admission) \in Nat
    BY <1>0, <1>2
  <1>4. f \in Pipeline!Frames
    BY <1>2, <1>3 DEF Pipeline!Frames
  <1> HIDE DEF f
  <1>5. /\ log' \in Seq(Pipeline!Frames) /\ Len(log') \in {Len(log), Len(log) + 1}
        /\ Len(log') = Len(log) => writer' = "done"
        /\ \A i \in 1..Len(log) : log'[i] = log[i]
    <2>1. CASE log' = log
      BY <1>1, <2>1, PipelineLogGrows, <1>4, PipelineLog DEF Pipeline!PipelineInv, Pipeline!TypeOK,
             Pipeline!FilesTyped
    <2>2. CASE log' = Append(log, f)
      BY <1>4, <2>2, PipelineLogGrows, PipelineLog
    <2> QED BY <1>1, <2>1, <2>2
  <1>6. done \in 0..Len(log) /\ cut' \in {-1} \cup done..Len(log')
    BY <1>1, <1>5, PipelineLog DEF Pipeline!PipelineInv, Pipeline!TypeOK, Pipeline!FilesTyped
  <1>7. Pipeline!DatabaseTyped' /\ Pipeline!FilesTyped' /\ Pipeline!LoopTyped'
    BY <1>0, <1>5, <1>6, PipelineLog DEF Pipeline!PipelineInv, Pipeline!TypeOK,
           Pipeline!DatabaseTyped, Pipeline!FilesTyped, Pipeline!LoopTyped
  <1>8. Pipeline!TasksTyped'
    <2>1. fatal \in BOOLEAN
      BY DEF Pipeline!PipelineInv, Pipeline!TypeOK, Pipeline!TasksTyped
    <2>2. fatal' \in BOOLEAN
      BY <2>1, Zenon DEF Pipeline!WriterAppend, Pipeline!WriterAppendFails
    <2>3. Len(admission') <= AdmissionCapacity
      BY <1>2, <1>3, PipelineConstants
    <2> QED BY <1>0, <1>3, <2>2, <2>3 DEF Pipeline!PipelineInv, Pipeline!TypeOK,
               Pipeline!TasksTyped
  <1>9. Pipeline!Counted' /\ Pipeline!TasksOnlyAlive' /\ Pipeline!PositionsInLog'
    <2>1. Pipeline!Counted'
      BY <1>0, <1>3, <1>5, PipelineLog, PipelineConstants DEF Pipeline!PipelineInv,
             Pipeline!Counted
    <2>2. writer' = "send" => log' # <<>>
      BY <1>5, PipelineLog
    <2> QED BY <1>0, <1>2, <1>5, <2>1, <2>2, PipelineLog DEF Pipeline!PipelineInv,
               Pipeline!TasksOnlyAlive, Pipeline!PositionsInLog
  <1>10. Pipeline!WorkerSound'
    <2>1. Pipeline!BatchMessages' = Pipeline!BatchMessages
      BY <1>0, <1>5, PipelineLog DEF Pipeline!BatchMessages
    <2> QED BY <1>0, <2>1 DEF Pipeline!PipelineInv, Pipeline!WorkerSound
  <1>11. Pipeline!RecoverySound' /\ Pipeline!ArrivalsCovered'
    BY <1>0 DEF Pipeline!PipelineInv, Pipeline!RecoverySound, Pipeline!ArrivalsCovered
  <1>12. Pipeline!EffectsBeforeCheckpoint'
    <2>1. Len(log) \in Nat
      BY PipelineLog
    <2>2. \A i \in 1..done : i \in 1..Len(log) /\ log[i].msg \in stored \cap hooked
      BY <1>6, <2>1 DEF Pipeline!PipelineInv, Pipeline!EffectsBeforeCheckpoint
    <2> QED BY <1>0, <1>5, <2>2 DEF Pipeline!EffectsBeforeCheckpoint
  <1> QED BY <1>7, <1>8, <1>9, <1>10, <1>11, <1>12 DEF Pipeline!PipelineInv, Pipeline!TypeOK

(* Steps that move only channels and tasks. *)
LEMMA PipelineChannels ==
    ASSUME Pipeline!PipelineAssumption, Pipeline!PipelineInv,
           UNCHANGED <<epoch, gap, claim, log, cut, admission, phase, cur, mine, replayed>>,
           UNCHANGED <<ending, arrived>>, phase \in {"up", "drain"},
           stored \subseteq stored', hooked \subseteq hooked',
           stored' \subseteq Pipeline!Messages, hooked' \subseteq Pipeline!Messages,
           Pipeline!TasksTyped', Pipeline!PositionsInLog', Pipeline!WorkerSound',
           Pipeline!FilesTyped', Pipeline!EffectsBeforeCheckpoint'
    PROVE  Pipeline!PipelineInv'
  <1>1. Pipeline!DatabaseTyped' /\ Pipeline!LoopTyped' /\ Pipeline!ArrivalsCovered'
    BY DEF Pipeline!PipelineInv, Pipeline!TypeOK, Pipeline!DatabaseTyped, Pipeline!LoopTyped,
           Pipeline!ArrivalsCovered
  <1>2. Pipeline!Counted' /\ Pipeline!TasksOnlyAlive' /\ Pipeline!RecoverySound'
    BY DEF Pipeline!PipelineInv, Pipeline!Counted, Pipeline!TasksOnlyAlive,
           Pipeline!RecoverySound
  <1> QED BY <1>1, <1>2 DEF Pipeline!PipelineInv, Pipeline!TypeOK

LEMMA PipelineWriter ==
    ASSUME Pipeline!PipelineAssumption, Pipeline!PipelineInv,
           Pipeline!WriterEnqueue \/ Pipeline!WriterClose
    PROVE  Pipeline!PipelineInv'
  <1>0. /\ UNCHANGED <<epoch, gap, claim, stored, hooked, log, done, cut, admission, worker>>
        /\ UNCHANGED <<batch, phase, cur, mine, replayed, ending, arrived>>
        /\ phase \in {"up", "drain"} /\ writer' \in {"recv", "done"}
    BY DEF Pipeline!WriterEnqueue, Pipeline!WriterClose
  <1>1. /\ queue \in Seq(Pipeline!Positions) /\ Len(queue) <= QueueCapacity
        /\ Len(queue) \in Nat /\ Len(log) \in Nat /\ fatal \in BOOLEAN
        /\ \A i \in 1..Len(queue) : queue[i] <= Len(log)
    BY PipelineLog DEF Pipeline!PipelineInv, Pipeline!TypeOK, Pipeline!TasksTyped,
           Pipeline!PositionsInLog
  <1>2. /\ queue' \in Seq(Pipeline!Positions) /\ Len(queue') <= QueueCapacity
        /\ \A i \in 1..Len(queue') : queue'[i] <= Len(log)
    <2>1. CASE queue' = queue
      BY <1>1, <2>1
    <2>2. CASE /\ queue' = Append(queue, Len(log)) /\ Len(queue) < QueueCapacity
               /\ writer = "send"
      <3>1. log # <<>> /\ log \in Seq(Pipeline!Frames)
        BY <2>2 DEF Pipeline!PipelineInv, Pipeline!TypeOK, Pipeline!FilesTyped,
               Pipeline!PositionsInLog
      <3>2. Len(log) \in Pipeline!Positions
        BY <3>1, PipelineLog, PipelineConstants DEF Pipeline!Positions
      <3>3. /\ queue' \in Seq(Pipeline!Positions) /\ Len(queue') = Len(queue) + 1
            /\ queue'[Len(queue) + 1] = Len(log)
            /\ \A i \in 1..Len(queue) : queue'[i] = queue[i]
        BY <1>1, <2>2, <3>2
      <3> QED BY <1>1, <2>2, <3>3, PipelineConstants
    <2> QED BY <2>1, <2>2 DEF Pipeline!WriterEnqueue, Pipeline!WriterClose
  <1>3. fatal' \in BOOLEAN
    BY <1>1, Zenon DEF Pipeline!WriterEnqueue, Pipeline!WriterClose
  <1>4. Pipeline!TasksTyped' /\ Pipeline!PositionsInLog'
    BY <1>0, <1>2, <1>3 DEF Pipeline!PipelineInv, Pipeline!TypeOK, Pipeline!TasksTyped,
           Pipeline!PositionsInLog
  <1>5. /\ Pipeline!WorkerSound' /\ Pipeline!FilesTyped' /\ Pipeline!EffectsBeforeCheckpoint'
        /\ stored' \subseteq Pipeline!Messages /\ hooked' \subseteq Pipeline!Messages
    BY <1>0 DEF Pipeline!PipelineInv, Pipeline!TypeOK, Pipeline!FilesTyped,
           Pipeline!DatabaseTyped, Pipeline!WorkerSound, Pipeline!BatchMessages,
           Pipeline!EffectsBeforeCheckpoint
  <1> QED BY <1>0, <1>4, <1>5, PipelineChannels

-----------------------------------------------------------------------------
(* The ingestion worker. *)

LEMMA PipelineTake ==
    ASSUME Pipeline!PipelineAssumption, Pipeline!PipelineInv, Pipeline!WorkerTake
    PROVE  Pipeline!PipelineInv'
  <1>0. /\ UNCHANGED <<epoch, gap, claim, stored, hooked, log, done, cut, admission, writer>>
        /\ UNCHANGED <<fatal, phase, cur, mine, replayed, ending, arrived>>
        /\ phase \in {"up", "drain"} /\ worker' = "insert"
    BY DEF Pipeline!WorkerTake
  <1>1. PICK n \in 1..BatchSize : /\ n <= Len(queue) /\ batch' = SubSeq(queue, 1, n)
                                  /\ queue' = SubSeq(queue, n + 1, Len(queue))
    BY DEF Pipeline!WorkerTake
  <1>2. /\ queue \in Seq(Pipeline!Positions) /\ Len(queue) <= QueueCapacity
        /\ Len(queue) \in Nat /\ n \in Nat /\ n <= BatchSize
        /\ \A i \in 1..Len(queue) : queue[i] <= Len(log)
    BY PipelineLog, PipelineConstants DEF Pipeline!PipelineInv, Pipeline!TypeOK,
           Pipeline!TasksTyped, Pipeline!PositionsInLog
  <1>3. /\ batch' \in Seq(Pipeline!Positions) /\ Len(batch') = n
        /\ \A i \in 1..n : batch'[i] = queue[i]
    BY <1>1, <1>2
  <1>4. /\ queue' \in Seq(Pipeline!Positions) /\ Len(queue') = Len(queue) - n
        /\ \A i \in 1..Len(queue) - n : queue'[i] = queue[i + n]
    BY <1>1, <1>2
  <1>5. Pipeline!TasksTyped'
    BY <1>0, <1>1, <1>2, <1>3, <1>4, PipelineConstants DEF Pipeline!PipelineInv,
           Pipeline!TypeOK, Pipeline!TasksTyped
  <1>6. Pipeline!PositionsInLog'
    BY <1>0, <1>1, <1>2, <1>3, <1>4 DEF Pipeline!PipelineInv, Pipeline!PositionsInLog
  <1>7. /\ Pipeline!WorkerSound' /\ Pipeline!FilesTyped' /\ Pipeline!EffectsBeforeCheckpoint'
        /\ stored' \subseteq Pipeline!Messages /\ hooked' \subseteq Pipeline!Messages
    BY <1>0 DEF Pipeline!PipelineInv, Pipeline!TypeOK, Pipeline!FilesTyped,
           Pipeline!DatabaseTyped, Pipeline!WorkerSound, Pipeline!EffectsBeforeCheckpoint
  <1> QED BY <1>0, <1>5, <1>6, <1>7, PipelineChannels

(* Inserted, then hooked; or given up. *)
LEMMA PipelineWorker ==
    ASSUME Pipeline!PipelineAssumption, Pipeline!PipelineInv,
           \/ Pipeline!WorkerInsert \/ Pipeline!WorkerHooks
           \/ Pipeline!WorkerCheckpointFails \/ Pipeline!WorkerClose
    PROVE  Pipeline!PipelineInv'
  <1> USE DEF Pipeline!WorkerInsert, Pipeline!WorkerHooks, Pipeline!WorkerCheckpointFails,
              Pipeline!WorkerClose, Pipeline!StorageFault
  <1>0. /\ UNCHANGED <<epoch, gap, claim, log, done, cut, admission, writer, queue, batch>>
        /\ UNCHANGED <<phase, cur, mine, replayed, ending, arrived>>
        /\ phase \in {"up", "drain"} /\ worker' \in {"hooks", "checkpoint", "done"}
    OBVIOUS
  <1>1. stored \subseteq stored' /\ hooked \subseteq hooked'
    OBVIOUS
  <1>2. Pipeline!BatchMessages \subseteq Pipeline!Messages
    BY PipelineLog DEF Pipeline!BatchMessages
  <1>3. stored' \subseteq Pipeline!Messages /\ hooked' \subseteq Pipeline!Messages
    BY <1>2 DEF Pipeline!PipelineInv, Pipeline!TypeOK, Pipeline!DatabaseTyped
  <1>4. Pipeline!TasksTyped'
    <2>1. fatal \in BOOLEAN
      BY DEF Pipeline!PipelineInv, Pipeline!TypeOK, Pipeline!TasksTyped
    <2>2. fatal' \in BOOLEAN
      BY <2>1, Zenon
    <2> QED BY <1>0, <2>2 DEF Pipeline!PipelineInv, Pipeline!TypeOK, Pipeline!TasksTyped
  <1>5. Pipeline!WorkerSound'
    <2>1. Pipeline!BatchMessages' = Pipeline!BatchMessages
      BY <1>0 DEF Pipeline!BatchMessages
    <2> QED BY <1>0, <1>1, <2>1 DEF Pipeline!PipelineInv, Pipeline!WorkerSound
  <1>6. Pipeline!PositionsInLog' /\ Pipeline!FilesTyped' /\ Pipeline!EffectsBeforeCheckpoint'
    BY <1>0, <1>1 DEF Pipeline!PipelineInv, Pipeline!TypeOK, Pipeline!FilesTyped,
           Pipeline!PositionsInLog, Pipeline!EffectsBeforeCheckpoint
  <1> QED BY <1>0, <1>1, <1>3, <1>4, <1>5, <1>6, PipelineChannels

(* The checkpoint moves over the frames of the batch, which are the next    *)
(* ones of the log and have been stored and hooked.                         *)
LEMMA PipelineCheckpoint ==
    ASSUME Pipeline!PipelineAssumption, Pipeline!PipelineInv, Pipeline!WorkerCheckpoint
    PROVE  Pipeline!PipelineInv'
  <1>0. /\ UNCHANGED <<epoch, gap, claim, stored, hooked, log, cut, admission, writer, queue>>
        /\ UNCHANGED <<fatal, phase, cur, mine, replayed, ending, arrived>>
        /\ phase \in {"up", "drain"} /\ worker = "checkpoint" /\ worker' = "recv"
        /\ batch' = <<>> /\ done' = done + Len(batch) /\ cut = -1
        /\ \A i \in 1..Len(batch) : batch[i] = done + i
    BY DEF Pipeline!WorkerCheckpoint, Pipeline!PrefixAccepted
  <1>1. done \in 0..Len(log) /\ Len(log) \in Nat /\ Len(batch) \in Nat
    BY PipelineLog DEF Pipeline!PipelineInv, Pipeline!TypeOK, Pipeline!FilesTyped
  <1>2. done' \in 0..Len(log)
    <2>1. CASE Len(batch) = 0
      BY <1>0, <1>1, <2>1
    <2>2. CASE Len(batch) > 0
      <3>1. batch[Len(batch)] = done + Len(batch) /\ batch[Len(batch)] <= Len(log)
        BY <1>0, <1>1, <2>2, PipelineLog
      <3> QED BY <1>0, <1>1, <3>1
    <2> QED BY <1>1, <2>1, <2>2
  <1>3. \A i \in 1..Len(batch) : log[done + i].msg \in stored \cap hooked
    BY <1>0 DEF Pipeline!PipelineInv, Pipeline!WorkerSound, Pipeline!BatchMessages
  <1>4. Pipeline!EffectsBeforeCheckpoint'
    <2> SUFFICES ASSUME NEW i \in 1..done' PROVE log[i].msg \in stored \cap hooked
      BY <1>0 DEF Pipeline!EffectsBeforeCheckpoint
    <2>1. CASE i <= done
      BY <1>1, <1>2, <2>1 DEF Pipeline!PipelineInv, Pipeline!EffectsBeforeCheckpoint
    <2>2. CASE i > done
      <3>1. i - done \in 1..Len(batch) /\ done + (i - done) = i
        BY <1>0, <1>1, <1>2, <2>2
      <3> QED BY <1>3, <3>1
    <2> QED BY <1>1, <1>2, <2>1, <2>2
  <1>5. Pipeline!FilesTyped'
    BY <1>0, <1>2 DEF Pipeline!PipelineInv, Pipeline!TypeOK, Pipeline!FilesTyped
  <1>6. Pipeline!TasksTyped'
    <2>1. BatchSize >= 0
      BY PipelineConstants
    <2> QED BY <1>0, <2>1 DEF Pipeline!PipelineInv, Pipeline!TypeOK, Pipeline!TasksTyped
  <1>7. Pipeline!PositionsInLog' /\ Pipeline!WorkerSound'
    BY <1>0 DEF Pipeline!PipelineInv, Pipeline!PositionsInLog, Pipeline!WorkerSound
  <1>8. stored' \subseteq Pipeline!Messages /\ hooked' \subseteq Pipeline!Messages
    BY <1>0 DEF Pipeline!PipelineInv, Pipeline!TypeOK, Pipeline!DatabaseTyped
  <1> QED BY <1>0, <1>4, <1>5, <1>6, <1>7, <1>8, PipelineChannels

-----------------------------------------------------------------------------
LEMMA PipelineNext ==
    ASSUME Pipeline!PipelineAssumption, Pipeline!PipelineInv, [Pipeline!Next]_(Pipeline!vars)
    PROVE  Pipeline!PipelineInv'
  <1>1. CASE UNCHANGED Pipeline!vars
    <2>1. /\ UNCHANGED <<epoch, gap, claim, stored, hooked, log, done, cut, phase, cur, mine>>
          /\ UNCHANGED <<replayed, ending, admission, writer, queue, worker, batch, fatal>>
          /\ UNCHANGED arrived
      BY <1>1 DEF Pipeline!vars
    <2>2. Pipeline!DatabaseTyped' /\ Pipeline!LoopTyped' /\ Pipeline!ArrivalsCovered'
      BY <2>1 DEF Pipeline!PipelineInv, Pipeline!TypeOK, Pipeline!DatabaseTyped,
             Pipeline!LoopTyped, Pipeline!ArrivalsCovered
    <2> QED BY <2>1, <2>2, PipelineControl
  <1>2. CASE Pipeline!Recovery
    BY <1>2, PipelineOpenSpool, PipelineClaim, PipelineReplay, PipelineFinishLegacy,
       PipelineQuiet DEF Pipeline!Recovery
  <1>3. CASE Pipeline!Ending
    BY <1>3, PipelineFinish, PipelineEnds DEF Pipeline!Ending
  <1>4. CASE Pipeline!WriterThread \/ Pipeline!WriterAppendFails
    BY <1>4, PipelineAppend, PipelineWriter DEF Pipeline!WriterThread
  <1>5. CASE Pipeline!IngestionWorker \/ Pipeline!WorkerCheckpointFails
    BY <1>5, PipelineTake, PipelineWorker, PipelineCheckpoint DEF Pipeline!IngestionWorker
  <1>6. CASE Pipeline!BeginConnection \/ Pipeline!MarkConnected \/ Pipeline!Arrive
    BY <1>6, PipelineBegin, PipelineMarkConnected, PipelineArrive
  <1>7. CASE \/ Pipeline!RecoveryFails \/ Pipeline!LoopFails
             \/ Pipeline!ShutdownWhileWaiting \/ Pipeline!Crash
    BY <1>7, PipelineEnds
  <1>8. CASE \/ Pipeline!OpenRefused
             \/ \E how \in {"shutdown", "closed", "fatal"} : Pipeline!EndConnection(how)
             \/ \E e \in Pipeline!Epochs : Pipeline!LeaseExpires(e) \/ Pipeline!LeaseLapses(e)
    BY <1>8, PipelineQuiet
  <1> QED BY <1>1, <1>2, <1>3, <1>4, <1>5, <1>6, <1>7, <1>8 DEF Pipeline!Next

(* Every reachable state of the pipeline satisfies its inductive invariant: *)
(* types and capacities hold, tasks live no longer than their connection,   *)
(* what the worker or the recovery is about to checkpoint has been stored   *)
(* and hooked, and the epoch of every arrival is connected or has its gap.  *)
THEOREM PipelineInvariant ==
    ASSUME Pipeline!PipelineAssumption PROVE Pipeline!Spec => []Pipeline!PipelineInv
  BY PipelineInit, PipelineNext, PTL DEF Pipeline!Spec

(* A restart, a task or the database leaves the log and the channel of the  *)
(* reader as they are, or shortens both.                                    *)
LEMMA AscendsShorter ==
    ASSUME Pipeline!PipelineAssumption, Pipeline!PipelineInv, Pipeline!LogAscends,
           arrived' = arrived, admission' \in {admission, <<>>},
           Len(log') \in 0..Len(log), \A i \in 1..Len(log') : log'[i] = log[i]
    PROVE  Pipeline!LogAscends'
  <1>1. \A i \in 1..Len(log') : i \in 1..Len(log) /\ \A j \in 1..i - 1 : j \in 1..Len(log')
    BY PipelineLog
  <1>2. \A i \in 1..Len(log') : /\ log'[i].msg <= Len(arrived')
                                /\ \A j \in 1..i - 1 : log'[j].msg < log'[i].msg
    BY <1>1 DEF Pipeline!LogAscends
  <1>3. CASE admission' = admission
    <2>1. \A i \in 1..Len(admission) : \A j \in 1..Len(log') : log'[j].msg < admission[i]
      BY <1>1 DEF Pipeline!LogAscends
    <2> QED BY <1>2, <1>3, <2>1 DEF Pipeline!LogAscends
  <1>4. CASE admission' = <<>>
    BY <1>2, <1>4 DEF Pipeline!LogAscends
  <1> QED BY <1>3, <1>4

(* The next message has a number above all that came before. *)
LEMMA AscendsArrive ==
    ASSUME Pipeline!PipelineAssumption, Pipeline!PipelineInv, Pipeline!LogAscends, Pipeline!Arrive
    PROVE  Pipeline!LogAscends'
  <1>0. /\ log' = log /\ arrived' = Append(arrived, cur) /\ cur \in Pipeline!Epochs
        /\ admission' = admission \/ admission' = Append(admission, Len(arrived) + 1)
    BY DEF Pipeline!Arrive, Pipeline!PipelineInv, Pipeline!TasksOnlyAlive
  <1>1. /\ arrived \in Seq(Pipeline!Epochs) /\ admission \in Seq(Pipeline!Messages)
        /\ Len(log) \in Nat /\ Len(admission) \in Nat /\ Len(arrived) \in Nat
        /\ \A i \in 1..Len(admission) : admission[i] \in Nat
        /\ \A i \in 1..Len(log) : log[i].msg \in Nat
    BY PipelineLog, PipelineConstants
       DEF Pipeline!PipelineInv, Pipeline!TypeOK, Pipeline!LoopTyped, Pipeline!TasksTyped,
           Pipeline!Messages
  <1>2. Len(arrived') = Len(arrived) + 1
    BY <1>0, <1>1
  <1>3. /\ \A i \in 1..Len(log) : log[i].msg <= Len(arrived') /\ log[i].msg < Len(arrived) + 1
        /\ \A i \in 1..Len(admission) : /\ admission[i] <= Len(arrived')
                                        /\ admission[i] < Len(arrived) + 1
    BY <1>1, <1>2 DEF Pipeline!LogAscends
  <1>4. /\ \A i \in 1..Len(log) : \A j \in 1..i - 1 : log[j].msg < log[i].msg
        /\ \A i \in 1..Len(admission) : /\ \A j \in 1..i - 1 : admission[j] < admission[i]
                                        /\ \A j \in 1..Len(log) : log[j].msg < admission[i]
    BY DEF Pipeline!LogAscends
  <1>5. CASE admission' = admission
    BY <1>0, <1>3, <1>4, <1>5 DEF Pipeline!LogAscends
  <1>6. CASE admission' = Append(admission, Len(arrived) + 1)
    <2>1. /\ Len(admission') = Len(admission) + 1 /\ admission'[Len(admission) + 1] = Len(arrived) + 1
          /\ \A i \in 1..Len(admission) : admission'[i] = admission[i]
      BY <1>1, <1>6
    <2>2. \A i \in 1..Len(admission') :
              /\ i \in 1..Len(admission) \/ i = Len(admission) + 1
              /\ \A j \in 1..i - 1 : j \in 1..Len(admission)
      BY <1>1, <2>1
    <2>3. ASSUME NEW i \in 1..Len(admission')
          PROVE  /\ admission'[i] <= Len(arrived')
                 /\ \A j \in 1..i - 1 : admission'[j] < admission'[i]
                 /\ \A j \in 1..Len(log) : log[j].msg < admission'[i]
      <3>1. CASE i \in 1..Len(admission)
        BY <1>3, <1>4, <2>1, <2>2, <3>1
      <3>2. CASE i = Len(admission) + 1
        BY <1>1, <1>2, <1>3, <2>1, <2>2, <3>2
      <3> QED BY <2>2, <3>1, <3>2
    <2> QED BY <1>0, <1>3, <1>4, <2>3 DEF Pipeline!LogAscends
  <1> QED BY <1>0, <1>5, <1>6

(* The head of the channel is above the log and below what waits behind it. *)
LEMMA AscendsAppend ==
    ASSUME Pipeline!PipelineAssumption, Pipeline!PipelineInv, Pipeline!LogAscends,
           Pipeline!WriterAppend \/ Pipeline!WriterAppendFails
    PROVE  /\ Pipeline!LogAscends'
           /\ Head(admission) \in Pipeline!Messages
           /\ \A i \in 1..Len(log) : log[i].msg < Head(admission)
           /\ log' # log => /\ Len(log') = Len(log) + 1 /\ log'[Len(log) + 1].msg = Head(admission)
                            /\ \A i \in 1..Len(log) : log'[i] = log[i]
  <1> DEFINE f == [msg |-> Head(admission), epoch |-> cur]
  <1>0. /\ admission # <<>> /\ admission' = Tail(admission) /\ arrived' = arrived
        /\ log' = log \/ log' = Append(log, f)
        /\ cur \in Pipeline!Epochs
    BY DEF Pipeline!WriterAppend, Pipeline!WriterAppendFails, Pipeline!Admitted,
           Pipeline!StorageFault, Pipeline!PipelineInv, Pipeline!TasksOnlyAlive
  <1>1. /\ admission \in Seq(Pipeline!Messages) /\ log \in Seq(Pipeline!Frames)
        /\ Len(log) \in Nat /\ Len(admission) \in Nat /\ Len(arrived) \in Nat
    BY PipelineLog DEF Pipeline!PipelineInv, Pipeline!TypeOK, Pipeline!FilesTyped,
           Pipeline!TasksTyped
  <1>2. /\ Head(admission) = admission[1] /\ 1 \in 1..Len(admission)
        /\ Head(admission) \in Pipeline!Messages
        /\ Len(admission') = Len(admission) - 1
        /\ \A i \in 1..Len(admission') : admission'[i] = admission[i + 1]
                                         /\ i + 1 \in 1..Len(admission)
    BY <1>0, <1>1
  <1>3. \A i \in 1..Len(log) : log[i].msg < Head(admission)
    BY <1>2 DEF Pipeline!LogAscends
  <1>4. \A i \in 1..Len(admission) : admission[i] \in Nat
    BY <1>1, PipelineConstants DEF Pipeline!Messages
  <1>5. /\ \A i \in 1..Len(admission') : /\ admission'[i] <= Len(arrived)
                                          /\ Head(admission) < admission'[i]
                                          /\ \A j \in 1..Len(log) : log[j].msg < admission'[i]
        /\ \A i \in 1..Len(admission') : \A j \in 1..i - 1 : admission'[j] < admission'[i]
    <2>1. \A i \in 1..Len(admission') : 1 \in 1..(i + 1) - 1
      BY <1>1, <1>2
    <2>2. ASSUME NEW i \in 1..Len(admission'), NEW j \in 1..i - 1
          PROVE  admission'[j] < admission'[i]
      <3>1. j + 1 \in 1..(i + 1) - 1 /\ j \in 1..Len(admission')
        BY <1>1, <1>2
      <3> QED BY <1>2, <3>1 DEF Pipeline!LogAscends
    <2> QED BY <1>2, <2>1, <2>2 DEF Pipeline!LogAscends
  <1>6. CASE log' = log
    BY <1>0, <1>2, <1>3, <1>5, <1>6 DEF Pipeline!LogAscends
  <1>7. CASE log' = Append(log, f)
    <2>1. f \in Pipeline!Frames /\ f.msg = Head(admission)
      BY <1>0, <1>2 DEF Pipeline!Frames
    <2>2. /\ Len(log') = Len(log) + 1 /\ log'[Len(log) + 1] = f
          /\ \A i \in 1..Len(log) : log'[i] = log[i]
      BY <1>1, <1>7, <2>1
    <2>3. Head(admission) <= Len(arrived)
      BY <1>2 DEF Pipeline!LogAscends
    <2> HIDE DEF f
    <2>4. \A i \in 1..Len(log') : i \in 1..Len(log) \/ i = Len(log) + 1
      BY <1>1, <2>2
    <2>5. \A i \in 1..Len(log') : /\ log'[i].msg <= Len(arrived)
                                  /\ \A j \in 1..i - 1 : log'[j].msg < log'[i].msg
      <3> SUFFICES ASSUME NEW i \in 1..Len(log')
                   PROVE  /\ log'[i].msg <= Len(arrived)
                          /\ \A j \in 1..i - 1 : log'[j].msg < log'[i].msg
        OBVIOUS
      <3>1. \A j \in 1..i - 1 : j \in 1..Len(log)
        BY <1>1, <2>2
      <3>2. CASE i \in 1..Len(log)
        BY <2>2, <3>1, <3>2 DEF Pipeline!LogAscends
      <3>3. CASE i = Len(log) + 1
        BY <1>3, <2>1, <2>2, <2>3, <3>1, <3>3
      <3> QED BY <2>4, <3>2, <3>3
    <2>6. \A i \in 1..Len(admission') : \A j \in 1..Len(log') : log'[j].msg < admission'[i]
      BY <1>5, <2>1, <2>2, <2>4
    <2>7. Pipeline!LogAscends'
      BY <1>0, <1>5, <2>5, <2>6 DEF Pipeline!LogAscends
    <2> QED BY <1>2, <1>3, <2>1, <2>2, <2>7
  <1> QED BY <1>0, <1>6, <1>7

(* What is held stays so, and messages are settled or nothing happens. *)
LEMMA PipelineSettles ==
    ASSUME Pipeline!PipelineInv', Pipeline!Held' = Pipeline!Held,
           stored \subseteq stored', hooked \subseteq hooked'
    PROVE  [Pipeline!Log!Next]_(Pipeline!Log!vars)
  <1> DEFINE S == stored' \cap hooked'
  <1>1. S \in SUBSET Pipeline!Messages
    BY DEF Pipeline!PipelineInv, Pipeline!TypeOK, Pipeline!DatabaseTyped
  <1>2. Pipeline!Log!Settle(S)
    BY DEF Pipeline!Log!Settle
  <1> QED BY <1>1, <1>2 DEF Pipeline!Log!Next

(* The log and its checkpoint stay, and torn bytes come at its end or with  *)
(* the next open go with what is behind them.                               *)
LEMMA PipelineHeldStays ==
    ASSUME Pipeline!PipelineAssumption, Pipeline!PipelineInv, done' = done,
           Pipeline!Kept' = Pipeline!Kept,
           \A i \in done + 1..Pipeline!Kept : log'[i] = log[i]
    PROVE  Pipeline!Held' = Pipeline!Held
  BY DEF Pipeline!Held

(* The checkpoint moves: the frames it comes to cover are settled, and the  *)
(* oldest that are held.                                                    *)
LEMMA PipelineReleases ==
    ASSUME Pipeline!PipelineAssumption, Pipeline!PipelineInv, Pipeline!LogAscends,
           UNCHANGED <<log, cut, stored, hooked>>, cut = -1,
           done' \in done..Len(log),
           \A i \in done + 1..done' : log[i].msg \in stored \cap hooked
    PROVE  [Pipeline!Log!Next]_(Pipeline!Log!vars)
  <1> DEFINE S == {log[i].msg : i \in done + 1..done'}
  <1>1. /\ done \in 0..Len(log) /\ Len(log) \in Nat /\ Pipeline!Kept = Len(log)
        /\ Pipeline!Kept' = Len(log)
        /\ \A i \in 1..Len(log) : log[i].msg \in Nat
    BY PipelineLog, PipelineConstants
       DEF Pipeline!PipelineInv, Pipeline!TypeOK, Pipeline!FilesTyped, Pipeline!Kept,
           Pipeline!Messages
  <1>2. \A i, j \in 1..Len(log) : i < j => log[i].msg < log[j].msg
    BY <1>1 DEF Pipeline!LogAscends
  <1>3. /\ Pipeline!Held = {log[i].msg : i \in done + 1..Len(log)}
        /\ Pipeline!Held' = {log[i].msg : i \in done' + 1..Len(log)}
    BY <1>1 DEF Pipeline!Held
  <1>4. S \in Pipeline!Log!Released
    <2>1. S \subseteq Pipeline!Held \cap (stored \cap hooked)
      BY <1>1, <1>3
    <2>2. ASSUME NEW a \in S, NEW b \in Pipeline!Held, b < a
          PROVE  b \in S
      <3>1. PICK i \in done + 1..done' : a = log[i].msg
        OBVIOUS
      <3>2. PICK j \in done + 1..Len(log) : b = log[j].msg
        BY <1>3
      <3>3. i \in 1..Len(log) /\ j \in 1..Len(log)
        BY <1>1
      <3>4. ~(i < j)
        BY <1>1, <1>2, <2>2, <3>1, <3>2, <3>3
      <3>5. j \in done + 1..done'
        BY <1>1, <3>3, <3>4
      <3> QED BY <3>2, <3>5
    <2> HIDE DEF S
    <2> QED BY <2>1, <2>2 DEF Pipeline!Log!Released
  <1>5. Pipeline!Held' = Pipeline!Held \ S
    <2>1. \A i \in done + 1..Len(log) : i \in done + 1..done' \/ i \in done' + 1..Len(log)
      BY <1>1
    <2>2. \A i \in done + 1..done', j \in done' + 1..Len(log) : log[i].msg # log[j].msg
      <3>1. \A i \in done + 1..done', j \in done' + 1..Len(log) :
                i \in 1..Len(log) /\ j \in 1..Len(log) /\ i < j
        <4>1. \A a, b, c \in Nat : a <= b /\ b <= c =>
                  \A i \in a + 1..b, j \in b + 1..c : i \in 1..c /\ j \in 1..c /\ i < j
          OBVIOUS
        <4>2. done \in Nat /\ done' \in Nat /\ done <= done' /\ done' <= Len(log)
          BY <1>1
        <4> QED BY ONLY <1>1, <4>1, <4>2, Zenon
      <3>2. \A m, n \in Nat : m < n => m # n
        OBVIOUS
      <3> QED BY <1>1, <1>2, <3>1, <3>2
    <2>3. done' + 1..Len(log) \subseteq done + 1..Len(log)
      BY <1>1
    <2> QED BY <1>3, <2>1, <2>2, <2>3
  <1> QED BY <1>4, <1>5 DEF Pipeline!Log!Next, Pipeline!Log!Release

LEMMA PipelineHolds ==
    ASSUME Pipeline!PipelineAssumption, Pipeline!PipelineInv, Pipeline!LogAscends,
           Pipeline!WriterAppend \/ Pipeline!WriterAppendFails
    PROVE  [Pipeline!Log!Next]_(Pipeline!Log!vars)
  <1>0. /\ UNCHANGED <<stored, hooked, done>>
        /\ cut' = cut \/ (cut = -1 /\ cut' = Len(log) /\ log' = log)
    BY DEF Pipeline!WriterAppend, Pipeline!WriterAppendFails
  <1>1. /\ done \in 0..Len(log) /\ Len(log) \in Nat /\ cut \in {-1} \cup done..Len(log)
    BY PipelineLog DEF Pipeline!PipelineInv, Pipeline!TypeOK, Pipeline!FilesTyped
  <1>2. CASE log' = log
    <2>1. Pipeline!Kept' = Pipeline!Kept
      BY <1>0, <1>1, <1>2 DEF Pipeline!Kept
    <2>2. Pipeline!Held' = Pipeline!Held
      BY <1>0, <1>2, <2>1, PipelineHeldStays
    <2> QED BY <1>0, <2>2 DEF Pipeline!Log!vars
  <1>3. CASE log' # log /\ cut # -1
    <2>1. Pipeline!Kept' = Pipeline!Kept /\ Pipeline!Kept \in 0..Len(log)
      BY <1>0, <1>1, <1>3 DEF Pipeline!Kept
    <2>2. Pipeline!Held' = Pipeline!Held
      BY <1>0, <1>1, <1>3, <2>1, AscendsAppend, PipelineHeldStays
    <2> QED BY <1>0, <2>2 DEF Pipeline!Log!vars
  <1>4. CASE log' # log /\ cut = -1
    <2> DEFINE m == Head(admission)
    <2>1. /\ m \in Pipeline!Messages /\ \A i \in 1..Len(log) : log[i].msg < m
          /\ Len(log') = Len(log) + 1 /\ log'[Len(log) + 1].msg = m
          /\ \A i \in 1..Len(log) : log'[i] = log[i]
      BY <1>4, AscendsAppend
    <2>2. m \in Nat /\ \A i \in 1..Len(log) : log[i].msg # m
      BY <2>1, PipelineLog, PipelineConstants DEF Pipeline!Messages
    <2> HIDE DEF m
    <2>3. /\ Pipeline!Held = {log[i].msg : i \in done + 1..Len(log)}
          /\ Pipeline!Held' = {log'[i].msg : i \in done + 1..Len(log) + 1}
      BY <1>0, <1>4, <2>1 DEF Pipeline!Held, Pipeline!Kept
    <2>4. m \notin Pipeline!Held
      BY <1>1, <2>2, <2>3
    <2>5. done + 1..Len(log) + 1 = (done + 1..Len(log)) \cup {Len(log) + 1}
      BY <1>1
    <2>6. \A i \in done + 1..Len(log) : log'[i] = log[i]
      BY <1>1, <2>1
    <2>7. Pipeline!Held' = (Pipeline!Held \ {}) \cup {m}
      BY <2>1, <2>3, <2>5, <2>6
    <2>8. {} \in Pipeline!Log!Released
      BY DEF Pipeline!Log!Released
    <2> QED BY <1>0, <2>1, <2>4, <2>7, <2>8 DEF Pipeline!Log!Next, Pipeline!Log!Hold
  <1> QED BY <1>2, <1>3, <1>4

(* All other steps leave the log and the checkpoint alone. *)
LEMMA PipelineRests ==
    ASSUME Pipeline!PipelineAssumption, Pipeline!PipelineInv, Pipeline!PipelineInv',
           Pipeline!LogAscends,
           UNCHANGED <<log, done, arrived>>, admission' \in {admission, <<>>},
           cut' = cut \/ (cut = -1 /\ cut' = Len(log)),
           stored \subseteq stored', hooked \subseteq hooked'
    PROVE  Pipeline!LogAscends' /\ [Pipeline!Log!Next]_(Pipeline!Log!vars)
  <1>1. Len(log) \in Nat
    BY PipelineLog
  <1>2. Pipeline!LogAscends'
    BY <1>1, AscendsShorter
  <1>3. Pipeline!Kept' = Pipeline!Kept
    BY <1>1 DEF Pipeline!Kept
  <1>4. Pipeline!Held' = Pipeline!Held
    BY <1>3, PipelineHeldStays
  <1> QED BY <1>2, <1>4, PipelineSettles

LEMMA PipelineIsLog ==
    ASSUME Pipeline!PipelineAssumption, Pipeline!PipelineInv, Pipeline!PipelineInv',
           Pipeline!LogAscends, [Pipeline!Next]_(Pipeline!vars)
    PROVE  Pipeline!LogAscends' /\ [Pipeline!Log!Next]_(Pipeline!Log!vars)
  <1>0. /\ done \in 0..Len(log) /\ Len(log) \in Nat /\ cut \in {-1} \cup done..Len(log)
        /\ done' \in 0..Len(log') /\ log \in Seq(Pipeline!Frames)
    BY PipelineLog DEF Pipeline!PipelineInv, Pipeline!TypeOK, Pipeline!FilesTyped
  <1>1. CASE UNCHANGED Pipeline!vars
    BY <1>1, PipelineRests DEF Pipeline!vars
  <1>2. CASE Pipeline!OpenSpool
    <2>1. /\ UNCHANGED <<done, arrived, admission, stored, hooked>>
          /\ cut' = -1 /\ log' = IF cut = -1 THEN log ELSE SubSeq(log, 1, cut)
      BY <1>2 DEF Pipeline!OpenSpool
    <2>2. /\ Len(log') = Pipeline!Kept /\ Pipeline!Kept \in done..Len(log)
          /\ \A i \in 1..Len(log') : log'[i] = log[i]
      BY <1>0, <2>1 DEF Pipeline!Kept
    <2>3. Pipeline!LogAscends'
      BY <1>0, <2>1, <2>2, AscendsShorter
    <2>4. Pipeline!Kept' = Pipeline!Kept
      BY <2>1, <2>2 DEF Pipeline!Kept
    <2>5. Pipeline!Held' = Pipeline!Held
      BY <1>0, <2>1, <2>2, <2>4, PipelineHeldStays
    <2> QED BY <2>1, <2>3, <2>5, PipelineSettles
  <1>3. CASE Pipeline!ReplayCheckpoint
    <2>1. /\ UNCHANGED <<log, cut, stored, hooked, arrived, admission>>
          /\ phase = "replay" /\ replayed = "hooked" /\ done' = done + 1
      BY <1>3 DEF Pipeline!ReplayCheckpoint
    <2>2. cut = -1 /\ done < Len(log) /\ log[done + 1].msg \in stored \cap hooked
      BY <2>1 DEF Pipeline!PipelineInv, Pipeline!RecoverySound
    <2>3. \A i \in done + 1..done' : log[i].msg \in stored \cap hooked
      <3>1. \A i \in done + 1..done' : i = done + 1
        BY <1>0, <2>1
      <3> QED BY <2>2, <3>1
    <2>4. done' \in done..Len(log)
      BY <1>0, <2>1, <2>2
    <2>5. Pipeline!LogAscends'
      BY <2>1 DEF Pipeline!LogAscends
    <2> QED BY <2>1, <2>2, <2>3, <2>4, <2>5, PipelineReleases
  <1>4. CASE Pipeline!WorkerCheckpoint
    <2>1. /\ UNCHANGED <<log, cut, stored, hooked, arrived, admission>>
          /\ worker = "checkpoint" /\ cut = -1 /\ done' = done + Len(batch)
          /\ \A i \in 1..Len(batch) : batch[i] = done + i
      BY <1>4 DEF Pipeline!WorkerCheckpoint, Pipeline!PrefixAccepted
    <2>2. \A i \in 1..Len(batch) : log[done + i].msg \in stored \cap hooked
      BY <2>1 DEF Pipeline!PipelineInv, Pipeline!WorkerSound, Pipeline!BatchMessages
    <2>3. Len(batch) \in Nat
      BY PipelineLog
    <2>4. \A i \in done + 1..done' : log[i].msg \in stored \cap hooked
      <3> SUFFICES ASSUME NEW i \in done + 1..done' PROVE log[i].msg \in stored \cap hooked
        OBVIOUS
      <3>1. i - done \in 1..Len(batch) /\ done + (i - done) = i
        BY <1>0, <2>1, <2>3
      <3> QED BY <2>2, <3>1
    <2>5. done' \in done..Len(log)
      BY <1>0, <2>1, <2>3
    <2>6. Pipeline!LogAscends'
      BY <2>1 DEF Pipeline!LogAscends
    <2> QED BY <2>1, <2>4, <2>5, <2>6, PipelineReleases
  <1>5. CASE Pipeline!Arrive
    <2>1. /\ UNCHANGED <<log, done, cut, stored, hooked>>
      BY <1>5 DEF Pipeline!Arrive
    <2>2. Pipeline!Held' = Pipeline!Held
      BY <2>1 DEF Pipeline!Held, Pipeline!Kept
    <2> QED BY <1>5, <2>1, <2>2, AscendsArrive, PipelineSettles
  <1>6. CASE Pipeline!WriterAppend \/ Pipeline!WriterAppendFails
    BY <1>6, AscendsAppend, PipelineHolds
  <1>7. CASE \/ Pipeline!ClaimLegacyEpochs \/ Pipeline!ReplayInsert \/ Pipeline!ReplayHooks
             \/ \E e \in Pipeline!Epochs : Pipeline!FinishLegacyEpoch(e)
             \/ Pipeline!RecoveryFinished \/ Pipeline!OpenRefused \/ Pipeline!RecoveryFails
    BY <1>7, PipelineRests
       DEF Pipeline!ClaimLegacyEpochs, Pipeline!ReplayInsert, Pipeline!ReplayHooks,
           Pipeline!FinishLegacyEpoch, Pipeline!RecoveryFinished, Pipeline!OpenRefused,
           Pipeline!RecoveryFails, Pipeline!DatabaseFault, Pipeline!StorageFault,
           Pipeline!Exit, Pipeline!TasksOff
  <1>8. CASE \/ Pipeline!BeginConnection \/ Pipeline!MarkConnected
             \/ \E how \in {"shutdown", "closed", "fatal"} : Pipeline!EndConnection(how)
             \/ Pipeline!Ending \/ Pipeline!LoopFails \/ Pipeline!ShutdownWhileWaiting
             \/ Pipeline!Crash
    BY <1>8, PipelineRests
       DEF Pipeline!BeginConnection, Pipeline!MarkConnected, Pipeline!EndConnection,
           Pipeline!Ending, Pipeline!FinishConnection, Pipeline!FailClosed,
           Pipeline!DrainTimeout, Pipeline!LoopFails, Pipeline!ShutdownWhileWaiting,
           Pipeline!Crash, Pipeline!DatabaseFault, Pipeline!Exit, Pipeline!TasksOff
  <1>9. CASE \/ Pipeline!WriterEnqueue \/ Pipeline!WriterClose
             \/ Pipeline!WorkerTake \/ Pipeline!WorkerInsert \/ Pipeline!WorkerHooks
             \/ Pipeline!WorkerClose \/ Pipeline!WorkerCheckpointFails
             \/ \E e \in Pipeline!Epochs : Pipeline!LeaseExpires(e) \/ Pipeline!LeaseLapses(e)
    BY <1>9, PipelineRests
       DEF Pipeline!WriterEnqueue, Pipeline!WriterClose, Pipeline!WorkerTake,
           Pipeline!WorkerInsert, Pipeline!WorkerHooks, Pipeline!WorkerClose,
           Pipeline!WorkerCheckpointFails, Pipeline!LeaseExpires, Pipeline!LeaseLapses,
           Pipeline!DatabaseFault, Pipeline!StorageFault
  <1> QED BY <1>1, <1>2, <1>3, <1>4, <1>5, <1>6, <1>7, <1>8, <1>9
          DEF Pipeline!Next, Pipeline!Recovery, Pipeline!WriterThread, Pipeline!IngestionWorker

(* For every number of messages, epochs, crashes and faults and every       *)
(* capacity: a frame the checkpoint covers is in MySQL and its hooks have   *)
(* converged, and what admission, writer, worker, checkpoint and the replay *)
(* before connect do together is what DurableLog allows: no frame ahead of  *)
(* torn bytes goes before that, or before an earlier one (append,           *)
(* advance_checkpoint, recover_realtime_spool_before_connect).              *)
THEOREM FramesAreKept == IngestSpec => FramesKept
  <1>0. Pipeline!PipelineAssumption
    BY IngestAssumption
  <1>1. Pipeline!PipelineInv => Pipeline!EffectsBeforeCheckpoint
    BY DEF Pipeline!PipelineInv
  <1>2. Pipeline!Init => Pipeline!LogAscends /\ Pipeline!Log!Init
    <2> SUFFICES ASSUME Pipeline!Init PROVE Pipeline!LogAscends /\ Pipeline!Log!Init
      OBVIOUS
    <2>1. Pipeline!LogAscends
      BY DEF Pipeline!Init, Pipeline!LogAscends
    <2>2. Pipeline!Held = {} /\ stored \cap hooked = {}
      BY DEF Pipeline!Init, Pipeline!Held, Pipeline!Kept
    <2> QED BY <2>1, <2>2 DEF Pipeline!Log!Init
  <1>3. Pipeline!PipelineInv /\ Pipeline!PipelineInv' /\ Pipeline!LogAscends
            /\ [Pipeline!Next]_(Pipeline!vars)
          => Pipeline!LogAscends' /\ [Pipeline!Log!Next]_(Pipeline!Log!vars)
    BY <1>0, PipelineIsLog
  <1>4. Pipeline!Spec => []Pipeline!PipelineInv
    BY <1>0, PipelineInvariant
  <1> QED BY <1>1, <1>2, <1>3, <1>4, PartsOfSpec, PTL
          DEF Pipeline!Spec, FramesKept, Pipeline!FramesKept, Pipeline!ImplementsDurableLog,
              Pipeline!Log!Spec

(* A message NapCat delivered is never lost in silence: it is in MySQL, or  *)
(* the epoch it came in is open, or carries a gap for the backfill          *)
(* (try_admit, finish_connection, the fatal exit, the claim of old epochs). *)
THEOREM LossLeavesTrace == IngestSpec => []NoSilentLoss
  <1>1. Pipeline!PipelineInv => NoSilentLoss
    BY DEF Pipeline!PipelineInv, Pipeline!ArrivalsCovered, Pipeline!NoSilentLoss, Pipeline!Open,
           NoSilentLoss
  <1>2. Pipeline!PipelineAssumption
    BY IngestAssumption
  <1> QED BY <1>1, <1>2, PipelineInvariant, PartsOfSpec, PTL

-----------------------------------------------------------------------------
(* 3. The inbound store.                                                    *)

USE DEF Store!recalls, Store!jobs, Store!ingest

LEMMA StoreInit == Store!StoreAssumption /\ Store!Init => Store!StoreInv
  <1> SUFFICES ASSUME Store!StoreAssumption, Store!Init PROVE Store!StoreInv
    OBVIOUS
  <1>0. connected \in BOOLEAN
    BY Zenon DEF Store!Init
  <1>j. /\ Store!NoJob \in Store!Jobs
        /\ Store!Idle \in [pc : {"idle", "derive", "completed", "failed", "pending"},
                            m : StoreMessages \cup {NoMessage}, recalled : BOOLEAN]
    BY DEF Store!NoJob, Store!Idle, Store!Jobs
  <1>1. Store!TypeOK
    BY <1>0, <1>j DEF Store!Init, Store!TypeOK, Store!StoreAssumption, Store!Stored
  <1>2. Store!DeriverSound /\ Store!RecallReachesMessage /\ Store!RecalledHidden
    BY DEF Store!Init, Store!DeriverSound, Store!RecallReachesMessage, Store!RecalledHidden,
           Store!Idle, Store!Stored
  <1>3. Store!CursorAtNewest
    BY DEF Store!Init, Store!CursorAtNewest
  <1> QED BY <1>1, <1>2, <1>3 DEF Store!StoreInv

LEMMA StoredType ==
    ASSUME Store!StoreInv
    PROVE  /\ messages \in Seq(StoreMessages) /\ DOMAIN messages = 1..Len(messages)
           /\ Len(messages) \in Nat /\ Store!Stored \subseteq StoreMessages
  <1>1. messages \in Seq(StoreMessages)
    BY DEF Store!StoreInv, Store!TypeOK
  <1>2. DOMAIN messages = 1..Len(messages) /\ Len(messages) \in Nat
    BY <1>1
  <1>3. \A k \in 1..Len(messages) : messages[k] \in StoreMessages
    BY <1>1, <1>2
  <1> QED BY <1>1, <1>2, <1>3 DEF Store!Stored

(* A job with another status, or without its lease, is a job. *)
LEMMA StoreJobTypes ==
    ASSUME NEW j \in Store!Jobs
    PROVE  /\ \A status \in {"none", "pending", "claimed", "completed", "failed"} :
                 [j EXCEPT !.status = status] \in Store!Jobs
           /\ [j EXCEPT !.lease = FALSE] \in Store!Jobs
  BY DEF Store!Jobs

(* A pending tombstone meets its message: both invariants about recalls,    *)
(* for the messages stored before the step and this one.                    *)
LEMMA StoreTombstone ==
    ASSUME Store!StoreAssumption, Store!StoreInv, NEW m \in StoreMessages,
           Store!apply_pending_tombstone(m), UNCHANGED early,
           Store!Stored' \subseteq Store!Stored \cup {m}
    PROVE  /\ tomb' \in [StoreMessages -> {"none", "pending", "applied"}]
           /\ art' \in [StoreMessages -> {"none", "available", "recalled", "expired"}]
           /\ Store!RecallReachesMessage' /\ Store!RecalledHidden'
  <1> USE DEF Store!apply_pending_tombstone, Store!invalidate_artifacts_for_source
  <1>1. /\ tomb \in [StoreMessages -> {"none", "pending", "applied"}]
        /\ art \in [StoreMessages -> {"none", "available", "recalled", "expired"}]
    BY DEF Store!StoreInv, Store!TypeOK
  <1>2. /\ tomb' \in [StoreMessages -> {"none", "pending", "applied"}]
        /\ art' \in [StoreMessages -> {"none", "available", "recalled", "expired"}]
        /\ tomb'[m] # "pending"
        /\ tomb[m] = "pending" => art'[m] # "available"
        /\ tomb[m] # "pending" => tomb'[m] = tomb[m] /\ art'[m] = art[m]
        /\ \A k \in StoreMessages : k # m => tomb'[k] = tomb[k] /\ art'[k] = art[k]
    BY <1>1
  <1>3. Store!RecallReachesMessage'
    <2> SUFFICES ASSUME NEW k \in Store!Stored' PROVE tomb'[k] # "pending"
      BY DEF Store!RecallReachesMessage
    <2>1. CASE k = m
      BY <1>2, <2>1
    <2>2. CASE k # m
      <3>1. k \in Store!Stored /\ k \in StoreMessages
        BY <2>2, StoredType
      <3> QED BY <1>2, <2>2, <3>1 DEF Store!StoreInv, Store!RecallReachesMessage
    <2> QED BY <2>1, <2>2
  <1>4. Store!RecalledHidden'
    BY <1>1, <1>2 DEF Store!StoreInv, Store!RecalledHidden
  <1> QED BY <1>2, <1>3, <1>4

(* Nothing about the cursors changes. *)
LEMMA StoreCursors ==
    ASSUME Store!StoreInv, UNCHANGED <<cursor, live>> PROVE Store!CursorAtNewest'
  BY DEF Store!StoreInv, Store!CursorAtNewest

(* A live message moves the cursors of its account and its conversation,    *)
(* unless they stand at a newer one.                                        *)
LEMMA StoreContinuity ==
    ASSUME Store!StoreAssumption, Store!StoreInv, NEW m \in StoreMessages,
           Store!record_ingestion_continuity(m)
    PROVE  /\ cursor' \in [Conversations \cup {"account"} -> StoreMessages \cup {NoMessage}]
           /\ Store!CursorAtNewest'
  <1>1. /\ cursor \in [Conversations \cup {"account"} -> StoreMessages \cup {NoMessage}]
        /\ live \subseteq StoreMessages /\ Time \in [StoreMessages -> Nat]
        /\ NoMessage \notin StoreMessages
    BY DEF Store!StoreInv, Store!TypeOK, Store!StoreAssumption, Store!Stored
  <1>2. /\ cursor' = [s \in DOMAIN cursor |->
                          IF s \in Store!Scopes(m) THEN Store!upsert_cursor(s, m) ELSE cursor[s]]
        /\ live' = live \cup {m}
    BY DEF Store!record_ingestion_continuity
  <1>3. cursor' \in [Conversations \cup {"account"} -> StoreMessages \cup {NoMessage}]
    BY <1>1, <1>2 DEF Store!upsert_cursor
  <1>4. ASSUME NEW s \in DOMAIN cursor'
        PROVE  LET seen == {k \in live' : s \in Store!Scopes(k)}
               IN IF seen = {} THEN cursor'[s] = NoMessage
                  ELSE cursor'[s] \in seen /\ \A k \in seen : Time[k] <= Time[cursor'[s]]
    <2> DEFINE before == {k \in live : s \in Store!Scopes(k)}
               after == {k \in live' : s \in Store!Scopes(k)}
    <2>0. s \in DOMAIN cursor /\ DOMAIN cursor' = DOMAIN cursor
      BY <1>1, <1>3, <1>4
    <2>1. IF before = {} THEN cursor[s] = NoMessage
          ELSE cursor[s] \in before /\ \A k \in before : Time[k] <= Time[cursor[s]]
      BY <2>0 DEF Store!StoreInv, Store!CursorAtNewest
    <2>2. CASE s \notin Store!Scopes(m)
      <3>1. after = before /\ cursor'[s] = cursor[s]
        BY <1>2, <2>0, <2>2
      <3> QED BY <2>1, <3>1
    <2>3. CASE s \in Store!Scopes(m)
      <3>1. after = before \cup {m} /\ cursor'[s] = Store!upsert_cursor(s, m)
        BY <1>2, <2>0, <2>3
      <3>2. \A k \in before : k \in StoreMessages /\ Time[k] \in Nat
        BY <1>1
      <3>3. Time[m] \in Nat /\ after # {}
        BY <1>1, <3>1
      <3>4. cursor'[s] \in after /\ \A k \in after : Time[k] <= Time[cursor'[s]]
        <4> HIDE DEF before, after
        <4>1. CASE before = {}
          <5>1. cursor'[s] = m /\ after = {m}
            BY <2>1, <3>1, <4>1 DEF Store!upsert_cursor
          <5> QED BY <3>3, <5>1
        <4>2. CASE before # {} /\ Time[m] < Time[cursor[s]]
          <5>1. cursor'[s] = cursor[s]
            BY <1>1, <2>1, <3>1, <3>2, <4>2 DEF Store!upsert_cursor
          <5> QED BY <2>1, <3>1, <3>2, <3>3, <4>2, <5>1
        <4>3. CASE before # {} /\ ~(Time[m] < Time[cursor[s]])
          <5>1. cursor'[s] = m
            BY <3>1, <4>3 DEF Store!upsert_cursor
          <5> QED BY <2>1, <3>1, <3>2, <3>3, <4>3, <5>1
        <4> QED BY <4>1, <4>2, <4>3
      <3> QED BY <3>3, <3>4
    <2> QED BY <2>2, <2>3
  <1> QED BY <1>3, <1>4 DEF Store!CursorAtNewest

(* Messages: accepted, delivered again, their hooks, the epochs. *)
LEMMA StoreAccept ==
    ASSUME Store!StoreAssumption, Store!StoreInv, NEW m \in StoreMessages,
           NEW from_live \in BOOLEAN, Store!Accept(m, from_live)
    PROVE  Store!StoreInv'
  <1>0. /\ messages' = Append(messages, m) /\ Store!apply_pending_tombstone(m)
        /\ deriv' = [deriv EXCEPT ![m].status = "pending"]
        /\ hook' = [hook EXCEPT ![m] = "recall"]
        /\ UNCHANGED <<deriver, early, connected, storeFaults>>
    BY DEF Store!Accept
  <1>1. /\ messages' \in Seq(StoreMessages) /\ Store!Stored' = Store!Stored \cup {m}
    <2>1. /\ messages' \in Seq(StoreMessages) /\ Len(messages') = Len(messages) + 1
          /\ messages'[Len(messages) + 1] = m
          /\ \A k \in 1..Len(messages) : messages'[k] = messages[k]
          /\ DOMAIN messages' = 1..Len(messages) + 1
      BY <1>0, StoredType
    <2> QED BY <2>1, StoredType DEF Store!Stored
  <1>2. /\ tomb' \in [StoreMessages -> {"none", "pending", "applied"}]
        /\ art' \in [StoreMessages -> {"none", "available", "recalled", "expired"}]
        /\ Store!RecallReachesMessage' /\ Store!RecalledHidden'
    BY <1>0, <1>1, StoreTombstone
  <1>3. /\ cursor' \in [Conversations \cup {"account"} -> StoreMessages \cup {NoMessage}]
        /\ live' \subseteq live \cup {m} /\ Store!CursorAtNewest'
    <2>1. CASE Store!record_ingestion_continuity(m)
      BY <2>1, StoreContinuity DEF Store!record_ingestion_continuity
    <2>2. CASE UNCHANGED <<cursor, live>>
      BY <2>2, StoreCursors DEF Store!StoreInv, Store!TypeOK
    <2> QED BY <2>1, <2>2 DEF Store!Accept
  <1>d. deriv' \in [StoreMessages -> Store!Jobs]
    <2>1. deriv \in [StoreMessages -> Store!Jobs]
      BY DEF Store!StoreInv, Store!TypeOK
    <2>2. [deriv[m] EXCEPT !.status = "pending"] \in Store!Jobs
      BY <2>1, StoreJobTypes
    <2> QED BY <1>0, <2>1, <2>2
  <1>4. Store!TypeOK'
    BY <1>0, <1>1, <1>2, <1>3, <1>d DEF Store!StoreInv, Store!TypeOK
  <1>5. Store!DeriverSound'
    BY <1>0 DEF Store!StoreInv, Store!DeriverSound
  <1> QED BY <1>2, <1>3, <1>4, <1>5 DEF Store!StoreInv

LEMMA StoreDuplicate ==
    ASSUME Store!StoreAssumption, Store!StoreInv, NEW m \in StoreMessages,
           Store!Duplicate(m) \/ Store!maybe_apply_pending_recall(m)
    PROVE  Store!StoreInv'
  <1>0. /\ Store!apply_pending_tombstone(m) /\ hook' \in [StoreMessages -> {"none", "recall", "artifact"}]
        /\ UNCHANGED <<messages, deriv, deriver, early, connected, cursor, live, storeFaults>>
    BY DEF Store!Duplicate, Store!maybe_apply_pending_recall, Store!StoreInv, Store!TypeOK
  <1>1. Store!Stored' = Store!Stored
    BY <1>0 DEF Store!Stored
  <1>2. /\ tomb' \in [StoreMessages -> {"none", "pending", "applied"}]
        /\ art' \in [StoreMessages -> {"none", "available", "recalled", "expired"}]
        /\ Store!RecallReachesMessage' /\ Store!RecalledHidden'
    BY <1>0, <1>1, StoreTombstone
  <1>3. Store!TypeOK' /\ Store!DeriverSound'
    BY <1>0, <1>1, <1>2 DEF Store!StoreInv, Store!TypeOK, Store!DeriverSound
  <1> QED BY <1>0, <1>2, <1>3, StoreCursors DEF Store!StoreInv

(* Steps about artifacts, recalls and jobs: messages and cursors stay. *)
LEMMA StoreJobs ==
    ASSUME Store!StoreAssumption, Store!StoreInv,
           \/ \E m \in StoreMessages : \/ Store!record_recall(m) \/ Store!create_artifact(m)
                                        \/ Store!HookFails(m)
                                        \/ Store!claim_artifact_derivation(m)
                                        \/ Store!LeaseEnds(m)
           \/ Store!derive_claimed_artifacts \/ Store!DeriveFails
           \/ Store!update_derivation_status
           \/ \E due \in SUBSET StoreMessages : Store!expire_due(due)
           \/ Store!retry_failed_derivations \/ Store!Kill
           \/ Store!EpochEnds \/ Store!EpochBegins
    PROVE  Store!StoreInv'
  <1>0. UNCHANGED <<messages, cursor, live>>
    BY DEF Store!record_recall, Store!create_artifact, Store!HookFails,
           Store!claim_artifact_derivation, Store!LeaseEnds, Store!derive_claimed_artifacts,
           Store!DeriveFails, Store!update_derivation_status, Store!expire_due,
           Store!retry_failed_derivations, Store!Kill, Store!EpochEnds, Store!EpochBegins
  <1>1. Store!Stored' = Store!Stored /\ Store!CursorAtNewest'
    BY <1>0, StoreCursors DEF Store!Stored
  <1> SUFFICES Store!TypeOK' /\ Store!DeriverSound' /\ Store!RecallReachesMessage'
               /\ Store!RecalledHidden'
    BY <1>1 DEF Store!StoreInv
  <1> USE <1>0, <1>1, StoredType
          DEF Store!StoreInv, Store!TypeOK, Store!DeriverSound, Store!RecallReachesMessage,
              Store!RecalledHidden, Store!StoreAssumption, Store!Fault
  <1>2. ASSUME NEW m \in StoreMessages, Store!record_recall(m)
        PROVE  /\ Store!TypeOK' /\ Store!DeriverSound' /\ Store!RecallReachesMessage'
               /\ Store!RecalledHidden'
    BY <1>2 DEF Store!record_recall, Store!invalidate_artifacts_for_source
  <1>3. ASSUME NEW m \in StoreMessages, Store!create_artifact(m)
        PROVE  /\ Store!TypeOK' /\ Store!DeriverSound' /\ Store!RecallReachesMessage'
               /\ Store!RecalledHidden'
    BY <1>3 DEF Store!create_artifact
  <1>4. ASSUME NEW m \in StoreMessages, Store!HookFails(m)
        PROVE  /\ Store!TypeOK' /\ Store!DeriverSound' /\ Store!RecallReachesMessage'
               /\ Store!RecalledHidden'
    BY <1>4 DEF Store!HookFails
  <1>5. ASSUME NEW m \in StoreMessages, Store!claim_artifact_derivation(m)
        PROVE  /\ Store!TypeOK' /\ Store!DeriverSound' /\ Store!RecallReachesMessage'
               /\ Store!RecalledHidden'
    <2>1. deriv' \in [StoreMessages -> Store!Jobs]
      BY <1>5 DEF Store!claim_artifact_derivation, Store!Jobs
    <2> QED BY <1>5, <2>1 DEF Store!claim_artifact_derivation
  <1>6. ASSUME NEW m \in StoreMessages, Store!LeaseEnds(m)
        PROVE  /\ Store!TypeOK' /\ Store!DeriverSound' /\ Store!RecallReachesMessage'
               /\ Store!RecalledHidden'
    <2>1. deriv' \in [StoreMessages -> Store!Jobs]
      BY <1>6, StoreJobTypes DEF Store!LeaseEnds
    <2> QED BY <1>6, <2>1 DEF Store!LeaseEnds
  <1>7. CASE Store!derive_claimed_artifacts
    BY <1>7 DEF Store!derive_claimed_artifacts
  <1>8. CASE Store!DeriveFails
    <2>1. deriver' \in [pc : {"idle", "derive", "completed", "failed", "pending"},
                        m : StoreMessages \cup {NoMessage}, recalled : BOOLEAN]
          /\ deriver'.pc \in {"failed", "pending"} /\ deriver'.m = deriver.m
      BY <1>8 DEF Store!DeriveFails
    <2> QED BY <1>8, <2>1 DEF Store!DeriveFails
  <1>9. CASE Store!update_derivation_status
    <2>1. deriv' \in [StoreMessages -> Store!Jobs]
      BY <1>9 DEF Store!update_derivation_status, Store!Jobs
    <2> QED BY <1>9, <2>1 DEF Store!update_derivation_status, Store!Idle
  <1>10. ASSUME NEW due \in SUBSET StoreMessages, Store!expire_due(due)
        PROVE  /\ Store!TypeOK' /\ Store!DeriverSound' /\ Store!RecallReachesMessage'
               /\ Store!RecalledHidden'
    BY <1>10 DEF Store!expire_due
  <1>11. CASE Store!retry_failed_derivations
    <2>1. deriv' \in [StoreMessages -> Store!Jobs]
      BY <1>11, StoreJobTypes DEF Store!retry_failed_derivations
    <2> QED BY <1>11, <2>1 DEF Store!retry_failed_derivations
  <1>12. CASE Store!Kill
    BY <1>12 DEF Store!Kill, Store!Idle
  <1>13. CASE Store!EpochEnds \/ Store!EpochBegins
    <2>1. connected' \in BOOLEAN
      BY <1>13, Zenon DEF Store!EpochEnds, Store!EpochBegins
    <2>2. /\ UNCHANGED <<tomb, art, deriv, deriver, early, hook>>
          /\ storeFaults' \in 0..MaxStoreFaults
      BY <1>13 DEF Store!EpochEnds, Store!EpochBegins
    <2> QED BY <2>1, <2>2
  <1> QED BY <1>2, <1>3, <1>4, <1>5, <1>6, <1>7, <1>8, <1>9, <1>10, <1>11, <1>12, <1>13

LEMMA StoreNext ==
    ASSUME Store!StoreAssumption, Store!StoreInv, [Store!Next]_(Store!vars)
    PROVE  Store!StoreInv'
  <1>1. CASE UNCHANGED Store!vars
    <2>1. /\ UNCHANGED <<messages, tomb, art, deriv, deriver, early, hook, connected, cursor>>
          /\ UNCHANGED <<live, storeFaults>>
      BY <1>1 DEF Store!vars
    <2> QED BY <2>1, StoreCursors DEF Store!StoreInv, Store!TypeOK, Store!DeriverSound,
               Store!RecallReachesMessage, Store!RecalledHidden, Store!Stored
  <1> QED BY <1>1, StoreAccept, StoreDuplicate, StoreJobs DEF Store!Next

(* For any messages, conversations and times: once a message and its recall *)
(* are both stored the tombstone is applied; a message recalled before its  *)
(* derivation was claimed has no available artifact; and the cursors stand  *)
(* at the newest live message (process_message_in_transaction,              *)
(* record_recall, create_artifact, derive_claimed_artifacts, upsert_cursor).*)
THEOREM StoreIsSound == IngestSpec => []StoreSound
  <1>1. Store!StoreInv => StoreSound
    BY DEF Store!StoreInv, Store!StoreSound, StoreSound
  <1>2. Store!StoreAssumption
    BY IngestAssumption
  <1>3. Store!Init => Store!StoreInv
    BY <1>2, StoreInit
  <1>4. Store!StoreInv /\ [Store!Next]_(Store!vars) => Store!StoreInv'
    BY <1>2, StoreNext
  <1> QED BY <1>1, <1>3, <1>4, PartsOfSpec, PTL DEF Store!Spec

-----------------------------------------------------------------------------
(* 4. The recall spool.                                                     *)

USE DEF Recalls!file, Recalls!process, Recalls!Fault

LEMMA RecallConstants ==
    ASSUME Recalls!SpoolAssumption
    PROVE  /\ RecallCapacity \in Nat /\ MaxNotices \in Nat /\ MaxRecallFaults \in Nat
           /\ MaxTorn \in Nat /\ MaxAttempts \in Nat \ {0} /\ NoMessage \notin RecallMessages
  BY DEF Recalls!SpoolAssumption

LEMMA RecallFrames ==
    /\ \A f \in Recalls!Frames : f.n \in Recalls!Notices /\ f.whole \in BOOLEAN
    /\ \A n \in Recalls!Notices, w \in BOOLEAN : [n |-> n, whole |-> w] \in Recalls!Frames
    /\ \A f \in Recalls!Frames : \A n : f = [n |-> n, whole |-> TRUE] <=> f.n = n /\ f.whole
  <1>1. \A f \in Recalls!Frames : \A n : f = [n |-> n, whole |-> TRUE] <=> f.n = n /\ f.whole = TRUE
    BY DEF Recalls!Frames
  <1>2. \A f \in Recalls!Frames : f.n \in Recalls!Notices /\ f.whole \in BOOLEAN
    BY DEF Recalls!Frames
  <1>3. \A n \in Recalls!Notices, w \in BOOLEAN : [n |-> n, whole |-> w] \in Recalls!Frames
    BY DEF Recalls!Frames
  <1> QED BY <1>1, <1>2, <1>3

(* What the types say of the file and of the notices. *)
LEMMA RecallFile ==
    ASSUME Recalls!SpoolAssumption, Recalls!SpoolInv
    PROVE  /\ wal \in Seq(Recalls!Frames) /\ Len(wal) \in Nat /\ DOMAIN wal = 1..Len(wal)
           /\ subject \in Seq(RecallMessages) /\ Len(subject) \in Nat /\ Len(subject) <= MaxNotices
           /\ \A k \in 1..Len(wal) : /\ wal[k] \in Recalls!Frames
                                     /\ wal[k].n \in 1..Len(subject) /\ wal[k].whole \in BOOLEAN
           /\ \A n \in 1..Len(subject) : subject[n] \in RecallMessages
           /\ acked \subseteq 1..Len(subject) /\ copied \subseteq 1..Len(subject)
  <1>1. /\ wal \in Seq(Recalls!Frames) /\ subject \in Seq(RecallMessages)
        /\ Len(subject) <= MaxNotices /\ \A k \in DOMAIN wal : wal[k].n <= Len(subject)
        /\ acked \subseteq 1..Len(subject) /\ copied \subseteq 1..Len(subject)
    BY DEF Recalls!SpoolInv, Recalls!TypeOK
  <1>2. /\ Len(wal) \in Nat /\ DOMAIN wal = 1..Len(wal) /\ Len(subject) \in Nat
        /\ \A k \in 1..Len(wal) : wal[k] \in Recalls!Frames
        /\ \A n \in 1..Len(subject) : subject[n] \in RecallMessages
    BY <1>1
  <1>3. \A f \in Recalls!Frames : f.n \in 1..MaxNotices /\ f.whole \in BOOLEAN
    BY RecallFrames DEF Recalls!Notices
  <1>4. \A k \in 1..Len(wal) : wal[k].n \in 1..Len(subject) /\ wal[k].whole \in BOOLEAN
    BY <1>1, <1>2, <1>3, RecallConstants
  <1> QED BY <1>1, <1>2, <1>4

(* The acknowledged notices a file holds. *)
LEMMA RecallHeldOf ==
    ASSUME NEW w \in Seq(Recalls!Frames), NEW A,
           \A k \in 1..Len(w) : w[k].n \in A => w[k].whole
    PROVE  {n \in A : \E k \in DOMAIN w : w[k] = [n |-> n, whole |-> TRUE]}
             = {n \in A : \E k \in 1..Len(w) : w[k].n = n}
  <1>0. DOMAIN w = 1..Len(w) /\ \A k \in 1..Len(w) : w[k] \in Recalls!Frames
    OBVIOUS
  <1>1. \A n, k : k \in 1..Len(w) =>
            (w[k] = [n |-> n, whole |-> TRUE] <=> w[k].n = n /\ w[k].whole)
    BY <1>0, RecallFrames
  <1>2. \A n \in A : (\E k \in DOMAIN w : w[k] = [n |-> n, whole |-> TRUE])
                      <=> \E k \in 1..Len(w) : w[k].n = n
    BY <1>0, <1>1
  <1> QED BY <1>2

LEMMA RecallHeld ==
    ASSUME Recalls!SpoolAssumption, Recalls!SpoolInv
    PROVE  Recalls!Held = {n \in acked : \E k \in 1..Len(wal) : wal[k].n = n}
  <1>1. \A k \in 1..Len(wal) : wal[k].n \in acked => wal[k].whole
    <2>1. \A k \in 1..Len(wal) : k \in 1..k
      BY RecallFile
    <2> QED BY <2>1 DEF Recalls!SpoolInv, Recalls!FileOrdered
  <1> QED BY <1>1, RecallFile, RecallHeldOf DEF Recalls!Held

LEMMA RecallHeldNext ==
    ASSUME wal' \in Seq(Recalls!Frames), Recalls!FileOrdered'
    PROVE  Recalls!Held' = {n \in acked' : \E k \in 1..Len(wal') : wal'[k].n = n}
  <1>1. \A k \in 1..Len(wal') : wal'[k].n \in acked' => wal'[k].whole
    <2>1. \A k \in 1..Len(wal') : k \in 1..k
      OBVIOUS
    <2> QED BY <2>1 DEF Recalls!FileOrdered
  <1> QED BY <1>1, RecallHeldOf DEF Recalls!Held

LEMMA RecallInit == Recalls!SpoolAssumption /\ Recalls!Init => Recalls!SpoolInv
  <1> SUFFICES ASSUME Recalls!SpoolAssumption, Recalls!Init PROVE Recalls!SpoolInv
    OBVIOUS
  <1>0. up \in BOOLEAN /\ stop \in BOOLEAN
    BY Zenon DEF Recalls!Init
  <1>1. /\ job \in Recalls!Jobs /\ inbox \in [RecallMessages -> Recalls!Rows]
        /\ job.pc = "head" /\ \A m \in RecallMessages : inbox[m].status = "none"
    BY DEF Recalls!Init, Recalls!AtHead, Recalls!Jobs, Recalls!Rows, Recalls!NoRow
  <1>2. /\ wal \in Seq(Recalls!Frames) /\ Len(wal) = 0 /\ subject \in Seq(RecallMessages)
        /\ Len(subject) = 0 /\ DOMAIN wal = {}
    BY DEF Recalls!Init
  <1>3. acked = {} /\ copied = {} /\ recorded = {} /\ recallFaults = 0 /\ torn = 0
        /\ \A m \in RecallMessages : inbox[m] = Recalls!NoRow
    BY DEF Recalls!Init
  <1>4. Recalls!TypeOK
    BY <1>0, <1>1, <1>2, <1>3, RecallConstants DEF Recalls!TypeOK
  <1>5. Recalls!FileOrdered /\ Recalls!DrainOK
    BY <1>1, <1>2 DEF Recalls!FileOrdered, Recalls!DrainOK
  <1>6. Recalls!AckedKept /\ Recalls!RowsOK /\ Recalls!ClosedRowsSettled
    BY <1>1, <1>3 DEF Recalls!AckedKept, Recalls!RowsOK, Recalls!ClosedRowsSettled
  <1> QED BY <1>4, <1>5, <1>6 DEF Recalls!SpoolInv

(* A notice comes in and its frame, or half of it, goes to the end of the   *)
(* file; it is acknowledged only when the whole file decodes.               *)
LEMMA RecallGrows ==
    ASSUME Recalls!SpoolAssumption, Recalls!SpoolInv, NEW m \in RecallMessages,
           Len(subject) < MaxNotices, subject' = Append(subject, m), NEW whole \in BOOLEAN,
           wal' = Append(wal, [n |-> Len(subject) + 1, whole |-> whole]),
           \/ acked' = acked
           \/ acked' = acked \cup {Len(subject) + 1} /\ Recalls!Decodes(wal')
    PROVE  /\ subject' \in Seq(RecallMessages) /\ Len(subject') = Len(subject) + 1
           /\ \A n \in 1..Len(subject) : subject'[n] = subject[n]
           /\ wal' \in Seq(Recalls!Frames) /\ Len(wal') = Len(wal) + 1
           /\ \A k \in DOMAIN wal' : wal'[k].n <= Len(subject')
           /\ \A k \in 1..Len(wal) : wal'[k] = wal[k]
           /\ Recalls!FileOrdered'
           /\ Recalls!Held' = Recalls!Held \cup (acked' \ acked)
  <1> DEFINE N == Len(subject) + 1
             f == [n |-> N, whole |-> whole]
  <1>1. /\ subject' \in Seq(RecallMessages) /\ Len(subject') = N
        /\ \A n \in 1..Len(subject) : subject'[n] = subject[n]
    BY RecallFile
  <1>2. f \in Recalls!Frames /\ f.n = N /\ N \in Nat
    <2>1. N \in Recalls!Notices
      BY RecallFile, RecallConstants DEF Recalls!Notices
    <2> QED BY <2>1, RecallFrames, RecallFile
  <1> HIDE DEF f
  <1>3. /\ wal' \in Seq(Recalls!Frames) /\ Len(wal') = Len(wal) + 1
        /\ wal'[Len(wal) + 1] = f /\ DOMAIN wal' = 1..Len(wal) + 1
        /\ \A k \in 1..Len(wal) : wal'[k] = wal[k]
    <2>1. wal' = Append(wal, f)
      BY DEF f
    <2> QED BY <1>2, <2>1, RecallFile
  <1>4. \A k \in DOMAIN wal' : wal'[k].n <= Len(subject')
    BY <1>1, <1>2, <1>3, RecallFile
  <1>5. Recalls!FileOrdered'
    <2>1. \A j, k \in 1..Len(wal) + 1 : j < k => wal'[j].n < wal'[k].n
      <3> SUFFICES ASSUME NEW j \in 1..Len(wal) + 1, NEW k \in 1..Len(wal) + 1, j < k
                   PROVE  wal'[j].n < wal'[k].n
        OBVIOUS
      <3>1. j \in 1..Len(wal) /\ wal'[j] = wal[j] /\ wal[j].n \in 1..Len(subject)
        BY <1>3, RecallFile
      <3>2. CASE k = Len(wal) + 1
        BY <1>2, <1>3, <3>1, <3>2, RecallFile
      <3>3. CASE k # Len(wal) + 1
        <4>1. Len(wal) \in Nat
          BY RecallFile
        <4>2. k \in 1..Len(wal) /\ wal'[k] = wal[k]
          BY <1>3, <3>3, <4>1
        <4> QED BY <3>1, <4>2 DEF Recalls!SpoolInv, Recalls!FileOrdered
      <3> QED BY <3>2, <3>3
    <2>2. ASSUME NEW k \in 1..Len(wal) + 1, wal'[k].n \in acked', NEW j \in 1..k
          PROVE  wal'[j].whole
      <3>0. j \in 1..Len(wal) + 1
        BY RecallFile
      <3>1. CASE acked' # acked
        BY <1>3, <3>0, <3>1 DEF Recalls!Decodes
      <3>2. CASE acked' = acked
        <4>1. k \in 1..Len(wal) /\ wal'[k] = wal[k]
          <5>1. N \notin acked
            BY RecallFile
          <5> QED BY <1>2, <1>3, <2>2, <3>2, <5>1, RecallFile
        <4>2. j \in 1..Len(wal) /\ wal'[j] = wal[j]
          BY <1>3, <4>1, RecallFile
        <4> QED BY <2>2, <3>2, <4>1, <4>2 DEF Recalls!SpoolInv, Recalls!FileOrdered
      <3> QED BY <3>1, <3>2
    <2> QED BY <1>3, <2>1, <2>2 DEF Recalls!FileOrdered
  <1>6. Recalls!Held' = Recalls!Held \cup (acked' \ acked)
    <2>1. Recalls!Held' = {n \in acked' : \E k \in 1..Len(wal') : wal'[k].n = n}
      BY <1>3, <1>5, RecallHeldNext
    <2>2. Recalls!Held = {n \in acked : \E k \in 1..Len(wal) : wal[k].n = n}
      BY RecallHeld
    <2>3. N \notin acked /\ (acked' = acked \/ acked' = acked \cup {N})
      BY RecallFile
    <2>4. \A n \in acked : (\E k \in 1..Len(wal') : wal'[k].n = n)
                            <=> \E k \in 1..Len(wal) : wal[k].n = n
      <3> SUFFICES ASSUME NEW n \in acked, NEW k \in 1..Len(wal'), wal'[k].n = n
                   PROVE  k \in 1..Len(wal) /\ wal[k].n = n
        BY <1>3, RecallFile
      <3> QED BY <1>2, <1>3, <2>3, RecallFile
    <2>5. Len(wal) + 1 \in 1..Len(wal') /\ wal'[Len(wal) + 1].n = N
      BY <1>2, <1>3, RecallFile
    <2> HIDE DEF N
    <2> QED BY <2>1, <2>2, <2>3, <2>4, <2>5
  <1> QED BY <1>1, <1>3, <1>4, <1>5, <1>6

(* A step that leaves the file and the acknowledgements as they are. *)
LEMMA RecallSameFile ==
    ASSUME Recalls!SpoolInv, wal' = wal, acked' = acked
    PROVE  Recalls!Held' = Recalls!Held /\ Recalls!FileOrdered'
  BY DEF Recalls!SpoolInv, Recalls!FileOrdered, Recalls!Held

(* The positions the worker takes. *)
LEMMA RecallJobs ==
    /\ Recalls!AtHead \in Recalls!Jobs /\ Recalls!AtHead.pc = "head"
    /\ \A j \in Recalls!Jobs :
          /\ j.n \in Nat /\ j.i \in Nat /\ j.last \in BOOLEAN
          /\ j.m \in RecallMessages \cup {NoMessage}
    /\ \A last \in BOOLEAN, n \in Nat :
          LET c == [Recalls!At("claim") EXCEPT !.last = last]
              e == [Recalls!At("enqueue") EXCEPT !.n = n, !.last = last]
          IN /\ c \in Recalls!Jobs /\ c.pc = "claim"
             /\ e \in Recalls!Jobs /\ e.pc = "enqueue" /\ e.n = n /\ e.i = 1
    /\ \A m \in RecallMessages :
          LET h == [Recalls!At("handle") EXCEPT !.m = m]
          IN h \in Recalls!Jobs /\ h.pc = "handle" /\ h.m = m
    /\ \A j \in Recalls!Jobs, pc \in {"applied", "failed"} :
          LET h == [j EXCEPT !.pc = pc]
          IN h \in Recalls!Jobs /\ h.pc = pc /\ h.m = j.m
    /\ \A j \in Recalls!Jobs :
          LET h == [j EXCEPT !.i = @ + 1]
          IN h \in Recalls!Jobs /\ h.pc = j.pc /\ h.n = j.n /\ h.i = j.i + 1
  <1> USE DEF Recalls!Jobs, Recalls!AtHead, Recalls!At
  <1>1. Recalls!AtHead \in Recalls!Jobs /\ Recalls!AtHead.pc = "head"
    OBVIOUS
  <1>2. \A j \in Recalls!Jobs :
          /\ j.n \in Nat /\ j.i \in Nat /\ j.last \in BOOLEAN
          /\ j.m \in RecallMessages \cup {NoMessage}
    OBVIOUS
  <1>3. ASSUME NEW last \in BOOLEAN, NEW n \in Nat
        PROVE  LET c == [Recalls!At("claim") EXCEPT !.last = last]
                   e == [Recalls!At("enqueue") EXCEPT !.n = n, !.last = last]
               IN /\ c \in Recalls!Jobs /\ c.pc = "claim"
                  /\ e \in Recalls!Jobs /\ e.pc = "enqueue" /\ e.n = n /\ e.i = 1
    OBVIOUS
  <1>4. ASSUME NEW m \in RecallMessages
        PROVE  LET h == [Recalls!At("handle") EXCEPT !.m = m]
               IN h \in Recalls!Jobs /\ h.pc = "handle" /\ h.m = m
    OBVIOUS
  <1>5. ASSUME NEW j \in Recalls!Jobs, NEW pc \in {"applied", "failed"}
        PROVE  LET h == [j EXCEPT !.pc = pc]
               IN h \in Recalls!Jobs /\ h.pc = pc /\ h.m = j.m
    OBVIOUS
  <1>6. ASSUME NEW j \in Recalls!Jobs
        PROVE  LET h == [j EXCEPT !.i = @ + 1]
               IN h \in Recalls!Jobs /\ h.pc = j.pc /\ h.n = j.n /\ h.i = j.i + 1
    OBVIOUS
  <1> HIDE DEF Recalls!Jobs, Recalls!AtHead, Recalls!At
  <1> QED BY <1>1, <1>2, <1>3, <1>4, <1>5, <1>6

LEMMA RecallArrives ==
    ASSUME Recalls!SpoolAssumption, Recalls!SpoolInv, NEW m \in RecallMessages,
           Recalls!append(m) \/ Recalls!AppendFails(m) \/ Recalls!AppendKilled(m)
    PROVE  /\ Recalls!SpoolInv'
           /\ [Recalls!Log!Next]_(Recalls!Log!vars)
  <1>0. /\ Len(subject) < MaxNotices /\ subject' = Append(subject, m)
        /\ UNCHANGED <<inbox, recorded, copied>>
    BY DEF Recalls!append, Recalls!AppendFails, Recalls!AppendKilled, Recalls!Notice
  <1>1. /\ \E whole \in BOOLEAN : wal' = Append(wal, [n |-> Len(subject) + 1, whole |-> whole])
        /\ \/ acked' = acked
           \/ acked' = acked \cup {Len(subject) + 1} /\ Recalls!Decodes(wal')
    BY DEF Recalls!append, Recalls!AppendFails, Recalls!AppendKilled, Recalls!Frame,
           Recalls!Decodes
  <1>2. /\ subject' \in Seq(RecallMessages) /\ Len(subject') = Len(subject) + 1
        /\ \A n \in 1..Len(subject) : subject'[n] = subject[n]
        /\ wal' \in Seq(Recalls!Frames) /\ Len(wal') = Len(wal) + 1
        /\ \A k \in DOMAIN wal' : wal'[k].n <= Len(subject')
        /\ \A k \in 1..Len(wal) : wal'[k] = wal[k]
        /\ Recalls!FileOrdered'
        /\ Recalls!Held' = Recalls!Held \cup (acked' \ acked)
    BY <1>0, <1>1, RecallGrows
  <1>3. /\ up' \in BOOLEAN /\ stop' \in BOOLEAN
        /\ (up' = up /\ job' = job) \/ job' = Recalls!AtHead
    <2>1. up \in BOOLEAN /\ stop \in BOOLEAN
      BY DEF Recalls!SpoolInv, Recalls!TypeOK
    <2>2. CASE Recalls!append(m) \/ Recalls!AppendFails(m)
      <3>1. up' = up /\ stop' = stop /\ job' = job
        BY <2>2 DEF Recalls!append, Recalls!AppendFails
      <3> QED BY <2>1, <3>1
    <2>3. CASE Recalls!AppendKilled(m)
      BY <2>3, Zenon DEF Recalls!AppendKilled
    <2> QED BY <2>2, <2>3
  <1>4. recallFaults' \in 0..MaxRecallFaults /\ torn' \in 0..MaxTorn
    <2>1. recallFaults \in 0..MaxRecallFaults /\ torn \in 0..MaxTorn
      BY DEF Recalls!SpoolInv, Recalls!TypeOK
    <2>2. /\ recallFaults' = recallFaults
             \/ (recallFaults < MaxRecallFaults /\ recallFaults' = recallFaults + 1)
          /\ torn' = torn \/ (torn < MaxTorn /\ torn' = torn + 1)
      BY DEF Recalls!append, Recalls!AppendFails, Recalls!AppendKilled
    <2> QED BY <2>1, <2>2, RecallConstants
  <1>5. Recalls!TypeOK'
    <2>1. job' \in Recalls!Jobs /\ inbox' \in [RecallMessages -> Recalls!Rows]
          /\ recorded' \subseteq RecallMessages
      BY <1>0, <1>3, RecallJobs DEF Recalls!SpoolInv, Recalls!TypeOK
    <2>2. /\ acked' \subseteq 1..Len(subject') /\ copied' \subseteq 1..Len(subject')
          /\ Len(subject') <= MaxNotices
      BY <1>0, <1>1, <1>2, RecallFile, RecallConstants
    <2> QED BY <1>2, <1>3, <1>4, <2>1, <2>2 DEF Recalls!TypeOK
  <1>6. Recalls!DrainOK'
    <2>1. CASE job' = Recalls!AtHead
      BY <2>1, RecallJobs DEF Recalls!DrainOK
    <2>2. CASE up' = up /\ job' = job
      <3>1. Recalls!DrainOK /\ job.n \in Nat /\ job.i \in Nat
        BY RecallJobs DEF Recalls!SpoolInv, Recalls!TypeOK
      <3>2. Len(wal) \in Nat /\ Len(wal') = Len(wal) + 1 /\ copied' = copied
            /\ \A k \in 1..Len(wal) : wal'[k] = wal[k]
        BY <1>0, <1>2, RecallFile
      <3>3. CASE job.pc = "enqueue"
        <4>1. job.n <= Len(wal) /\ 1 <= job.i /\ job.i <= job.n + 1
          BY <3>1, <3>3 DEF Recalls!DrainOK
        <4>2. /\ \A k \in 1..job.n : wal[k].whole /\ k \in 1..Len(wal)
              /\ \A k \in 1..(job.i - 1) : wal[k].n \in copied /\ k \in 1..Len(wal)
          BY <3>1, <3>2, <3>3, <4>1 DEF Recalls!DrainOK
        <4>3. job.n <= Len(wal')
          BY <3>1, <3>2, <4>1
        <4>4. /\ \A k \in 1..job.n : wal'[k].whole
              /\ \A k \in 1..(job.i - 1) : wal'[k].n \in copied
          BY <3>2, <4>2
        <4>5. up'
          BY <2>2, <3>1, <3>3, Zenon DEF Recalls!DrainOK
        <4> QED BY <2>2, <3>2, <4>1, <4>3, <4>4, <4>5 DEF Recalls!DrainOK
      <3>4. CASE job.pc # "enqueue"
        BY <2>2, <3>1, <3>4 DEF Recalls!DrainOK
      <3> QED BY <3>3, <3>4
    <2> QED BY <1>3, <2>1, <2>2
  <1>7. Recalls!AckedKept'
    <2>1. Recalls!AckedKept
      BY DEF Recalls!SpoolInv
    <2>2. \A n \in acked' : n \in Recalls!Held' \/ n \in copied'
      BY <1>0, <1>2, <2>1 DEF Recalls!AckedKept
    <2>3. \A n \in copied' : inbox'[subject'[n]].status # "none"
      BY <1>0, <1>2, <2>1, RecallFile DEF Recalls!AckedKept
    <2> QED BY <2>2, <2>3 DEF Recalls!AckedKept
  <1>8. Recalls!RowsOK' /\ Recalls!ClosedRowsSettled'
    BY <1>0, <1>3, RecallJobs DEF Recalls!SpoolInv, Recalls!RowsOK, Recalls!ClosedRowsSettled
  <1>9. [Recalls!Log!Next]_(Recalls!Log!vars)
    <2>1. CASE acked' = acked
      BY <1>0, <1>2, <2>1 DEF Recalls!Log!vars
    <2>2. CASE acked' # acked
      <3> DEFINE N == Len(subject) + 1
      <3>1. N \in Recalls!Notices /\ N \notin acked
        BY <1>0, RecallFile, RecallConstants DEF Recalls!Notices
      <3>2. N \notin Recalls!Held /\ Recalls!Held' = Recalls!Held \cup {N}
        <4>1. acked' \ acked = {N} /\ Recalls!Held \subseteq acked
          BY <1>1, <2>2, <3>1 DEF Recalls!Held
        <4> QED BY <1>2, <3>1, <4>1
      <3>3. {} \in Recalls!Log!Released /\ Recalls!Held' = (Recalls!Held \ {}) \cup {N}
        BY <3>2 DEF Recalls!Log!Released
      <3>4. Recalls!Log!Hold(N)
        BY <1>0, <3>2, <3>3 DEF Recalls!Log!Hold
      <3> QED BY <3>1, <3>4 DEF Recalls!Log!Next
    <2> QED BY <2>1, <2>2
  <1> QED BY <1>2, <1>5, <1>6, <1>7, <1>8, <1>9 DEF Recalls!SpoolInv

LEMMA RecallRefused ==
    ASSUME Recalls!SpoolAssumption, Recalls!SpoolInv, NEW m \in RecallMessages,
           Recalls!AppendRefused(m)
    PROVE  /\ Recalls!SpoolInv'
           /\ [Recalls!Log!Next]_(Recalls!Log!vars)
  <1>0. /\ Len(subject) < MaxNotices /\ subject' = Append(subject, m)
        /\ UNCHANGED <<wal, acked, torn, up, stop, job, inbox, recorded, copied, recallFaults>>
    BY DEF Recalls!AppendRefused, Recalls!Notice
  <1>1. /\ subject' \in Seq(RecallMessages) /\ Len(subject') = Len(subject) + 1
        /\ \A n \in 1..Len(subject) : subject'[n] = subject[n]
    BY <1>0, RecallFile
  <1>2. Recalls!Held' = Recalls!Held /\ Recalls!FileOrdered'
    BY <1>0, RecallSameFile
  <1>3. Recalls!TypeOK'
    <2>1. /\ acked' \subseteq 1..Len(subject') /\ copied' \subseteq 1..Len(subject')
          /\ Len(subject') <= MaxNotices /\ \A k \in DOMAIN wal' : wal'[k].n <= Len(subject')
      BY <1>0, <1>1, RecallFile, RecallConstants
    <2> QED BY <1>0, <1>1, <2>1 DEF Recalls!SpoolInv, Recalls!TypeOK
  <1>4. Recalls!AckedKept'
    BY <1>0, <1>1, <1>2, RecallFile DEF Recalls!SpoolInv, Recalls!AckedKept
  <1>5. Recalls!DrainOK' /\ Recalls!RowsOK' /\ Recalls!ClosedRowsSettled'
    BY <1>0 DEF Recalls!SpoolInv, Recalls!DrainOK, Recalls!RowsOK, Recalls!ClosedRowsSettled
  <1>6. UNCHANGED Recalls!Log!vars
    BY <1>0, <1>2 DEF Recalls!Log!vars
  <1> QED BY <1>2, <1>3, <1>4, <1>5, <1>6 DEF Recalls!SpoolInv

(* The position of a worker that goes on to claim a row. *)
LEMMA RecallClaims ==
    ASSUME NEW last \in BOOLEAN, job' = [Recalls!At("claim") EXCEPT !.last = last]
    PROVE  job' \in Recalls!Jobs /\ job'.pc = "claim"
  BY DEF Recalls!Jobs, Recalls!AtHead, Recalls!At

(* Whatever the recovery takes away, it keeps the whole frames before the   *)
(* first torn one, in their order: every acknowledged frame that was there. *)
LEMMA RecallOpens ==
    ASSUME Recalls!SpoolAssumption, Recalls!SpoolInv, Recalls!open
    PROVE  /\ Recalls!SpoolInv'
           /\ [Recalls!Log!Next]_(Recalls!Log!vars)
  <1>0. /\ ~up /\ up' = TRUE /\ wal' \in Recalls!Recovered(wal)
        /\ UNCHANGED <<subject, acked, torn, stop, job, inbox, recorded, copied, recallFaults>>
    BY DEF Recalls!open
  <1>1. PICK till \in {Len(wal)} \cup {k \in DOMAIN wal : ~wal[k].whole} :
           wal' \in Recalls!InOrder({wal[k] : k \in {j \in 1..till : wal[j].whole}}, Len(wal))
    BY <1>0 DEF Recalls!Recovered
  <1> DEFINE S == {wal[k] : k \in {j \in 1..till : wal[j].whole}}
  <1>2. till \in Nat /\ till <= Len(wal) /\ (till = Len(wal) \/ (till \in 1..Len(wal) /\ ~wal[till].whole))
    BY RecallFile
  <1>3. \A f \in S : f \in Recalls!Frames /\ f.whole /\ \E k \in 1..Len(wal) : wal[k] = f
    <2>1. SUFFICES ASSUME NEW k \in 1..till, wal[k].whole
                   PROVE  wal[k] \in Recalls!Frames /\ k \in 1..Len(wal)
      OBVIOUS
    <2>2. Len(wal) \in Nat
      BY RecallFile
    <2>3. k \in 1..Len(wal)
      BY <1>2, <2>2
    <2> QED BY <2>3, RecallFile
  <1>4. PICK l \in 0..Len(wal) : wal' \in [1..l -> S]
    BY <1>1 DEF Recalls!InOrder
  <1>5. /\ \A f \in S : \E k \in DOMAIN wal' : wal'[k] = f
        /\ \A j, k \in DOMAIN wal' : j < k => wal'[j].n < wal'[k].n
    BY <1>1 DEF Recalls!InOrder
  <1>6. \A k \in 1..till : wal[k].whole => wal[k] \in S
    OBVIOUS
  <1> HIDE DEF S
  <1>7. wal' \in Seq(Recalls!Frames) /\ Len(wal') = l /\ DOMAIN wal' = 1..l
        /\ \A k \in 1..l : wal'[k] \in S
    <2>1. \A k \in 1..l : wal'[k] \in S /\ wal'[k] \in Recalls!Frames
      BY <1>3, <1>4
    <2>2. wal' \in [1..l -> Recalls!Frames] /\ l \in Nat
      BY <1>4, <2>1, RecallFile
    <2> QED BY <2>1, <2>2
  <1>8. Recalls!FileOrdered'
    <2>1. \A j, k \in 1..Len(wal') : j < k => wal'[j].n < wal'[k].n
      BY <1>5, <1>7
    <2>2. \A k \in 1..l : wal'[k].whole
      BY <1>3, <1>7
    <2>3. \A k \in 1..Len(wal') : \A j \in 1..k : j \in 1..l
      BY <1>7, RecallFile
    <2> QED BY <2>1, <2>2, <2>3 DEF Recalls!FileOrdered
  <1>9. Recalls!Held' = Recalls!Held
    <2>1. Recalls!Held' = {n \in acked : \E k \in 1..Len(wal') : wal'[k].n = n}
      BY <1>0, <1>7, <1>8, RecallHeldNext
    <2>2. Recalls!Held = {n \in acked : \E k \in 1..Len(wal) : wal[k].n = n}
      BY RecallHeld
    <2>3. ASSUME NEW n \in acked, NEW k \in 1..Len(wal'), wal'[k].n = n
          PROVE  \E j \in 1..Len(wal) : wal[j].n = n
      <3>1. wal'[k] \in S
        BY <1>7
      <3>2. PICK j \in 1..Len(wal) : wal[j] = wal'[k]
        BY <1>3, <3>1
      <3> QED BY <2>3, <3>2
    <2>4. ASSUME NEW n \in acked, NEW k \in 1..Len(wal), wal[k].n = n
          PROVE  \E j \in 1..Len(wal') : wal'[j].n = n
      <3>1. \A j \in 1..k : wal[j].whole
        BY <2>4 DEF Recalls!SpoolInv, Recalls!FileOrdered
      <3>2. k \in 1..till
        <4>1. Len(wal) \in Nat
          BY RecallFile
        <4> QED BY <1>2, <3>1, <4>1
      <3>3. wal[k] \in S
        BY <1>6, <3>1, <3>2
      <3>4. PICK j \in DOMAIN wal' : wal'[j] = wal[k]
        BY <1>5, <3>3
      <3> QED BY <1>7, <2>4, <3>4
    <2> QED BY <2>1, <2>2, <2>3, <2>4
  <1>10. Recalls!TypeOK'
    <2>1. \A k \in DOMAIN wal' : wal'[k].n <= Len(subject')
      <3> SUFFICES ASSUME NEW k \in 1..l PROVE wal'[k].n <= Len(subject)
        BY <1>0, <1>7
      <3>1. PICK j \in 1..Len(wal) : wal[j] = wal'[k]
        BY <1>3, <1>7
      <3> QED BY <3>1, RecallFile
    <2>2. up' \in BOOLEAN
      BY <1>0
    <2> QED BY <1>0, <1>7, <2>1, <2>2 DEF Recalls!SpoolInv, Recalls!TypeOK
  <1>11. Recalls!DrainOK'
    BY <1>0 DEF Recalls!SpoolInv, Recalls!DrainOK
  <1>12. Recalls!AckedKept' /\ Recalls!RowsOK' /\ Recalls!ClosedRowsSettled'
    BY <1>0, <1>9 DEF Recalls!SpoolInv, Recalls!AckedKept, Recalls!RowsOK, Recalls!ClosedRowsSettled
  <1>13. UNCHANGED Recalls!Log!vars
    BY <1>0, <1>9 DEF Recalls!Log!vars
  <1> QED BY <1>8, <1>10, <1>11, <1>12, <1>13 DEF Recalls!SpoolInv

(* The worker copies the next frame of its snapshot into the inbox. *)
LEMMA RecallCopies ==
    ASSUME Recalls!SpoolAssumption, Recalls!SpoolInv, Recalls!enqueue_recall
    PROVE  /\ Recalls!SpoolInv'
           /\ [Recalls!Log!Next]_(Recalls!Log!vars)
  <1> DEFINE n == wal[job.i].n
             m == subject[n]
  <1>0. /\ up /\ job.pc = "enqueue" /\ job.i <= job.n
        /\ inbox' = IF inbox[m] = Recalls!NoRow THEN [inbox EXCEPT ![m].status = "pending"]
                                                ELSE inbox
        /\ copied' = copied \cup {n} /\ job' = [job EXCEPT !.i = @ + 1]
        /\ UNCHANGED <<wal, subject, acked, torn, up, stop, recorded, recallFaults>>
    BY DEF Recalls!enqueue_recall, Recalls!Working
  <1>1. /\ job \in Recalls!Jobs /\ job.i \in Nat /\ job.n \in Nat /\ job.n <= Len(wal)
        /\ 1 <= job.i
    BY <1>0, RecallJobs DEF Recalls!SpoolInv, Recalls!TypeOK, Recalls!DrainOK
  <1>2. n \in 1..Len(subject) /\ m \in RecallMessages
    <2>1. job.i \in 1..Len(wal)
      BY <1>0, <1>1, RecallFile
    <2> QED BY <2>1, RecallFile
  <1>3. /\ job' \in Recalls!Jobs /\ job'.pc = "enqueue" /\ job'.n = job.n /\ job'.i = job.i + 1
    BY <1>0, <1>1, RecallJobs
  <1>4. Recalls!Held' = Recalls!Held /\ Recalls!FileOrdered'
    BY <1>0, RecallSameFile
  <1> HIDE DEF m
  <1>5. /\ inbox' \in [RecallMessages -> Recalls!Rows] /\ inbox'[m].status # "none"
        /\ \A k \in RecallMessages :
              inbox'[k] = inbox[k] \/ (inbox[k] = Recalls!NoRow /\ inbox'[k].status = "pending")
    <2>1. inbox \in [RecallMessages -> Recalls!Rows]
      BY DEF Recalls!SpoolInv, Recalls!TypeOK
    <2>2. CASE inbox[m] = Recalls!NoRow
      <3>1. inbox' = [inbox EXCEPT ![m].status = "pending"]
        BY <1>0, <2>2
      <3> QED BY <1>2, <2>1, <2>2, <3>1 DEF Recalls!Rows, Recalls!NoRow
    <2>3. CASE inbox[m] # Recalls!NoRow
      <3>1. inbox' = inbox
        BY <1>0, <2>3
      <3>2. inbox[m].status # "none"
        BY <1>2, <2>3 DEF Recalls!SpoolInv, Recalls!RowsOK
      <3> QED BY <2>1, <3>1, <3>2
    <2> QED BY <2>2, <2>3
  <1>6. Recalls!TypeOK'
    BY <1>0, <1>2, <1>3, <1>5 DEF Recalls!SpoolInv, Recalls!TypeOK
  <1>7. Recalls!DrainOK'
    <2>1. \A k \in 1..(job.i - 1) : wal[k].n \in copied
      BY <1>0 DEF Recalls!SpoolInv, Recalls!DrainOK
    <2>2. \A k \in 1..(job'.i - 1) : wal'[k].n \in copied'
      BY <1>0, <1>1, <1>3, <2>1
    <2>3. \A k \in 1..job.n : wal[k].whole
      BY <1>0 DEF Recalls!SpoolInv, Recalls!DrainOK
    <2> QED BY <1>0, <1>1, <1>3, <2>2, <2>3 DEF Recalls!DrainOK
  <1>8. Recalls!AckedKept'
    <2>1. \A k \in copied : inbox[subject[k]].status # "none" /\ subject[k] \in RecallMessages
      BY RecallFile DEF Recalls!SpoolInv, Recalls!AckedKept
    <2>2. \A k \in copied : inbox'[subject[k]].status # "none"
      BY <1>5, <2>1
    <2>3. \A k \in copied' : inbox'[subject'[k]].status # "none"
      BY <1>0, <1>5, <2>2 DEF m
    <2>4. \A k \in acked' : k \in Recalls!Held' \/ k \in copied'
      BY <1>0, <1>4 DEF Recalls!SpoolInv, Recalls!AckedKept
    <2> QED BY <2>3, <2>4 DEF Recalls!AckedKept
  <1>9. Recalls!RowsOK' /\ Recalls!ClosedRowsSettled'
    BY <1>0, <1>3, <1>5 DEF Recalls!SpoolInv, Recalls!RowsOK, Recalls!ClosedRowsSettled
  <1>10. [Recalls!Log!Next]_(Recalls!Log!vars)
    <2>1. n \in Recalls!Notices
      BY <1>2, RecallFile, RecallConstants DEF Recalls!Notices
    <2>2. Recalls!Log!Settle({n})
      BY <1>0, <1>4 DEF Recalls!Log!Settle
    <2> QED BY <2>1, <2>2 DEF Recalls!Log!Next
  <1> QED BY <1>4, <1>6, <1>7, <1>8, <1>9, <1>10 DEF Recalls!SpoolInv

LEMMA RecallRest ==
    ASSUME NEW S, NEW s \in Seq(S), NEW j \in Nat, j <= Len(s)
    PROVE  LET t == SubSeq(s, j + 1, Len(s))
           IN /\ t \in Seq(S) /\ Len(t) = Len(s) - j
              /\ \A k \in 1..(Len(s) - j) : k + j \in 1..Len(s) /\ t[k] = s[k + j]
  <1>1. SubSeq(s, j + 1, Len(s)) \in Seq(S)
    OBVIOUS
  <1>2. Len(SubSeq(s, j + 1, Len(s))) = Len(s) - j
    OBVIOUS
  <1>3. \A k \in 1..(Len(s) - j) : SubSeq(s, j + 1, Len(s))[k] = s[k + j]
    OBVIOUS
  <1> QED BY <1>1, <1>2, <1>3

(* The snapshot, all of it copied, is cut off the file. *)
LEMMA RecallCuts ==
    ASSUME Recalls!SpoolAssumption, Recalls!SpoolInv, Recalls!remove_snapshot_prefix
    PROVE  /\ Recalls!SpoolInv'
           /\ [Recalls!Log!Next]_(Recalls!Log!vars)
  <1>0. /\ up /\ job.pc = "enqueue" /\ job.i > job.n
        /\ wal' = SubSeq(wal, job.n + 1, Len(wal))
        /\ job' = [Recalls!At("claim") EXCEPT !.last = job.last]
        /\ UNCHANGED <<subject, acked, torn, up, stop, inbox, recorded, copied, recallFaults>>
    BY DEF Recalls!remove_snapshot_prefix, Recalls!Working
  <1>1. /\ job.i \in Nat /\ job.n \in Nat /\ job.n <= Len(wal) /\ job.i = job.n + 1
        /\ job' \in Recalls!Jobs /\ job'.pc = "claim"
    <2>1. job \in Recalls!Jobs /\ job.n <= Len(wal) /\ job.i <= job.n + 1
      BY <1>0 DEF Recalls!SpoolInv, Recalls!TypeOK, Recalls!DrainOK
    <2>2. job.i \in Nat /\ job.n \in Nat /\ job.last \in BOOLEAN
      BY <2>1, RecallJobs
    <2>3. job' \in Recalls!Jobs /\ job'.pc = "claim"
      BY <1>0, <2>2, RecallClaims
    <2> QED BY <1>0, <2>1, <2>2, <2>3
  <1>2. \A k \in 1..job.n : wal[k].n \in copied
    BY <1>0, <1>1 DEF Recalls!SpoolInv, Recalls!DrainOK
  <1>3. /\ wal' \in Seq(Recalls!Frames) /\ Len(wal') = Len(wal) - job.n
        /\ DOMAIN wal' = 1..Len(wal')
        /\ \A k \in 1..Len(wal') : k + job.n \in 1..Len(wal) /\ wal'[k] = wal[k + job.n]
    <2>1. wal \in Seq(Recalls!Frames) /\ job.n \in Nat /\ job.n <= Len(wal)
      BY <1>1, RecallFile
    <2> DEFINE n == job.n
    <2>2. n \in 0..Len(wal) /\ wal' = SubSeq(wal, n + 1, Len(wal))
      BY <1>0, <2>1, RecallFile
    <2> HIDE DEF n
    <2>3. /\ wal' \in Seq(Recalls!Frames) /\ Len(wal') = Len(wal) - n
          /\ \A k \in 1..(Len(wal) - n) : k + n \in 1..Len(wal) /\ wal'[k] = wal[k + n]
      BY <2>1, <2>2, RecallRest
    <2> QED BY <2>3 DEF n
  <1>4. Recalls!FileOrdered'
    <2>1. \A j, k \in 1..Len(wal') : j < k => wal'[j].n < wal'[k].n
      BY <1>1, <1>3 DEF Recalls!SpoolInv, Recalls!FileOrdered
    <2>2. ASSUME NEW k \in 1..Len(wal'), wal'[k].n \in acked', NEW j \in 1..k
          PROVE  wal'[j].whole
      <3>1. j \in 1..Len(wal') /\ j + job.n \in 1..(k + job.n)
        BY <1>1, <1>3
      <3> QED BY <1>0, <1>3, <2>2, <3>1 DEF Recalls!SpoolInv, Recalls!FileOrdered
    <2> QED BY <2>1, <2>2 DEF Recalls!FileOrdered
  <1> DEFINE S == {n \in Recalls!Held : \E k \in 1..job.n : wal[k].n = n}
  <1>5. Recalls!Held = {n \in acked : \E k \in 1..Len(wal) : wal[k].n = n}
    BY RecallHeld
  <1>6. Recalls!Held' = Recalls!Held \ S
    <2>1. Recalls!Held' = {n \in acked : \E k \in 1..Len(wal') : wal'[k].n = n}
      BY <1>0, <1>3, <1>4, RecallHeldNext
    <2>2. ASSUME NEW n \in acked, NEW k \in 1..Len(wal'), wal'[k].n = n
          PROVE  n \in Recalls!Held /\ \A j \in 1..job.n : wal[j].n # n
      <3>1. k + job.n \in 1..Len(wal) /\ wal[k + job.n].n = n
        BY <1>3, <2>2
      <3>2. n \in Recalls!Held
        BY <1>5, <3>1
      <3>3. ASSUME NEW j \in 1..job.n PROVE wal[j].n # n
        <4>1. j \in 1..Len(wal) /\ j < k + job.n
          BY <1>1, <1>3, RecallFile
        <4>2. wal[j].n < wal[k + job.n].n
          BY <3>1, <4>1 DEF Recalls!SpoolInv, Recalls!FileOrdered
        <4> QED BY <3>1, <4>1, <4>2, RecallFile
      <3> QED BY <3>2, <3>3
    <2>3. ASSUME NEW n \in Recalls!Held, n \notin S
          PROVE  n \in acked /\ \E k \in 1..Len(wal') : wal'[k].n = n
      <3>1. n \in acked
        BY <1>5
      <3>2. PICK k \in 1..Len(wal) : wal[k].n = n
        BY <1>5
      <3>3. k \notin 1..job.n
        BY <2>3, <3>2
      <3>4. k - job.n \in 1..Len(wal') /\ (k - job.n) + job.n = k
        BY <1>1, <1>3, <3>3, RecallFile
      <3>5. wal'[k - job.n] = wal[k]
        BY <1>3, <3>4
      <3> QED BY <3>1, <3>2, <3>4, <3>5
    <2> QED BY <2>1, <2>2, <2>3
  <1>7. S \in Recalls!Log!Released
    <2>1. S \subseteq Recalls!Held \cap copied
      BY <1>2
    <2>2. ASSUME NEW a \in S, NEW b \in Recalls!Held, b < a PROVE b \in S
      <3>1. PICK k \in 1..job.n : wal[k].n = a
        OBVIOUS
      <3>2. PICK j \in 1..Len(wal) : wal[j].n = b
        BY <1>5
      <3>3. k \in 1..Len(wal) /\ wal[k].n \in Nat /\ wal[j].n \in Nat
        BY <1>1, RecallFile
      <3>4. ~(k < j)
        <4>1. k < j => a < b
          BY <3>1, <3>2, <3>3 DEF Recalls!SpoolInv, Recalls!FileOrdered
        <4> QED BY <2>2, <3>1, <3>2, <3>3, <4>1
      <3>5. j \in 1..job.n
        BY <1>1, <3>4, RecallFile
      <3> QED BY <3>2, <3>5
    <2> QED BY <2>1, <2>2 DEF Recalls!Log!Released
  <1>8. [Recalls!Log!Next]_(Recalls!Log!vars)
    BY <1>0, <1>6, <1>7 DEF Recalls!Log!Next, Recalls!Log!Release
  <1>9. Recalls!TypeOK'
    <2>1. \A k \in DOMAIN wal' : wal'[k].n <= Len(subject')
      BY <1>0, <1>3, RecallFile
    <2> QED BY <1>0, <1>1, <1>3, <2>1 DEF Recalls!SpoolInv, Recalls!TypeOK
  <1>10. Recalls!DrainOK'
    BY <1>0, <1>1 DEF Recalls!DrainOK
  <1>11. Recalls!AckedKept'
    <2>1. \A n \in S : n \in copied
      BY <1>2
    <2> QED BY <1>0, <1>6, <2>1 DEF Recalls!SpoolInv, Recalls!AckedKept
  <1>12. Recalls!RowsOK' /\ Recalls!ClosedRowsSettled'
    BY <1>0, <1>1 DEF Recalls!SpoolInv, Recalls!RowsOK, Recalls!ClosedRowsSettled
  <1> QED BY <1>4, <1>8, <1>9, <1>10, <1>11, <1>12 DEF Recalls!SpoolInv

(* Steps of the worker that leave the file alone and lose no row. *)
LEMMA RecallQuiet ==
    ASSUME Recalls!SpoolAssumption, Recalls!SpoolInv,
           UNCHANGED <<wal, subject, acked, torn, copied>>,
           up' \in BOOLEAN, stop' \in BOOLEAN, job' \in Recalls!Jobs,
           inbox' \in [RecallMessages -> Recalls!Rows], recorded' \subseteq RecallMessages,
           recallFaults' = recallFaults
             \/ (recallFaults < MaxRecallFaults /\ recallFaults' = recallFaults + 1),
           \A m \in RecallMessages : inbox[m].status # "none" => inbox'[m].status # "none",
           Recalls!DrainOK', Recalls!RowsOK', Recalls!ClosedRowsSettled'
    PROVE  /\ Recalls!SpoolInv'
           /\ [Recalls!Log!Next]_(Recalls!Log!vars)
  <1>1. Recalls!Held' = Recalls!Held /\ Recalls!FileOrdered'
    BY RecallSameFile
  <1>2. recallFaults' \in 0..MaxRecallFaults
    <2>1. recallFaults \in 0..MaxRecallFaults
      BY DEF Recalls!SpoolInv, Recalls!TypeOK
    <2> QED BY <2>1, RecallConstants
  <1>3. Recalls!TypeOK'
    BY <1>2 DEF Recalls!SpoolInv, Recalls!TypeOK
  <1>4. Recalls!AckedKept'
    <2>1. \A n \in copied : inbox'[subject[n]].status # "none"
      BY RecallFile DEF Recalls!SpoolInv, Recalls!AckedKept
    <2> QED BY <1>1, <2>1 DEF Recalls!SpoolInv, Recalls!AckedKept
  <1>5. UNCHANGED Recalls!Log!vars
    BY <1>1 DEF Recalls!Log!vars
  <1> QED BY <1>1, <1>3, <1>4, <1>5 DEF Recalls!SpoolInv

(* Steps that only move the worker: it reads the file, gives up a claim or  *)
(* a drain, sleeps or ends.                                                 *)
LEMMA RecallMoves ==
    ASSUME Recalls!SpoolAssumption, Recalls!SpoolInv,
           \/ Recalls!DrainSnapshot \/ Recalls!DrainFails \/ Recalls!shutdown \/ Recalls!leave
           \/ Recalls!ClaimIdle \/ Recalls!HandleFails \/ Recalls!MarkFails \/ Recalls!Kill
    PROVE  /\ Recalls!SpoolInv'
           /\ [Recalls!Log!Next]_(Recalls!Log!vars)
  <1>0. /\ UNCHANGED <<wal, subject, acked, torn, copied, inbox, recorded>>
        /\ \/ recallFaults' = recallFaults
           \/ (recallFaults < MaxRecallFaults /\ recallFaults' = recallFaults + 1)
    BY DEF Recalls!DrainSnapshot, Recalls!DrainFails, Recalls!shutdown, Recalls!leave,
           Recalls!ClaimIdle, Recalls!HandleFails, Recalls!MarkFails, Recalls!Kill
  <1>1. /\ up \in BOOLEAN /\ stop \in BOOLEAN /\ job \in Recalls!Jobs
        /\ inbox \in [RecallMessages -> Recalls!Rows] /\ recorded \subseteq RecallMessages
    BY DEF Recalls!SpoolInv, Recalls!TypeOK
  <1>2. Recalls!DrainOK /\ Recalls!RowsOK /\ Recalls!ClosedRowsSettled
    BY DEF Recalls!SpoolInv
  <1>3. Recalls!ClosedRowsSettled'
    BY <1>0, <1>2 DEF Recalls!ClosedRowsSettled
  <1> SUFFICES /\ up' \in BOOLEAN /\ stop' \in BOOLEAN /\ job' \in Recalls!Jobs
               /\ Recalls!DrainOK' /\ Recalls!RowsOK'
    BY <1>0, <1>1, <1>3, RecallQuiet
  <1>4. ASSUME job' \in Recalls!Jobs, job'.pc \in {"head", "claim"}, up' \in BOOLEAN,
               up' => job'.pc \in {"head", "claim"}, ~up' => job'.pc = "head",
               stop' \in BOOLEAN
        PROVE  /\ up' \in BOOLEAN /\ stop' \in BOOLEAN /\ job' \in Recalls!Jobs
               /\ Recalls!DrainOK' /\ Recalls!RowsOK'
    BY <1>0, <1>2, <1>4 DEF Recalls!DrainOK, Recalls!RowsOK
  <1>5. CASE Recalls!DrainSnapshot
    <2>1. up /\ up' = up /\ stop' = stop
      BY <1>5 DEF Recalls!DrainSnapshot, Recalls!Working
    <2>2. CASE wal # <<>> /\ Recalls!Decodes(wal)
      <3>1. job' = [Recalls!At("enqueue") EXCEPT !.n = Len(wal), !.last = stop]
        BY <1>5, <2>2 DEF Recalls!DrainSnapshot
      <3>2. job' \in Recalls!Jobs /\ job'.pc = "enqueue" /\ job'.n = Len(wal) /\ job'.i = 1
        <4> DEFINE L == Len(wal)
        <4>1. L \in Nat
          BY RecallFile
        <4>2. job' = [Recalls!At("enqueue") EXCEPT !.n = L, !.last = stop] /\ stop \in BOOLEAN
          BY <1>1, <3>1
        <4> HIDE DEF L
        <4>3. job' \in Recalls!Jobs /\ job'.pc = "enqueue" /\ job'.n = L /\ job'.i = 1
          BY <4>1, <4>2 DEF Recalls!Jobs, Recalls!AtHead, Recalls!At
        <4> QED BY <4>3 DEF L
      <3>3. \A k \in 1..Len(wal) : wal[k].whole
        BY <2>2, RecallFile DEF Recalls!Decodes
      <3>4. Recalls!DrainOK'
        BY <1>0, <2>1, <3>2, <3>3, RecallFile DEF Recalls!DrainOK
      <3>5. Recalls!RowsOK'
        BY <1>0, <1>2, <3>2 DEF Recalls!RowsOK
      <3> QED BY <1>1, <2>1, <3>2, <3>4, <3>5
    <2>3. CASE ~(wal # <<>> /\ Recalls!Decodes(wal))
      <3>1. job' = [Recalls!At("claim") EXCEPT !.last = stop]
        BY <1>5, <2>3 DEF Recalls!DrainSnapshot
      <3>2. job' \in Recalls!Jobs /\ job'.pc = "claim"
        BY <1>1, <3>1, RecallClaims
      <3> QED BY <1>1, <1>4, <2>1, <3>2
    <2> QED BY <2>2, <2>3
  <1>6. CASE Recalls!DrainFails
    <2>1. up /\ up' = up /\ stop' = stop /\ job' = [Recalls!At("claim") EXCEPT !.last = job.last]
      BY <1>6 DEF Recalls!DrainFails, Recalls!Working
    <2>2. job' \in Recalls!Jobs /\ job'.pc = "claim"
      <3>1. job.last \in BOOLEAN
        BY <1>1, RecallJobs
      <3> QED BY <2>1, <3>1, RecallClaims
    <2> QED BY <1>1, <1>4, <2>1, <2>2
  <1>7. CASE Recalls!shutdown
    <2>1. up' = up /\ job' = job
      BY <1>7 DEF Recalls!shutdown
    <2>2. stop' \in BOOLEAN
      BY <1>7, Zenon DEF Recalls!shutdown
    <2> QED BY <1>0, <1>1, <1>2, <2>1, <2>2 DEF Recalls!DrainOK, Recalls!RowsOK
  <1>8. CASE Recalls!leave \/ Recalls!Kill
    <2>1. up' = FALSE /\ stop' = FALSE /\ job' = Recalls!AtHead
      BY <1>8 DEF Recalls!leave, Recalls!Kill
    <2> QED BY <1>4, <2>1, RecallJobs
  <1>9. CASE Recalls!ClaimIdle \/ Recalls!MarkFails
    <2>1. up' = up /\ stop' = stop /\ job' = Recalls!AtHead
      BY <1>9 DEF Recalls!ClaimIdle, Recalls!MarkFails
    <2> QED BY <1>1, <1>4, <2>1, RecallJobs
  <1>10. CASE Recalls!HandleFails
    <2>1. up /\ up' = up /\ stop' = stop /\ job.pc = "handle" /\ job' = [job EXCEPT !.pc = "failed"]
      BY <1>10 DEF Recalls!HandleFails, Recalls!Working
    <2>2. job' \in Recalls!Jobs /\ job'.pc = "failed" /\ job'.m = job.m
      BY <1>1, <2>1, RecallJobs
    <2> QED BY <1>0, <1>1, <1>2, <2>1, <2>2 DEF Recalls!DrainOK, Recalls!RowsOK
  <1> QED BY <1>5, <1>6, <1>7, <1>8, <1>9, <1>10

(* Steps on a row of the inbox: it is claimed, recorded, closed or given    *)
(* back, or its claim runs out.                                             *)
LEMMA RecallRowSteps ==
    ASSUME Recalls!SpoolAssumption, Recalls!SpoolInv,
           \/ \E m \in RecallMessages : Recalls!claim_recall(m) \/ Recalls!LeaseEnds(m)
           \/ Recalls!handle_recall \/ Recalls!mark_recall
    PROVE  /\ Recalls!SpoolInv'
           /\ [Recalls!Log!Next]_(Recalls!Log!vars)
  <1>0. UNCHANGED <<wal, subject, acked, torn, copied, up, stop, recallFaults>>
    BY DEF Recalls!claim_recall, Recalls!LeaseEnds, Recalls!handle_recall, Recalls!mark_recall
  <1>1. /\ up' \in BOOLEAN /\ stop' \in BOOLEAN /\ job \in Recalls!Jobs
        /\ inbox \in [RecallMessages -> Recalls!Rows] /\ recorded \subseteq RecallMessages
    BY <1>0 DEF Recalls!SpoolInv, Recalls!TypeOK
  <1>2. Recalls!DrainOK /\ Recalls!RowsOK /\ Recalls!ClosedRowsSettled
    BY DEF Recalls!SpoolInv
  <1> SUFFICES /\ job' \in Recalls!Jobs /\ inbox' \in [RecallMessages -> Recalls!Rows]
               /\ recorded' \subseteq RecallMessages
               /\ \A m \in RecallMessages : inbox[m].status # "none" => inbox'[m].status # "none"
               /\ Recalls!DrainOK' /\ Recalls!RowsOK' /\ Recalls!ClosedRowsSettled'
    BY <1>0, <1>1, RecallQuiet
  <1>3. ASSUME NEW m \in RecallMessages, Recalls!claim_recall(m)
        PROVE  /\ job' \in Recalls!Jobs /\ inbox' \in [RecallMessages -> Recalls!Rows]
               /\ recorded' \subseteq RecallMessages
               /\ \A k \in RecallMessages : inbox[k].status # "none" => inbox'[k].status # "none"
               /\ Recalls!DrainOK' /\ Recalls!RowsOK' /\ Recalls!ClosedRowsSettled'
    <2>1. /\ up /\ job' = [Recalls!At("handle") EXCEPT !.m = m] /\ recorded' = recorded
          /\ Recalls!Claimable(m)
      BY <1>3 DEF Recalls!claim_recall, Recalls!Working
    <2>2. job' \in Recalls!Jobs /\ job'.pc = "handle" /\ job'.m = m
      BY <2>1, RecallJobs
    <2>3. inbox[m] \in Recalls!Rows /\ inbox[m].attempts \in Nat
      BY <1>1 DEF Recalls!Rows
    <2>4. /\ inbox'[m].status = "claimed"
          /\ inbox' \in [RecallMessages -> Recalls!Rows]
          /\ \A k \in RecallMessages \ {m} : inbox'[k] = inbox[k]
                \/ (inbox[k].status = "claimed" /\ inbox'[k].status = "pending")
      <3> DEFINE r == [status |-> "claimed", late |-> FALSE, attempts |-> inbox[m].attempts + 1]
      <3>1. inbox' = [k \in RecallMessages |-> IF k = m THEN r ELSE Recalls!Returned(k)]
        BY <1>3 DEF Recalls!claim_recall
      <3>2. r \in Recalls!Rows /\ r.status = "claimed"
        BY <2>3 DEF Recalls!Rows
      <3>3. \A k \in RecallMessages :
                /\ Recalls!Returned(k) \in Recalls!Rows
                /\ Recalls!Returned(k) = inbox[k]
                    \/ (inbox[k].status = "claimed" /\ Recalls!Returned(k).status = "pending")
        BY <1>1 DEF Recalls!Returned, Recalls!Rows
      <3> HIDE DEF r
      <3> QED BY <3>1, <3>2, <3>3
    <2>5. \A k \in RecallMessages : inbox[k].status # "none" => inbox'[k].status # "none"
      BY <2>4
    <2>6. Recalls!DrainOK' /\ Recalls!RowsOK' /\ Recalls!ClosedRowsSettled'
      BY <1>0, <1>2, <2>1, <2>2, <2>4
         DEF Recalls!DrainOK, Recalls!RowsOK, Recalls!ClosedRowsSettled
    <2> QED BY <1>1, <2>1, <2>2, <2>4, <2>5, <2>6
  <1>4. ASSUME NEW m \in RecallMessages, Recalls!LeaseEnds(m)
        PROVE  /\ job' \in Recalls!Jobs /\ inbox' \in [RecallMessages -> Recalls!Rows]
               /\ recorded' \subseteq RecallMessages
               /\ \A k \in RecallMessages : inbox[k].status # "none" => inbox'[k].status # "none"
               /\ Recalls!DrainOK' /\ Recalls!RowsOK' /\ Recalls!ClosedRowsSettled'
    <2>1. /\ inbox' = [inbox EXCEPT ![m].late = TRUE] /\ inbox[m].status = "claimed"
          /\ job' = job /\ recorded' = recorded
      BY <1>4 DEF Recalls!LeaseEnds
    <2>2. /\ inbox' \in [RecallMessages -> Recalls!Rows] /\ inbox'[m].status = "claimed"
          /\ \A k \in RecallMessages \ {m} : inbox'[k] = inbox[k]
      BY <1>1, <2>1 DEF Recalls!Rows
    <2> QED BY <1>0, <1>1, <1>2, <2>1, <2>2
            DEF Recalls!DrainOK, Recalls!RowsOK, Recalls!ClosedRowsSettled
  <1>5. CASE Recalls!handle_recall
    <2>1. /\ up /\ job.pc = "handle" /\ recorded' = recorded \cup {job.m}
          /\ job' = [job EXCEPT !.pc = "applied"] /\ inbox' = inbox
      BY <1>5 DEF Recalls!handle_recall, Recalls!Working
    <2>2. job' \in Recalls!Jobs /\ job'.pc = "applied" /\ job'.m = job.m
      BY <1>1, <2>1, RecallJobs
    <2> QED BY <1>0, <1>1, <1>2, <2>1, <2>2
            DEF Recalls!DrainOK, Recalls!RowsOK, Recalls!ClosedRowsSettled
  <1>6. CASE Recalls!mark_recall
    <2> DEFINE m == job.m
               s == IF job.pc = "applied" THEN "applied"
                    ELSE Recalls!classify_failure(inbox[m].attempts)
    <2>1. /\ up /\ job.pc \in {"applied", "failed"} /\ job' = Recalls!AtHead
          /\ inbox' = [inbox EXCEPT ![m].late = FALSE, ![m].status = s]
          /\ recorded' = recorded
      BY <1>6 DEF Recalls!mark_recall
    <2>2. m \in RecallMessages /\ (job.pc = "applied" => m \in recorded)
      BY <1>2, <2>1 DEF Recalls!RowsOK
    <2>3. /\ s \in {"applied", "failed", "pending"} /\ (s = "applied" => m \in recorded)
          /\ s = "failed" => inbox[m].attempts >= MaxAttempts
      BY <2>1, <2>2 DEF Recalls!classify_failure
    <2>4. job' \in Recalls!Jobs /\ job'.pc = "head"
      BY <2>1, RecallJobs
    <2> HIDE DEF m, s
    <2>5. /\ inbox' \in [RecallMessages -> Recalls!Rows] /\ inbox'[m].status = s
          /\ inbox'[m].attempts = inbox[m].attempts
          /\ \A k \in RecallMessages \ {m} : inbox'[k] = inbox[k]
      BY <1>1, <2>1, <2>2, <2>3 DEF Recalls!Rows
    <2>6. Recalls!DrainOK' /\ Recalls!RowsOK'
      BY <1>0, <1>2, <2>1, <2>2, <2>3, <2>4, <2>5 DEF Recalls!DrainOK, Recalls!RowsOK
    <2>7. Recalls!ClosedRowsSettled'
      BY <1>2, <2>1, <2>2, <2>3, <2>5 DEF Recalls!ClosedRowsSettled
    <2> QED BY <1>1, <2>1, <2>2, <2>3, <2>4, <2>5, <2>6, <2>7
  <1> QED BY <1>3, <1>4, <1>5, <1>6

LEMMA RecallNext ==
    ASSUME Recalls!SpoolAssumption, Recalls!SpoolInv, [Recalls!Next]_(Recalls!vars)
    PROVE  /\ Recalls!SpoolInv'
           /\ [Recalls!Log!Next]_(Recalls!Log!vars)
  <1>1. CASE UNCHANGED Recalls!vars
    <2>1. UNCHANGED <<wal, subject, acked, torn, copied, up, stop, job, inbox, recorded, recallFaults>>
      BY <1>1 DEF Recalls!vars
    <2>2. /\ Recalls!DrainOK' /\ Recalls!RowsOK' /\ Recalls!ClosedRowsSettled'
          /\ up' \in BOOLEAN /\ stop' \in BOOLEAN /\ job' \in Recalls!Jobs
          /\ inbox' \in [RecallMessages -> Recalls!Rows] /\ recorded' \subseteq RecallMessages
      BY <2>1 DEF Recalls!SpoolInv, Recalls!TypeOK, Recalls!DrainOK, Recalls!RowsOK,
                  Recalls!ClosedRowsSettled
    <2> QED BY <2>1, <2>2, RecallQuiet
  <1>2. CASE Recalls!Next
    BY <1>2, RecallArrives, RecallRefused, RecallOpens, RecallCopies, RecallCuts, RecallMoves,
       RecallRowSteps DEF Recalls!Next, Recalls!Worker
  <1> QED BY <1>1, <1>2

(* For any capacity and any number of notices, kills, torn writes and       *)
(* database errors: a notice whose append succeeded stays in the file until *)
(* the inbox has a row for it, rows are closed only when the recall is      *)
(* recorded or its attempts are used up, and the file implements DurableLog *)
(* (RecallWal::append, recover, drain_wal_to_inbox, remove_snapshot_prefix, *)
(* process_claimed).                                                        *)
THEOREM NoticesAreKept == IngestSpec => NoticesKept
  <1>0. Recalls!SpoolAssumption
    BY IngestAssumption
  <1>1. Recalls!SpoolInv => Recalls!AckedNoticeKept /\ Recalls!ClosedRowsSettled
    <2> SUFFICES ASSUME Recalls!SpoolInv PROVE Recalls!AckedNoticeKept
      BY DEF Recalls!SpoolInv
    <2>1. \A n \in copied : inbox[subject[n]] # Recalls!NoRow
      BY DEF Recalls!SpoolInv, Recalls!AckedKept, Recalls!NoRow
    <2> QED BY <2>1 DEF Recalls!SpoolInv, Recalls!AckedKept, Recalls!AckedNoticeKept
  <1>2. Recalls!Init => Recalls!Log!Init
    BY DEF Recalls!Init, Recalls!Log!Init, Recalls!Held
  <1>3. Recalls!Spec => []Recalls!SpoolInv /\ [][Recalls!Log!Next]_(Recalls!Log!vars)
    <2>1. Recalls!Init => Recalls!SpoolInv
      BY <1>0, RecallInit
    <2>2. Recalls!SpoolInv /\ [Recalls!Next]_(Recalls!vars)
            => Recalls!SpoolInv' /\ [Recalls!Log!Next]_(Recalls!Log!vars)
      BY <1>0, RecallNext
    <2> QED BY <2>1, <2>2, PTL DEF Recalls!Spec
  <1> QED BY <1>1, <1>2, <1>3, PartsOfSpec, PTL
          DEF NoticesKept, Recalls!NoticesKept, Recalls!ImplementsDurableLog, Recalls!Log!Spec,
              Recalls!Spec

-----------------------------------------------------------------------------
(* 5. The queue in memory.                                                  *)

USE DEF Queue!callback, Queue!overflow, Queue!database, Queue!bounds

(* The messages of a sequence of batches, and batches in order of arrival. *)
Spread(ss) == UNION {Queue!Entries(ss[i]) : i \in DOMAIN ss}
Chained(ss) ==
    /\ \A i \in DOMAIN ss : Queue!Ascending(ss[i])
    /\ \A i, j \in DOMAIN ss : i < j => Queue!Below(Queue!Entries(ss[i]), Queue!Entries(ss[j]))

LEMMA QueueEntries ==
    ASSUME NEW S, NEW s \in Seq(S)
    PROVE  /\ Queue!Entries(s) = {s[i] : i \in 1..Len(s)} /\ Queue!Entries(s) \subseteq S
           /\ Queue!Entries(s) = {} <=> s = <<>>
           /\ \A x \in S : Queue!Entries(Append(s, x)) = Queue!Entries(s) \cup {x}
           /\ s # <<>> => /\ Head(s) \in S /\ Tail(s) \in Seq(S)
                          /\ Queue!Entries(s) = {Head(s)} \cup Queue!Entries(Tail(s))
  <1> USE DEF Queue!Entries
  <1>1. Queue!Entries(s) = {s[i] : i \in 1..Len(s)} /\ Queue!Entries(s) \subseteq S
    OBVIOUS
  <1>2. Queue!Entries(s) = {} <=> s = <<>>
    OBVIOUS
  <1>3. ASSUME NEW x \in S
        PROVE  Queue!Entries(Append(s, x)) = Queue!Entries(s) \cup {x}
    <2>1. /\ DOMAIN Append(s, x) = 1..Len(s) + 1 /\ Append(s, x)[Len(s) + 1] = x
          /\ \A i \in 1..Len(s) : Append(s, x)[i] = s[i]
      OBVIOUS
    <2>2. 1..Len(s) + 1 = 1..Len(s) \cup {Len(s) + 1}
      OBVIOUS
    <2> QED BY <2>1, <2>2
  <1>4. ASSUME s # <<>>
        PROVE  /\ Head(s) \in S /\ Tail(s) \in Seq(S)
               /\ Queue!Entries(s) = {Head(s)} \cup Queue!Entries(Tail(s))
    <2>1. /\ Head(s) = s[1] /\ Head(s) \in S /\ Tail(s) \in Seq(S) /\ 1 \in 1..Len(s)
          /\ Len(Tail(s)) = Len(s) - 1 /\ \A i \in 1..Len(s) - 1 : Tail(s)[i] = s[i + 1]
      BY <1>4
    <2>2. \A i \in 1..Len(s) : i = 1 \/ (i - 1 \in 1..Len(s) - 1 /\ (i - 1) + 1 = i)
      OBVIOUS
    <2>3. \A i \in 1..Len(s) - 1 : i + 1 \in 1..Len(s)
      OBVIOUS
    <2>4. DOMAIN s = 1..Len(s) /\ DOMAIN Tail(s) = 1..Len(s) - 1
      <3>1. DOMAIN Tail(s) = 1..Len(Tail(s))
        BY <2>1
      <3> QED BY <2>1, <3>1
    <2>5. \A y \in Queue!Entries(s) : y = Head(s) \/ y \in Queue!Entries(Tail(s))
      <3> SUFFICES ASSUME NEW i \in 1..Len(s) PROVE s[i] = Head(s) \/ s[i] \in Queue!Entries(Tail(s))
        BY <2>4
      <3>1. CASE i # 1
        <4>1. i - 1 \in DOMAIN Tail(s) /\ Tail(s)[i - 1] = s[i]
          BY <2>1, <2>2, <2>4, <3>1
        <4> QED BY <4>1
      <3> QED BY <2>1, <3>1
    <2>6. Queue!Entries(Tail(s)) \subseteq Queue!Entries(s) /\ Head(s) \in Queue!Entries(s)
      BY <2>1, <2>3, <2>4
    <2> QED BY <2>1, <2>5, <2>6
  <1> QED BY <1>1, <1>2, <1>3, <1>4

LEMMA QueueAscending ==
    ASSUME NEW s \in Seq(Nat), Queue!Ascending(s)
    PROVE  /\ \A x \in Nat : Queue!Below(Queue!Entries(s), {x}) => Queue!Ascending(Append(s, x))
           /\ s # <<>> => /\ Queue!Ascending(Tail(s))
                          /\ Queue!Below({Head(s)}, Queue!Entries(Tail(s)))
  <1> USE DEF Queue!Ascending
  <1>1. ASSUME NEW x \in Nat, Queue!Below(Queue!Entries(s), {x})
        PROVE  Queue!Ascending(Append(s, x))
    <2>1. /\ DOMAIN Append(s, x) = 1..Len(s) + 1 /\ Append(s, x)[Len(s) + 1] = x
          /\ \A i \in 1..Len(s) : Append(s, x)[i] = s[i]
      OBVIOUS
    <2>2. \A i \in 1..Len(s) : s[i] < x
      BY <1>1 DEF Queue!Below, Queue!Entries
    <2> QED BY <2>1, <2>2
  <1>2. ASSUME s # <<>>
        PROVE  Queue!Ascending(Tail(s)) /\ Queue!Below({Head(s)}, Queue!Entries(Tail(s)))
    <2>1. /\ Head(s) = s[1] /\ 1 \in 1..Len(s)
          /\ DOMAIN Tail(s) = 1..Len(s) - 1 /\ \A i \in 1..Len(s) - 1 : Tail(s)[i] = s[i + 1]
      BY <1>2
    <2>2. \A i \in 1..Len(s) - 1 : i + 1 \in 1..Len(s) /\ 1 < i + 1
      OBVIOUS
    <2>3. DOMAIN s = 1..Len(s) /\ \A i \in 1..Len(s) : s[i] \in Nat
      OBVIOUS
    <2>4. Queue!Ascending(Tail(s))
      <3> SUFFICES ASSUME NEW i \in 1..Len(s) - 1, NEW j \in 1..Len(s) - 1, i < j
                   PROVE  s[i + 1] < s[j + 1]
        BY <2>1
      <3> QED BY <2>2, <2>3
    <2>5. Queue!Below({Head(s)}, Queue!Entries(Tail(s)))
      <3> SUFFICES ASSUME NEW i \in 1..Len(s) - 1 PROVE s[1] < s[i + 1]
        BY <2>1 DEF Queue!Below, Queue!Entries
      <3> QED BY <2>1, <2>2, <2>3
    <2> QED BY <2>4, <2>5
  <1> QED BY <1>1, <1>2

(* The first of several batches. *)
LEMMA QueueFirst ==
    ASSUME NEW S, NEW ss \in Seq(Seq(S)), ss # <<>>
    PROVE  /\ Head(ss) \in Seq(S) /\ Tail(ss) \in Seq(Seq(S))
           /\ Spread(ss) = Queue!Entries(Head(ss)) \cup Spread(Tail(ss))
           /\ Chained(ss) => /\ Chained(Tail(ss)) /\ Queue!Ascending(Head(ss))
                             /\ Queue!Below(Queue!Entries(Head(ss)), Spread(Tail(ss)))
  <1>1. /\ Head(ss) = ss[1] /\ Head(ss) \in Seq(S) /\ Tail(ss) \in Seq(Seq(S)) /\ 1 \in 1..Len(ss)
        /\ DOMAIN ss = 1..Len(ss) /\ DOMAIN Tail(ss) = 1..Len(ss) - 1
        /\ \A i \in 1..Len(ss) - 1 : Tail(ss)[i] = ss[i + 1]
    OBVIOUS
  <1>2. \A i \in 1..Len(ss) - 1 : i + 1 \in 1..Len(ss) /\ 1 < i + 1
    OBVIOUS
  <1>3. \A i \in 1..Len(ss) : i = 1 \/ (i - 1 \in 1..Len(ss) - 1 /\ (i - 1) + 1 = i)
    OBVIOUS
  <1>4. \A y \in Spread(ss) : y \in Queue!Entries(Head(ss)) \/ y \in Spread(Tail(ss))
    <2> SUFFICES ASSUME NEW i \in 1..Len(ss), NEW y \in Queue!Entries(ss[i])
                 PROVE  y \in Queue!Entries(Head(ss)) \/ y \in Spread(Tail(ss))
      BY <1>1 DEF Spread
    <2>1. CASE i = 1
      BY <1>1, <2>1
    <2>2. CASE i # 1
      <3>1. i - 1 \in DOMAIN Tail(ss) /\ Tail(ss)[i - 1] = ss[i]
        BY <1>1, <1>3, <2>2
      <3> QED BY <3>1 DEF Spread
    <2> QED BY <2>1, <2>2
  <1>5. Spread(Tail(ss)) \subseteq Spread(ss) /\ Queue!Entries(Head(ss)) \subseteq Spread(ss)
    BY <1>1, <1>2 DEF Spread
  <1>6. ASSUME Chained(ss)
        PROVE  /\ Chained(Tail(ss)) /\ Queue!Ascending(Head(ss))
               /\ Queue!Below(Queue!Entries(Head(ss)), Spread(Tail(ss)))
    <2>1. Queue!Ascending(Head(ss)) /\ \A i \in DOMAIN Tail(ss) : Queue!Ascending(Tail(ss)[i])
      BY <1>1, <1>2, <1>6 DEF Chained
    <2>2. \A i, j \in DOMAIN Tail(ss) : i < j =>
             Queue!Below(Queue!Entries(Tail(ss)[i]), Queue!Entries(Tail(ss)[j]))
      BY <1>1, <1>2, <1>6 DEF Chained
    <2>3. \A i \in DOMAIN Tail(ss) :
             Queue!Below(Queue!Entries(Head(ss)), Queue!Entries(Tail(ss)[i]))
      BY <1>1, <1>2, <1>6 DEF Chained
    <2> QED BY <2>1, <2>2, <2>3 DEF Chained, Spread, Queue!Below
  <1> QED BY <1>1, <1>4, <1>5, <1>6

(* A batch is halved: the same messages in the same order. *)
LEMMA QueueHalves ==
    ASSUME NEW S \in SUBSET Nat, NEW s \in Seq(S)
    PROVE  \E a, b \in Seq(S) :
              /\ Queue!Halves(s) = <<a, b>>
              /\ Queue!Entries(a) \cup Queue!Entries(b) = Queue!Entries(s)
              /\ Queue!Ascending(s) => /\ Queue!Ascending(a) /\ Queue!Ascending(b)
                                       /\ Queue!Below(Queue!Entries(a), Queue!Entries(b))
  <1> DEFINE mid == Len(s) \div 2
             a == SubSeq(s, 1, mid)
             b == SubSeq(s, mid + 1, Len(s))
  <1>1. mid \in 0..Len(s) /\ Len(s) \in Nat
    OBVIOUS
  <1>2. Queue!Halves(s) = <<a, b>>
    BY DEF Queue!Halves
  <1> HIDE DEF mid
  <1>3. a \in Seq(S) /\ Len(a) = mid /\ \A i \in 1..mid : i \in 1..Len(s) /\ a[i] = s[i]
    BY <1>1
  <1>4. /\ b \in Seq(S) /\ Len(b) = Len(s) - mid
        /\ \A i \in 1..(Len(s) - mid) : i + mid \in 1..Len(s) /\ b[i] = s[i + mid]
    BY <1>1, RecallRest
  <1> HIDE DEF a, b
  <1>5. DOMAIN a = 1..mid /\ DOMAIN b = 1..(Len(s) - mid) /\ DOMAIN s = 1..Len(s)
    BY <1>3, <1>4
  <1>6. \A i \in 1..Len(s) : i \in 1..mid \/ (i - mid \in 1..(Len(s) - mid) /\ (i - mid) + mid = i)
    BY <1>1
  <1>7. Queue!Entries(a) \cup Queue!Entries(b) = Queue!Entries(s)
    <2>1. Queue!Entries(a) \subseteq Queue!Entries(s) /\ Queue!Entries(b) \subseteq Queue!Entries(s)
      BY <1>3, <1>4, <1>5 DEF Queue!Entries
    <2>2. ASSUME NEW i \in 1..Len(s) PROVE s[i] \in Queue!Entries(a) \cup Queue!Entries(b)
      <3>1. CASE i \in 1..mid
        BY <1>3, <1>5, <3>1 DEF Queue!Entries
      <3>2. CASE i \notin 1..mid
        <4>1. i - mid \in DOMAIN b /\ b[i - mid] = s[i]
          BY <1>4, <1>5, <1>6, <3>2
        <4> QED BY <4>1 DEF Queue!Entries
      <3> QED BY <3>1, <3>2
    <2>3. Queue!Entries(s) \subseteq Queue!Entries(a) \cup Queue!Entries(b)
      BY <1>5, <2>2 DEF Queue!Entries
    <2> QED BY <2>1, <2>3
  <1>8. ASSUME Queue!Ascending(s)
        PROVE  /\ Queue!Ascending(a) /\ Queue!Ascending(b)
               /\ Queue!Below(Queue!Entries(a), Queue!Entries(b))
    <2>1. \A i, j \in 1..Len(s) : i < j => s[i] < s[j]
      BY <1>5, <1>8 DEF Queue!Ascending
    <2>2. Queue!Ascending(a)
      BY <1>3, <1>5, <2>1 DEF Queue!Ascending
    <2>3. Queue!Ascending(b)
      BY <1>1, <1>4, <1>5, <2>1 DEF Queue!Ascending
    <2>4. \A i \in DOMAIN a, j \in DOMAIN b : a[i] < b[j]
      BY <1>1, <1>3, <1>4, <1>5, <2>1
    <2>5. Queue!Below(Queue!Entries(a), Queue!Entries(b))
      BY <2>4 DEF Queue!Below, Queue!Entries
    <2> QED BY <2>2, <2>3, <2>5
  <1> QED BY <1>2, <1>3, <1>4, <1>7, <1>8

LEMMA QueueConcat ==
    ASSUME NEW S, NEW u \in Seq(S), NEW v \in Seq(S), Len(u) = 2
    PROVE  /\ u \o v \in Seq(S) /\ Len(u \o v) = Len(v) + 2
           /\ (u \o v)[1] = u[1] /\ (u \o v)[2] = u[2]
           /\ \A i \in 1..Len(v) : (u \o v)[i + 2] = v[i]
  <1>1. /\ u \o v \in Seq(S) /\ Len(u \o v) = Len(u) + Len(v)
        /\ \A i \in 1..Len(u) + Len(v) :
              (u \o v)[i] = IF i <= Len(u) THEN u[i] ELSE v[i - Len(u)]
    BY ConcatProperties
  <1>2. Len(v) \in Nat
    OBVIOUS
  <1>3. \A i \in 1..Len(v) : i + 2 \in 1..Len(u) + Len(v) /\ ~(i + 2 <= Len(u)) /\ (i + 2) - Len(u) = i
    BY <1>2
  <1> QED BY <1>1, <1>2, <1>3

LEMMA QueueSplit ==
    ASSUME NEW S \in SUBSET Nat, NEW ss \in Seq(Seq(S)), ss # <<>>
    PROVE  LET t == Queue!Halves(Head(ss)) \o Tail(ss)
           IN /\ t \in Seq(Seq(S)) /\ t # <<>> /\ Spread(t) = Spread(ss)
              /\ Chained(ss) => Chained(t)
  <1>1. /\ Head(ss) \in Seq(S) /\ Tail(ss) \in Seq(Seq(S))
        /\ Spread(ss) = Queue!Entries(Head(ss)) \cup Spread(Tail(ss))
        /\ Chained(ss) => /\ Chained(Tail(ss)) /\ Queue!Ascending(Head(ss))
                          /\ Queue!Below(Queue!Entries(Head(ss)), Spread(Tail(ss)))
    BY QueueFirst
  <1>2. PICK a, b \in Seq(S) :
              /\ Queue!Halves(Head(ss)) = <<a, b>>
              /\ Queue!Entries(a) \cup Queue!Entries(b) = Queue!Entries(Head(ss))
              /\ Queue!Ascending(Head(ss)) =>
                    /\ Queue!Ascending(a) /\ Queue!Ascending(b)
                    /\ Queue!Below(Queue!Entries(a), Queue!Entries(b))
    BY <1>1, QueueHalves
  <1> DEFINE r == Tail(ss)
             t == <<a, b>> \o r
  <1>3. /\ t \in Seq(Seq(S)) /\ Len(t) = Len(r) + 2 /\ t[1] = a /\ t[2] = b
        /\ \A i \in 1..Len(r) : t[i + 2] = r[i]
    <2>1. <<a, b>> \in Seq(Seq(S)) /\ Len(<<a, b>>) = 2 /\ <<a, b>>[1] = a /\ <<a, b>>[2] = b
      OBVIOUS
    <2>2. r \in Seq(Seq(S))
      BY <1>1
    <2> DEFINE ab == <<a, b>>
    <2> HIDE DEF ab, r
    <2>3. ab \in Seq(Seq(S)) /\ Len(ab) = 2 /\ ab[1] = a /\ ab[2] = b
      BY <2>1 DEF ab
    <2> QED BY <2>2, <2>3, QueueConcat DEF ab
  <1> HIDE DEF t
  <1>4. /\ DOMAIN t = 1..Len(r) + 2 /\ DOMAIN r = 1..Len(r) /\ Len(r) \in Nat
        /\ \A i \in 1..Len(r) + 2 : i = 1 \/ i = 2 \/ (i - 2 \in 1..Len(r) /\ t[i] = r[i - 2])
    <2>1. Len(r) \in Nat /\ DOMAIN r = 1..Len(r)
      BY <1>1
    <2>0. DOMAIN t = 1..Len(r) + 2
      BY <1>3
    <2> HIDE DEF r
    <2>2. ASSUME NEW i \in 1..Len(r) + 2, i # 1, i # 2
          PROVE  i - 2 \in 1..Len(r) /\ t[i] = r[i - 2]
      <3>1. i - 2 \in 1..Len(r) /\ (i - 2) + 2 = i
        BY <2>1, <2>2
      <3> QED BY <1>3, <3>1
    <2> QED BY <2>0, <2>1, <2>2
  <1> HIDE DEF r
  <1>5. \A i \in 1..Len(r) : i + 2 \in DOMAIN t /\ 1 \in DOMAIN t /\ 2 \in DOMAIN t
    BY <1>4
  <1>6. Spread(t) = Queue!Entries(a) \cup Queue!Entries(b) \cup Spread(r)
    <2>1. 1 \in DOMAIN t /\ 2 \in DOMAIN t
      BY <1>4
    <2>2. Queue!Entries(a) \cup Queue!Entries(b) \subseteq Spread(t)
      BY <1>3, <2>1 DEF Spread
    <2>3. ASSUME NEW i \in 1..Len(r) PROVE Queue!Entries(r[i]) \subseteq Spread(t)
      <3>1. i + 2 \in DOMAIN t /\ t[i + 2] = r[i]
        BY <1>3, <1>5
      <3> QED BY <3>1 DEF Spread
    <2>4. Spread(r) \subseteq Spread(t)
      BY <1>4, <2>3 DEF Spread
    <2>5. ASSUME NEW i \in 1..Len(r) + 2
          PROVE  Queue!Entries(t[i]) \subseteq Queue!Entries(a) \cup Queue!Entries(b) \cup Spread(r)
      <3>1. i = 1 \/ i = 2 \/ (i - 2 \in 1..Len(r) /\ t[i] = r[i - 2])
        BY <1>4
      <3>2. CASE i - 2 \in 1..Len(r) /\ t[i] = r[i - 2]
        BY <1>4, <3>2 DEF Spread
      <3> QED BY <1>3, <3>1, <3>2
    <2>6. Spread(t) \subseteq Queue!Entries(a) \cup Queue!Entries(b) \cup Spread(r)
      BY <1>4, <2>5 DEF Spread
    <2> QED BY <2>2, <2>4, <2>6
  <1>7. ASSUME Chained(ss) PROVE Chained(t)
    <2>1. /\ Queue!Ascending(a) /\ Queue!Ascending(b) /\ Chained(r)
          /\ Queue!Below(Queue!Entries(a), Queue!Entries(b))
          /\ Queue!Below(Queue!Entries(a) \cup Queue!Entries(b), Spread(r))
      BY <1>1, <1>2, <1>7 DEF r
    <2>2. \A i \in 1..Len(r) : /\ Queue!Below(Queue!Entries(a), Queue!Entries(r[i]))
                               /\ Queue!Below(Queue!Entries(b), Queue!Entries(r[i]))
      BY <1>4, <2>1 DEF Spread, Queue!Below
    <2>3. ASSUME NEW i \in 1..Len(r) + 2 PROVE Queue!Ascending(t[i])
      BY <1>3, <1>4, <2>1 DEF Chained
    <2>4. ASSUME NEW i \in 1..Len(r) + 2, NEW j \in 1..Len(r) + 2, i < j
          PROVE  Queue!Below(Queue!Entries(t[i]), Queue!Entries(t[j]))
      <3>1. CASE j = 2
        <4>1. i = 1
          BY <1>4, <2>4, <3>1
        <4> QED BY <1>3, <2>1, <3>1, <4>1
      <3>2. CASE j # 2
        <4>1. j - 2 \in 1..Len(r) /\ t[j] = r[j - 2]
          BY <1>4, <2>4, <3>2
        <4>2. CASE i = 1 \/ i = 2
          BY <1>3, <2>2, <4>1, <4>2
        <4>3. CASE i # 1 /\ i # 2
          <5>1. i - 2 \in 1..Len(r) /\ t[i] = r[i - 2] /\ i - 2 < j - 2
            BY <1>4, <2>4, <4>3
          <5> QED BY <1>4, <2>1, <4>1, <5>1 DEF Chained
        <4> QED BY <4>2, <4>3
      <3> QED BY <3>1, <3>2
    <2> QED BY <1>4, <2>3, <2>4 DEF Chained
  <1>8. t # <<>>
    BY <1>3, <1>4
  <1> QED BY <1>1, <1>2, <1>3, <1>6, <1>7, <1>8 DEF r, t

LEMMA QueueBatches ==
    ASSUME QueueMessages \in Nat
    PROVE  /\ 1..QueueMessages \in SUBSET Nat
           /\ \A s \in Queue!Batches : s \in Seq(1..QueueMessages) /\ s \in Seq(Nat)
  <1>1. 1..QueueMessages \in SUBSET Nat
    OBVIOUS
  <1>2. ASSUME NEW S \in SUBSET Nat, NEW s \in Seq(S) PROVE s \in Seq(Nat)
    <2>1. Len(s) \in Nat /\ s \in [1..Len(s) -> S]
      OBVIOUS
    <2>2. s \in [1..Len(s) -> Nat]
      BY <2>1
    <2> QED BY <2>1, <2>2
  <1> QED BY <1>1, <1>2 DEF Queue!Batches

(* What the types say of the queue and of the worker. *)
LEMMA QueueBasics ==
    ASSUME Queue!QueueAssumption, Queue!OrderInv
    PROVE  /\ QueueMessages \in Nat /\ MaxGapFaults \in Nat
           /\ qArrived \in Nat /\ qArrived <= QueueMessages /\ dropped_count \in Nat
           /\ qQueue \in Queue!Batches /\ qWorker \in Queue!WorkerStates
           /\ qWorker.batch \in Queue!Batches /\ qWorker.splits \in Seq(Queue!Batches)
           /\ Queue!Held = Queue!Entries(qQueue) \cup Queue!Entries(qWorker.batch)
                             \cup Spread(qWorker.splits)
           /\ Queue!Held \subseteq 1..qArrived /\ qStored \subseteq 1..qArrived
           /\ Queue!Ascending(qQueue) /\ Queue!Ascending(qWorker.batch) /\ Chained(qWorker.splits)
           /\ Queue!Below(Queue!Entries(qWorker.batch) \cup Spread(qWorker.splits),
                          Queue!Entries(qQueue))
  <1>1. QueueMessages \in Nat /\ MaxGapFaults \in Nat
    BY DEF Queue!QueueAssumption
  <1>2. Queue!QueueTyped /\ Queue!Sequenced
    BY DEF Queue!OrderInv
  <1>3. qWorker \in Queue!WorkerStates /\ qWorker.batch \in Queue!Batches
        /\ qWorker.splits \in Seq(Queue!Batches)
    BY <1>2 DEF Queue!QueueTyped, Queue!WorkerStates
  <1> QED BY <1>1, <1>2, <1>3
          DEF Queue!QueueTyped, Queue!Sequenced, Queue!Held, Queue!InSplits, Spread, Chained

LEMMA QueueSequenced ==
    ASSUME Queue!Ascending(qQueue)', Queue!Ascending(qWorker.batch)', Chained(qWorker.splits)',
           Queue!Below(Queue!Entries(qWorker.batch) \cup Spread(qWorker.splits),
                       Queue!Entries(qQueue))'
    PROVE  Queue!Sequenced'
  BY DEF Queue!Sequenced, Queue!InSplits, Spread, Chained

LEMMA QueueHeldNext ==
    Queue!Held' = Queue!Entries(qQueue') \cup Queue!Entries(qWorker'.batch) \cup Spread(qWorker'.splits)
  BY DEF Queue!Held, Queue!InSplits, Spread

(* The count the module takes is the one the theorems are about. *)
LEMMA QueueCardinality == \A S : Queue!Cardinality(S) = Cardinality(S)
  BY Zenon DEF Queue!Cardinality, Cardinality

LEMMA QueueLostFinite ==
    ASSUME Queue!QueueAssumption, Queue!OrderInv
    PROVE  /\ IsFiniteSet(Queue!Lost \ Poison) /\ Cardinality(Queue!Lost \ Poison) \in Nat
           /\ Cardinality(Queue!Lost \ Poison) <= dropped_count + (IF drop = "count" THEN 1 ELSE 0)
  <1> DEFINE L == Queue!Lost \ Poison
             I == 1..qArrived
  <1>1. L \in SUBSET I
    BY DEF Queue!Lost, Queue!Absent
  <1>2. IsFiniteSet(I)
    <2>1. 1 \in Int /\ qArrived \in Int
      BY QueueBasics
    <2> QED BY <2>1, FS_Interval
  <1>3. Cardinality(L) <= dropped_count + (IF drop = "count" THEN 1 ELSE 0)
    <2>1. Queue!DropsCounted
      BY DEF Queue!OrderInv
    <2> QED BY <2>1, QueueCardinality DEF Queue!DropsCounted
  <1> HIDE DEF L, I
  <1>4. IsFiniteSet(L) /\ Cardinality(L) \in Nat
    BY <1>1, <1>2, FS_Subset, FS_CardinalityType
  <1> QED BY <1>3, <1>4 DEF L

(* The drops are still counted when nothing but refused messages is lost. *)
LEMMA QueueDrops ==
    ASSUME Queue!QueueAssumption, Queue!OrderInv,
           Queue!Lost' \ Poison \subseteq Queue!Lost \ Poison,
           drop' = drop, dropped_count' = dropped_count
    PROVE  Queue!DropsCounted'
  <1> DEFINE L == Queue!Lost \ Poison
  <1> DEFINE K == Queue!Lost' \ Poison
  <1>2. K \in SUBSET L
    OBVIOUS
  <1> HIDE DEF K, L
  <1>3. /\ IsFiniteSet(L) /\ Cardinality(L) \in Nat
        /\ Cardinality(L) <= dropped_count + (IF drop = "count" THEN 1 ELSE 0)
    BY QueueLostFinite DEF L
  <1>4. /\ Cardinality(K) <= Cardinality(L) /\ Cardinality(K) \in Nat
    BY <1>2, <1>3, FS_Subset, FS_CardinalityType
  <1>5. Cardinality(K) <= dropped_count' + (IF drop' = "count" THEN 1 ELSE 0)
    BY <1>3, <1>4, QueueBasics
  <1> QED BY <1>5, QueueCardinality DEF K, Queue!DropsCounted

(* Steps that move no message. *)
LEMMA QueueStill ==
    ASSUME Queue!QueueAssumption, Queue!OrderInv,
           UNCHANGED <<qQueue, qArrived, qStored>>,
           qWorker'.batch = qWorker.batch, qWorker'.splits = qWorker.splits,
           qWorker' \in Queue!WorkerStates, dropped_count' \in Nat,
           Queue!Places',
           (drop' = drop /\ dropped_count' = dropped_count) \/ Queue!DropsCounted'
    PROVE  Queue!OrderInv' /\ Queue!Held' = Queue!Held /\ Queue!Lost' = Queue!Lost
  <1>1. Queue!Held' = Queue!Held
    BY QueueBasics, QueueHeldNext
  <1>2. Queue!Lost' = Queue!Lost
    BY <1>1 DEF Queue!Lost, Queue!Absent
  <1>3. Queue!DropsCounted'
    <2>1. CASE drop' = drop /\ dropped_count' = dropped_count
      BY <1>2, <2>1, QueueDrops
    <2> QED BY <2>1
  <1>4. Queue!Sequenced'
    <2>1. Queue!Sequenced
      BY DEF Queue!OrderInv
    <2> QED BY <2>1 DEF Queue!Sequenced, Queue!InSplits
  <1>5. Queue!QueueTyped'
    BY <1>1 DEF Queue!OrderInv, Queue!QueueTyped
  <1>6. Queue!NotOvertaken' /\ Queue!HasNewest'
    BY <1>1 DEF Queue!OrderInv, Queue!NotOvertaken, Queue!HasNewest
  <1> QED BY <1>1, <1>2, <1>3, <1>4, <1>5, <1>6 DEF Queue!OrderInv

LEMMA QueueInit == Queue!QueueAssumption /\ Queue!Init => Queue!OrderInv
  <1> SUFFICES ASSUME Queue!QueueAssumption, Queue!Init PROVE Queue!OrderInv
    OBVIOUS
  <1>0. /\ qLink = "connected" /\ qArrived = 0 /\ qQueue = <<>> /\ drop = "none"
        /\ dropped_count = 0 /\ qStored = {} /\ qWorker = Queue!Waiting /\ QueueMessages \in Nat
    BY DEF Queue!Init, Queue!QueueAssumption
  <1>1. /\ qWorker.pc = "head" /\ qWorker.ret = "recv" /\ qWorker.batch = <<>>
        /\ qWorker.splits = <<>>
    BY <1>0 DEF Queue!Waiting
  <1>2. qWorker \in Queue!WorkerStates /\ qQueue \in Queue!Batches
    <2>1. <<>> \in Queue!Batches /\ <<>> \in Seq(Queue!Batches)
      BY DEF Queue!Batches
    <2> QED BY <1>0, <2>1 DEF Queue!Waiting, Queue!WorkerStates
  <1>3. Queue!Held = {} /\ Queue!InSplits = {}
    BY <1>0, <1>1 DEF Queue!Held, Queue!InSplits, Queue!Entries
  <1>4. Queue!QueueTyped
    BY <1>0, <1>2, <1>3 DEF Queue!QueueTyped
  <1>5. Queue!Places
    BY <1>0, <1>1 DEF Queue!Places, Queue!Stage, Queue!Checks
  <1>6. Queue!Sequenced
    BY <1>0, <1>1, <1>3 DEF Queue!Sequenced, Queue!Ascending, Queue!Below, Queue!Entries
  <1>7. Queue!NotOvertaken /\ Queue!HasNewest
    BY <1>0 DEF Queue!NotOvertaken, Queue!HasNewest
  <1>8. Queue!DropsCounted
    <2>1. Queue!Lost \ Poison = {}
      BY <1>0 DEF Queue!Lost, Queue!Absent
    <2>2. Cardinality(Queue!Lost \ Poison) <= dropped_count + (IF drop = "count" THEN 1 ELSE 0)
      BY <1>0, <2>1, FS_EmptySet
    <2> QED BY <2>2, QueueCardinality DEF Queue!DropsCounted
  <1> QED BY <1>4, <1>5, <1>6, <1>7, <1>8 DEF Queue!OrderInv

-----------------------------------------------------------------------------
(* The callback. *)

LEMMA QueueEnqueue ==
    ASSUME Queue!QueueAssumption, Queue!OrderInv, Queue!Enqueue
    PROVE  Queue!OrderInv' /\ Queue!Lost' = Queue!Lost
  <1> DEFINE n == qArrived + 1
  <1>0. /\ qLink = "connected" /\ qArrived < QueueMessages /\ qArrived' = n
        /\ qQueue' = Append(qQueue, n)
        /\ UNCHANGED <<qLink, drop, dropped_count, qWorker, qStored>>
    BY DEF Queue!Enqueue
  <1>1. n \in Nat /\ n \in 1..QueueMessages /\ 1..n = 1..qArrived \cup {n} /\ n \notin 1..qArrived
    BY <1>0, QueueBasics
  <1> HIDE DEF n
  <1>2. /\ qQueue \in Seq(1..QueueMessages) /\ qQueue \in Seq(Nat)
        /\ qQueue' \in Queue!Batches
        /\ Queue!Entries(qQueue') = Queue!Entries(qQueue) \cup {n}
    <2>1. qQueue \in Seq(1..QueueMessages)
      BY QueueBasics DEF Queue!Batches
    <2>2. Append(qQueue, n) \in Seq(1..QueueMessages)
      BY <1>1, <2>1, AppendProperties
    <2>3. qQueue \in Seq(Nat)
      BY QueueBasics, QueueBatches
    <2> QED BY <2>3, <1>0, <1>1, <2>1, <2>2, QueueEntries DEF Queue!Batches
  <1>3. Queue!Held' = Queue!Held \cup {n}
    BY <1>0, <1>2, QueueBasics, QueueHeldNext
  <1>4. \A x \in 1..qArrived : x < n
    BY QueueBasics DEF n
  <1>5. Queue!Below(Queue!Held, {n})
    BY <1>4, QueueBasics DEF Queue!Below
  <1>6. Queue!Sequenced'
    <2>1. Queue!Below(Queue!Entries(qQueue), {n})
      BY <1>5, QueueBasics DEF Queue!Below
    <2>2. Queue!Ascending(qQueue')
      BY <1>0, <1>1, <1>2, <2>1, QueueAscending, QueueBasics
    <2>3. Queue!Below(Queue!Entries(qWorker.batch) \cup Spread(qWorker.splits),
                      Queue!Entries(qQueue'))
      BY <1>2, <1>5, QueueBasics DEF Queue!Below
    <2> QED BY <1>0, <2>2, <2>3, QueueBasics, QueueSequenced
  <1>7. Queue!Lost' = Queue!Lost
    BY <1>0, <1>1, <1>3, QueueBasics DEF Queue!Lost, Queue!Absent
  <1>8. Queue!DropsCounted'
    BY <1>0, <1>7, QueueDrops
  <1>9. Queue!QueueTyped'
    <2>1. qArrived' \in 0..QueueMessages
      BY <1>0, <1>1
    <2>2. Queue!Held' \cup qStored' \subseteq 1..qArrived'
      BY <1>0, <1>1, <1>3, QueueBasics
    <2> QED BY <1>0, <1>2, <2>1, <2>2, QueueBasics DEF Queue!QueueTyped
  <1>10. Queue!NotOvertaken'
    BY <1>0, <1>3, <1>4, QueueBasics DEF Queue!OrderInv, Queue!NotOvertaken
  <1>11. Queue!Places' /\ Queue!HasNewest'
    BY <1>0 DEF Queue!OrderInv, Queue!Places, Queue!HasNewest, Queue!Stage, Queue!Sub, Queue!InSub
  <1> QED BY <1>6, <1>7, <1>8, <1>9, <1>10, <1>11 DEF Queue!OrderInv

LEMMA QueueAskForGap ==
    ASSUME Queue!QueueAssumption, Queue!OrderInv, Queue!AskForGap
    PROVE  Queue!OrderInv' /\ Queue!Lost' = Queue!Lost \cup {qArrived + 1}
  <1> DEFINE n == qArrived + 1
  <1>0. /\ qLink = "connected" /\ drop = "none" /\ qArrived < QueueMessages /\ qArrived' = n
        /\ drop' = "count" /\ UNCHANGED <<qLink, qQueue, dropped_count, qWorker, qStored>>
    BY DEF Queue!AskForGap
  <1>1. n \in Nat /\ n \in 1..QueueMessages /\ 1..n = 1..qArrived \cup {n} /\ n \notin 1..qArrived
    BY <1>0, QueueBasics
  <1> HIDE DEF n
  <1>2. Queue!Held' = Queue!Held
    BY <1>0, QueueBasics, QueueHeldNext
  <1>3. Queue!Lost' = Queue!Lost \cup {n}
    BY <1>0, <1>1, <1>2, QueueBasics DEF Queue!Lost, Queue!Absent
  <1>4. Queue!DropsCounted'
    <2> DEFINE L == Queue!Lost \ Poison
    <2>2. Queue!Lost' \ Poison \in SUBSET (L \cup {n})
      BY <1>3
    <2>1. IsFiniteSet(L) /\ Cardinality(L) \in Nat
      BY QueueLostFinite
    <2>3. Cardinality(L) <= dropped_count
      BY <1>0, QueueLostFinite, QueueBasics
    <2> HIDE DEF L
    <2>4. IsFiniteSet(L \cup {n}) /\ Cardinality(L \cup {n}) <= Cardinality(L) + 1
          /\ Cardinality(L) \in Nat
      BY <2>1, FS_AddElement, FS_CardinalityType
    <2>5. /\ Cardinality(Queue!Lost' \ Poison) <= Cardinality(L \cup {n})
          /\ Cardinality(Queue!Lost' \ Poison) \in Nat /\ Cardinality(L \cup {n}) \in Nat
      BY <2>2, <2>4, FS_Subset, FS_CardinalityType
    <2>6. Cardinality(Queue!Lost' \ Poison) <= dropped_count + 1
      BY <2>3, <2>4, <2>5, QueueBasics
    <2>7. Cardinality(Queue!Lost' \ Poison) <= dropped_count' + (IF drop' = "count" THEN 1 ELSE 0)
      BY <1>0, <2>6
    <2> QED BY <2>7, QueueCardinality DEF Queue!DropsCounted
  <1>5. Queue!Sequenced'
    BY <1>0 DEF Queue!OrderInv, Queue!Sequenced, Queue!InSplits
  <1>6. Queue!QueueTyped'
    <2>1. qArrived' \in 0..QueueMessages
      BY <1>0, <1>1
    <2>2. Queue!Held' \cup qStored' \subseteq 1..qArrived'
      BY <1>0, <1>1, <1>2, QueueBasics
    <2> QED BY <1>0, <2>1, <2>2, QueueBasics DEF Queue!QueueTyped
  <1>7. Queue!NotOvertaken' /\ Queue!HasNewest'
    BY <1>0, <1>2 DEF Queue!OrderInv, Queue!NotOvertaken, Queue!HasNewest
  <1>8. Queue!Places'
    BY <1>0 DEF Queue!OrderInv, Queue!Places, Queue!Stage, Queue!Sub, Queue!InSub
  <1> QED BY <1>3, <1>4, <1>5, <1>6, <1>7, <1>8 DEF Queue!OrderInv, n

LEMMA QueueCounts ==
    ASSUME Queue!QueueAssumption, Queue!OrderInv, Queue!CountDrop \/ Queue!RaiseAlarm
    PROVE  Queue!OrderInv' /\ Queue!Held' = Queue!Held /\ Queue!Lost' = Queue!Lost
  <1>0. /\ UNCHANGED <<qLink, qArrived, qQueue, qWorker, qStored>>
        /\ dropped_count' \in Nat
        /\ drop # "none"
        /\ dropped_count' + (IF drop' = "count" THEN 1 ELSE 0)
              = dropped_count + IF drop = "count" THEN 1 ELSE 0
    BY QueueBasics DEF Queue!CountDrop, Queue!RaiseAlarm
  <1>1. Queue!Held' = Queue!Held
    BY <1>0, QueueBasics, QueueHeldNext
  <1>2. Queue!Lost' = Queue!Lost
    BY <1>0, <1>1 DEF Queue!Lost, Queue!Absent
  <1>3. Queue!DropsCounted'
    BY <1>0, <1>2 DEF Queue!OrderInv, Queue!DropsCounted
  <1>4. Queue!Places'
    BY <1>0 DEF Queue!OrderInv, Queue!Places, Queue!Stage, Queue!Sub, Queue!InSub
  <1> QED BY <1>0, <1>3, <1>4, QueueBasics, QueueStill

-----------------------------------------------------------------------------
(* The worker. *)

(* A message is taken from the head of the queue into the batch. *)
LEMMA QueueTake ==
    ASSUME Queue!QueueAssumption, Queue!OrderInv, Queue!Take("recv") \/ Queue!Take("fill")
    PROVE  /\ Queue!OrderInv' /\ Queue!Held' = Queue!Held /\ Queue!Lost' = Queue!Lost
           /\ qWorker'.pc = "fill"
  <1> DEFINE x == Head(qQueue)
  <1>0. /\ qWorker.pc \in {"recv", "fill"} /\ qQueue # <<>> /\ qQueue' = Tail(qQueue)
        /\ qWorker' = [qWorker EXCEPT !.pc = "fill", !.batch = Append(qWorker.batch, x)]
        /\ UNCHANGED <<qLink, qArrived, drop, dropped_count, qStored>>
    BY DEF Queue!Take
  <1>1. /\ qQueue \in Seq(1..QueueMessages) /\ qQueue \in Seq(Nat)
        /\ qWorker.batch \in Seq(1..QueueMessages) /\ qWorker.batch \in Seq(Nat)
    BY QueueBasics, QueueBatches
  <1>2. /\ x \in 1..QueueMessages /\ x \in Nat /\ qQueue' \in Seq(1..QueueMessages)
        /\ Queue!Entries(qQueue) = {x} \cup Queue!Entries(qQueue')
    <2>1. x \in 1..QueueMessages /\ Tail(qQueue) \in Seq(1..QueueMessages)
      BY <1>0, <1>1, HeadTailProperties
    <2>2. Queue!Entries(qQueue) = {x} \cup Queue!Entries(Tail(qQueue))
      BY <1>0, <1>1, QueueEntries
    <2> QED BY <1>0, <2>1, <2>2, QueueBasics
  <1>3. /\ Queue!Ascending(qQueue') /\ Queue!Below({x}, Queue!Entries(qQueue'))
    BY <1>0, <1>1, QueueAscending, QueueBasics
  <1> HIDE DEF x
  <1>4. Append(qWorker.batch, x) \in Queue!Batches
    BY <1>1, <1>2, AppendProperties DEF Queue!Batches
  <1>5. /\ qWorker' \in Queue!WorkerStates /\ qWorker'.pc = "fill"
        /\ qWorker'.batch = Append(qWorker.batch, x) /\ qWorker'.splits = qWorker.splits
    <2> DEFINE b == Append(qWorker.batch, x)
    <2>1. b \in Queue!Batches /\ qWorker' = [qWorker EXCEPT !.pc = "fill", !.batch = b]
      BY <1>0, <1>4
    <2> HIDE DEF b
    <2>2. /\ qWorker' \in Queue!WorkerStates /\ qWorker'.pc = "fill"
          /\ qWorker'.batch = b /\ qWorker'.splits = qWorker.splits
      BY <2>1, QueueBasics DEF Queue!WorkerStates
    <2> QED BY <2>2 DEF b
  <1>6. Queue!Entries(qWorker'.batch) = Queue!Entries(qWorker.batch) \cup {x}
    <2>1. Queue!Entries(Append(qWorker.batch, x)) = Queue!Entries(qWorker.batch) \cup {x}
      BY <1>1, <1>2, QueueEntries
    <2> QED BY <1>5, <2>1
  <1>7. Queue!Held' = Queue!Held
    BY <1>2, <1>5, <1>6, QueueBasics, QueueHeldNext
  <1>8. Queue!Sequenced'
    <2>1. Queue!Below(Queue!Entries(qWorker.batch) \cup Spread(qWorker.splits), {x})
          /\ Queue!Below(Queue!Entries(qWorker.batch) \cup Spread(qWorker.splits),
                         Queue!Entries(qQueue'))
      BY <1>2, QueueBasics DEF Queue!Below
    <2>2. Queue!Ascending(qWorker'.batch)
      <3>1. Queue!Below(Queue!Entries(qWorker.batch), {x})
        BY <2>1 DEF Queue!Below
      <3> QED BY <1>1, <1>2, <1>5, <3>1, QueueAscending, QueueBasics
    <2>3. Queue!Below(Queue!Entries(qWorker'.batch) \cup Spread(qWorker'.splits),
                      Queue!Entries(qQueue'))
      BY <1>3, <1>5, <1>6, <2>1 DEF Queue!Below
    <2> QED BY <1>3, <1>5, <2>2, <2>3, QueueBasics, QueueSequenced
  <1>9. Queue!Lost' = Queue!Lost
    BY <1>0, <1>7 DEF Queue!Lost, Queue!Absent
  <1>10. Queue!DropsCounted'
    BY <1>0, <1>9, QueueDrops
  <1>11. Queue!QueueTyped'
    BY <1>0, <1>2, <1>5, <1>7, QueueBasics DEF Queue!QueueTyped, Queue!Batches
  <1>12. Queue!NotOvertaken' /\ Queue!HasNewest'
    BY <1>0, <1>7 DEF Queue!OrderInv, Queue!NotOvertaken, Queue!HasNewest
  <1>13. Queue!Places'
    BY <1>0, <1>5 DEF Queue!OrderInv, Queue!Places, Queue!Stage, Queue!Checks
  <1> QED BY <1>5, <1>7, <1>8, <1>9, <1>10, <1>11, <1>12, <1>13 DEF Queue!OrderInv

(* A step of the worker that rearranges what it holds, or lets go of it      *)
(* when it is stored or refused.                                             *)
LEMMA QueueMoves ==
    ASSUME Queue!QueueAssumption, Queue!OrderInv,
           UNCHANGED <<qArrived, qQueue, drop, dropped_count>>,
           qWorker' \in Queue!WorkerStates, Queue!Sequenced',
           Queue!Held' \subseteq Queue!Held, qStored \subseteq qStored', qStored' \subseteq 1..qArrived,
           Queue!Held \subseteq Queue!Held' \cup qStored' \cup Poison,
           \A w \in Queue!Held \ qStored', m \in qStored' : m < w,
           Queue!HasNewest', Queue!Places'
    PROVE  Queue!OrderInv'
  <1>1. Queue!Lost' \ Poison \subseteq Queue!Lost \ Poison
    BY DEF Queue!Lost, Queue!Absent
  <1>2. Queue!DropsCounted'
    BY <1>1, QueueDrops
  <1>3. Queue!QueueTyped'
    <2>1. Queue!Held' \cup qStored' \subseteq 1..qArrived'
      BY QueueBasics
    <2> QED BY <2>1 DEF Queue!OrderInv, Queue!QueueTyped
  <1>4. Queue!NotOvertaken'
    BY DEF Queue!NotOvertaken
  <1> QED BY <1>2, <1>3, <1>4 DEF Queue!OrderInv

LEMMA QueueFlush ==
    ASSUME Queue!QueueAssumption, Queue!OrderInv, Queue!Flush
    PROVE  /\ Queue!OrderInv' /\ Queue!Held' = Queue!Held /\ Queue!Lost' = Queue!Lost
           /\ qWorker'.pc = "next"
  <1>0. /\ qWorker.pc = "fill"
        /\ qWorker' = [qWorker EXCEPT !.pc = "next", !.splits = <<qWorker.batch>>, !.batch = <<>>]
        /\ UNCHANGED <<qLink, qArrived, qQueue, drop, dropped_count, qStored>>
    BY DEF Queue!Flush
  <1>1. qWorker.splits = <<>> /\ qLink # "ended"
    BY <1>0 DEF Queue!OrderInv, Queue!Places, Queue!Stage, Queue!Checks
  <1>2. /\ <<>> \in Queue!Batches /\ <<qWorker.batch>> \in Seq(Queue!Batches)
        /\ Spread(<<>>) = {} /\ Queue!Entries(<<>>) = {} /\ Queue!Ascending(<<>>)
    <2>1. <<>> \in Queue!Batches
      BY DEF Queue!Batches
    <2> QED BY <2>1, QueueBasics DEF Spread, Queue!Entries, Queue!Ascending
  <1>3. /\ qWorker' \in Queue!WorkerStates /\ qWorker'.pc = "next"
        /\ qWorker'.batch = <<>> /\ qWorker'.splits = <<qWorker.batch>>
    BY <1>0, <1>2, QueueBasics DEF Queue!WorkerStates
  <1>4. Spread(<<qWorker.batch>>) = Queue!Entries(qWorker.batch)
        /\ (Queue!Ascending(qWorker.batch) => Chained(<<qWorker.batch>>))
    <2> DEFINE s == <<qWorker.batch>>
    <2>1. DOMAIN s = {1} /\ s[1] = qWorker.batch
      OBVIOUS
    <2> HIDE DEF s
    <2>2. Spread(s) = Queue!Entries(qWorker.batch)
      BY <2>1 DEF Spread
    <2>3. Queue!Ascending(qWorker.batch) => Chained(s)
      BY <2>1 DEF Chained
    <2> QED BY <2>2, <2>3 DEF s
  <1>5. Queue!Held' = Queue!Held
    BY <1>0, <1>1, <1>2, <1>3, <1>4, QueueBasics, QueueHeldNext
  <1>6. Queue!Sequenced'
    <2>1. Queue!Below(Queue!Entries(qWorker'.batch) \cup Spread(qWorker'.splits),
                      Queue!Entries(qQueue'))
      BY <1>0, <1>2, <1>3, <1>4, QueueBasics DEF Queue!Below
    <2> QED BY <1>0, <1>2, <1>3, <1>4, <2>1, QueueBasics, QueueSequenced
  <1>7. Queue!Places'
    BY <1>0, <1>1, <1>3 DEF Queue!OrderInv, Queue!Places, Queue!Stage, Queue!Checks
  <1>8. Queue!OrderInv'
    <2>1. /\ \A w \in Queue!Held \ qStored', m \in qStored' : m < w
          /\ Queue!HasNewest'
      BY <1>0 DEF Queue!OrderInv, Queue!NotOvertaken, Queue!HasNewest
    <2> QED BY <1>0, <1>3, <1>5, <1>6, <1>7, <2>1, QueueBasics, QueueMoves
  <1>9. Queue!Lost' = Queue!Lost
    BY <1>0, <1>5 DEF Queue!Lost, Queue!Absent
  <1> QED BY <1>3, <1>5, <1>8, <1>9

(* The batch at the head of the splits. *)
LEMMA QueueHead ==
    ASSUME Queue!QueueAssumption, Queue!OrderInv, qWorker.pc \in {"insert", "invalid"}
    PROVE  /\ qWorker.splits # <<>> /\ qWorker.batch = <<>> /\ Queue!Entries(qWorker.batch) = {}
           /\ qLink # "ended"
           /\ Queue!Sub \in Queue!Batches /\ Tail(qWorker.splits) \in Seq(Queue!Batches)
           /\ Spread(qWorker.splits) = Queue!InSub \cup Spread(Tail(qWorker.splits))
           /\ Queue!Ascending(Queue!Sub) /\ Chained(Tail(qWorker.splits))
           /\ Queue!Below(Queue!InSub, Spread(Tail(qWorker.splits)) \cup Queue!Entries(qQueue))
           /\ Queue!InSub \subseteq Queue!Held
  <1>1. qWorker.splits # <<>> /\ qWorker.batch = <<>> /\ qLink # "ended"
    BY DEF Queue!OrderInv, Queue!Places, Queue!Stage, Queue!Checks
  <1>2. Queue!Entries(qWorker.batch) = {}
    BY <1>1 DEF Queue!Entries
  <1>3. /\ Queue!Sub \in Queue!Batches /\ Tail(qWorker.splits) \in Seq(Queue!Batches)
        /\ Spread(qWorker.splits) = Queue!InSub \cup Spread(Tail(qWorker.splits))
        /\ Queue!Ascending(Queue!Sub) /\ Chained(Tail(qWorker.splits))
        /\ Queue!Below(Queue!InSub, Spread(Tail(qWorker.splits)))
    <2>1. qWorker.splits \in Seq(Seq(1..QueueMessages)) /\ Chained(qWorker.splits)
      BY QueueBasics DEF Queue!Batches
    <2> QED BY <1>1, <2>1, QueueFirst DEF Queue!Sub, Queue!InSub, Queue!Batches
  <1>4. Queue!Below(Queue!InSub, Queue!Entries(qQueue))
    BY <1>3, QueueBasics DEF Queue!Below
  <1> QED BY <1>1, <1>2, <1>3, <1>4, QueueBasics DEF Queue!Below

(* What is stored of the head is above all that was stored before, and below *)
(* all that still waits.                                                     *)
LEMMA QueueCommits ==
    ASSUME Queue!QueueAssumption, Queue!OrderInv, qWorker.pc = "insert",
           qStored' = qStored \/ qStored' = qStored \cup Queue!InSub
    PROVE  /\ Queue!HasNewest' /\ qStored' \subseteq 1..qArrived
           /\ \A w \in Queue!Held \ qStored', m \in qStored' : m < w
  <1>1. CASE qStored' = qStored
    BY <1>1, QueueBasics DEF Queue!OrderInv, Queue!HasNewest, Queue!NotOvertaken
  <1>2. CASE qStored' = qStored \cup Queue!InSub
    <2>1. qStored' \subseteq 1..qArrived
      BY <1>2, QueueBasics, QueueHead
    <2>2. ASSUME NEW w \in Queue!Held \ qStored', NEW m \in qStored' PROVE m < w
      <3>1. CASE m \in qStored
        BY <1>2, <3>1 DEF Queue!OrderInv, Queue!NotOvertaken
      <3>2. CASE m \in Queue!InSub
        <4>1. w \notin Queue!InSub
          BY <1>2
        <4>2. w \in Spread(Tail(qWorker.splits)) \cup Queue!Entries(qQueue)
          BY <4>1, QueueHead, QueueBasics
        <4> QED BY <3>2, <4>2, QueueHead DEF Queue!Below
      <3> QED BY <1>2, <3>1, <3>2
    <2>3. Queue!HasNewest'
      <3>1. Queue!Sub \in Seq(Nat) /\ Len(Queue!Sub) \in Nat /\ DOMAIN Queue!Sub = 1..Len(Queue!Sub)
        <4>1. Queue!Sub \in Seq(Nat)
          BY QueueHead, QueueBasics, QueueBatches
        <4> QED BY <4>1
      <3>2. CASE Len(Queue!Sub) = 0
        <4>1. Queue!InSub = {}
          BY <3>1, <3>2 DEF Queue!InSub, Queue!Entries
        <4> QED BY <1>2, <4>1 DEF Queue!OrderInv, Queue!HasNewest
      <3>3. CASE Len(Queue!Sub) # 0
        <4> DEFINE last == Queue!Sub[Len(Queue!Sub)]
        <4>1. Len(Queue!Sub) \in DOMAIN Queue!Sub
          BY <3>1, <3>3
        <4>2. last \in Queue!InSub /\ \A k \in Queue!InSub : k <= last
          <5>1. last \in Queue!InSub
            BY <4>1 DEF Queue!InSub, Queue!Entries
          <5>2. \A i \in DOMAIN Queue!Sub : Queue!Sub[i] <= last
            <6>1. \A i \in DOMAIN Queue!Sub : i < Len(Queue!Sub) => Queue!Sub[i] < last
              BY <4>1, QueueHead DEF Queue!Ascending
            <6>2. \A i \in DOMAIN Queue!Sub : Queue!Sub[i] \in Nat
              BY <3>1
            <6> QED BY <3>1, <4>1, <6>1, <6>2
          <5> QED BY <5>1, <5>2 DEF Queue!InSub, Queue!Entries
        <4>3. \A k \in qStored' : k \in Nat
          BY <2>1
        <4>4. CASE last \in qStored
          <5>1. PICK m \in qStored : \A k \in qStored : k <= m
            BY <4>4 DEF Queue!OrderInv, Queue!HasNewest
          <5>2. m \in qStored' /\ \A k \in qStored' : k <= m
            <6>1. m \in Nat /\ last \in Nat /\ last <= m
              BY <1>2, <4>2, <4>3, <4>4, <5>1
            <6> QED BY <1>2, <4>2, <4>3, <5>1, <6>1
          <5> QED BY <5>2 DEF Queue!HasNewest
        <4>5. CASE last \notin qStored
          <5>1. last \in Queue!Held \ qStored
            BY <4>2, <4>5, QueueHead
          <5>2. \A k \in qStored : k < last
            BY <5>1 DEF Queue!OrderInv, Queue!NotOvertaken
          <5>3. last \in qStored' /\ \A k \in qStored' : k <= last
            BY <1>2, <4>2, <4>3, <5>2
          <5> QED BY <5>3 DEF Queue!HasNewest
        <4> QED BY <4>4, <4>5
      <3> QED BY <3>2, <3>3
    <2> QED BY <2>1, <2>2, <2>3
  <1> QED BY <1>1, <1>2

(* The head is done with: stored, or refused and skipped. *)
LEMMA QueueHeadGone ==
    ASSUME Queue!QueueAssumption, Queue!OrderInv, qWorker.pc \in {"insert", "invalid"},
           qWorker' = [qWorker EXCEPT !.pc = "next", !.splits = Tail(@)],
           UNCHANGED <<qQueue, qLink, drop>>
    PROVE  /\ qWorker' \in Queue!WorkerStates /\ qWorker'.pc = "next"
           /\ qWorker'.batch = qWorker.batch /\ qWorker'.splits = Tail(qWorker.splits)
           /\ Queue!Sequenced' /\ Queue!Places'
           /\ Queue!Held' \subseteq Queue!Held /\ Queue!Held \subseteq Queue!Held' \cup Queue!InSub
  <1>1. /\ qWorker' \in Queue!WorkerStates /\ qWorker'.pc = "next"
        /\ qWorker'.batch = qWorker.batch /\ qWorker'.splits = Tail(qWorker.splits)
    <2> DEFINE t == Tail(qWorker.splits)
    <2>1. t \in Seq(Queue!Batches) /\ qWorker' = [qWorker EXCEPT !.pc = "next", !.splits = t]
      BY QueueHead
    <2> HIDE DEF t
    <2>2. /\ qWorker' \in Queue!WorkerStates /\ qWorker'.pc = "next"
          /\ qWorker'.batch = qWorker.batch /\ qWorker'.splits = t
      BY <2>1, QueueBasics DEF Queue!WorkerStates
    <2> QED BY <2>2 DEF t
  <1>2. Queue!Sequenced'
    <2>1. Queue!Below(Queue!Entries(qWorker'.batch) \cup Spread(qWorker'.splits),
                      Queue!Entries(qQueue'))
      BY <1>1, QueueHead, QueueBasics DEF Queue!Below
    <2> QED BY <1>1, <2>1, QueueHead, QueueBasics, QueueSequenced
  <1>3. Queue!Places'
    BY <1>1, QueueHead DEF Queue!OrderInv, Queue!Places, Queue!Stage, Queue!Checks
  <1>4. Queue!Held' \subseteq Queue!Held /\ Queue!Held \subseteq Queue!Held' \cup Queue!InSub
    BY <1>1, QueueHead, QueueBasics, QueueHeldNext
  <1> QED BY <1>1, <1>2, <1>3, <1>4

LEMMA QueueInsert ==
    ASSUME Queue!QueueAssumption, Queue!OrderInv, Queue!Insert
    PROVE  /\ Queue!OrderInv' /\ qWorker'.pc = "next" /\ qWorker.pc = "insert"
           /\ Queue!Absent' = Queue!Absent \ Queue!InSub /\ Queue!Lost' = Queue!Lost
  <1>0. /\ qWorker.pc = "insert" /\ qStored' = qStored \cup Queue!InSub
        /\ qWorker' = [qWorker EXCEPT !.pc = "next", !.splits = Tail(@)]
        /\ UNCHANGED <<qArrived, qLink, qQueue, drop, dropped_count>>
    BY DEF Queue!Insert
  <1>1. /\ qWorker' \in Queue!WorkerStates /\ qWorker'.pc = "next"
        /\ Queue!Sequenced' /\ Queue!Places'
        /\ Queue!Held' \subseteq Queue!Held /\ Queue!Held \subseteq Queue!Held' \cup Queue!InSub
    BY <1>0, QueueHeadGone
  <1>2. Queue!OrderInv'
    BY <1>0, <1>1, QueueCommits, QueueMoves
  <1>3. Queue!Absent' = Queue!Absent \ Queue!InSub
    BY <1>0 DEF Queue!Absent
  <1>4. Queue!Lost' = Queue!Lost
    BY <1>1, <1>3, QueueHead, <1>0 DEF Queue!Lost
  <1> QED BY <1>0, <1>1, <1>2, <1>3, <1>4

LEMMA QueueInsertFails ==
    ASSUME Queue!QueueAssumption, Queue!OrderInv, Queue!InsertFails
    PROVE  /\ Queue!OrderInv' /\ qWorker' = qWorker /\ qWorker.pc = "insert"
           /\ Queue!Absent' = Queue!Absent \/ Queue!Absent' = Queue!Absent \ Queue!InSub
           /\ Queue!Lost' = Queue!Lost
  <1>0. /\ qWorker.pc = "insert" /\ (qStored' = qStored \/ qStored' = qStored \cup Queue!InSub)
        /\ UNCHANGED <<qArrived, qLink, qQueue, qWorker, drop, dropped_count>>
    BY DEF Queue!InsertFails
  <1>1. Queue!Held' = Queue!Held
    BY <1>0, QueueBasics, QueueHeldNext
  <1>2. Queue!Sequenced' /\ Queue!Places'
    BY <1>0 DEF Queue!OrderInv, Queue!Sequenced, Queue!Places, Queue!InSplits, Queue!Stage,
                Queue!Sub, Queue!InSub
  <1>3. Queue!OrderInv'
    BY <1>0, <1>1, <1>2, QueueBasics, QueueCommits, QueueMoves
  <1>4. Queue!Absent' = Queue!Absent \/ Queue!Absent' = Queue!Absent \ Queue!InSub
    BY <1>0 DEF Queue!Absent
  <1>5. Queue!Lost' = Queue!Lost
    BY <1>0, <1>1, <1>4, QueueHead DEF Queue!Lost
  <1> QED BY <1>0, <1>3, <1>4, <1>5

LEMMA QueueSkips ==
    ASSUME Queue!QueueAssumption, Queue!OrderInv, Queue!SkipInvalid \/ Queue!SkipInvalidFails
    PROVE  /\ Queue!OrderInv' /\ qWorker'.pc = "next" /\ Queue!Absent' = Queue!Absent
           /\ Queue!Lost' \subseteq Queue!Lost \cup Queue!InSub
  <1>0. /\ qWorker.pc = "invalid" /\ qWorker' = [qWorker EXCEPT !.pc = "next", !.splits = Tail(@)]
        /\ UNCHANGED <<qArrived, qLink, qQueue, qStored, drop, dropped_count>>
    BY DEF Queue!SkipInvalid, Queue!SkipInvalidFails
  <1>1. /\ qWorker' \in Queue!WorkerStates /\ qWorker'.pc = "next"
        /\ Queue!Sequenced' /\ Queue!Places'
        /\ Queue!Held' \subseteq Queue!Held /\ Queue!Held \subseteq Queue!Held' \cup Queue!InSub
    BY <1>0, QueueHeadGone
  <1>2. Queue!InSub \subseteq Poison
    BY <1>0 DEF Queue!OrderInv, Queue!Places
  <1>3. Queue!HasNewest' /\ \A w \in Queue!Held \ qStored', m \in qStored' : m < w
    BY <1>0 DEF Queue!OrderInv, Queue!HasNewest, Queue!NotOvertaken
  <1>4. Queue!OrderInv'
    BY <1>0, <1>1, <1>2, <1>3, QueueBasics, QueueMoves
  <1> QED BY <1>0, <1>1, <1>4 DEF Queue!Absent, Queue!Lost

LEMMA QueueRefused ==
    ASSUME Queue!QueueAssumption, Queue!OrderInv, Queue!Refused
    PROVE  /\ Queue!OrderInv' /\ qWorker'.pc \in {"next", "invalid"}
           /\ Queue!Absent' = Queue!Absent /\ Queue!Lost' = Queue!Lost
  <1>0. /\ qWorker.pc = "insert" /\ Queue!InSub \cap Poison # {}
        /\ qWorker' = IF Len(Queue!Sub) = 1 THEN [qWorker EXCEPT !.pc = "invalid"]
                      ELSE [qWorker EXCEPT !.pc = "next", !.splits = Queue!Halves(Queue!Sub) \o Tail(@)]
        /\ UNCHANGED <<qArrived, qLink, qQueue, qStored, drop, dropped_count>>
    BY DEF Queue!Refused
  <1>1. Queue!HasNewest' /\ \A w \in Queue!Held \ qStored', m \in qStored' : m < w
    BY <1>0 DEF Queue!OrderInv, Queue!HasNewest, Queue!NotOvertaken
  <1>2. CASE Len(Queue!Sub) = 1
    <2>1. qWorker' = [qWorker EXCEPT !.pc = "invalid"]
      BY <1>0, <1>2
    <2>2. /\ qWorker' \in Queue!WorkerStates /\ qWorker'.pc = "invalid"
          /\ qWorker'.batch = qWorker.batch /\ qWorker'.splits = qWorker.splits
      BY <2>1, QueueBasics DEF Queue!WorkerStates
    <2>3. Queue!Sub' = Queue!Sub /\ Queue!InSub' = Queue!InSub
      BY <2>2 DEF Queue!Sub, Queue!InSub
    <2>4. Queue!InSub \subseteq Poison
      <3>1. DOMAIN Queue!Sub = {1}
        BY <1>0, <1>2, QueueHead DEF Queue!Batches
      <3>2. Queue!InSub = {Queue!Sub[1]}
        BY <3>1 DEF Queue!InSub, Queue!Entries
      <3> QED BY <1>0, <3>2
    <2>5. Queue!Places'
      BY <1>0, <1>2, <2>2, <2>3, <2>4, QueueHead
         DEF Queue!OrderInv, Queue!Places, Queue!Stage, Queue!Checks
    <2> QED BY <1>0, <2>2, <2>5, QueueBasics, QueueStill DEF Queue!Absent
  <1>3. CASE Len(Queue!Sub) # 1
    <2> DEFINE t == Queue!Halves(Queue!Sub) \o Tail(qWorker.splits)
    <2>1. t \in Seq(Queue!Batches) /\ t # <<>> /\ Spread(t) = Spread(qWorker.splits) /\ Chained(t)
      BY <1>0, QueueHead, QueueBasics, QueueBatches, QueueSplit DEF Queue!Sub, Queue!Batches
    <2>2. qWorker' = [qWorker EXCEPT !.pc = "next", !.splits = t]
      BY <1>0, <1>3
    <2> HIDE DEF t
    <2>3. /\ qWorker' \in Queue!WorkerStates /\ qWorker'.pc = "next"
          /\ qWorker'.batch = qWorker.batch /\ qWorker'.splits = t
      BY <2>1, <2>2, QueueBasics DEF Queue!WorkerStates
    <2>4. Queue!Held' = Queue!Held
      BY <1>0, <2>1, <2>3, QueueBasics, QueueHeldNext
    <2>5. Queue!Sequenced'
      BY <1>0, <2>1, <2>3, QueueBasics, QueueSequenced
    <2>6. Queue!Places'
      BY <1>0, <2>3, QueueHead DEF Queue!OrderInv, Queue!Places, Queue!Stage, Queue!Checks
    <2>7. Queue!OrderInv'
      BY <1>0, <1>1, <2>3, <2>4, <2>5, <2>6, QueueBasics, QueueMoves
    <2> QED BY <1>0, <2>3, <2>4, <2>7 DEF Queue!Absent, Queue!Lost
  <1> QED BY <1>2, <1>3

(* A check of the overflow, on its way from `at' to `to'. *)
LEMMA QueueChecks ==
    ASSUME Queue!QueueAssumption, Queue!OrderInv,
           NEW at, NEW to,
           \/ at = "head" /\ to = "recv"
           \/ at = "final" /\ to = "done"
           \/ at = "next" /\ to = "insert" /\ qWorker.splits # <<>>,
           Queue!CheckOverflow(at, to)
    PROVE  /\ Queue!OrderInv' /\ Queue!Held' = Queue!Held /\ Queue!Lost' = Queue!Lost
           /\ qWorker'.pc = (IF Queue!gap_needs_persistence THEN "gap" ELSE to)
           /\ qWorker'.splits = qWorker.splits
  <1> DEFINE pc == IF Queue!gap_needs_persistence THEN "gap" ELSE to
  <1>0. /\ qWorker.pc = at /\ qWorker' = [qWorker EXCEPT !.pc = pc, !.ret = to]
        /\ UNCHANGED <<qLink, qArrived, qQueue, drop, dropped_count, qStored>>
    BY DEF Queue!CheckOverflow
  <1>1. pc \in {"gap", to} /\ to \in {"recv", "insert", "done"}
    OBVIOUS
  <1> HIDE DEF pc
  <1>2. /\ qWorker' \in Queue!WorkerStates /\ qWorker'.pc = pc /\ qWorker'.ret = to
        /\ qWorker'.batch = qWorker.batch /\ qWorker'.splits = qWorker.splits
    BY <1>0, <1>1, QueueBasics DEF Queue!WorkerStates, Queue!Checks
  <1>3. Queue!Stage' = to /\ qWorker'.pc \notin {"invalid", "fill", "aborted"}
    BY <1>1, <1>2 DEF Queue!Stage, Queue!Checks
  <1>4. Queue!Stage = at
    BY <1>0 DEF Queue!Stage, Queue!Checks
  <1>5. /\ qWorker.batch = <<>> /\ qLink # "ended"
        /\ qWorker.splits # <<>> => to = "insert"
        /\ to = "insert" => qWorker.splits # <<>>
        /\ to = "done" => qLink # "connected" /\ qQueue = <<>>
    BY <1>0, <1>4 DEF Queue!OrderInv, Queue!Places
  <1>6. Queue!Places'
    <2>1. qLink # "connected" => drop = "none"
      BY DEF Queue!OrderInv, Queue!Places
    <2> QED BY <1>0, <1>1, <1>2, <1>3, <1>5, <2>1 DEF Queue!Places
  <1> QED BY <1>0, <1>2, <1>6, QueueBasics, QueueStill DEF pc

LEMMA QueuePersists ==
    ASSUME Queue!QueueAssumption, Queue!OrderInv,
           \/ Queue!MarkUncertain \/ Queue!MarkUncertainFails \/ Queue!MarkGapPersisted
           \/ Queue!LookAgain \/ Queue!LowerAlarm
    PROVE  /\ Queue!OrderInv' /\ Queue!Held' = Queue!Held /\ Queue!Lost' = Queue!Lost
           /\ qWorker'.pc \in {qWorker.ret, "persisted", "look", "lower"}
           /\ qWorker.pc \in Queue!Checks
  <1>0. /\ qWorker.pc \in Queue!Checks
        /\ UNCHANGED <<qLink, qArrived, qQueue, drop, dropped_count, qStored>>
    BY DEF Queue!MarkUncertain, Queue!MarkUncertainFails, Queue!MarkGapPersisted,
           Queue!LookAgain, Queue!LowerAlarm, Queue!Checks
  <1>1. qWorker.ret \in {"recv", "insert", "done"} /\ Queue!gap_needs_persistence \in BOOLEAN
    BY QueueBasics DEF Queue!WorkerStates, Queue!gap_needs_persistence
  <1>2. /\ qWorker' \in Queue!WorkerStates /\ qWorker'.ret = qWorker.ret
        /\ qWorker'.batch = qWorker.batch /\ qWorker'.splits = qWorker.splits
        /\ qWorker'.pc \in {qWorker.ret, "persisted", "look", "lower"}
    <2>1. CASE Queue!LookAgain
      <3>1. qWorker' = [qWorker EXCEPT !.pc = "lower", !.seen = Queue!gap_needs_persistence]
        BY <2>1 DEF Queue!LookAgain
      <3> QED BY <1>1, <3>1, QueueBasics DEF Queue!WorkerStates, Queue!Checks
    <2>2. CASE ~Queue!LookAgain
      <3>1. \E pc \in {qWorker.ret, "persisted", "look"} : qWorker' = [qWorker EXCEPT !.pc = pc]
        BY <2>2 DEF Queue!MarkUncertain, Queue!MarkUncertainFails, Queue!MarkGapPersisted,
                    Queue!LowerAlarm
      <3> QED BY <1>1, <3>1, QueueBasics DEF Queue!WorkerStates, Queue!Checks
    <2> QED BY <2>1, <2>2
  <1>3. Queue!Stage' = qWorker.ret /\ Queue!Stage = qWorker.ret
    BY <1>0, <1>1, <1>2 DEF Queue!Stage, Queue!Checks
  <1>4. Queue!Places'
    <2>1. /\ qWorker.batch = <<>> /\ qLink # "ended"
          /\ qWorker.splits # <<>> => qWorker.ret = "insert"
          /\ qWorker.ret = "insert" => qWorker.splits # <<>>
          /\ qWorker.ret = "done" => qLink # "connected" /\ qQueue = <<>>
          /\ qLink # "connected" => drop = "none"
      BY <1>0, <1>1, <1>3 DEF Queue!OrderInv, Queue!Places, Queue!Checks
    <2> QED BY <1>0, <1>1, <1>2, <1>3, <2>1 DEF Queue!Places
  <1> QED BY <1>0, <1>2, <1>4, QueueBasics, QueueStill

LEMMA QueueEnds ==
    ASSUME Queue!QueueAssumption, Queue!OrderInv,
           \/ Queue!Drained \/ Queue!BatchDone \/ Queue!Disconnect \/ Queue!FinishConnection
           \/ Queue!DrainTimeout
    PROVE  /\ Queue!OrderInv' /\ Queue!Held' = Queue!Held /\ Queue!Lost' = Queue!Lost
           /\ qWorker' = qWorker \/ qWorker'.pc \in {"final", "head", "aborted"}
  <1>0. /\ UNCHANGED <<qArrived, qQueue, drop, dropped_count, qStored>>
    BY DEF Queue!Drained, Queue!BatchDone, Queue!Disconnect, Queue!FinishConnection,
           Queue!DrainTimeout
  <1>1. /\ qWorker' \in Queue!WorkerStates
        /\ qWorker'.batch = qWorker.batch /\ qWorker'.splits = qWorker.splits
        /\ qWorker' = qWorker \/ qWorker'.pc \in {"final", "head", "aborted"}
    <2>1. qWorker' = qWorker \/ \E pc \in {"final", "head", "aborted"} :
                                    qWorker' = [qWorker EXCEPT !.pc = pc]
      BY DEF Queue!Drained, Queue!BatchDone, Queue!Disconnect, Queue!FinishConnection,
             Queue!DrainTimeout
    <2> QED BY <2>1, QueueBasics DEF Queue!WorkerStates
  <1>2. Queue!Places'
    <2> USE <1>0, <1>1 DEF Queue!OrderInv, Queue!Places, Queue!Stage, Queue!Checks,
                           Queue!Sub, Queue!InSub
    <2>1. CASE Queue!Drained
      <3>1. qWorker.pc = "recv" /\ qQueue = <<>> /\ qLink = "closing" /\ qLink' = qLink
            /\ qWorker' = [qWorker EXCEPT !.pc = "final"]
        BY <2>1 DEF Queue!Drained
      <3>2. qWorker'.pc = "final"
        BY <3>1, QueueBasics DEF Queue!WorkerStates
      <3> QED BY <3>1, <3>2
    <2>2. CASE Queue!BatchDone
      <3>1. qWorker.pc = "next" /\ qWorker.splits = <<>> /\ qLink' = qLink
            /\ qWorker' = [qWorker EXCEPT !.pc = "head"]
        BY <2>2 DEF Queue!BatchDone
      <3>2. qWorker'.pc = "head"
        BY <3>1, QueueBasics DEF Queue!WorkerStates
      <3> QED BY <3>1, <3>2
    <2>3. CASE Queue!Disconnect
      <3>1. qWorker' = qWorker /\ qLink = "connected" /\ drop = "none" /\ qLink' = "closing"
        BY <2>3 DEF Queue!Disconnect
      <3> QED BY <3>1
    <2>4. CASE Queue!FinishConnection
      <3>1. qWorker' = qWorker /\ qLink = "closing" /\ qWorker.pc = "done" /\ qLink' = "ended"
        BY <2>4 DEF Queue!FinishConnection
      <3> QED BY <3>1
    <2>5. CASE Queue!DrainTimeout
      <3>1. qLink = "closing" /\ qLink' = "aborted" /\ qWorker' = [qWorker EXCEPT !.pc = "aborted"]
        BY <2>5 DEF Queue!DrainTimeout
      <3>2. qWorker'.pc = "aborted"
        BY <3>1, QueueBasics DEF Queue!WorkerStates
      <3> QED BY <3>1, <3>2
    <2> QED BY <2>1, <2>2, <2>3, <2>4, <2>5
  <1> QED BY <1>0, <1>1, <1>2, QueueBasics, QueueStill

LEMMA QueueOrderNext ==
    ASSUME Queue!QueueAssumption, Queue!OrderInv, [Queue!Next]_(Queue!vars)
    PROVE  Queue!OrderInv'
  <1>1. CASE UNCHANGED Queue!vars
    <2>1. UNCHANGED <<qLink, qArrived, qQueue, drop, dropped_count, qWorker, qStored>>
      BY <1>1 DEF Queue!vars
    <2>2. Queue!Places'
      BY <2>1 DEF Queue!OrderInv, Queue!Places, Queue!Stage, Queue!Sub, Queue!InSub
    <2> QED BY <2>1, <2>2, QueueBasics, QueueStill
  <1>2. CASE Queue!Callback
    BY <1>2, QueueEnqueue, QueueAskForGap, QueueCounts DEF Queue!Callback
  <1>3. CASE Queue!PersistOverflowGap
    <2>1. CASE Queue!CheckOverflow("head", "recv")
      BY <2>1, QueueChecks
    <2>2. CASE Queue!CheckOverflow("final", "done")
      BY <2>2, QueueChecks
    <2>3. CASE qWorker.splits # <<>> /\ Queue!CheckOverflow("next", "insert")
      BY <2>3, QueueChecks
    <2> QED BY <1>3, <2>1, <2>2, <2>3, QueuePersists DEF Queue!PersistOverflowGap
  <1>4. CASE Queue!Batch
    BY <1>4, QueueTake, QueueFlush, QueueInsert, QueueInsertFails, QueueRefused, QueueSkips,
       QueueEnds DEF Queue!Batch
  <1>5. CASE Queue!Disconnect \/ Queue!FinishConnection \/ Queue!DrainTimeout
    BY <1>5, QueueEnds
  <1> QED BY <1>1, <1>2, <1>3, <1>4, <1>5 DEF Queue!Next

-----------------------------------------------------------------------------
(* The gap of the epoch; the transactions that write it may fail.           *)
(*                                                                          *)
(* What is owed is absent and not given up by a failed write.  Steps that   *)
(* leave the same messages absent and lost leave the same owed.             *)

LEMMA QueueOwed ==
    /\ Queue!Owed \subseteq Queue!Absent /\ Queue!OwedLost \subseteq Queue!Lost
    /\ Queue!OwedLost \subseteq Queue!Owed
    /\ \A m \in Queue!Owed : m \notin Queue!Held => m \in Queue!OwedLost
    /\ (unrecorded' = unrecorded /\ Queue!Lost' = Queue!Lost) => Queue!OwedLost' = Queue!OwedLost
    /\ (unrecorded' = unrecorded /\ Queue!Absent' = Queue!Absent) => Queue!Owed' = Queue!Owed
  BY DEF Queue!Owed, Queue!OwedLost, Queue!Lost

LEMMA QueueCursor ==
    ASSUME Queue!QueueAssumption, Queue!OrderInv, Queue!GapInv
    PROVE  /\ Queue!WithGap \in 0..qArrived /\ Queue!WithGap # Queue!NoGap
           /\ \A m \in Queue!Owed : Queue!WithGap < m
           /\ Queue!NoGap \notin Nat
  <1>0. Queue!NoGap \notin Nat /\ \A n \in Nat : n # Queue!NoGap
    BY DEF Queue!NoGap
  <1>1. CASE qGap # Queue!NoGap
    BY <1>0, <1>1, QueueBasics DEF Queue!GapInv, Queue!WithGap
  <1>2. CASE qGap = Queue!NoGap
    <2>1. Queue!WithGap = Queue!Cursor /\ Queue!Below(qStored, Queue!Owed)
      BY <1>2 DEF Queue!GapInv, Queue!WithGap
    <2>2. CASE qStored = {}
      <3>1. Queue!Cursor = 0
        BY <2>2 DEF Queue!Cursor
      <3> QED BY <1>0, <2>1, <3>1, QueueBasics, QueueOwed DEF Queue!Absent
    <2>3. CASE qStored # {}
      <3>1. \E m \in qStored : \A k \in qStored : k <= m
        BY <2>3 DEF Queue!OrderInv, Queue!HasNewest
      <3>2. Queue!Cursor = CHOOSE m \in qStored : \A k \in qStored : k <= m
        BY <2>3 DEF Queue!Cursor
      <3>3. Queue!Cursor \in qStored
        BY <3>1, <3>2
      <3>4. Queue!Cursor \in 0..qArrived /\ Queue!Cursor \in Nat
        BY <3>3, QueueBasics
      <3> QED BY <1>0, <2>1, <3>3, <3>4 DEF Queue!Below
    <2> QED BY <2>2, <2>3
  <1> QED BY <1>1, <1>2

(* A gap that is written now lies below all that is owed, and stays.        *)
LEMMA QueueGapWritten ==
    ASSUME Queue!QueueAssumption, Queue!OrderInv, Queue!GapInv, qGap' = Queue!WithGap,
           qArrived' = qArrived, Queue!Owed' \subseteq Queue!Owed
    PROVE  Queue!GapInv'
  BY QueueCursor DEF Queue!GapInv

(* Where a write of the gap failed and none was there, what is lost by then *)
(* is given up; nothing else is.                                            *)
LEMMA QueueGapFails ==
    ASSUME Queue!QueueAssumption, Queue!OrderInv, Queue!GapInv, NEW M, Queue!GapFails(M),
           UNCHANGED <<qArrived, qStored, qLink, gap_persisted, drop, dropped_count>>,
           Queue!Lost' \subseteq Queue!Lost \cup M,
           Queue!Lost \subseteq M \/ qWorker'.pc # "insert",
           qLink # "ended", qWorker'.pc \notin {"persisted", "look", "lower"}
    PROVE  Queue!GapInv'
  <1>1. Queue!Absent' = Queue!Absent
    BY DEF Queue!Absent
  <1>2. Queue!Owed' \subseteq Queue!Owed
    BY <1>1 DEF Queue!GapFails, Queue!Owed
  <1>3. CASE qGap' = Queue!WithGap
    BY <1>2, <1>3, QueueGapWritten
  <1>4. CASE qGap' = qGap /\ qGap # Queue!NoGap
    BY <1>2, <1>4 DEF Queue!GapInv
  <1>5. CASE qGap' = qGap /\ qGap = Queue!NoGap
    <2>1. unrecorded' = unrecorded \cup M
      BY <1>5 DEF Queue!GapFails
    <2>2. Queue!OwedLost' \subseteq Queue!OwedLost
      BY <2>1 DEF Queue!OwedLost
    <2>3. qWorker'.pc = "insert" => Queue!OwedLost' = {}
      BY <2>1 DEF Queue!OwedLost
    <2> QED BY <1>2, <1>5, <2>2, <2>3 DEF Queue!GapInv, Queue!Below
  <1> QED BY <1>3, <1>4, <1>5 DEF Queue!GapFails

LEMMA QueueGapInit == Queue!QueueAssumption /\ Queue!Init => Queue!GapInv
  <1> SUFFICES ASSUME Queue!Init PROVE Queue!GapInv
    OBVIOUS
  <1>1. /\ qArrived = 0 /\ qStored = {} /\ qGap = Queue!NoGap
        /\ qLink = "connected" /\ ~gap_persisted /\ qWorker.pc = "head"
    BY DEF Queue!Init, Queue!Waiting
  <1>2. Queue!Owed = {} /\ Queue!OwedLost = {}
    BY <1>1 DEF Queue!Absent, Queue!Lost, Queue!Owed, Queue!OwedLost
  <1> QED BY <1>1, <1>2 DEF Queue!GapInv, Queue!Below

(* Steps that leave the gap and what is owed as they are. *)
LEMMA QueueGapKept ==
    ASSUME Queue!GapInv,
           UNCHANGED <<qArrived, qStored, qGap, unrecorded, gap_persisted, drop, dropped_count>>,
           Queue!Lost' = Queue!Lost,
           qLink' = "ended" => qLink = "ended",
           qGap = Queue!NoGap => qWorker'.pc \notin {"persisted", "look", "lower"},
           qGap = Queue!NoGap /\ qWorker'.pc = "insert" => Queue!Below(Queue!InSub', Queue!OwedLost)
    PROVE  Queue!GapInv'
  <1>1. Queue!Owed' = Queue!Owed /\ Queue!OwedLost' = Queue!OwedLost
    BY QueueOwed DEF Queue!Absent
  <1> QED BY <1>1 DEF Queue!GapInv

LEMMA QueueGapCallback ==
    ASSUME Queue!QueueAssumption, Queue!OrderInv, Queue!GapInv, Queue!Callback
    PROVE  Queue!GapInv'
  <1>0. /\ UNCHANGED <<qLink, qWorker, qStored, qGap, unrecorded>>
        /\ Queue!InSub' = Queue!InSub
    BY DEF Queue!Callback, Queue!Enqueue, Queue!AskForGap, Queue!CountDrop, Queue!RaiseAlarm,
           Queue!InSub, Queue!Sub
  <1>1. CASE Queue!Enqueue \/ Queue!AskForGap
    <2> DEFINE n == qArrived + 1
    <2>1. /\ qArrived' = n /\ drop = "none" /\ dropped_count' = dropped_count
          /\ \/ gap_persisted' = gap_persisted /\ drop' = drop /\ Queue!OwedLost' = Queue!OwedLost
             \/ ~gap_persisted' /\ drop' = "count" /\ Queue!OwedLost' \subseteq Queue!OwedLost \cup {n}
      BY <1>0, <1>1, QueueEnqueue, QueueAskForGap DEF Queue!Enqueue, Queue!AskForGap, Queue!OwedLost
    <2>2. n \in Nat /\ 1..n = 1..qArrived \cup {n} /\ (\A m \in 0..qArrived : m < n)
          /\ 0..qArrived \subseteq 0..n
      BY QueueBasics
    <2> HIDE DEF n
    <2>3. Queue!Owed' \subseteq Queue!Owed \cup {n}
      BY <1>0, <2>1, <2>2 DEF Queue!Absent, Queue!Owed
    <2>4. qStored \subseteq 0..qArrived /\ (qWorker.pc = "insert" => Queue!InSub \subseteq 0..qArrived)
      BY QueueBasics, QueueHead
    <2>5. qGap \in {Queue!NoGap} \cup 0..qArrived'
      BY <2>1, <2>2 DEF Queue!GapInv
    <2>6. qGap # Queue!NoGap => \A m \in Queue!Owed' : qGap < m
      <3> SUFFICES ASSUME qGap # Queue!NoGap, NEW m \in Queue!Owed'
                   PROVE  qGap < m
        OBVIOUS
      <3>1. CASE m \in Queue!Owed
        BY <3>1 DEF Queue!GapInv
      <3>2. CASE m = n
        <4>1. qGap \in 0..qArrived
          BY DEF Queue!GapInv
        <4> QED BY <2>2, <3>2, <4>1
      <3> QED BY <2>3, <3>1, <3>2
    <2>7. ASSUME qGap = Queue!NoGap
          PROVE  /\ Queue!Below(qStored, Queue!Owed') /\ ~gap_persisted'
                 /\ dropped_count = 0 => \A m \in Queue!OwedLost' : m = qArrived' /\ drop' = "count"
                 /\ qWorker.pc = "insert" => Queue!Below(Queue!InSub, Queue!OwedLost')
      <3>1. Queue!Below(qStored, Queue!Owed')
        BY <2>2, <2>3, <2>4, <2>7 DEF Queue!GapInv, Queue!Below
      <3>2. ~gap_persisted'
        BY <2>1, <2>7 DEF Queue!GapInv
      <3>3. dropped_count = 0 => \A m \in Queue!OwedLost' : m = qArrived' /\ drop' = "count"
        BY <2>1, <2>7 DEF Queue!GapInv
      <3>4. qWorker.pc = "insert" => Queue!Below(Queue!InSub, Queue!OwedLost')
        BY <2>1, <2>2, <2>4, <2>7 DEF Queue!GapInv, Queue!Below
      <3> QED BY <3>1, <3>2, <3>3, <3>4
    <2> QED BY <1>0, <2>1, <2>5, <2>6, <2>7 DEF Queue!GapInv
  <1>2. CASE Queue!CountDrop \/ Queue!RaiseAlarm
    <2>1. /\ qArrived' = qArrived /\ gap_persisted' = gap_persisted /\ Queue!OwedLost' = Queue!OwedLost
          /\ dropped_count' = 0 => dropped_count = 0 /\ drop # "count"
      <3>1. dropped_count \in Nat
        BY QueueBasics
      <3>2. Queue!OwedLost' = Queue!OwedLost
        BY <1>0, <1>2, QueueCounts, QueueOwed
      <3> QED BY <1>2, <3>1, <3>2 DEF Queue!CountDrop, Queue!RaiseAlarm
    <2>2. Queue!Owed' = Queue!Owed
      BY <1>0, <2>1, QueueOwed DEF Queue!Absent
    <2> QED BY <1>0, <2>1, <2>2 DEF Queue!GapInv
  <1> QED BY <1>1, <1>2 DEF Queue!Callback

(* Before a batch is inserted the check has seen every message dropped      *)
(* before the last of the batch entered the queue.                          *)
LEMMA QueueGapChecks ==
    ASSUME Queue!QueueAssumption, Queue!OrderInv, Queue!GapInv,
           Queue!PersistOverflowGap
    PROVE  Queue!GapInv'
  <1>1. ASSUME NEW at, NEW to,
               \/ at = "head" /\ to = "recv"
               \/ at = "final" /\ to = "done"
               \/ at = "next" /\ to = "insert" /\ qWorker.splits # <<>>,
               Queue!CheckOverflow(at, to)
        PROVE  Queue!GapInv'
    <2>1. /\ UNCHANGED <<qLink, qArrived, qStored, qGap, unrecorded, gap_persisted, drop,
                         dropped_count>>
          /\ Queue!Lost' = Queue!Lost /\ Queue!OrderInv' /\ Queue!Held' = Queue!Held
          /\ qWorker'.pc = (IF Queue!gap_needs_persistence THEN "gap" ELSE to)
      BY <1>1, QueueChecks DEF Queue!CheckOverflow
    <2>2. ASSUME qGap = Queue!NoGap, qWorker'.pc = "insert"
          PROVE  Queue!Below(Queue!InSub', Queue!OwedLost)
      <3>1. dropped_count = 0
        BY <2>1, <2>2, QueueBasics DEF Queue!GapInv, Queue!gap_needs_persistence
      <3>2. \A m \in Queue!OwedLost : m = qArrived
        BY <2>2, <3>1 DEF Queue!GapInv
      <3>3. Queue!InSub' \subseteq Queue!Held
        <4>1. Queue!Sub' \in Queue!Batches /\ qWorker'.splits # <<>>
              /\ Queue!InSub' \subseteq Spread(qWorker'.splits)
          <5>1. qWorker'.splits # <<>> /\ qWorker'.splits = qWorker.splits
            BY <1>1, <2>1, <2>2, QueueChecks
          <5>2. qWorker.splits \in Seq(Seq(1..QueueMessages))
            BY QueueBasics DEF Queue!Batches
          <5>3. /\ Head(qWorker.splits) \in Seq(1..QueueMessages)
                /\ Queue!Entries(Head(qWorker.splits)) \subseteq Spread(qWorker.splits)
            BY <5>1, <5>2, QueueFirst
          <5> QED BY <5>1, <5>3 DEF Queue!Sub, Queue!InSub, Queue!Batches
        <4> QED BY <2>1, <4>1, QueueHeldNext
      <3>4. \A x \in Queue!InSub' : x \in 1..qArrived /\ x \notin Queue!OwedLost
        BY <3>3, QueueBasics DEF Queue!Lost, Queue!OwedLost
      <3> QED BY <3>2, <3>4, QueueBasics DEF Queue!Below
    <2> QED BY <1>1, <2>1, <2>2, QueueGapKept
  <1>2. CASE Queue!MarkUncertain
    BY <1>2, QueueGapWritten DEF Queue!MarkUncertain, Queue!Absent, Queue!Owed
  <1>3. CASE Queue!MarkUncertainFails
    <2>1. /\ Queue!GapFails(Queue!Lost) /\ qWorker.pc = "gap"
          /\ UNCHANGED <<qArrived, qStored, qLink, gap_persisted, drop, dropped_count>>
          /\ qWorker' = [qWorker EXCEPT !.pc = qWorker.ret]
      BY <1>3 DEF Queue!MarkUncertainFails
    <2>2. Queue!Lost' = Queue!Lost
      BY <1>3, QueuePersists
    <2>3. qWorker'.pc \notin {"persisted", "look", "lower"}
      BY <2>1, QueueBasics DEF Queue!WorkerStates
    <2>4. qLink # "ended"
      BY <2>1 DEF Queue!OrderInv, Queue!Places
    <2> QED BY <2>1, <2>2, <2>3, <2>4, QueueGapFails
  <1>4. CASE Queue!MarkGapPersisted \/ Queue!LookAgain \/ Queue!LowerAlarm
    <2>1. /\ qWorker.pc \in {"persisted", "look", "lower"}
          /\ UNCHANGED <<qLink, qArrived, qStored, qGap, unrecorded>>
      BY <1>4 DEF Queue!MarkGapPersisted, Queue!LookAgain, Queue!LowerAlarm
    <2>2. qGap # Queue!NoGap
      BY <2>1 DEF Queue!GapInv
    <2> QED BY <2>1, <2>2, QueueOwed DEF Queue!GapInv, Queue!Absent
  <1>5. CASE Queue!CheckOverflow("head", "recv")
    BY <1>1, <1>5
  <1>6. CASE Queue!CheckOverflow("final", "done")
    BY <1>1, <1>6
  <1>7. CASE qWorker.splits # <<>> /\ Queue!CheckOverflow("next", "insert")
    BY <1>1, <1>7
  <1> QED BY <1>2, <1>3, <1>4, <1>5, <1>6, <1>7 DEF Queue!PersistOverflowGap

LEMMA QueueGapBatch ==
    ASSUME Queue!QueueAssumption, Queue!OrderInv, Queue!GapInv,
           Queue!Batch
    PROVE  Queue!GapInv'
  <1>1. CASE Queue!Take("recv") \/ Queue!Take("fill") \/ Queue!Flush \/ Queue!Drained
             \/ Queue!BatchDone \/ Queue!Refused
    <2>1. UNCHANGED <<qLink, qArrived, qStored, qGap, unrecorded, gap_persisted, drop, dropped_count>>
      BY <1>1 DEF Queue!Take, Queue!Flush, Queue!Drained, Queue!BatchDone, Queue!Refused
    <2>2. Queue!Lost' = Queue!Lost
      BY <1>1, QueueTake, QueueFlush, QueueEnds, QueueRefused
    <2>3. qWorker'.pc \in {"fill", "next", "final", "head", "invalid"}
      <3>1. CASE Queue!Drained \/ Queue!BatchDone
        BY <3>1, QueueBasics DEF Queue!Drained, Queue!BatchDone, Queue!WorkerStates
      <3> QED BY <1>1, <3>1, QueueTake, QueueFlush, QueueRefused
    <2> QED BY <2>1, <2>2, <2>3, QueueGapKept
  <1>2. CASE Queue!Insert \/ Queue!InsertFails
    <2>1. /\ UNCHANGED <<qLink, qArrived, qGap, unrecorded, gap_persisted, drop, dropped_count>>
          /\ qStored' = qStored \/ qStored' = qStored \cup Queue!InSub
          /\ qWorker.pc = "insert"
      BY <1>2 DEF Queue!Insert, Queue!InsertFails
    <2>2. /\ Queue!Lost' = Queue!Lost
          /\ qWorker'.pc = "next" \/ qWorker' = qWorker
      BY <1>2, QueueInsert, QueueInsertFails
    <2>3. Queue!Owed' = Queue!Owed \ qStored'
      BY <2>1 DEF Queue!Absent, Queue!Owed
    <2>4. ASSUME qGap = Queue!NoGap PROVE Queue!Below(qStored', Queue!Owed')
      <3> SUFFICES ASSUME NEW k \in Queue!InSub, NEW m \in Queue!Owed \ Queue!InSub
                   PROVE  k < m
        BY <2>1, <2>3, <2>4 DEF Queue!GapInv, Queue!Below
      <3>1. CASE m \in Queue!OwedLost
        BY <2>1, <2>4, <3>1 DEF Queue!GapInv, Queue!Below
      <3>2. CASE m \notin Queue!OwedLost
        <4>1. m \in Queue!Held
          BY <3>2, QueueOwed
        <4>2. m \in Spread(Tail(qWorker.splits)) \cup Queue!Entries(qQueue)
          BY <2>1, <4>1, QueueBasics, QueueHead
        <4> QED BY <2>1, <4>2, QueueHead DEF Queue!Below
      <3> QED BY <3>1, <3>2
    <2>5. Queue!OwedLost' = Queue!OwedLost /\ (qWorker' = qWorker => Queue!InSub' = Queue!InSub)
      BY <2>1, <2>2, QueueOwed DEF Queue!InSub, Queue!Sub
    <2> QED BY <2>1, <2>2, <2>3, <2>4, <2>5 DEF Queue!GapInv
  <1>3. CASE Queue!SkipInvalid
    BY <1>3, QueueGapWritten DEF Queue!SkipInvalid, Queue!Absent, Queue!Owed
  <1>4. CASE Queue!SkipInvalidFails
    <2>1. /\ Queue!GapFails(Queue!InSub) /\ qWorker.pc = "invalid"
          /\ UNCHANGED <<qArrived, qStored, qLink, gap_persisted, drop, dropped_count>>
      BY <1>4 DEF Queue!SkipInvalidFails
    <2>2. qLink # "ended"
      BY <2>1 DEF Queue!OrderInv, Queue!Places
    <2> QED BY <1>4, <2>1, <2>2, QueueSkips, QueueGapFails
  <1> QED BY <1>1, <1>2, <1>3, <1>4 DEF Queue!Batch

LEMMA QueueGapNext ==
    ASSUME Queue!QueueAssumption, Queue!OrderInv, Queue!GapInv,
           [Queue!Next]_(Queue!vars)
    PROVE  Queue!GapInv'
  <1>1. CASE UNCHANGED Queue!vars
    <2>1. UNCHANGED <<qLink, qArrived, qQueue, drop, dropped_count, gap_persisted, qWorker, qStored,
                      qGap, unrecorded>>
      BY <1>1 DEF Queue!vars
    <2>2. Queue!Lost' = Queue!Lost /\ Queue!Owed' = Queue!Owed /\ Queue!InSub' = Queue!InSub
      BY <2>1, QueueBasics, QueueHeldNext DEF Queue!Lost, Queue!Absent, Queue!Owed, Queue!InSub,
         Queue!Sub
    <2> QED BY <2>1, <2>2, QueueOwed DEF Queue!GapInv
  <1>2. CASE Queue!Disconnect \/ Queue!DrainTimeout
    <2>1. /\ UNCHANGED <<qArrived, qStored, qGap, unrecorded, gap_persisted, drop, dropped_count>>
          /\ qLink' # "ended"
      BY <1>2 DEF Queue!Disconnect, Queue!DrainTimeout
    <2>2. /\ Queue!Lost' = Queue!Lost
          /\ qWorker' = qWorker \/ qWorker'.pc \in {"final", "head", "aborted"}
      BY <1>2, QueueEnds
    <2>3. qWorker' = qWorker => Queue!InSub' = Queue!InSub
      BY DEF Queue!InSub, Queue!Sub
    <2>4. qGap = Queue!NoGap => /\ qWorker.pc \notin {"persisted", "look", "lower"}
                                /\ qWorker.pc = "insert" => Queue!Below(Queue!InSub, Queue!OwedLost)
      BY DEF Queue!GapInv
    <2> QED BY <2>1, <2>2, <2>3, <2>4, QueueGapKept
  <1>3. CASE Queue!FinishConnection
    BY <1>3, QueueGapWritten DEF Queue!FinishConnection, Queue!Absent, Queue!Owed
  <1> QED BY <1>1, <1>2, <1>3, QueueGapCallback, QueueGapChecks, QueueGapBatch DEF Queue!Next

(* For any queue and batch sizes and any number of messages, refused ones,  *)
(* transient errors and timeouts: no message overtakes one that waits, and  *)
(* once the connection is over every message that entered the queue is      *)
(* stored or was itself refused (try_enqueue, process_batch_with_retry).    *)
THEOREM OrderKept ==
    ASSUME Queue!QueueAssumption
    PROVE  Queue!Spec => [](Queue!NotOvertaken /\ Queue!OnlyPoisonSkipped)
  <1>1. Queue!OrderInv => Queue!NotOvertaken /\ Queue!OnlyPoisonSkipped
    <2> SUFFICES ASSUME Queue!OrderInv, qLink = "ended"
                 PROVE  Cardinality((1..qArrived) \ (qStored \cup Poison)) <= dropped_count
      BY QueueCardinality DEF Queue!OrderInv, Queue!OnlyPoisonSkipped
    <2>1. /\ qWorker.pc = "done" /\ drop = "none" /\ qQueue = <<>>
          /\ qWorker.batch = <<>> /\ qWorker.splits = <<>>
      BY DEF Queue!OrderInv, Queue!Places, Queue!Stage, Queue!Checks
    <2>2. Queue!Held = {}
      BY <2>1 DEF Queue!Held, Queue!InSplits, Queue!Entries
    <2>3. Queue!Lost \ Poison = (1..qArrived) \ (qStored \cup Poison)
      BY <2>2 DEF Queue!Lost, Queue!Absent
    <2>4. Cardinality(Queue!Lost \ Poison) <= dropped_count
      <3>1. Cardinality(Queue!Lost \ Poison)
              <= dropped_count + IF drop = "count" THEN 1 ELSE 0
        BY QueueCardinality DEF Queue!OrderInv, Queue!DropsCounted
      <3> QED BY <2>1, <3>1, QueueBasics
    <2> QED BY <2>3, <2>4
  <1> QED BY <1>1, QueueInit, QueueOrderNext, PTL DEF Queue!Spec

(* What is not stored when the connection is over lies above the boundary   *)
(* of the gap, or it was lost by the time a write of that gap failed and    *)
(* left none; any number of those writes may fail (persist_overflow_gap     *)
(* before every batch, mark_connection_uncertain, finish_connection).       *)
THEOREM QueueLossIsCovered == IngestSpec => []QueueLossCovered
  <1>0. Queue!QueueAssumption
    BY IngestAssumption
  <1>1. Queue!GapInv => Queue!LossCovered
    BY DEF Queue!GapInv, Queue!LossCovered, Queue!Owed
  <1>2. Queue!Spec => [](Queue!OrderInv /\ Queue!GapInv)
    <2>1. Queue!Init => Queue!OrderInv /\ Queue!GapInv
      BY <1>0, QueueInit, QueueGapInit
    <2>2. /\ Queue!OrderInv /\ [Queue!Next]_(Queue!vars) => Queue!OrderInv'
          /\ Queue!OrderInv /\ Queue!GapInv /\ [Queue!Next]_(Queue!vars) => Queue!GapInv'
      BY <1>0, QueueOrderNext, QueueGapNext
    <2> QED BY <2>1, <2>2, PTL DEF Queue!Spec
  <1>3. Queue!NotOvertaken /\ Queue!OnlyPoisonSkipped /\ Queue!LossCovered => QueueLossCovered
    BY DEF Queue!QueueLossCovered, QueueLossCovered
  <1> QED BY <1>0, <1>1, <1>2, <1>3, OrderKept, PartsOfSpec, PTL

-----------------------------------------------------------------------------
(* 6. What a snapshot that is called complete holds.                        *)

LEMMA LeastIndex ==
    ASSUME NEW n \in Nat, NEW S \in SUBSET (1..n), S # {}
    PROVE  \E k \in S : \A j \in 1..(k - 1) : j \notin S
  <1> DEFINE R == OpToRel(<, Nat)
  <1>1. IsWellFoundedOn(R, Nat)
    BY NatLessThanWellFounded
  <1>2. \A x, y \in Nat : y < x => <<y, x>> \in R
    BY DEF OpToRel
  <1>3. S \in SUBSET Nat
    OBVIOUS
  <1> HIDE DEF R
  <1>4. PICK k \in S : \A y \in S : ~(<<y, k>> \in R)
    BY <1>1, <1>3, WFMin, Zenon
  <1>5. \A y \in S : ~(y < k)
    BY <1>2, <1>3, <1>4
  <1> QED BY <1>3, <1>5

LEMMA ListNumbers ==
    ASSUME NEW S, NEW list \in Seq(S)
    PROVE  /\ IsFiniteSet(IdsOf(list)) /\ Cardinality(IdsOf(list)) \in Nat
           /\ \A n \in Int : Len(list) <= n => Taken(list, n) = list
  <1>1. Len(list) \in Nat /\ DOMAIN list = 1..Len(list)
    OBVIOUS
  <1>2. list \in Surjection(1..Len(list), IdsOf(list))
    BY <1>1 DEF Surjection, IdsOf
  <1>3. IsFiniteSet(IdsOf(list))
    <2>1. 1 \in Int /\ Len(list) \in Int
      BY <1>1
    <2>2. IsFiniteSet(1..Len(list))
      BY <2>1, FS_Interval
    <2> QED BY <1>2, <2>2, FS_Surjection
  <1>4. ASSUME NEW n \in Int, Len(list) <= n PROVE Taken(list, n) = list
    <2>1. ~(n < Len(list))
      BY ONLY <1>1, <1>4, n \in Int
    <2>2. Taken(list, n) = SubSeq(list, 1, Len(list))
      BY <2>1, Zenon DEF Taken
    <2> QED BY <2>2, SubSeqFull
  <1> QED BY <1>3, <1>4, FS_CardinalityType

(* What the lists name is in the aggregate, when nothing is cut.            *)
LEMMA AggregateHolds ==
    ASSUME NEW f \in FriendLists, NEW g \in GroupLists, NEW r \in RecentLists, ~Cut(f, g, r)
    PROVE  /\ Members(f, g) \subseteq {<<e.kind, e.id>> : e \in Aggregated(f, g, r)}
           /\ \A c \in Contacts(r) : \E e \in Aggregated(f, g, r) : e.id = c[2]
  <1> DEFINE A == Aggregated(f, g, r)
             Held == {<<e.kind, e.id>> : e \in A}
             known == IdsOf(f)
             joined == IdsOf(g)
             fresh == {j \in DOMAIN r : r[j][2] \notin known \cup joined /\ FirstOf(r, j)}
  <1>0. /\ f \in Seq(Nat) /\ g \in Seq(Nat) /\ r \in Seq(STRING \X Nat) /\ max_entries \in Nat
        /\ Len(f) \in Nat /\ Len(g) \in Nat /\ Len(r) \in Nat
    BY DirectoryAssumption
  <1>1. /\ Len(f) <= max_entries /\ Cardinality(known) + Len(g) <= max_entries
        /\ Cardinality(known) + Cardinality(joined) + Len(r) <= max_entries
        /\ Cardinality(known) \in Nat /\ Cardinality(joined) \in Nat
    <2>1. Cardinality(known) \in Nat /\ Cardinality(joined) \in Nat
      BY <1>0, ListNumbers
    <2> QED BY <1>0, <2>1 DEF Cut
  <1>2. /\ Taken(f, max_entries) = f
        /\ Taken(g, max_entries - Cardinality(known)) = g
        /\ Taken(r, max_entries - Cardinality(known) - Cardinality(joined)) = r
    <2>1. /\ max_entries \in Int /\ max_entries - Cardinality(known) \in Int
          /\ max_entries - Cardinality(known) - Cardinality(joined) \in Int
          /\ Len(g) <= max_entries - Cardinality(known)
          /\ Len(r) <= max_entries - Cardinality(known) - Cardinality(joined)
      BY <1>0, <1>1
    <2> QED BY <1>0, <1>1, <2>1, ListNumbers
  <1>3. A = {Scope("friend", "private", id) : id \in known}
            \cup {Scope("group", "group", id) : id \in joined}
            \cup {Scope("recent_unconfirmed", ConversationKind(r[i][1]), r[i][2]) : i \in fresh}
    BY <1>2, Zenon DEF Aggregated
  <1> HIDE DEF A
  <1>4. \A id \in known : <<"private", id>> \in Held
    <2> SUFFICES ASSUME NEW id \in known PROVE <<"private", id>> \in Held
      OBVIOUS
    <2>1. Scope("friend", "private", id) \in A
      BY <1>3
    <2>2. Scope("friend", "private", id).kind = "private" /\ Scope("friend", "private", id).id = id
      BY DEF Scope
    <2> QED BY <2>1, <2>2
  <1>5. \A id \in joined : <<"group", id>> \in Held
    <2> SUFFICES ASSUME NEW id \in joined PROVE <<"group", id>> \in Held
      OBVIOUS
    <2>1. Scope("group", "group", id) \in A
      BY <1>3
    <2>2. Scope("group", "group", id).kind = "group" /\ Scope("group", "group", id).id = id
      BY DEF Scope
    <2> QED BY <2>1, <2>2
  <1>6. ASSUME NEW i \in DOMAIN r PROVE \E e \in A : e.id = r[i][2]
    <2>1. CASE r[i][2] \in known
      <3>1. Scope("friend", "private", r[i][2]) \in A
        BY <1>3, <2>1
      <3> QED BY <3>1 DEF Scope
    <2>2. CASE r[i][2] \in joined
      <3>1. Scope("group", "group", r[i][2]) \in A
        BY <1>3, <2>2
      <3> QED BY <3>1 DEF Scope
    <2>3. CASE r[i][2] \notin known \cup joined
      <3> DEFINE same == {j \in 1..Len(r) : r[j][2] = r[i][2]}
      <3>1. i \in same /\ same \in SUBSET (1..Len(r))
        BY <1>0
      <3>2. PICK k \in same : \A j \in 1..(k - 1) : j \notin same
        <4> HIDE DEF same
        <4> QED BY <1>0, <3>1, LeastIndex
      <3>3. k \in 1..Len(r) /\ k \in DOMAIN r /\ r[k][2] = r[i][2]
        BY <1>0, <3>2
      <3>4. FirstOf(r, k)
        <4> SUFFICES ASSUME NEW j \in 1..(k - 1) PROVE r[j][2] # r[k][2]
          BY DEF FirstOf
        <4>1. j \in 1..Len(r)
          BY <1>0, <3>3
        <4> QED BY <3>2, <3>3, <4>1
      <3>5. Scope("recent_unconfirmed", ConversationKind(r[k][1]), r[k][2]) \in A
        BY <1>3, <2>3, <3>3, <3>4
      <3> QED BY <3>3, <3>5 DEF Scope
    <2> QED BY <2>1, <2>2, <2>3
  <1> HIDE DEF Held
  <1>7. Members(f, g) \subseteq Held
    BY <1>4, <1>5 DEF Members
  <1>8. \A c \in Contacts(r) : \E e \in A : e.id = c[2]
    <2> SUFFICES ASSUME NEW c \in Contacts(r) PROVE \E e \in A : e.id = c[2]
      OBVIOUS
    <2>1. PICK i \in DOMAIN r : c = <<ConversationKind(r[i][1]), r[i][2]>>
      BY DEF Contacts, IdsOf
    <2> QED BY <1>6, <2>1
  <1> QED BY <1>7, <1>8 DEF Held, A

(* A sync in progress holds lists that the platform returned.               *)
SyncsOK ==
    /\ sync \in [Workers -> [pc : {"idle", "friends", "groups", "recent", "save"}, at : Nat,
                             friends : FriendLists \cup {<<>>}, groups : GroupLists \cup {<<>>},
                             recent : RecentLists \cup {<<>>}]]
    /\ \A w \in Workers :
         /\ sync[w].pc \in {"groups", "recent", "save"} => sync[w].friends \in FriendLists
         /\ sync[w].pc \in {"recent", "save"} => sync[w].groups \in GroupLists
         /\ sync[w].pc = "save" => sync[w].recent \in RecentLists

DirectoryInv == now \in Nat /\ SnapshotsOK /\ SyncsOK /\ CompleteHoldsAll

(* A list arrives, or the sync ends. *)
LEMMA SyncMoves ==
    ASSUME DirectoryInv, NEW w \in Workers, Sync(w) \/ SyncFails(w)
    PROVE  DirectoryInv'
  <1> DEFINE Shape == [pc : {"idle", "friends", "groups", "recent", "save"}, at : Nat,
                       friends : FriendLists \cup {<<>>}, groups : GroupLists \cup {<<>>},
                       recent : RecentLists \cup {<<>>}]
             Listing(s) == /\ s.pc \in {"groups", "recent", "save"} => s.friends \in FriendLists
                           /\ s.pc \in {"recent", "save"} => s.groups \in GroupLists
                           /\ s.pc = "save" => s.recent \in RecentLists
             old == sync[w]
  <1>0. /\ now \in Nat /\ sync \in [Workers -> Shape] /\ \A v \in Workers : Listing(sync[v])
        /\ old \in Shape /\ Listing(old)
    BY DEF DirectoryInv, SyncsOK
  <1>1. NoSync \in Shape /\ Listing(NoSync)
    BY DEF NoSync
  <1>2. ASSUME NEW s \in Shape, Listing(s), sync' = [sync EXCEPT ![w] = s] PROVE SyncsOK'
    <2>1. /\ sync' \in [Workers -> Shape]
          /\ \A v \in Workers : sync'[v] = s \/ sync'[v] = sync[v]
      BY <1>0, <1>2
    <2> HIDE DEF Shape
    <2>2. \A v \in Workers : Listing(sync'[v])
      BY <1>0, <1>2, <2>1
    <2> QED BY <2>1, <2>2 DEF SyncsOK, Shape
  <1>3. ASSUME SyncsOK', UNCHANGED <<now, snapshots>> PROVE DirectoryInv'
    BY <1>3 DEF DirectoryInv, SnapshotsOK, CompleteHoldsAll
  <1>4. CASE SyncFails(w)
    <2>1. sync' = [sync EXCEPT ![w] = NoSync] /\ UNCHANGED <<now, snapshots>>
      BY <1>4 DEF SyncFails
    <2> QED BY <1>1, <1>2, <1>3, <2>1
  <1>5. CASE BeginSync(w)
    <2> DEFINE s == [NoSync EXCEPT !.pc = "friends", !.at = now]
    <2>1. sync' = [sync EXCEPT ![w] = s] /\ UNCHANGED <<now, snapshots>>
      BY <1>5 DEF BeginSync
    <2>2. s \in Shape /\ Listing(s)
      BY <1>0, <1>1 DEF NoSync
    <2> HIDE DEF s, Shape, Listing
    <2> QED BY <1>2, <1>3, <2>1, <2>2
  <1>6. CASE ListFriends(w)
    <2>1. PICK list \in FriendLists : sync' = [sync EXCEPT ![w].pc = "groups", ![w].friends = list]
      BY <1>6 DEF ListFriends
    <2> DEFINE s == [old EXCEPT !.pc = "groups", !.friends = list]
    <2>2. sync' = [sync EXCEPT ![w] = s] /\ UNCHANGED <<now, snapshots>>
      BY <1>0, <1>6, <2>1 DEF ListFriends
    <2>3. s \in Shape /\ Listing(s)
      BY <1>0
    <2> HIDE DEF s, Shape, Listing
    <2> QED BY <1>2, <1>3, <2>2, <2>3
  <1>7. CASE ListGroups(w)
    <2>1. PICK list \in GroupLists : sync' = [sync EXCEPT ![w].pc = "recent", ![w].groups = list]
      BY <1>7 DEF ListGroups
    <2> DEFINE s == [old EXCEPT !.pc = "recent", !.groups = list]
    <2>2. sync' = [sync EXCEPT ![w] = s] /\ UNCHANGED <<now, snapshots>> /\ old.pc = "groups"
      BY <1>0, <1>7, <2>1 DEF ListGroups
    <2>3. s \in Shape /\ Listing(s)
      BY <1>0, <2>2
    <2> HIDE DEF s, Shape, Listing
    <2> QED BY <1>2, <1>3, <2>2, <2>3
  <1>8. CASE ListRecentContacts(w)
    <2>1. PICK list \in RecentLists : sync' = [sync EXCEPT ![w].pc = "save", ![w].recent = list]
      BY <1>8 DEF ListRecentContacts
    <2> DEFINE s == [old EXCEPT !.pc = "save", !.recent = list]
    <2>2. sync' = [sync EXCEPT ![w] = s] /\ UNCHANGED <<now, snapshots>> /\ old.pc = "recent"
      BY <1>0, <1>8, <2>1 DEF ListRecentContacts
    <2>3. s \in Shape /\ Listing(s)
      BY <1>0, <2>2
    <2> HIDE DEF s, Shape, Listing
    <2> QED BY <1>2, <1>3, <2>2, <2>3
  <1>9. CASE SnapshotDirectory(w)
    <2> DEFINE scopes == Aggregated(old.friends, old.groups, old.recent)
               row == [created |-> old.at, status |-> derive_status(scopes), scopes |-> scopes,
                       members |-> Members(old.friends, old.groups),
                       contacts |-> Contacts(old.recent),
                       cut |-> Cut(old.friends, old.groups, old.recent)]
    <2>1. /\ old.pc = "save" /\ Len(snapshots) < MaxSnapshots /\ snapshots' = Append(snapshots, row)
          /\ sync' = [sync EXCEPT ![w] = NoSync] /\ now' = now
      BY <1>9 DEF SnapshotDirectory
    <2>2. /\ old.friends \in FriendLists /\ old.groups \in GroupLists /\ old.recent \in RecentLists
      BY <1>0, <2>1
    <2>3. ~row.cut => /\ row.members \subseteq {<<e.kind, e.id>> : e \in row.scopes}
                      /\ \A c \in row.contacts : \E e \in row.scopes : e.id = c[2]
      BY <2>2, AggregateHolds
    <2> HIDE DEF row
    <2>4. PICK S : snapshots \in Seq(S)
      BY DEF DirectoryInv, SnapshotsOK
    <2>5. /\ snapshots' \in Seq(S \cup {row}) /\ Len(snapshots') = Len(snapshots) + 1
          /\ Len(snapshots) \in Nat
          /\ \A i \in DOMAIN snapshots' : snapshots'[i] = row \/ (i \in DOMAIN snapshots
                                                                /\ snapshots'[i] = snapshots[i])
      BY <2>1, <2>4
    <2>6. SnapshotsOK'
      BY <2>1, <2>5, Constants DEF SnapshotsOK
    <2>7. CompleteHoldsAll'
      BY <2>3, <2>5 DEF CompleteHoldsAll, DirectoryInv
    <2>8. SyncsOK'
      BY <1>1, <1>2, <2>1
    <2> QED BY <1>0, <2>1, <2>6, <2>7, <2>8 DEF DirectoryInv
  <1> QED BY <1>4, <1>5, <1>6, <1>7, <1>8, <1>9 DEF Sync

(* A snapshot that calls the known conversations complete, of lists that    *)
(* were not cut at max_entries, has every friend and group they named, and  *)
(* the number of every contact, whatever the lists repeat or share          *)
(* (aggregate_scopes).                                                      *)
THEOREM CompleteIsComplete == Spec => []CompleteHoldsAll
  <1>1. Init => DirectoryInv
    <2> SUFFICES ASSUME Init PROVE DirectoryInv
      OBVIOUS
    <2>1. SnapshotsOK
      BY InitInv DEF Inv
    <2>2. SyncsOK
      BY DEF Init, SyncsOK, NoSync
    <2> QED BY <2>1, <2>2 DEF Init, DirectoryInv, CompleteHoldsAll
  <1>2. DirectoryInv /\ [Next]_vars => DirectoryInv'
    <2> SUFFICES ASSUME DirectoryInv, [Next]_vars PROVE DirectoryInv'
      OBVIOUS
    <2>1. CASE UNCHANGED <<snapshots, sync>> /\ (now' = now \/ now' = now + 1)
      BY <2>1 DEF DirectoryInv, SnapshotsOK, SyncsOK, CompleteHoldsAll
    <2>2. CASE \E w \in Workers : Sync(w) \/ SyncFails(w)
      BY <2>2, SyncMoves
    <2> QED BY <2>1, <2>2 DEF Next, Tick, CreateGap, ReadLatest, FreezeForGap, LoadFrozen, Return, vars
  <1>3. DirectoryInv => CompleteHoldsAll
    BY DEF DirectoryInv
  <1> QED BY <1>1, <1>2, <1>3, PTL DEF Spec
-----------------------------------------------------------------------------
(* 7. The connection to NapCat.                                             *)

LongestHandler == Link!MaxOf(HandlerTimes)

LEMMA LinkConstants ==
    ASSUME Link!LinkAssumption
    PROVE  /\ LongestHandler \in Nat /\ \A t \in HandlerTimes : t \in Nat /\ t <= LongestHandler
           /\ startup_grace_secs \in Nat /\ timeout_multiplier \in Nat /\ MaxFrames \in Nat
           /\ \A p \in Periods : p \in Nat
           /\ default_interval_secs \in Nat
           /\ \A d \in Periods \cup {Unknown} : Link!clamp_interval(d) \in Nat
  <1>1. PICK longest \in HandlerTimes : \A t \in HandlerTimes : t <= longest
    BY Zenon DEF Link!LinkAssumption
  <1>2. LongestHandler \in HandlerTimes /\ \A t \in HandlerTimes : t <= LongestHandler
    BY <1>1, Zenon DEF LongestHandler, Link!MaxOf
  <1>3. /\ HandlerTimes \subseteq Nat /\ Periods \subseteq Nat /\ MaxFrames \in Nat
        /\ startup_grace_secs \in Nat /\ timeout_multiplier \in Nat
        /\ min_interval_secs \in Nat /\ max_interval_secs \in Nat /\ default_interval_secs \in Nat
    BY DEF Link!LinkAssumption, Link!ConfigValid
  <1>4. ASSUME NEW d \in Periods \cup {Unknown} PROVE Link!clamp_interval(d) \in Nat
    BY <1>3 DEF Link!clamp_interval, Link!Smaller, Link!Larger
  <1> QED BY <1>2, <1>3, <1>4

LEMMA LinkProducts ==
    ASSUME NEW m \in Nat, NEW j \in Nat, NEW k \in Nat, j <= k
    PROVE  j * m \in Nat /\ k * m \in Nat /\ j * m <= k * m /\ (k + 1) * m = k * m + m
  <1>1. j * m \in Nat /\ k * m \in Nat /\ (k - j) * m \in Nat
    OBVIOUS
  <1>2. k * m = j * m + (k - j) * m
    OBVIOUS
  <1>3. (k + 1) * m = k * m + m
    OBVIOUS
  <1> QED BY <1>1, <1>2, <1>3

(* The deadline is never before the end of the grace period.                *)
LEMMA LinkOffset ==
    ASSUME Link!LinkAssumption, declared_interval_secs \in Nat
    PROVE  Link!deadline_offset \in Nat /\ startup_grace_secs <= Link!deadline_offset
  <1>1. /\ declared_interval_secs * timeout_multiplier \in Nat /\ startup_grace_secs \in Nat
    BY LinkConstants, LinkProducts
  <1> DEFINE product == declared_interval_secs * timeout_multiplier
  <1>2. Link!deadline_offset = IF lifecycle = "Heartbeating"
                               THEN Link!Larger(product, startup_grace_secs)
                               ELSE startup_grace_secs
    BY DEF Link!deadline_offset
  <1>3. product \in Nat
    BY <1>1
  <1> HIDE DEF product
  <1> QED BY <1>1, <1>2, <1>3 DEF Link!Larger

LinkFrames == Seq([kind : {"heartbeat", "lifecycle", "message", "close"},
                   interval : Periods \cup {Unknown}])

LEMMA LinkPeer ==
    ASSUME NEW p, NEW v, p = [beats |-> p.beats, period |-> p.period, next |-> p.next]
    PROVE  /\ [p EXCEPT !.next = v] = [beats |-> p.beats, period |-> p.period, next |-> v]
           /\ \A b : [p EXCEPT !.beats = b] = [beats |-> b, period |-> p.period, next |-> p.next]
           /\ \A b : [p EXCEPT !.beats = b, !.next = v]
                        = [beats |-> b, period |-> p.period, next |-> v]
  <1>1. PICK b0, d0, n0 : p = [beats |-> b0, period |-> d0, next |-> n0]
    OBVIOUS
  <1>2. p.beats = b0 /\ p.period = d0 /\ p.next = n0
    BY <1>1
  <1>3. [p EXCEPT !.next = v] = [beats |-> b0, period |-> d0, next |-> v]
    BY ONLY <1>1
  <1>4. ASSUME NEW b PROVE [p EXCEPT !.beats = b] = [beats |-> b, period |-> d0, next |-> n0]
    BY ONLY <1>1
  <1>5. ASSUME NEW b
        PROVE  [p EXCEPT !.beats = b, !.next = v] = [beats |-> b, period |-> d0, next |-> v]
    <2>1. [p EXCEPT !.beats = b, !.next = v] = [[p EXCEPT !.beats = b] EXCEPT !.next = v]
      OBVIOUS
    <2>2. [[beats |-> b, period |-> d0, next |-> n0] EXCEPT !.next = v]
            = [beats |-> b, period |-> d0, next |-> v]
      OBVIOUS
    <2> QED BY <2>1, <2>2, <1>4, Zenon
  <1> QED BY <1>2, <1>3, <1>4, <1>5, Zenon

LEMMA LinkInit == Link!LinkAssumption /\ Link!Init => Link!LinkInv /\ Link!TimelyInv
  <1> SUFFICES ASSUME Link!LinkAssumption, Link!Init PROVE Link!LinkInv /\ Link!TimelyInv
    OBVIOUS
  <1>1. LongestHandler \in Nat /\ default_interval_secs \in Nat
    BY LinkConstants
  <1>2. /\ socket = "down" /\ lifecycle = "Connected" /\ age = 0 /\ frames = <<>> /\ busy = 0
        /\ declared_interval_secs = default_interval_secs
    BY DEF Link!Init
  <1>3. PICK p \in Periods : peer = [beats |-> TRUE, period |-> p, next |-> p]
    BY DEF Link!Init
  <1>4. p \in Nat
    BY LinkConstants
  <1>5. Link!LinkInv
    <2>1. frames \in LinkFrames
      BY <1>2 DEF LinkFrames
    <2> QED BY <1>1, <1>2, <2>1 DEF Link!LinkInv, LongestHandler, LinkFrames
  <1>6. Link!TimelyInv
    BY <1>2, <1>3, <1>4 DEF Link!TimelyInv
  <1> QED BY <1>5, <1>6

(* TimelyInv over a queue of frames s, a time a since the last heartbeat, a *)
(* time b of the handler, and a peer whose next one is due in n.            *)
BeatAt(s, k) == k \in DOMAIN s /\ s[k].kind = "heartbeat"
FirstBeatAt(s, k) == BeatAt(s, k) /\ \A j \in 1..(k - 1) : ~BeatAt(s, j)
Few(s) == \A k \in DOMAIN s : BeatAt(s, k) \/ k <= MaxFrames
Latest(p) == p + (MaxFrames + 1) * LongestHandler
InTime(s, a, b, n, p) ==
    /\ (\A k \in DOMAIN s : ~BeatAt(s, k)) => a + n <= p
    /\ \A k \in DOMAIN s : FirstBeatAt(s, k) => a + b + (k - 1) * LongestHandler <= Latest(p)

LEMMA TimelyParts ==
    /\ Link!TimelyInv <=>
         /\ peer = [beats |-> peer.beats, period |-> peer.period, next |-> peer.next]
         /\ peer.period \in Periods /\ peer.next \in 0..peer.period
         /\ steady => peer.beats
         /\ Few(frames)
         /\ socket = "connected" /\ steady => InTime(frames, age, busy, peer.next, peer.period)
    /\ Link!TimelyInv' <=>
         /\ peer' = [beats |-> peer.beats', period |-> peer.period', next |-> peer.next']
         /\ peer.period' \in Periods /\ peer.next' \in 0..peer.period'
         /\ steady' => peer.beats'
         /\ Few(frames')
         /\ socket' = "connected" /\ steady' =>
              InTime(frames', age', busy', peer.next', peer.period')
  BY DEF Link!TimelyInv, Few, InTime, FirstBeatAt, BeatAt, Link!FirstBeat, Link!Beat, Latest,
         LongestHandler

LEMMA TimelyAppend ==
    ASSUME Link!LinkAssumption, NEW s \in LinkFrames,
           NEW e \in [kind : {"heartbeat", "lifecycle", "message", "close"},
                      interval : Periods \cup {Unknown}],
           Few(s), e.kind = "heartbeat" \/ Len(s) < MaxFrames
    PROVE  /\ Append(s, e) \in LinkFrames /\ Few(Append(s, e))
           /\ \A a, b, n, p \in Nat :
                InTime(s, a, b, n, p) /\ e.kind # "heartbeat" => InTime(Append(s, e), a, b, n, p)
           /\ \A a, b, n, p \in Nat :
                InTime(s, a, b, 0, p) /\ e.kind = "heartbeat" /\ b <= LongestHandler
                  => InTime(Append(s, e), a, b, n, p)
  <1> DEFINE t == Append(s, e)
  <1>1. /\ Len(s) \in Nat /\ DOMAIN s = 1..Len(s) /\ DOMAIN t = 1..(Len(s) + 1)
        /\ \A k \in 1..Len(s) : t[k] = s[k]
        /\ t[Len(s) + 1] = e
    BY DEF LinkFrames
  <1>2. t \in LinkFrames
    BY DEF LinkFrames
  <1> HIDE DEF t
  <1>3. /\ \A k \in 1..Len(s) : BeatAt(t, k) <=> BeatAt(s, k)
        /\ BeatAt(t, Len(s) + 1) <=> e.kind = "heartbeat"
    BY <1>1 DEF BeatAt
  <1>4. MaxFrames \in Nat /\ LongestHandler \in Nat
    BY LinkConstants
  <1>5. Few(t)
    BY <1>1, <1>3, <1>4 DEF Few
  <1>6. \A k \in 1..Len(s) : FirstBeatAt(t, k) <=> FirstBeatAt(s, k)
    <2> SUFFICES ASSUME NEW k \in 1..Len(s) PROVE FirstBeatAt(t, k) <=> FirstBeatAt(s, k)
      OBVIOUS
    <2>1. 1..(k - 1) \subseteq 1..Len(s)
      BY <1>1
    <2> QED BY <1>3, <2>1, Zenon DEF FirstBeatAt
  <1>7. ASSUME NEW a \in Nat, NEW b \in Nat, NEW n \in Nat, NEW p \in Nat,
               InTime(s, a, b, n, p), e.kind # "heartbeat"
        PROVE  InTime(t, a, b, n, p)
    <2>1. ~FirstBeatAt(t, Len(s) + 1)
      BY <1>3, <1>7 DEF FirstBeatAt
    <2>2. (\A k \in DOMAIN t : ~BeatAt(t, k)) => \A k \in DOMAIN s : ~BeatAt(s, k)
      BY <1>1, <1>3
    <2>3. \A k \in DOMAIN t : k \in DOMAIN s \/ k = Len(s) + 1
      BY <1>1
    <2> QED BY <1>1, <1>6, <1>7, <2>1, <2>2, <2>3, Zenon DEF InTime
  <1>8. ASSUME NEW a \in Nat, NEW b \in Nat, NEW n \in Nat, NEW p \in Nat,
               InTime(s, a, b, 0, p), e.kind = "heartbeat", b <= LongestHandler
        PROVE  InTime(t, a, b, n, p)
    <2>1. BeatAt(t, Len(s) + 1) /\ Len(s) + 1 \in DOMAIN t
      BY <1>1, <1>3, <1>8
    <2>2. ASSUME FirstBeatAt(t, Len(s) + 1)
          PROVE  a + b + Len(s) * LongestHandler <= Latest(p)
      <3>1. \A k \in DOMAIN s : ~BeatAt(s, k)
        BY <1>1, <1>3, <2>2 DEF FirstBeatAt
      <3>2. a <= p
        BY <3>1, <1>8 DEF InTime
      <3>3. Len(s) <= MaxFrames
        BY <3>1, <1>1, <1>4 DEF Few
      <3>4. /\ Len(s) * LongestHandler \in Nat /\ MaxFrames * LongestHandler \in Nat
            /\ Len(s) * LongestHandler <= MaxFrames * LongestHandler
            /\ (MaxFrames + 1) * LongestHandler = MaxFrames * LongestHandler + LongestHandler
        BY <1>1, <1>4, <3>3, LinkProducts
      <3> DEFINE before == Len(s) * LongestHandler
                 all == MaxFrames * LongestHandler
      <3>5. before \in Nat /\ all \in Nat /\ before <= all /\ Latest(p) = p + (all + LongestHandler)
        BY <3>4 DEF Latest
      <3> HIDE DEF before, all
      <3>6. a + b + before <= Latest(p)
        BY <3>2, <3>5, <1>4, <1>8
      <3> QED BY <3>6 DEF before
    <2>3. ASSUME NEW k \in DOMAIN t, FirstBeatAt(t, k)
          PROVE  a + b + (k - 1) * LongestHandler <= Latest(p)
      <3>1. CASE k \in DOMAIN s
        BY <1>1, <1>6, <1>8, <2>3, <3>1, Zenon DEF InTime
      <3>2. CASE k = Len(s) + 1
        <4>1. k - 1 = Len(s)
          BY <3>2, <1>1
        <4> QED BY <4>1, <2>2, <2>3, <3>2
      <3> QED BY <3>1, <3>2, <1>1
    <2> QED BY <2>1, <2>3 DEF InTime
  <1> QED BY <1>2, <1>5, <1>7, <1>8 DEF t

LEMMA TimelyTail ==
    ASSUME Link!LinkAssumption, NEW s \in LinkFrames, s # <<>>, Few(s)
    PROVE  /\ Tail(s) \in LinkFrames /\ Few(Tail(s))
           /\ Head(s) \in [kind : {"heartbeat", "lifecycle", "message", "close"},
                           interval : Periods \cup {Unknown}]
           /\ \A a, b, n, p \in Nat :
                InTime(s, a, 0, n, p) /\ Head(s).kind # "heartbeat" /\ b <= LongestHandler
                  => InTime(Tail(s), a, b, n, p)
           /\ \A b, n, p \in Nat : b <= LongestHandler /\ n <= p => InTime(Tail(s), 0, b, n, p)
  <1> DEFINE t == Tail(s)
  <1>1. /\ Len(s) \in Nat \ {0} /\ DOMAIN s = 1..Len(s) /\ DOMAIN t = 1..(Len(s) - 1)
        /\ \A k \in 1..(Len(s) - 1) : t[k] = s[k + 1]
        /\ Head(s) = s[1]
    BY DEF LinkFrames
  <1>2. t \in LinkFrames
    BY DEF LinkFrames
  <1>h. Head(s) \in [kind : {"heartbeat", "lifecycle", "message", "close"},
                     interval : Periods \cup {Unknown}]
    <2> DEFINE F == [kind : {"heartbeat", "lifecycle", "message", "close"},
                     interval : Periods \cup {Unknown}]
    <2>1. s \in Seq(F)
      BY DEF LinkFrames
    <2> HIDE DEF F
    <2>2. s[1] \in F
      BY <2>1, <1>1
    <2> QED BY <2>2, <1>1 DEF F
  <1> HIDE DEF t
  <1>3. \A k \in 1..(Len(s) - 1) : (BeatAt(t, k) <=> BeatAt(s, k + 1)) /\ k + 1 \in DOMAIN s
    BY <1>1 DEF BeatAt
  <1>4. MaxFrames \in Nat /\ LongestHandler \in Nat
    BY LinkConstants
  <1>5. Few(t)
    BY <1>1, <1>3, <1>4 DEF Few
  <1>6. ASSUME NEW a \in Nat, NEW b \in Nat, NEW n \in Nat, NEW p \in Nat,
               InTime(s, a, 0, n, p), Head(s).kind # "heartbeat", b <= LongestHandler
        PROVE  InTime(t, a, b, n, p)
    <2>1. ~BeatAt(s, 1)
      BY <1>1, <1>6 DEF BeatAt
    <2>2. (\A k \in DOMAIN t : ~BeatAt(t, k)) => \A k \in DOMAIN s : ~BeatAt(s, k)
      <3> SUFFICES ASSUME \A k \in DOMAIN t : ~BeatAt(t, k), NEW k \in DOMAIN s
                   PROVE  ~BeatAt(s, k)
        OBVIOUS
      <3>1. CASE k = 1
        BY <3>1, <2>1
      <3>2. CASE k # 1
        <4>1. k - 1 \in DOMAIN t /\ (k - 1) + 1 = k /\ k - 1 \in 1..(Len(s) - 1)
          BY <3>2, <1>1
        <4> QED BY <4>1, <1>3
      <3> QED BY <3>1, <3>2
    <2>3. ASSUME NEW k \in DOMAIN t, FirstBeatAt(t, k)
          PROVE  a + b + (k - 1) * LongestHandler <= Latest(p)
      <3>1. k \in 1..(Len(s) - 1) /\ k + 1 \in DOMAIN s /\ k \in Nat /\ k >= 1
        BY <1>1
      <3>2. ASSUME NEW j \in 1..((k + 1) - 1) PROVE ~BeatAt(s, j)
        <4>1. CASE j = 1
          BY <4>1, <2>1
        <4>2. CASE j # 1
          <5>1. j - 1 \in 1..(k - 1) /\ j - 1 \in 1..(Len(s) - 1) /\ (j - 1) + 1 = j
            BY <4>2, <3>1, <1>1
          <5> QED BY <5>1, <2>3, <1>3 DEF FirstBeatAt
        <4> QED BY <4>1, <4>2
      <3>3. FirstBeatAt(s, k + 1)
        BY <3>1, <3>2, <2>3, <1>3 DEF FirstBeatAt
      <3>4. a + 0 + ((k + 1) - 1) * LongestHandler <= Latest(p)
        BY <3>1, <3>3, <1>6, Zenon DEF InTime
      <3>5. (k + 1) - 1 = k /\ k - 1 \in Nat /\ (k - 1) + 1 = k
        BY <3>1
      <3>6. /\ (k - 1) * LongestHandler \in Nat
            /\ k * LongestHandler = (k - 1) * LongestHandler + LongestHandler
        <4>1. ((k - 1) + 1) * LongestHandler = (k - 1) * LongestHandler + LongestHandler
          BY <3>5, <1>4, LinkProducts
        <4> QED BY <4>1, <3>5, <1>4, LinkProducts
      <3>7. Latest(p) \in Nat
        <4>1. (MaxFrames + 1) * LongestHandler \in Nat
          BY <1>4
        <4> QED BY <4>1 DEF Latest
      <3> DEFINE before == (k - 1) * LongestHandler
                 now1 == k * LongestHandler
      <3>8. a + 0 + now1 <= Latest(p) /\ now1 = before + LongestHandler /\ before \in Nat
        BY <3>4, <3>5, <3>6
      <3> HIDE DEF before, now1
      <3>9. a + b + before <= Latest(p)
        BY <3>7, <3>8, <1>4, <1>6
      <3> QED BY <3>9 DEF before
    <2> QED BY <2>2, <2>3, <1>6 DEF InTime
  <1>7. ASSUME NEW b \in Nat, NEW n \in Nat, NEW p \in Nat, b <= LongestHandler, n <= p
        PROVE  InTime(t, 0, b, n, p)
    <2>1. ASSUME NEW k \in DOMAIN t, FirstBeatAt(t, k)
          PROVE  0 + b + (k - 1) * LongestHandler <= Latest(p)
      <3>1. k \in Nat /\ k >= 1 /\ k - 1 \in Nat /\ k - 1 <= MaxFrames
        <4>1. CASE k = 1
          BY <4>1, <1>4
        <4>2. CASE k # 1
          <5>1. /\ k - 1 \in 1..(k - 1) /\ k - 1 \in 1..(Len(s) - 1) /\ (k - 1) + 1 = k
                /\ k \in Nat /\ k >= 1 /\ k - 1 \in Nat /\ k \in DOMAIN s
            BY <4>2, <1>1
          <5>2. ~BeatAt(s, k)
            BY <5>1, <2>1, <1>3 DEF FirstBeatAt
          <5> QED BY <5>1, <5>2, <1>4 DEF Few
        <4> QED BY <4>1, <4>2
      <3>2. /\ (k - 1) * LongestHandler \in Nat /\ MaxFrames * LongestHandler \in Nat
            /\ (k - 1) * LongestHandler <= MaxFrames * LongestHandler
            /\ (MaxFrames + 1) * LongestHandler = MaxFrames * LongestHandler + LongestHandler
        BY <3>1, <1>4, LinkProducts
      <3> DEFINE before == (k - 1) * LongestHandler
                 all == MaxFrames * LongestHandler
      <3>3. before \in Nat /\ all \in Nat /\ before <= all /\ Latest(p) = p + (all + LongestHandler)
        BY <3>2 DEF Latest
      <3> HIDE DEF before, all
      <3>4. 0 + b + before <= Latest(p)
        BY <3>3, <1>4, <1>7
      <3> QED BY <3>4 DEF before
    <2>2. 0 + n <= p
      BY <1>7
    <2> QED BY <2>1, <2>2 DEF InTime
  <1> QED BY <1>2, <1>h, <1>5, <1>6, <1>7 DEF t

LinkAll == Link!LinkInv /\ Link!TimelyInv

LEMMA LinkEnded ==
    ASSUME Link!LinkAssumption, LinkAll, Link!Ended PROVE LinkAll'
  <1>1. /\ socket' = "down" /\ frames' = <<>> /\ busy' = 0
        /\ lifecycle' = lifecycle /\ declared_interval_secs' = declared_interval_secs
        /\ age' = age /\ peer' = peer /\ steady' = steady
    BY DEF Link!Ended, Link!heartbeat
  <1>2. LongestHandler \in Nat
    BY LinkConstants
  <1>3. Link!LinkInv'
    <2>1. <<>> \in LinkFrames
      BY DEF LinkFrames
    <2>2. frames' \in LinkFrames
      BY <1>1, <2>1
    <2> QED BY <1>1, <1>2, <2>2 DEF LinkAll, Link!LinkInv, LinkFrames, LongestHandler
  <1>4. Link!TimelyInv'
    <2>1. Few(frames')
      BY <1>1 DEF Few
    <2> QED BY <1>1, <2>1, TimelyParts DEF LinkAll
  <1> QED BY <1>3, <1>4 DEF LinkAll

LEMMA LinkConnects ==
    ASSUME Link!LinkAssumption, LinkAll, Link!Connect PROVE LinkAll'
  <1>1. /\ socket = "down" /\ socket' = "connected" /\ lifecycle' = "Connected" /\ age' = 0
        /\ declared_interval_secs' = default_interval_secs
        /\ peer' = [peer EXCEPT !.next = peer.period] /\ steady' = peer.beats
        /\ frames' = frames /\ busy' = busy
    BY DEF Link!Connect
  <1>2. LongestHandler \in Nat /\ default_interval_secs \in Nat
    BY LinkConstants
  <1>3. frames = <<>> /\ busy = 0 /\ frames' \in LinkFrames
    BY <1>1 DEF LinkAll, Link!LinkInv, LinkFrames
  <1>4. Link!LinkInv'
    <2>1. declared_interval_secs' \in Nat
      BY <1>1, <1>2
    <2>2. Link!deadline_offset' \in Nat
      <3>1. Link!deadline_offset' = startup_grace_secs
        BY <1>1, Zenon DEF Link!deadline_offset
      <3> QED BY <3>1, LinkConstants
    <2>3. 0 <= LongestHandler /\ 0 + 0 <= Link!deadline_offset' + LongestHandler
      <3>1. \A m, n \in Nat : 0 <= m /\ 0 + 0 <= n + m
        OBVIOUS
      <3> QED BY <1>2, <2>2, <3>1, Zenon
    <2> QED BY <1>1, <1>3, <2>1, <2>3 DEF Link!LinkInv, LinkFrames, LongestHandler
  <1>5. Link!TimelyInv'
    <2>0. /\ peer = [beats |-> peer.beats, period |-> peer.period, next |-> peer.next]
          /\ peer.period \in Periods
      BY TimelyParts DEF LinkAll
    <2>1. peer' = [beats |-> peer.beats, period |-> peer.period, next |-> peer.period]
      BY <1>1, <2>0, LinkPeer, Zenon
    <2>2. peer.beats' = peer.beats /\ peer.period' = peer.period /\ peer.next' = peer.period
      BY <2>1
    <2>3. peer.period \in Nat
      BY <2>0, LinkConstants
    <2>4. Few(frames')
      BY <1>1, <1>3 DEF Few
    <2>5. InTime(frames', age', busy', peer.next', peer.period')
      BY <1>1, <1>3, <2>2, <2>3 DEF InTime
    <2> QED BY <1>1, <2>0, <2>1, <2>2, <2>3, <2>4, <2>5, TimelyParts
  <1> QED BY <1>4, <1>5 DEF LinkAll

(* A step that leaves the listener, the socket and the deadline as they are.*)
LEMMA LinkStill ==
    ASSUME Link!LinkAssumption, LinkAll, socket' = socket, Link!heartbeat' = Link!heartbeat,
           busy' = busy, frames' \in LinkFrames, socket = "down" => frames' = frames
    PROVE  Link!LinkInv'
  <1>1. /\ lifecycle' = lifecycle /\ declared_interval_secs' = declared_interval_secs
        /\ age' = age
    BY DEF Link!heartbeat
  <1>2. Link!deadline_offset' = Link!deadline_offset
    BY <1>1 DEF Link!deadline_offset
  <1> QED BY <1>1, <1>2 DEF LinkAll, Link!LinkInv, LinkFrames

LEMMA LinkSends ==
    ASSUME Link!LinkAssumption, LinkAll,
           \/ Link!SendHeartbeat \/ Link!Send("lifecycle") \/ Link!Send("message") \/ Link!Close
    PROVE  LinkAll'
  <1>1. /\ socket = "connected" /\ socket' = socket /\ Link!heartbeat' = Link!heartbeat
        /\ busy' = busy
    BY DEF Link!SendHeartbeat, Link!Send, Link!Close
  <1>h. age' = age
    BY <1>1 DEF Link!heartbeat
  <1>2. /\ frames \in LinkFrames /\ age \in Nat /\ busy \in Nat /\ busy <= LongestHandler
        /\ Few(frames)
        /\ peer = [beats |-> peer.beats, period |-> peer.period, next |-> peer.next]
        /\ peer.period \in Periods /\ peer.next \in 0..peer.period
        /\ steady => peer.beats
        /\ steady => InTime(frames, age, busy, peer.next, peer.period)
    BY <1>1, TimelyParts DEF LinkAll, Link!LinkInv, LinkFrames, LongestHandler
  <1>3. peer.period \in Nat /\ peer.next \in Nat
    BY <1>2, LinkConstants
  <1>4. CASE Link!SendHeartbeat
    <2>1. PICK declared \in {peer.period, Unknown} :
                 frames' = Append(frames, Link!Frame("heartbeat", declared))
      BY <1>4 DEF Link!SendHeartbeat
    <2> DEFINE e == Link!Frame("heartbeat", declared)
    <2>2. e \in [kind : {"heartbeat", "lifecycle", "message", "close"},
                 interval : Periods \cup {Unknown}] /\ e.kind = "heartbeat"
      BY <1>2 DEF Link!Frame
    <2>3. frames' = Append(frames, e)
      BY <2>1
    <2> HIDE DEF e
    <2>4. /\ peer.next = 0 /\ steady' = steady /\ peer' = [peer EXCEPT !.next = peer.period]
      BY <1>4 DEF Link!SendHeartbeat
    <2>5. peer' = [beats |-> peer.beats, period |-> peer.period, next |-> peer.period]
      BY <2>4, <1>2, LinkPeer, Zenon
    <2>6. peer.beats' = peer.beats /\ peer.period' = peer.period /\ peer.next' = peer.period
      BY <2>5
    <2>7. /\ frames' \in LinkFrames /\ Few(frames')
          /\ steady' => InTime(frames', age, busy, peer.period, peer.period)
      BY <1>2, <1>3, <2>2, <2>3, <2>4, TimelyAppend
    <2>8. Link!TimelyInv'
      BY <1>1, <1>h, <1>2, <1>3, <2>4, <2>5, <2>6, <2>7, TimelyParts
    <2> QED BY <1>1, <2>7, <2>8, LinkStill DEF LinkAll
  <1>5. ASSUME NEW kind \in {"lifecycle", "message", "close"}, Len(frames) < MaxFrames,
               frames' = Append(frames, Link!Frame(kind, Unknown)), peer' = peer,
               steady' => steady
        PROVE  LinkAll'
    <2> DEFINE e == Link!Frame(kind, Unknown)
    <2>1. e \in [kind : {"heartbeat", "lifecycle", "message", "close"},
                 interval : Periods \cup {Unknown}] /\ e.kind # "heartbeat"
      BY DEF Link!Frame
    <2>2. frames' = Append(frames, e)
      BY <1>5
    <2> HIDE DEF e
    <2>3. /\ frames' \in LinkFrames /\ Few(frames')
          /\ steady' => InTime(frames', age, busy, peer.next, peer.period)
      BY <1>2, <1>3, <1>5, <2>1, <2>2, TimelyAppend
    <2>4. Link!TimelyInv'
      BY <1>1, <1>h, <1>2, <1>5, <2>3, TimelyParts
    <2> QED BY <1>1, <2>3, <2>4, LinkStill DEF LinkAll
  <1>6. CASE Link!Send("lifecycle") \/ Link!Send("message")
    <2>1. PICK kind \in {"lifecycle", "message", "close"} : Link!Send(kind)
      BY <1>6
    <2> QED BY <2>1, <1>5 DEF Link!Send
  <1>7. CASE Link!Close
    <2>1. /\ Len(frames) < MaxFrames /\ frames' = Append(frames, Link!Frame("close", Unknown))
          /\ peer' = peer /\ steady' = FALSE
      BY <1>7 DEF Link!Close
    <2> QED BY <2>1, <1>5
  <1> QED BY <1>4, <1>6, <1>7

LEMMA LinkReads ==
    ASSUME Link!LinkAssumption, LinkAll, Link!HandleFrame PROVE LinkAll'
  <1>1. /\ socket = "connected" /\ busy = 0 /\ frames # <<>> /\ frames' = Tail(frames)
        /\ socket' = socket /\ peer' = peer /\ steady' = steady
        /\ enabled => ~(age >= Link!deadline_offset)
    BY DEF Link!HandleFrame, Link!Reading, Link!Expired
  <1>2. /\ frames \in LinkFrames /\ age \in Nat /\ declared_interval_secs \in Nat
        /\ lifecycle \in {"Connected", "LifecycleReceived", "Heartbeating"}
        /\ Few(frames)
        /\ peer = [beats |-> peer.beats, period |-> peer.period, next |-> peer.next]
        /\ peer.period \in Periods /\ peer.next \in 0..peer.period
        /\ steady => peer.beats
        /\ steady => InTime(frames, age, 0, peer.next, peer.period)
    BY <1>1, TimelyParts DEF LinkAll, Link!LinkInv, LinkFrames
  <1>3. peer.period \in Nat /\ peer.next \in Nat /\ peer.next <= peer.period
    BY <1>2, LinkConstants
  <1>4. LongestHandler \in Nat /\ Link!deadline_offset \in Nat
    BY <1>2, LinkConstants, LinkOffset
  <1>5. frames' \in LinkFrames /\ Few(frames')
    BY <1>1, <1>2, TimelyTail
  <1>6. CASE /\ Head(frames).kind = "heartbeat" /\ Link!ObserveHeartbeat(Head(frames).interval)
             /\ busy' = busy
    <2>1. /\ lifecycle' = "Heartbeating" /\ age' = 0
          /\ declared_interval_secs' = Link!clamp_interval(Head(frames).interval)
      BY <1>6 DEF Link!ObserveHeartbeat
    <2>2. Head(frames).interval \in Periods \cup {Unknown}
      BY <1>1, <1>2, TimelyTail
    <2>3. declared_interval_secs' \in Nat
      BY <2>1, <2>2, LinkConstants
    <2>4. Link!deadline_offset' \in Nat
      <3>1. /\ declared_interval_secs' * timeout_multiplier \in Nat /\ startup_grace_secs \in Nat
        BY <2>3, LinkConstants, LinkProducts
      <3> DEFINE product == declared_interval_secs' * timeout_multiplier
      <3>2. Link!deadline_offset' = Link!Larger(product, startup_grace_secs)
        BY <2>1, Zenon DEF Link!deadline_offset
      <3>3. product \in Nat
        BY <3>1
      <3> HIDE DEF product
      <3> QED BY <3>1, <3>2, <3>3 DEF Link!Larger
    <2>5. 0 <= LongestHandler /\ 0 + 0 <= Link!deadline_offset' + LongestHandler
      <3>1. \A m, n \in Nat : 0 <= m /\ 0 + 0 <= n + m
        OBVIOUS
      <3> QED BY <1>4, <2>4, <3>1, Zenon
    <2>6. Link!LinkInv'
      BY <1>1, <1>5, <1>6, <2>1, <2>3, <2>5 DEF Link!LinkInv, LinkFrames, LongestHandler
    <2>7. InTime(Tail(frames), 0, 0, peer.next, peer.period)
      BY <1>1, <1>2, <1>3, <2>5, TimelyTail
    <2>8. Link!TimelyInv'
      BY <1>1, <1>2, <1>5, <1>6, <2>1, <2>7, TimelyParts
    <2> QED BY <2>6, <2>8 DEF LinkAll
  <1>7. CASE /\ Head(frames).kind # "heartbeat" /\ busy' \in Nat /\ busy' <= LongestHandler
             /\ lifecycle' \in {lifecycle, "LifecycleReceived"}
             /\ lifecycle' = lifecycle \/ lifecycle = "Connected"
             /\ declared_interval_secs' = declared_interval_secs /\ age' = age
    <2>1. Link!deadline_offset' = Link!deadline_offset
      BY <1>7 DEF Link!deadline_offset
    <2>2. enabled => age + busy' <= Link!deadline_offset + LongestHandler
      BY <1>1, <1>2, <1>4, <1>7
    <2>3. lifecycle' \in {"Connected", "LifecycleReceived", "Heartbeating"}
      BY <1>2, <1>7
    <2>4. Link!LinkInv'
      BY <1>1, <1>2, <1>5, <1>7, <2>1, <2>2, <2>3 DEF Link!LinkInv, LinkFrames, LongestHandler
    <2>5. steady => InTime(Tail(frames), age, busy', peer.next, peer.period)
      BY <1>1, <1>2, <1>3, <1>7, TimelyTail
    <2>6. Link!TimelyInv'
      BY <1>1, <1>2, <1>5, <1>7, <2>5, TimelyParts
    <2> QED BY <2>4, <2>6 DEF LinkAll
  <1>8. CASE Head(frames).kind = "lifecycle" /\ Link!ObserveLifecycle /\ busy' = busy
    BY <1>1, <1>4, <1>7, <1>8 DEF Link!ObserveLifecycle
  <1>9. CASE /\ Head(frames).kind = "message" /\ Link!ObserveBusinessEvent
             /\ busy' \in HandlerTimes
    BY <1>7, <1>9, LinkConstants DEF Link!ObserveBusinessEvent, Link!heartbeat
  <1> QED BY <1>6, <1>8, <1>9, Zenon DEF Link!HandleFrame

LEMMA LinkTicks ==
    ASSUME Link!LinkAssumption, LinkAll, Link!Tick PROVE LinkAll'
  <1>1. /\ socket' = socket /\ lifecycle' = lifecycle /\ frames' = frames /\ steady' = steady
        /\ declared_interval_secs' = declared_interval_secs
        /\ age' = (IF socket = "connected" /\ enabled THEN age + 1 ELSE age)
        /\ busy' = (IF busy = 0 THEN 0 ELSE busy - 1)
        /\ ~Link!Due
    BY DEF Link!Tick, Link!Lapse
  <1>2. /\ frames \in LinkFrames /\ age \in Nat /\ declared_interval_secs \in Nat
        /\ busy \in Nat /\ busy <= LongestHandler
        /\ socket = "down" => busy = 0
        /\ socket \in {"connected", "down"}
        /\ Few(frames)
        /\ peer = [beats |-> peer.beats, period |-> peer.period, next |-> peer.next]
        /\ peer.period \in Periods /\ peer.next \in 0..peer.period
        /\ steady => peer.beats
        /\ socket = "connected" /\ steady => InTime(frames, age, busy, peer.next, peer.period)
        /\ socket = "connected" /\ enabled => age + busy <= Link!deadline_offset + LongestHandler
    BY TimelyParts DEF LinkAll, Link!LinkInv, LinkFrames, LongestHandler
  <1>3. peer.period \in Nat /\ peer.next \in Nat /\ peer.next <= peer.period
    BY <1>2, LinkConstants
  <1>4. LongestHandler \in Nat /\ Link!deadline_offset \in Nat
    BY <1>2, LinkConstants, LinkOffset
  <1>5. /\ age' \in Nat /\ busy' \in Nat /\ busy' <= LongestHandler
        /\ age <= age' /\ age' <= age + 1
    <2>1. age' = age \/ age' = age + 1
      BY <1>1
    <2>2. (busy = 0 /\ busy' = 0) \/ (busy # 0 /\ busy' = busy - 1)
      BY <1>1
    <2>3. age \in Nat /\ busy \in Nat /\ busy <= LongestHandler /\ LongestHandler \in Nat
      BY <1>2, <1>4
    <2>4. busy' \in Nat /\ busy' <= LongestHandler
      BY <2>2, <2>3
    <2> QED BY <2>1, <2>3, <2>4
  <1>6. Link!LinkInv'
    <2>1. Link!deadline_offset' = Link!deadline_offset
      BY <1>1 DEF Link!deadline_offset
    <2>2. ASSUME socket = "connected", enabled
          PROVE  age' + busy' <= Link!deadline_offset + LongestHandler
      <3>1. busy = 0 => ~(age >= Link!deadline_offset)
        BY <1>1, <2>2 DEF Link!Due, Link!Reading, Link!Expired
      <3>2. age' = age + 1
        BY <1>1, <2>2
      <3> QED BY <1>1, <1>2, <1>4, <2>2, <3>1, <3>2
    <2>3. socket' = "down" => busy' = 0 /\ frames' = <<>>
      BY <1>1, <1>2 DEF LinkAll, Link!LinkInv
    <2> QED BY <1>1, <1>2, <1>5, <2>1, <2>2, <2>3
            DEF LinkAll, Link!LinkInv, LinkFrames, LongestHandler
  <1>7. /\ peer.beats' = peer.beats /\ peer.period' = peer.period
        /\ peer' = [beats |-> peer.beats', period |-> peer.period', next |-> peer.next']
        /\ socket = "connected" => peer.next' = (IF peer.next = 0 THEN 0 ELSE peer.next - 1)
        /\ peer.next' \in 0..peer.period'
    <2>1. CASE socket = "connected"
      <3>1. peer' = [peer EXCEPT !.next = Link!Lapse(peer.next)]
        BY <2>1 DEF Link!Tick
      <3>2. peer' = [beats |-> peer.beats, period |-> peer.period, next |-> Link!Lapse(peer.next)]
        BY <3>1, <1>2, LinkPeer, Zenon
      <3>3. /\ peer.beats' = peer.beats /\ peer.period' = peer.period
            /\ peer.next' = Link!Lapse(peer.next)
        BY <3>2
      <3>4. Link!Lapse(peer.next) \in 0..peer.period
        BY <1>3 DEF Link!Lapse
      <3> QED BY <3>2, <3>3, <3>4 DEF Link!Lapse
    <2>2. CASE socket # "connected"
      BY <2>2, <1>2 DEF Link!Tick
    <2> QED BY <2>1, <2>2
  <1>8. ASSUME socket = "connected", steady
        PROVE  InTime(frames, age', busy', peer.next', peer.period)
    <2>1. peer.next # 0
      BY <1>1, <1>2, <1>8 DEF Link!Due
    <2>2. (\A k \in DOMAIN frames : ~BeatAt(frames, k)) => age' + peer.next' <= peer.period
      BY <1>2, <1>3, <1>5, <1>7, <1>8, <2>1 DEF InTime
    <2>3. ASSUME NEW k \in DOMAIN frames, FirstBeatAt(frames, k)
          PROVE  age' + busy' + (k - 1) * LongestHandler <= Latest(peer.period)
      <3>1. busy # 0
        BY <1>1, <1>2, <1>8, <2>3 DEF Link!Due, Link!Reading, LinkFrames
      <3>2. age + busy + (k - 1) * LongestHandler <= Latest(peer.period)
        BY <1>2, <1>8, <2>3 DEF InTime
      <3>3. (k - 1) * LongestHandler \in Nat /\ Latest(peer.period) \in Nat
        <4>1. k - 1 \in Nat
          BY <1>2 DEF LinkFrames
        <4>2. (MaxFrames + 1) * LongestHandler \in Nat
          BY <1>4, LinkConstants
        <4> QED BY <4>1, <4>2, <1>3, <1>4 DEF Latest
      <3> DEFINE before == (k - 1) * LongestHandler
                 last == Latest(peer.period)
      <3>4. before \in Nat /\ last \in Nat /\ age + busy + before <= last
        BY <3>2, <3>3
      <3> HIDE DEF before, last
      <3>5. busy' = busy - 1
        BY <1>1, <3>1
      <3>6. age' + busy' + before <= last
        BY <1>2, <1>5, <3>1, <3>4, <3>5
      <3> QED BY <3>6 DEF before, last
    <2> QED BY <2>2, <2>3 DEF InTime
  <1>9. Link!TimelyInv'
    BY <1>1, <1>2, <1>7, <1>8, TimelyParts
  <1> QED BY <1>6, <1>9 DEF LinkAll

LEMMA LinkRests ==
    ASSUME Link!LinkAssumption, LinkAll,
           Link!ConnectFails \/ Link!FallSilent \/ Link!Recover \/ UNCHANGED Link!vars
    PROVE  LinkAll'
  <1>1. /\ socket' = socket /\ Link!heartbeat' = Link!heartbeat /\ busy' = busy
        /\ frames' = frames
    BY DEF Link!ConnectFails, Link!FallSilent, Link!Recover, Link!vars, Link!heartbeat
  <1>2. /\ frames \in LinkFrames /\ Few(frames)
        /\ peer = [beats |-> peer.beats, period |-> peer.period, next |-> peer.next]
        /\ peer.period \in Periods /\ peer.next \in 0..peer.period
        /\ steady => peer.beats
        /\ socket = "connected" /\ steady => InTime(frames, age, busy, peer.next, peer.period)
    BY TimelyParts DEF LinkAll, Link!LinkInv, LinkFrames
  <1>3. Link!LinkInv'
    BY <1>1, <1>2, LinkStill
  <1>4. age' = age
    BY <1>1 DEF Link!heartbeat
  <1>5. CASE peer' = peer /\ steady' = steady
    BY <1>1, <1>2, <1>3, <1>4, <1>5, TimelyParts DEF LinkAll
  <1>6. CASE Link!FallSilent
    <2>1. peer' = [peer EXCEPT !.beats = FALSE] /\ steady' = FALSE
      BY <1>6 DEF Link!FallSilent
    <2>2. peer' = [beats |-> FALSE, period |-> peer.period, next |-> peer.next]
      BY <2>1, <1>2, LinkPeer, Zenon
    <2>3. peer.beats' = FALSE /\ peer.period' = peer.period /\ peer.next' = peer.next
      BY <2>2
    <2> QED BY <1>1, <1>2, <1>3, <2>1, <2>2, <2>3, TimelyParts DEF LinkAll
  <1>7. CASE Link!Recover
    <2>1. /\ peer' = [peer EXCEPT !.beats = TRUE, !.next = peer.period] /\ steady' = steady
          /\ ~peer.beats
      BY <1>7 DEF Link!Recover
    <2>2. peer' = [beats |-> TRUE, period |-> peer.period, next |-> peer.period]
      BY <2>1, <1>2, LinkPeer, Zenon
    <2>3. peer.beats' = TRUE /\ peer.period' = peer.period /\ peer.next' = peer.period
      BY <2>2
    <2>4. peer.period \in Nat
      BY <1>2, LinkConstants
    <2>5. peer.next' \in 0..peer.period'
      BY <2>3, <2>4
    <2> QED BY <1>1, <1>2, <1>3, <2>1, <2>2, <2>3, <2>5, TimelyParts DEF LinkAll
  <1> QED BY <1>5, <1>6, <1>7 DEF Link!ConnectFails, Link!vars

LEMMA LinkNext ==
    ASSUME Link!LinkAssumption, LinkAll, [Link!Next]_(Link!vars) PROVE LinkAll'
  <1>1. CASE Link!HeartbeatTimeout \/ Link!Closed
    BY <1>1, LinkEnded DEF Link!HeartbeatTimeout, Link!Closed
  <1> QED BY <1>1, LinkReads, LinkConnects, LinkTicks, LinkSends, LinkRests, Zenon
          DEF Link!Next, Link!Listener

(* A heartbeat that is due in time is read before the deadline.             *)
LEMMA LinkPeerInTime ==
    ASSUME Link!LinkAssumption, Link!GraceCoversMessages, LinkAll, Link!HeartbeatTimeout
    PROVE  ~steady
  <1> SUFFICES ASSUME steady PROVE FALSE
    OBVIOUS
  <1>1. socket = "connected" /\ busy = 0 /\ age >= Link!deadline_offset
    BY DEF Link!HeartbeatTimeout, Link!Reading, Link!Expired
  <1>2. /\ frames \in LinkFrames /\ age \in Nat /\ declared_interval_secs \in Nat
        /\ peer.period \in Periods /\ peer.next \in 0..peer.period
        /\ InTime(frames, age, busy, peer.next, peer.period)
    BY <1>1, TimelyParts DEF LinkAll, Link!LinkInv, LinkFrames
  <1>3. peer.period \in Nat /\ peer.next \in Nat /\ LongestHandler \in Nat /\ MaxFrames \in Nat
    BY <1>2, LinkConstants
  <1>4. /\ Link!deadline_offset \in Nat /\ startup_grace_secs \in Nat
        /\ startup_grace_secs <= Link!deadline_offset
    BY <1>2, LinkOffset, LinkConstants
  <1>5. Latest(peer.period) \in Nat /\ peer.period <= Latest(peer.period)
    <2>1. (MaxFrames + 1) * LongestHandler \in Nat
      BY <1>3
    <2> QED BY <2>1, <1>3 DEF Latest
  <1>6. Latest(peer.period) < startup_grace_secs
    BY <1>2 DEF Link!GraceCoversMessages, Latest, LongestHandler
  <1>7. age <= Latest(peer.period)
    <2>1. CASE \A k \in DOMAIN frames : ~BeatAt(frames, k)
      BY <2>1, <1>2, <1>3, <1>5 DEF InTime
    <2>2. CASE \E k \in DOMAIN frames : BeatAt(frames, k)
      <3> DEFINE beats == {k \in DOMAIN frames : BeatAt(frames, k)}
      <3>1. DOMAIN frames = 1..Len(frames) /\ Len(frames) \in Nat
        BY <1>2 DEF LinkFrames
      <3>2. beats \in SUBSET (1..Len(frames)) /\ beats # {}
        BY <2>2, <3>1
      <3>3. PICK k \in beats : \A j \in 1..(k - 1) : j \notin beats
        BY <3>1, <3>2, LeastIndex
      <3>4. k \in DOMAIN frames /\ FirstBeatAt(frames, k)
        BY <3>1, <3>3 DEF FirstBeatAt, BeatAt
      <3>5. age + busy + (k - 1) * LongestHandler <= Latest(peer.period)
        BY <3>4, <1>2 DEF InTime
      <3>6. (k - 1) * LongestHandler \in Nat
        <4>1. k - 1 \in Nat
          BY <3>1, <3>4
        <4> QED BY <4>1, <1>3
      <3> DEFINE before == (k - 1) * LongestHandler
      <3>7. before \in Nat /\ age + busy + before <= Latest(peer.period)
        BY <3>5, <3>6
      <3> HIDE DEF before
      <3> QED BY <3>7, <1>1, <1>2, <1>5
    <2> QED BY <2>1, <2>2
  <1> QED BY <1>1, <1>2, <1>4, <1>5, <1>6, <1>7

(* A peer that sends its heartbeats in time is not given up, one that has   *)
(* fallen silent is noticed by the deadline and the time of one handler,    *)
(* and after a connection that worked the first wait is the short one       *)
(* (heartbeat.rs, connection_loop.rs), if the grace period covers a full    *)
(* socket of messages.                                                      *)
THEOREM LinkIsWatched ==
    ASSUME Link!GraceCoversMessages PROVE IngestSpec => LinkWatched
  <1>0. Link!LinkAssumption
    BY IngestAssumption
  <1>1. Link!Init => LinkAll
    BY <1>0, LinkInit DEF LinkAll
  <1>2. LinkAll /\ [Link!Next]_(Link!vars) => LinkAll'
    BY <1>0, LinkNext
  <1>3. LinkAll => Link!SilenceNoticed
    <2> SUFFICES ASSUME LinkAll, socket = "connected", enabled
                 PROVE  age <= Link!deadline_offset + Link!MaxOf(HandlerTimes)
      BY DEF Link!SilenceNoticed
    <2>1. /\ age \in Nat /\ busy \in Nat /\ declared_interval_secs \in Nat
          /\ age + busy <= Link!deadline_offset + LongestHandler
      BY DEF LinkAll, Link!LinkInv, LongestHandler
    <2>2. Link!deadline_offset \in Nat /\ LongestHandler \in Nat
      BY <1>0, <2>1, LinkOffset, LinkConstants
    <2>3. age <= Link!deadline_offset + LongestHandler
      BY <2>1, <2>2
    <2> QED BY <2>3 DEF LongestHandler
  <1>4. LinkAll /\ [Link!Next]_(Link!vars) => [Link!HeartbeatTimeout => ~steady]_(Link!vars)
    BY <1>0, LinkPeerInTime
  <1>5. LinkAll /\ [Link!Next]_(Link!vars)
          => [socket = "connected" /\ socket' = "down" => wait' = reconnect_initial_secs]_(Link!vars)
    <2> SUFFICES ASSUME Link!Next, socket = "connected", socket' = "down"
                 PROVE  wait' = reconnect_initial_secs
      OBVIOUS
    <2>1. \/ Link!HeartbeatTimeout \/ Link!Closed \/ socket' = socket \/ socket = "down"
      BY DEF Link!Next, Link!Listener, Link!HandleFrame, Link!Connect, Link!ConnectFails, Link!Tick,
             Link!SendHeartbeat, Link!Send, Link!FallSilent, Link!Recover, Link!Close
    <2> QED BY <2>1 DEF Link!HeartbeatTimeout, Link!Closed, Link!Ended
  <1> QED BY <1>1, <1>2, <1>3, <1>4, <1>5, PartsOfSpec, PTL
          DEF Link!Spec, LinkWatched, Link!LivePeerKept, Link!ShortFirstWait
===============================================================================
