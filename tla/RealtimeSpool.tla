--------------------------- MODULE RealtimeSpool ----------------------------
(***************************************************************************)
(* The file adapter of the ordinary-message spool: an append-only WAL and  *)
(* an authenticated checkpoint naming the last record whose replay is      *)
(* finished (qqbot-server/src/infrastructure/realtime_spool.rs).           *)
(*                                                                         *)
(* Every operation runs under `operation_lock`, so operations do not       *)
(* interleave with each other; a crash can fall between any two of their   *)
(* file-system steps, and any step can fail.  A record identity is a       *)
(* random UUID in the code; here it is the number of UUIDs drawn so far,   *)
(* which keeps it fresh and makes the write order visible.                 *)
(*                                                                         *)
(* The spool is one object for the whole process.  A connection has a      *)
(* writer and a worker of its own on it; when they end the next connection *)
(* starts others on the files as they are (Connect), also when a failed    *)
(* append has left part of a frame there.  append does not look at what is *)
(* in the file, so such bytes end up in front of later frames, which no    *)
(* reader finds any more: `blind` names the receipts issued for those.     *)
(*                                                                         *)
(* File-system assumptions.  A rename is atomic.  A killed process leaves  *)
(* every completed write visible; a power loss may in addition drop what   *)
(* no sync_all covered.  Renames reach the disk in order, and sync_all on  *)
(* any file commits the earlier ones, as a journal does.  A complete frame *)
(* is never altered on disk.                                               *)
(***************************************************************************)
EXTENDS Integers, Sequences

CONSTANTS MaxRecords,    \* bound: record identities drawn
          WalCapacity,   \* frames that fit in ACTIVE_WAL_BYTES
          MaxFaults,     \* bound: crashes and failed file operations
          PowerLoss      \* may a crash also lose data that was never synced?

ASSUME MaxRecordsAssumption == MaxRecords \in Nat
ASSUME WalCapacityAssumption == WalCapacity \in Nat
ASSUME MaxFaultsAssumption == MaxFaults \in Nat
ASSUME PowerLossAssumption == PowerLoss \in BOOLEAN

VARIABLES header,     \* the WAL header on disk
          wal,        \* the WAL file a reader sees: base, complete frames before
                      \* any torn bytes, and what is behind them
          stable,     \* how many leading frames a sync_all has covered
          walAlt,     \* the WAL a power loss would bring back after a rename
          ckpt,       \* last_record_id of the checkpoint file a reader sees
          ckptAlt,    \* the checkpoint a power loss would bring back
          proc,       \* "down", "up", or "refused": open failed closed
          op,         \* the file operation in progress, by its last step
          writer,     \* the appending thread of the connection ("absent" while
                      \* the startup recovery runs): one failed append ends it
          worker,     \* the checkpointing task (first the startup recovery): one
                      \* failed checkpoint ends it
          next,       \* record identities drawn so far
          receipts,   \* records for which append returned a receipt
          blind,      \* those of them that were appended behind torn bytes
          handed,     \* records handed to the recovery or worker that is running
          settled,    \* records whose replay has converged
          faults

fileVars == <<header, wal, stable, walAlt, ckpt, ckptAlt>>
vars == <<header, wal, stable, walAlt, ckpt, ckptAlt, proc, op, writer, worker,
          next, receipts, blind, handed, settled, faults>>

NoRecord == 0                      \* the nil UUID, and "no checkpoint file"
Records == 1..MaxRecords
(* Behind the complete frames: nothing, part of a frame that a write left   *)
(* unfinished, or such a part with more written after it.                   *)
Tails == {"no", "tail", "inside"}
WalFile(b, fs, t) == [base |-> b, frames |-> fs, torn |-> t]
NoFile == WalFile(-1, <<>>, "no")
EmptyWal == WalFile(NoRecord, <<>>, "no")
Idle == [kind |-> "idle", rec |-> NoRecord]
Frames(w) == {w.frames[i] : i \in 1..Len(w.frames)}

-----------------------------------------------------------------------------
(* Reading the files back. *)

(* pending_after_checkpoint refuses a checkpoint the WAL cannot place. *)
Openable(w, c) == IF c = NoRecord THEN w.base = NoRecord
                                  ELSE c = w.base \/ c \in Frames(w)

(* Index of the first frame after the checkpoint. *)
FirstPending(w, c) ==
    IF c = NoRecord \/ c = w.base THEN 1
    ELSE 1 + CHOOSE i \in 1..Len(w.frames) : w.frames[i] = c

(* The frames pending_after_checkpoint returns, in file order. *)
Pending(w, c) == SubSeq(w.frames, FirstPending(w, c), Len(w.frames))
PendingSet(w, c) == {w.frames[i] : i \in FirstPending(w, c)..Len(w.frames)}

(* Mutants of PrefixAccepted: the prefix is not compared with the pending   *)
(* frames at all, or is looked up anywhere in the WAL.                      *)
PrefixAccepted_LengthOnly(first, last) ==
    last - first + 1 <= Len(Pending(wal, ckpt))
(* A prefix of record ids is accepted when it is exactly the first pending  *)
(* frames; the callers hand over runs of consecutively written records.     *)
PrefixAccepted(first, last) ==
    LET pending == Pending(wal, ckpt)
        n == last - first + 1
    IN  n <= Len(pending) /\ \A i \in 1..n : pending[i] = first + i - 1

Init == /\ header = "absent"
        /\ wal = EmptyWal
        /\ stable = 0
        /\ walAlt = NoFile
        /\ ckpt = NoRecord /\ ckptAlt = NoRecord
        /\ proc = "down" /\ op = Idle
        /\ writer = "absent" /\ worker = "stopped"
        /\ next = 0
        /\ receipts = {} /\ blind = {} /\ handed = {} /\ settled = {}
        /\ faults = 0

Ready == proc = "up" /\ op = Idle

(* sync_all reached the disk: earlier renames can no longer be undone. *)
RenamesCommitted == walAlt' = NoFile /\ ckptAlt' = ckpt

(* An injected or real failure: the operation returns Err at this step. *)
Fault == faults < MaxFaults /\ faults' = faults + 1

-----------------------------------------------------------------------------
(* open: create the WAL, or read it, repair its tail and place the          *)
(* checkpoint.  Temporary files are removed unread.                         *)

CreateHeader == /\ proc = "down" /\ op = Idle /\ header = "absent"
                /\ header' = "partial"
                /\ op' = [kind |-> "create", rec |-> NoRecord]
                /\ UNCHANGED <<wal, stable, walAlt, ckpt, ckptAlt, proc, writer,
                               worker, next, receipts, blind, handed, settled, faults>>

FinishHeader == /\ op.kind = "create" /\ header = "partial"
                /\ header' = "complete"
                /\ op' = Idle
                /\ proc' = "up" /\ worker' = "live"
                /\ UNCHANGED <<wal, stable, walAlt, ckpt, ckptAlt, writer,
                               next, receipts, blind, handed, settled, faults>>

(* The last frame is short: the file is cut off before it, with all that    *)
(* was written behind its first bytes.  Then the recovery of the process    *)
(* takes what is pending.                                                   *)
Open == /\ proc = "down" /\ op = Idle /\ header = "complete"
        /\ Openable(wal, ckpt)
        /\ wal' = WalFile(wal.base, wal.frames, "no")
        /\ stable' = IF wal.torn # "no" THEN Len(wal.frames) ELSE stable
        /\ IF wal.torn # "no" THEN RenamesCommitted ELSE UNCHANGED <<walAlt, ckptAlt>>
        /\ proc' = "up" /\ worker' = "live"
        /\ handed' = PendingSet(wal, ckpt)
        /\ UNCHANGED <<header, ckpt, op, writer, next, receipts, blind, settled, faults>>

(* What follows torn bytes may also make up the length the torn frame asks  *)
(* for; then it fails to authenticate.                                      *)
OpenRefused == /\ proc = "down" /\ op = Idle
               /\ \/ header = "partial"
                  \/ header = "complete" /\ (~Openable(wal, ckpt) \/ wal.torn = "inside")
               /\ proc' = "refused"
               /\ UNCHANGED <<fileVars, op, writer, worker, next, receipts, blind, handed,
                              settled, faults>>

-----------------------------------------------------------------------------
(* A connection gets a writer and a worker of its own on the spool of the   *)
(* process: the first one when the startup recovery has checkpointed all    *)
(* that was pending, later ones when the tasks of the one before have       *)
(* ended.  A worker that ended with an error leaves what it was handed to   *)
(* nobody; an error ends the process only if the connection loop looks at   *)
(* the fatal channel before the connection ends in another way.             *)
Connect ==
    /\ Ready
    /\ writer = "absent" => worker = "live" /\ PendingSet(wal, ckpt) = {}
    /\ writer' = "live" /\ worker' = "live"
    /\ handed' = {}
    /\ UNCHANGED <<fileVars, proc, op, next, receipts, blind, settled, faults>>

-----------------------------------------------------------------------------
(* append: limits and budget, write the whole frame, sync_all, return a     *)
(* receipt.                                                                 *)

AppendRefused == /\ Ready /\ writer = "live"
                 /\ writer' = "stopped"
                 /\ UNCHANGED <<fileVars, proc, op, worker, next, receipts, blind, handed,
                                settled, faults>>

AppendWrite == /\ Ready /\ writer = "live"
               /\ next < MaxRecords
               /\ Len(wal.frames) < WalCapacity
               /\ next' = next + 1
               /\ wal' = IF wal.torn = "no"
                         THEN WalFile(wal.base, Append(wal.frames, next + 1), "no")
                         ELSE WalFile(wal.base, wal.frames, "inside")
               /\ op' = [kind |-> "append", rec |-> next + 1]
               /\ UNCHANGED <<header, stable, walAlt, ckpt, ckptAlt, proc, writer,
                              worker, receipts, blind, handed, settled, faults>>

(* write_all stopped part-way: some bytes of the frame are in the file. *)
AppendTorn == /\ Ready /\ writer = "live"
              /\ next < MaxRecords
              /\ Len(wal.frames) < WalCapacity
              /\ Fault
              /\ next' = next + 1
              /\ wal' = WalFile(wal.base, wal.frames,
                               IF wal.torn = "no" THEN "tail" ELSE "inside")
              /\ writer' = "stopped"
              /\ UNCHANGED <<header, stable, walAlt, ckpt, ckptAlt, proc, op,
                             worker, receipts, blind, handed, settled>>

(* Mutant: the receipt is issued without sync_all. *)
AppendSync_NoSync ==
    /\ proc = "up" /\ op.kind = "append"
    /\ receipts' = receipts \cup {op.rec}
    /\ blind' = IF wal.torn = "no" THEN blind ELSE blind \cup {op.rec}
    /\ handed' = handed \cup {op.rec}
    /\ op' = Idle
    /\ UNCHANGED <<fileVars, proc, writer, worker, next, settled, faults>>

AppendSync == /\ proc = "up" /\ op.kind = "append"
              /\ stable' = Len(wal.frames)
              /\ RenamesCommitted
              /\ receipts' = receipts \cup {op.rec}
              /\ blind' = IF wal.torn = "no" THEN blind ELSE blind \cup {op.rec}
              /\ handed' = handed \cup {op.rec}
              /\ op' = Idle
              /\ UNCHANGED <<header, wal, ckpt, proc, writer, worker,
                             next, settled, faults>>

AppendSyncFailed == /\ proc = "up" /\ op.kind = "append"
                    /\ Fault
                    /\ op' = Idle
                    /\ writer' = "stopped"
                    /\ UNCHANGED <<fileVars, proc, worker, next, receipts, blind, handed, settled>>

-----------------------------------------------------------------------------
(* The replay side: MySQL committed a record that a receipt or the startup  *)
(* scan handed over, and its required hooks converged.                      *)

Settle(r) == /\ Ready
             /\ r \in handed \ settled
             /\ settled' = settled \cup {r}
             /\ UNCHANGED <<fileVars, proc, op, writer, worker, next, receipts, blind,
                            handed, faults>>

-----------------------------------------------------------------------------
(* advance_checkpoint: rescan, match the prefix against the pending frames, *)
(* write and sync a temporary file, rename it over the checkpoint, sync.    *)

CheckpointTemp(first, last) ==
    /\ Ready /\ worker = "live"
    /\ first <= last /\ first..last \subseteq settled \cap handed
    /\ wal.torn = "no"
    /\ PrefixAccepted(first, last)
    /\ RenamesCommitted
    /\ op' = [kind |-> "ckpt_temp", rec |-> last]
    /\ UNCHANGED <<header, wal, stable, ckpt, proc, writer, worker, next, receipts, blind, handed,
                   settled, faults>>

CheckpointRejected(first, last) ==
    /\ Ready /\ worker = "live"
    /\ first <= last /\ first..last \subseteq settled \cap handed
    /\ wal.torn # "no" \/ ~PrefixAccepted(first, last)
    /\ worker' = "stopped"
    /\ UNCHANGED <<fileVars, proc, op, writer, next, receipts, blind, handed, settled, faults>>

CheckpointReplace == /\ proc = "up" /\ op.kind = "ckpt_temp"
                     /\ ckpt' = op.rec
                     /\ op' = [kind |-> "ckpt_replaced", rec |-> op.rec]
                     /\ UNCHANGED <<header, wal, stable, walAlt, ckptAlt, proc,
                                    writer, worker, next, receipts, blind, handed, settled, faults>>

CheckpointSync == /\ proc = "up" /\ op.kind = "ckpt_replaced"
                  /\ RenamesCommitted
                  /\ op' = Idle
                  /\ UNCHANGED <<header, wal, stable, ckpt, proc, writer,
                                 worker, next, receipts, blind, handed, settled, faults>>

CheckpointFailed == /\ proc = "up" /\ op.kind \in {"ckpt_temp", "ckpt_replaced"}
                    /\ Fault
                    /\ op' = Idle
                    /\ worker' = "stopped"
                    /\ UNCHANGED <<fileVars, proc, writer, next, receipts, blind, handed, settled>>

-----------------------------------------------------------------------------
(* compact: copy the pending frames behind a header whose base is the       *)
(* checkpointed record.  A caller that saw an earlier operation fail does   *)
(* not compact.                                                             *)

CompactTemp == /\ Ready /\ writer = "live" /\ worker = "live"
               /\ wal.torn = "no"
               /\ ckpt # NoRecord
               /\ RenamesCommitted
               /\ op' = [kind |-> "compact_temp", rec |-> ckpt]
               /\ UNCHANGED <<header, wal, stable, ckpt, proc, writer, worker, next,
                              receipts, blind, handed, settled, faults>>

CompactReplace == /\ proc = "up" /\ op.kind = "compact_temp"
                  /\ \E k \in stable..Len(wal.frames) :
                        walAlt' = WalFile(wal.base, SubSeq(wal.frames, 1, k), wal.torn)
                  /\ wal' = WalFile(op.rec, Pending(wal, op.rec), "no")
                  /\ stable' = Len(Pending(wal, op.rec))
                  /\ op' = [kind |-> "compact_replaced", rec |-> op.rec]
                  /\ UNCHANGED <<header, ckpt, ckptAlt, proc, writer, worker, next,
                                 receipts, blind, handed, settled, faults>>

CompactSync == /\ proc = "up" /\ op.kind = "compact_replaced"
               /\ RenamesCommitted
               /\ op' = Idle
               /\ UNCHANGED <<header, wal, stable, ckpt, proc, writer,
                              worker, next, receipts, blind, handed, settled, faults>>

CompactFailed == /\ proc = "up" /\ op.kind \in {"compact_temp", "compact_replaced"}
                 /\ Fault
                 /\ op' = Idle
                 /\ writer' = "stopped" /\ worker' = "stopped"
                 /\ UNCHANGED <<fileVars, proc, next, receipts, blind, handed, settled>>

-----------------------------------------------------------------------------
(* Crashes.  Kill leaves the files as every reader sees them; a power loss  *)
(* keeps the synced frames, any of the others, and possibly a torn tail;    *)
(* what is behind torn bytes may go or stay.                                *)

WalImages == {WalFile(wal.base, SubSeq(wal.frames, 1, k), t) :
                 k \in stable..Len(wal.frames), t \in {"no", "tail", wal.torn}}
             \cup (IF walAlt = NoFile THEN {} ELSE {walAlt})
CheckpointImages == {ckpt, ckptAlt}

Stop == /\ proc' = "down" /\ op' = Idle
        /\ writer' = "absent" /\ worker' = "stopped"
        /\ handed' = {}
        /\ UNCHANGED <<next, receipts, blind, settled>>

Kill == /\ proc = "up" \/ op.kind = "create"
        /\ Fault /\ Stop
        /\ UNCHANGED fileVars

LosePower == /\ PowerLoss
             /\ proc = "up" \/ op.kind = "create"
             /\ Fault /\ Stop
             /\ header' \in IF op.kind = "create" THEN {"absent", "partial"} ELSE {header}
             /\ wal' \in IF op.kind = "create" THEN {wal} ELSE WalImages
             /\ stable' = Len(wal'.frames)
             /\ walAlt' = NoFile
             /\ ckpt' \in CheckpointImages
             /\ ckptAlt' = ckpt'

-----------------------------------------------------------------------------
Next == \/ CreateHeader \/ FinishHeader \/ Open \/ OpenRefused
        \/ Connect
        \/ AppendRefused \/ AppendWrite \/ AppendTorn \/ AppendSync
        \/ AppendSyncFailed
        \/ \E r \in Records : Settle(r)
        \/ \E first, last \in Records :
              CheckpointTemp(first, last) \/ CheckpointRejected(first, last)
        \/ CheckpointReplace \/ CheckpointSync \/ CheckpointFailed
        \/ CompactTemp \/ CompactReplace \/ CompactSync \/ CompactFailed
        \/ Kill \/ LosePower

Spec == Init /\ [][Next]_vars

-----------------------------------------------------------------------------
(* Properties. *)

WalFiles == [base : -1..MaxRecords, frames : Seq(Records), torn : Tails]

OpKinds == {"idle", "create", "append", "ckpt_temp", "ckpt_replaced",
            "compact_temp", "compact_replaced"}

(* Every variable keeps its type: the WAL is a sequence of drawn records,   *)
(* the synced prefix lies inside it, and a checkpoint names a drawn record. *)
TypeOK == /\ header \in {"absent", "partial", "complete"}
          /\ wal \in WalFiles /\ walAlt \in WalFiles
          /\ stable \in 0..Len(wal.frames)
          /\ ckpt \in 0..next /\ ckptAlt \in 0..next
          /\ proc \in {"down", "up", "refused"}
          /\ op \in [kind : OpKinds, rec : 0..MaxRecords]
          /\ writer \in {"absent", "live", "stopped"} /\ worker \in {"live", "stopped"}
          /\ next \in 0..MaxRecords
          /\ receipts \subseteq 1..next /\ blind \subseteq receipts
          /\ handed \subseteq 1..next /\ settled \subseteq 1..next
          /\ faults \in 0..MaxFaults

(* Receipted records a reader of the file can find.                         *)
Readable == receipts \ blind

(* DurableReceipt: once append has returned a receipt (write_all and        *)
(* sync_all done), the record keeps its place in the WAL behind the         *)
(* checkpoint, where a start replays it, in every image a crash at this     *)
(* moment can leave, until its replay has converged: across failed appends  *)
(* and checkpoints, reconnects, compactions and repairs.  Not so a record   *)
(* appended behind the bytes of a failed append: it has a receipt, and the  *)
(* next open cuts it off or refuses the file.                               *)
DurableReceipt ==
    \A r \in Readable \ settled, w \in WalImages \cup {wal}, c \in CheckpointImages :
        Openable(w, c) /\ r \in PendingSet(w, c)

(* What a receipt is for, without that exception; the code does not keep it. *)
EveryReceiptDurable ==
    \A r \in receipts \ settled : Openable(wal, ckpt) /\ r \in PendingSet(wal, ckpt)

(* NothingSkipped: a complete frame in the WAL that a start would no longer *)
(* replay has converged; the checkpoint never jumps over a frame, received  *)
(* or not, that advance_checkpoint was not handed.                          *)
NothingSkipped ==
    \A c \in CheckpointImages :
        Openable(wal, c) => Frames(wal) \ PendingSet(wal, c) \subseteq settled

(* What makes those invariants inductive.  Frames are in the order they     *)
(* were drawn, so "after the checkpoint" and "drawn later than the          *)
(* checkpointed record" are the same; the rest says what the operation in   *)
(* progress has already established.                                        *)
Ordered(w) ==
    /\ \A i \in 1..Len(w.frames) : w.base < w.frames[i] /\ w.frames[i] <= next
    /\ \A i, j \in 1..Len(w.frames) : i < j => w.frames[i] < w.frames[j]

Fresh == header # "complete" =>
            /\ proc # "up" /\ wal = EmptyWal /\ walAlt = NoFile
            /\ ckpt = NoRecord /\ ckptAlt = NoRecord /\ receipts = {}

Placed == proc = "up" => Openable(wal, ckpt)

InProgress ==
    /\ op.kind = "create" => header = "partial"
    /\ op.kind \notin {"idle", "create"} => proc = "up"
    /\ op.kind = "append" => /\ op.rec > ckpt /\ op.rec <= next
                             /\ wal.torn = "no" =>
                                   /\ wal.frames # <<>>
                                   /\ op.rec = wal.frames[Len(wal.frames)]
    /\ op.kind = "ckpt_temp" => /\ walAlt = NoFile /\ ckptAlt = ckpt
                                /\ op.rec > ckpt /\ op.rec \in Frames(wal)
                                /\ \A f \in Frames(wal) : f <= op.rec => f \in settled
    /\ op.kind = "compact_temp" => /\ walAlt = NoFile /\ ckptAlt = ckpt
                                   /\ op.rec = ckpt /\ ckpt # NoRecord

Covered == \A f \in Frames(wal) \cup Frames(walAlt) :
              f <= ckpt \/ f <= ckptAlt => f \in settled

Kept == \A r \in Readable \ settled :
            /\ r > ckpt /\ r > ckptAlt
            /\ \E i \in 1..stable : wal.frames[i] = r
            /\ Openable(wal, ckpt) /\ Openable(wal, ckptAlt)
            /\ walAlt # NoFile => /\ r \in Frames(walAlt)
                                  /\ Openable(walAlt, ckpt)
                                  /\ Openable(walAlt, ckptAlt)

(* Consistent: the files, the operation in progress and the receipts agree. *)
Consistent == /\ Ordered(wal) /\ Ordered(walAlt)
              /\ Fresh /\ Placed /\ InProgress /\ Covered /\ Kept

(* CheckpointOnlyAdvances: the checkpoint that survives every crash never   *)
(* moves back to an older record.                                           *)
Min2(a, b) == IF a < b THEN a ELSE b
CheckpointOnlyAdvances ==
    [][Min2(ckpt', ckptAlt') >= Min2(ckpt, ckptAlt)]_vars

(* Refinement: held are the receipted records newer than every checkpoint a *)
(* crash may leave, those behind torn bytes excepted as in DurableReceipt.  *)
Held == {r \in Readable : r > Min2(ckpt, ckptAlt)}
Log == INSTANCE DurableLog WITH held <- Held, settled <- settled, Records <- Records

(* The file adapter implements the promise of DurableLog. *)
ImplementsDurableLog == Log!Spec
=============================================================================
