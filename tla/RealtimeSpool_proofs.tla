------------------------ MODULE RealtimeSpool_proofs ------------------------
(***************************************************************************)
(* Machine-checked proofs about RealtimeSpool, for every number of         *)
(* records, every WAL capacity, every number of faults, with or without    *)
(* power losses.                                                           *)
(***************************************************************************)
EXTENDS RealtimeSpool, TLAPS

USE DEF NoRecord

(* The first pending frame has its place, and the pending frames are        *)
(* exactly the ones drawn after the checkpointed record.                    *)
LEMMA FirstPendingPlace ==
    ASSUME NEW w \in WalFiles, NEW c \in Nat, Ordered(w), Openable(w, c)
    PROVE  /\ FirstPending(w, c) \in 1..Len(w.frames) + 1
           /\ \A i \in 1..Len(w.frames) : i >= FirstPending(w, c) <=> w.frames[i] > c
  <1>0. /\ w.frames \in Seq(Records) /\ w.base \in Int /\ Len(w.frames) \in Nat
        /\ \A i \in 1..Len(w.frames) : w.frames[i] \in Nat
    BY MaxRecordsAssumption DEF WalFiles, Records
  <1>1. CASE c = NoRecord \/ c = w.base
    <2>1. FirstPending(w, c) = 1
      BY <1>1 DEF FirstPending
    <2>2. w.base = c
      BY <1>1 DEF Openable
    <2> QED
      BY <1>0, <2>1, <2>2 DEF Ordered
  <1>2. CASE ~(c = NoRecord \/ c = w.base)
    <2> DEFINE k == CHOOSE i \in 1..Len(w.frames) : w.frames[i] = c
    <2>1. \E i \in 1..Len(w.frames) : w.frames[i] = c
      BY <1>2 DEF Openable, Frames
    <2>2. k \in 1..Len(w.frames) /\ w.frames[k] = c
      BY <2>1
    <2>3. FirstPending(w, c) = 1 + k
      BY <1>2 DEF FirstPending
    <2> HIDE DEF k
    <2> QED
      BY <1>0, <2>2, <2>3 DEF Ordered
  <1> QED
    BY <1>1, <1>2

LEMMA PendingIsLater ==
    ASSUME NEW w \in WalFiles, NEW c \in Nat, Ordered(w), Openable(w, c)
    PROVE  PendingSet(w, c) = {f \in Frames(w) : f > c}
  <1>1. Len(w.frames) \in Nat
    BY DEF WalFiles
  <1> QED
    BY <1>1, FirstPendingPlace DEF PendingSet, Frames

-----------------------------------------------------------------------------
(* Type correctness.  It is inductive together with Consistent, which says  *)
(* that the record an operation carries has been drawn.                     *)

USE MaxRecordsAssumption, WalCapacityAssumption, MaxFaultsAssumption,
    PowerLossAssumption

LEMMA InitTyped == Init => TypeOK
  BY DEF Init, TypeOK, WalFiles, Tails, Records, EmptyWal, NoFile, WalFile,
         Idle, OpKinds

(* What the sequences of a well-typed WAL look like to arithmetic. *)
LEMMA FramesTyped ==
    ASSUME NEW w \in WalFiles
    PROVE  /\ w.frames \in Seq(Records) /\ w.base \in Int /\ w.torn \in Tails
           /\ Len(w.frames) \in Nat
           /\ \A i \in 1..Len(w.frames) : w.frames[i] \in Records
           /\ \A k \in 0..Len(w.frames) :
                 /\ SubSeq(w.frames, 1, k) \in Seq(Records)
                 /\ Len(SubSeq(w.frames, 1, k)) = k
                 /\ \A i \in 1..k : SubSeq(w.frames, 1, k)[i] = w.frames[i]
  BY DEF WalFiles, Records

LEMMA NoFileTyped == NoFile \in WalFiles
  BY DEF NoFile, WalFile, WalFiles, Tails

(* A power loss leaves a well-typed, ordered WAL that keeps the synced      *)
(* frames, or the one an unfinished rename replaced.                        *)
LEMMA WalImageShape ==
    ASSUME TypeOK, NEW w \in WalImages
    PROVE  /\ w \in WalFiles
           /\ \/ \E k \in stable..Len(wal.frames) :
                    w.base = wal.base /\ w.frames = SubSeq(wal.frames, 1, k)
              \/ w = walAlt /\ walAlt # NoFile
  <1>1. wal \in WalFiles /\ walAlt \in WalFiles /\ stable \in 0..Len(wal.frames)
    BY DEF TypeOK
  <1>2. CASE w = walAlt /\ walAlt # NoFile
    BY <1>1, <1>2
  <1>3. CASE \E k \in stable..Len(wal.frames), t \in {"no", "tail", wal.torn} :
                w = WalFile(wal.base, SubSeq(wal.frames, 1, k), t)
    <2>1. PICK k \in stable..Len(wal.frames), t \in {"no", "tail", wal.torn} :
                w = WalFile(wal.base, SubSeq(wal.frames, 1, k), t)
      BY <1>3
    <2>2. k \in 0..Len(wal.frames)
      BY <1>1, FramesTyped
    <2>3. SubSeq(wal.frames, 1, k) \in Seq(Records)
      BY <1>1, <2>2, FramesTyped
    <2> QED
      BY <1>1, <2>1, <2>3 DEF WalFiles, WalFile, Tails
  <1> QED
    BY <1>2, <1>3 DEF WalImages

(* Every action preserves TypeOK. *)
LEMMA NextTyped == TypeOK /\ Consistent /\ [Next]_vars => TypeOK'
  <1> SUFFICES ASSUME TypeOK, Consistent, [Next]_vars
               PROVE  TypeOK'
    OBVIOUS
  <1> USE DEF TypeOK, OpKinds, Idle
  <1>w. wal \in WalFiles /\ walAlt \in WalFiles
    OBVIOUS
  <1>0. /\ Ordered(wal) /\ Placed /\ InProgress
    BY DEF Consistent
  <1>1. CASE CreateHeader
    BY <1>1 DEF CreateHeader
  <1>2. CASE FinishHeader
    BY <1>2 DEF FinishHeader
  <1>3. CASE Open
    <2>1. PendingSet(wal, ckpt) \subseteq 1..next
      <3>1. PendingSet(wal, ckpt) \subseteq Frames(wal)
        BY <1>3, <1>w, <1>0, PendingIsLater DEF Open
      <3>2. Frames(wal) \subseteq 1..next
        BY <1>w, <1>0, FramesTyped DEF Frames, Ordered, Records
      <3> QED
        BY <3>1, <3>2
    <2>2. WalFile(wal.base, wal.frames, "no") \in WalFiles
      BY <1>w DEF WalFile, WalFiles, Tails
    <2> QED
      BY <1>3, <1>w, <2>1, <2>2, NoFileTyped DEF Open, RenamesCommitted, WalFile, WalFiles
  <1>4. CASE OpenRefused
    BY <1>4 DEF OpenRefused, fileVars
  <1>5. CASE AppendRefused
    BY <1>5 DEF AppendRefused, fileVars
  <1>c. CASE Connect
    BY <1>c DEF Connect, fileVars
  <1>6. CASE AppendWrite
    <2>1. Append(wal.frames, next + 1) \in Seq(Records)
      BY <1>6, <1>w DEF AppendWrite, WalFiles, Records
    <2>2. /\ wal' \in WalFiles /\ Len(wal.frames) \in Nat
          /\ Len(wal'.frames) = Len(wal.frames) + 1 \/ Len(wal'.frames) = Len(wal.frames)
      BY <1>6, <1>w, <2>1 DEF AppendWrite, WalFile, WalFiles, Tails
    <2> QED
      BY <1>6, <1>w, <2>2 DEF AppendWrite
  <1>7. CASE AppendTorn
    BY <1>7, <1>w DEF AppendTorn, Fault, WalFile, WalFiles, Tails
  <1>8. CASE AppendSync
    <2>1. op.rec \in 1..next
      BY <1>8, <1>0 DEF AppendSync, InProgress
    <2>2. receipts' \subseteq 1..next /\ handed' \subseteq 1..next /\ blind' \subseteq receipts'
      BY <1>8, <2>1 DEF AppendSync
    <2>3. stable' \in 0..Len(wal.frames)
      BY <1>8, <1>w, FramesTyped DEF AppendSync
    <2>4. walAlt' \in WalFiles /\ ckptAlt' \in 0..next
      BY <1>8, NoFileTyped DEF AppendSync, RenamesCommitted
    <2>5. /\ op' \in [kind : OpKinds, rec : 0..MaxRecords]
          /\ UNCHANGED <<header, wal, ckpt, proc, writer, worker, next, settled, faults>>
      BY <1>8 DEF AppendSync
    <2> QED
      BY <2>2, <2>3, <2>4, <2>5
  <1>9. CASE AppendSyncFailed
    BY <1>9 DEF AppendSyncFailed, Fault, fileVars
  <1>10. CASE \E r \in Records : Settle(r)
    BY <1>10 DEF Settle, fileVars
  <1>11. CASE \E first, last \in Records : CheckpointTemp(first, last)
    BY <1>11, <1>w, NoFileTyped DEF CheckpointTemp, RenamesCommitted, Records
  <1>12. CASE \E first, last \in Records : CheckpointRejected(first, last)
    BY <1>12 DEF CheckpointRejected, fileVars
  <1>13. CASE CheckpointReplace
    <2>1. op.rec \in 0..next
      BY <1>13, <1>w, <1>0, FramesTyped DEF CheckpointReplace, InProgress, Ordered, Frames, Records
    <2> QED
      BY <1>13, <2>1 DEF CheckpointReplace
  <1>14. CASE CheckpointSync
    BY <1>14, NoFileTyped DEF CheckpointSync, RenamesCommitted
  <1>15. CASE CheckpointFailed
    BY <1>15 DEF CheckpointFailed, Fault, fileVars
  <1>16. CASE CompactTemp
    BY <1>16, NoFileTyped DEF CompactTemp, RenamesCommitted
  <1>17. CASE CompactReplace
    <2>1. /\ op.rec = ckpt /\ Openable(wal, ckpt)
      BY <1>17, <1>0 DEF CompactReplace, InProgress, Placed
    <2>2. /\ FirstPending(wal, ckpt) \in 1..Len(wal.frames) + 1
          /\ Pending(wal, ckpt) \in Seq(Records)
      BY <1>w, <1>0, <2>1, FirstPendingPlace, FramesTyped DEF Pending
    <2>3. wal' \in WalFiles /\ stable' = Len(wal'.frames) /\ stable' \in Nat
      BY <1>17, <2>1, <2>2 DEF CompactReplace, WalFile, WalFiles, Tails
    <2>4. walAlt' \in WalFiles
      BY <1>17, <1>w, FramesTyped DEF CompactReplace, WalFile, WalFiles
    <2>5. op' \in [kind : OpKinds, rec : 0..MaxRecords]
      BY <1>17 DEF CompactReplace
    <2>6. UNCHANGED <<header, ckpt, ckptAlt, proc, writer, worker, next, receipts,
                      blind, handed, settled, faults>>
      BY <1>17 DEF CompactReplace
    <2> QED
      BY <2>3, <2>4, <2>5, <2>6
  <1>18. CASE CompactSync
    BY <1>18, NoFileTyped DEF CompactSync, RenamesCommitted
  <1>19. CASE CompactFailed
    BY <1>19 DEF CompactFailed, Fault, fileVars
  <1>20. CASE Kill
    BY <1>20 DEF Kill, Stop, Fault, fileVars
  <1>21. CASE LosePower
    <2>1. wal' \in WalFiles
      BY <1>21, <1>w, WalImageShape DEF LosePower
    <2>2. Len(wal'.frames) \in Nat
      BY <2>1, FramesTyped
    <2> QED
      BY <1>21, <2>1, <2>2, NoFileTyped DEF LosePower, Stop, Fault, CheckpointImages
  <1>22. CASE UNCHANGED vars
    BY <1>22 DEF vars
  <1> QED
    BY <1>1, <1>2, <1>3, <1>4, <1>5, <1>6, <1>7, <1>8, <1>9, <1>10, <1>11, <1>12,
       <1>13, <1>14, <1>15, <1>16, <1>17, <1>18, <1>19, <1>20, <1>21, <1>22, <1>c DEF Next

-----------------------------------------------------------------------------
(* Consistent is inductive. *)

LEMMA InitConsistent == Init => Consistent
  BY DEF Init, Consistent, Ordered, Fresh, Placed, InProgress, Covered, Kept, Readable,
         EmptyWal, NoFile, WalFile, Idle, Openable, Frames

(* Nothing is lost when the files stay as they are: the operation ends or   *)
(* goes on, the process may stop.                                           *)
LEMMA FilesUntouched ==
    ASSUME Consistent,
           UNCHANGED <<fileVars, next, receipts, blind>>,
           settled \subseteq settled',
           proc' = "up" => proc = "up",
           op' = Idle \/ (op' = op /\ proc' = proc)
    PROVE  Consistent'
  BY DEF Consistent, Ordered, Fresh, Placed, InProgress, Covered, Kept, Readable, fileVars,
         Openable, Frames, Idle

LEMMA NoFileOrdered == Ordered(NoFile) /\ Ordered(NoFile)' /\ Frames(NoFile) = {}
  BY DEF Ordered, NoFile, WalFile, Frames

(* Committing the renames leaves the files a reader sees, with or without   *)
(* the torn tail, and drops the ones a power loss would have brought back.  *)
LEMMA RenamesKept ==
    ASSUME TypeOK, Consistent, RenamesCommitted,
           wal'.base = wal.base, wal'.frames = wal.frames,
           UNCHANGED <<header, ckpt, next, receipts, blind, settled>>,
           stable' >= stable, stable' \in Nat,
           header = "complete", Openable(wal, ckpt)
    PROVE  /\ Ordered(wal)' /\ Ordered(walAlt)' /\ Fresh' /\ Placed'
           /\ Covered' /\ Kept'
  <1>1. Ordered(wal)'
    BY DEF Consistent, Ordered
  <1>2. Ordered(walAlt)'
    BY NoFileOrdered DEF RenamesCommitted, Ordered
  <1>3. Fresh' /\ Placed'
    BY DEF Fresh, Placed, Openable, Frames
  <1>4. Covered'
    BY NoFileOrdered DEF Consistent, Covered, RenamesCommitted, Frames
  <1>5. Kept'
    BY DEF Consistent, Kept, Readable, RenamesCommitted, Openable, Frames, TypeOK
  <1> QED
    BY <1>1, <1>2, <1>3, <1>4, <1>5

(* CreateHeader, FinishHeader: nothing but the header exists. *)
LEMMA CreateConsistent ==
    ASSUME TypeOK, Consistent, CreateHeader \/ FinishHeader
    PROVE  Consistent'
  BY DEF Consistent, Ordered, Fresh, Placed, InProgress, Covered, Kept, Readable,
         CreateHeader, FinishHeader, EmptyWal, NoFile, WalFile, Idle, Openable, Frames

LEMMA OpenConsistent ==
    ASSUME TypeOK, Consistent, Open
    PROVE  Consistent'
  <1>1. /\ wal'.base = wal.base /\ wal'.frames = wal.frames
        /\ UNCHANGED <<header, ckpt, op, next, receipts, blind, settled>>
        /\ header = "complete" /\ Openable(wal, ckpt) /\ op = Idle
    BY DEF Open, WalFile
  <1>2. InProgress'
    BY <1>1 DEF InProgress, Idle
  <1>3. CASE wal.torn # "no"
    <2>1. stable' = Len(wal.frames) /\ RenamesCommitted
      BY <1>3 DEF Open
    <2>2. stable' >= stable /\ stable' \in Nat
      BY <2>1 DEF TypeOK, WalFiles
    <2> QED
      BY <1>1, <1>2, <2>1, <2>2, RenamesKept DEF Consistent
  <1>4. CASE wal.torn = "no"
    <2>1. UNCHANGED <<stable, walAlt, ckptAlt>>
      BY <1>4 DEF Open
    <2>2. Ordered(wal)' /\ Ordered(walAlt)'
      BY <1>1, <2>1 DEF Consistent, Ordered
    <2>3. Fresh' /\ Placed'
      BY <1>1 DEF Fresh, Placed, Openable, Frames
    <2>4. Covered' /\ Kept'
      BY <1>1, <2>1 DEF Consistent, Covered, Kept, Readable, Openable, Frames
    <2> QED
      BY <1>2, <2>2, <2>3, <2>4 DEF Consistent
  <1> QED
    BY <1>3, <1>4

(* A record drawn later than all frames is also later than the checkpoint. *)
LEMMA NextIsLater ==
    ASSUME TypeOK, Consistent, proc = "up"
    PROVE  /\ Openable(wal, ckpt) /\ header = "complete"
           /\ wal.base <= next /\ ckpt <= next
  <1>1. /\ Len(wal.frames) \in Nat /\ wal.base \in Int /\ next \in Nat /\ ckpt \in 0..next
        /\ \A i \in 1..Len(wal.frames) : wal.frames[i] \in Nat
    BY FramesTyped DEF TypeOK, Records
  <1>2. Openable(wal, ckpt) /\ header = "complete" /\ Ordered(wal)
    BY DEF Consistent, Placed, Fresh
  <1>3. CASE ckpt = wal.base
    BY <1>1, <1>2, <1>3
  <1>4. CASE \E i \in 1..Len(wal.frames) : wal.frames[i] = ckpt
    BY <1>1, <1>2, <1>4 DEF Ordered
  <1> QED
    BY <1>1, <1>2, <1>3, <1>4 DEF Openable, Frames

(* Writing behind torn bytes changes none of the frames a reader finds. *)
LEMMA FramesUntouched ==
    ASSUME TypeOK, Consistent, proc = "up",
           wal'.base = wal.base, wal'.frames = wal.frames, wal'.torn # "no",
           next' = next + 1,
           op' = Idle \/ op' = [kind |-> "append", rec |-> next + 1],
           UNCHANGED <<header, stable, walAlt, ckpt, ckptAlt, proc, receipts, blind, settled>>
    PROVE  Consistent'
  <1>1. next \in Nat /\ ckpt <= next /\ ckpt \in Nat
    BY NextIsLater DEF TypeOK
  <1>2. Ordered(wal)' /\ Ordered(walAlt)'
    <2>1. /\ \A i \in 1..Len(wal.frames) : wal.frames[i] \in Nat
          /\ \A i \in 1..Len(walAlt.frames) : walAlt.frames[i] \in Nat
      BY FramesTyped DEF TypeOK, Records
    <2> QED
      BY <1>1, <2>1 DEF Consistent, Ordered
  <1>3. Fresh' /\ Placed'
    BY DEF Consistent, Fresh, Placed, Openable, Frames
  <1>4. InProgress'
    BY <1>1 DEF InProgress, Idle
  <1>5. Covered' /\ Kept'
    BY DEF Consistent, Covered, Kept, Readable, Openable, Frames
  <1> QED
    BY <1>2, <1>3, <1>4, <1>5 DEF Consistent

(* A new frame goes behind the others, drawn later than all of them. *)
LEMMA AppendFrameConsistent ==
    ASSUME TypeOK, Consistent, AppendWrite, wal.torn = "no"
    PROVE  Consistent'
  <1>1. /\ wal'.base = wal.base /\ wal'.frames = Append(wal.frames, next + 1)
        /\ next' = next + 1 /\ op' = [kind |-> "append", rec |-> next + 1]
        /\ UNCHANGED <<header, stable, walAlt, ckpt, ckptAlt, proc, receipts, blind, settled>>
        /\ proc = "up"
    BY DEF AppendWrite, WalFile, Ready
  <1>2. /\ wal.frames \in Seq(Records) /\ Len(wal.frames) \in Nat /\ wal.base \in Int
        /\ next \in Nat /\ stable \in 0..Len(wal.frames)
        /\ ckpt \in 0..next /\ ckptAlt \in 0..next
        /\ \A i \in 1..Len(wal.frames) : wal.frames[i] \in Nat
        /\ \A i \in 1..Len(walAlt.frames) : walAlt.frames[i] \in Nat
    BY FramesTyped DEF TypeOK, Records
  <1>3. /\ Len(wal'.frames) = Len(wal.frames) + 1
        /\ wal'.frames[Len(wal.frames) + 1] = next + 1
        /\ \A i \in 1..Len(wal.frames) : wal'.frames[i] = wal.frames[i]
    BY <1>1, <1>2
  <1>4. Frames(wal') = Frames(wal) \cup {next + 1}
    <2>1. 1..Len(wal'.frames) = 1..Len(wal.frames) \cup {Len(wal.frames) + 1}
      BY <1>2, <1>3
    <2> QED
      BY <1>3, <2>1 DEF Frames
  <1>5. Openable(wal, ckpt) /\ header = "complete" /\ wal.base <= next /\ ckpt <= next
    BY <1>1, NextIsLater
  <1>6. Ordered(wal)'
    <2>1. Ordered(wal)
      BY DEF Consistent
    <2>2. ASSUME NEW i \in 1..Len(wal'.frames)
          PROVE  /\ i = Len(wal.frames) + 1 \/ i \in 1..Len(wal.frames)
                 /\ wal'.base < wal'.frames[i] /\ wal'.frames[i] <= next'
      <3>1. i = Len(wal.frames) + 1 \/ i \in 1..Len(wal.frames)
        BY <1>2, <1>3
      <3> QED
        BY <1>1, <1>2, <1>3, <1>5, <2>1, <3>1 DEF Ordered
    <2>3. ASSUME NEW i \in 1..Len(wal'.frames), NEW j \in 1..Len(wal'.frames), i < j
          PROVE  wal'.frames[i] < wal'.frames[j]
      <3>1. i \in 1..Len(wal.frames)
        BY <1>2, <1>3, <2>3
      <3>2. CASE j = Len(wal.frames) + 1
        BY <1>2, <1>3, <2>1, <3>1, <3>2 DEF Ordered
      <3>3. CASE j \in 1..Len(wal.frames)
        BY <1>3, <2>1, <2>3, <3>1, <3>3 DEF Ordered
      <3> QED
        BY <2>2, <3>2, <3>3
    <2> QED
      BY <2>2, <2>3 DEF Ordered
  <1>7. Ordered(walAlt)'
    BY <1>1, <1>2 DEF Consistent, Ordered
  <1>8. Fresh' /\ Placed'
    BY <1>1, <1>4, <1>5 DEF Fresh, Placed, Openable
  <1>9. InProgress'
    <2>1. op'.rec = wal'.frames[Len(wal'.frames)] /\ wal'.frames # <<>>
      BY <1>1, <1>2, <1>3
    <2>2. op'.rec > ckpt' /\ op'.rec <= next'
      BY <1>1, <1>2, <1>5
    <2> QED
      BY <1>1, <2>1, <2>2 DEF InProgress
  <1>10. Covered'
    BY <1>1, <1>2, <1>4 DEF Consistent, Covered
  <1>11. Kept'
    <2> SUFFICES ASSUME NEW r \in Readable \ settled
                 PROVE  /\ r > ckpt /\ r > ckptAlt
                        /\ \E i \in 1..stable : wal'.frames[i] = r
                        /\ Openable(wal', ckpt) /\ Openable(wal', ckptAlt)
                        /\ walAlt # NoFile => /\ r \in Frames(walAlt)
                                              /\ Openable(walAlt, ckpt)
                                              /\ Openable(walAlt, ckptAlt)
      BY <1>1 DEF Kept, Readable
    <2> QED
      BY <1>1, <1>2, <1>3, <1>4 DEF Consistent, Kept, Openable
  <1> QED
    BY <1>6, <1>7, <1>8, <1>9, <1>10, <1>11 DEF Consistent

LEMMA AppendWriteConsistent ==
    ASSUME TypeOK, Consistent, AppendWrite
    PROVE  Consistent'
  <1>1. CASE wal.torn = "no"
    BY <1>1, AppendFrameConsistent
  <1>2. CASE wal.torn # "no"
    <2>1. /\ wal'.base = wal.base /\ wal'.frames = wal.frames /\ wal'.torn = "inside"
          /\ proc = "up" /\ next' = next + 1 /\ op' = [kind |-> "append", rec |-> next + 1]
          /\ UNCHANGED <<header, stable, walAlt, ckpt, ckptAlt, proc, receipts, blind, settled>>
      BY <1>2 DEF AppendWrite, WalFile, Ready
    <2> QED
      BY <2>1, FramesUntouched
  <1> QED
    BY <1>1, <1>2

LEMMA AppendTornConsistent ==
    ASSUME TypeOK, Consistent, AppendTorn
    PROVE  Consistent'
  <1>1. /\ wal'.base = wal.base /\ wal'.frames = wal.frames /\ wal'.torn # "no"
        /\ proc = "up" /\ next' = next + 1 /\ op' = Idle
        /\ UNCHANGED <<header, stable, walAlt, ckpt, ckptAlt, proc, receipts, blind, settled>>
    BY DEF AppendTorn, WalFile, Ready
  <1> QED
    BY <1>1, FramesUntouched

(* A receipt is for a frame that sync_all has just covered, or for bytes    *)
(* behind torn ones.                                                        *)
LEMMA AppendSyncConsistent ==
    ASSUME TypeOK, Consistent, AppendSync
    PROVE  Consistent'
  <1>1. /\ op.kind = "append" /\ proc = "up" /\ header = "complete"
        /\ stable' = Len(wal.frames) /\ RenamesCommitted
        /\ receipts' = receipts \cup {op.rec} /\ op' = Idle
        /\ blind' = IF wal.torn = "no" THEN blind ELSE blind \cup {op.rec}
        /\ UNCHANGED <<header, wal, ckpt, proc, next, settled>>
    BY DEF AppendSync, Consistent, Fresh
  <1>2. Openable(wal, ckpt)
    BY <1>1 DEF Consistent, Placed
  <1>3. /\ Len(wal.frames) \in Nat /\ stable \in 0..Len(wal.frames)
    BY FramesTyped DEF TypeOK
  <1>4. /\ op.rec > ckpt
        /\ wal.torn = "no" => /\ op.rec = wal.frames[Len(wal.frames)]
                              /\ Len(wal.frames) \in 1..Len(wal.frames)
    BY <1>1, <1>3 DEF Consistent, InProgress, TypeOK, WalFiles
  <1>5. Ordered(wal)' /\ Ordered(walAlt)'
    BY <1>1, NoFileOrdered DEF Consistent, RenamesCommitted, Ordered
  <1>6. Fresh' /\ Placed' /\ InProgress'
    BY <1>1, <1>2 DEF Fresh, Placed, InProgress, Idle, Openable, Frames
  <1>7. Covered'
    BY <1>1, NoFileOrdered DEF Consistent, Covered, RenamesCommitted, Frames
  <1>8. Kept'
    <2>1. \A r \in Readable \ settled : r > ckpt /\ \E i \in 1..stable : wal.frames[i] = r
      BY DEF Consistent, Kept
    <2>2. Readable' \subseteq IF wal.torn = "no" THEN Readable \cup {op.rec} ELSE Readable
      BY <1>1 DEF Readable
    <2>3. \A r \in Readable' \ settled :
             r > ckpt /\ \E i \in 1..Len(wal.frames) : wal.frames[i] = r
      BY <1>3, <1>4, <2>1, <2>2
    <2> QED
      BY <1>1, <1>2, <2>3 DEF Kept, RenamesCommitted, Openable, Frames
  <1> QED
    BY <1>5, <1>6, <1>7, <1>8 DEF Consistent

(* advance_checkpoint was handed the first pending frames, and all of them  *)
(* have converged: everything up to the new checkpoint has.                 *)
LEMMA CheckpointTempConsistent ==
    ASSUME TypeOK, Consistent, NEW first \in Records, NEW last \in Records,
           CheckpointTemp(first, last)
    PROVE  Consistent'
  <1>1. /\ proc = "up" /\ header = "complete" /\ first <= last
        /\ \A r \in first..last : r \in settled
        /\ PrefixAccepted(first, last) /\ RenamesCommitted
        /\ op' = [kind |-> "ckpt_temp", rec |-> last]
        /\ UNCHANGED <<header, wal, stable, ckpt, proc, next, receipts, blind, settled>>
    BY DEF CheckpointTemp, Ready, Consistent, Fresh
  <1>2. Openable(wal, ckpt) /\ Ordered(wal) /\ Covered
    BY <1>1 DEF Consistent, Placed
  <1>3. /\ wal \in WalFiles /\ wal.frames \in Seq(Records) /\ Len(wal.frames) \in Nat
        /\ stable \in Nat /\ ckpt \in Nat
        /\ \A i \in 1..Len(wal.frames) : wal.frames[i] \in Nat
        /\ first \in Nat /\ last \in Nat
    BY FramesTyped DEF TypeOK, Records
  <1>4. /\ Ordered(wal)' /\ Ordered(walAlt)' /\ Fresh' /\ Placed' /\ Covered' /\ Kept'
    BY <1>1, <1>2, <1>3, RenamesKept
  <1> DEFINE fp == FirstPending(wal, ckpt)
             n == last - first + 1
  <1>5. /\ fp \in 1..Len(wal.frames) + 1
        /\ \A i \in 1..Len(wal.frames) : i >= fp <=> wal.frames[i] > ckpt
    BY <1>2, <1>3, FirstPendingPlace
  <1> HIDE DEF fp
  <1>6. /\ Len(Pending(wal, ckpt)) = Len(wal.frames) - fp + 1
        /\ \A i \in 1..Len(wal.frames) - fp + 1 : Pending(wal, ckpt)[i] = wal.frames[fp + i - 1]
    BY <1>3, <1>5 DEF Pending, fp
  <1>7. /\ fp + n - 1 <= Len(wal.frames)
        /\ \A i \in 1..n : wal.frames[fp + i - 1] = first + i - 1
    <2>1. n \in Nat /\ n >= 1
      BY <1>1, <1>3
    <2>2. n <= Len(Pending(wal, ckpt)) /\ \A i \in 1..n : Pending(wal, ckpt)[i] = first + i - 1
      BY <1>1 DEF PrefixAccepted
    <2> HIDE DEF n
    <2>3. n <= Len(wal.frames) - fp + 1
      BY <1>6, <2>2
    <2>4. \A i \in 1..n : i \in 1..Len(wal.frames) - fp + 1
      BY <1>3, <1>5, <2>1, <2>3
    <2>5. \A i \in 1..n : wal.frames[fp + i - 1] = first + i - 1
      BY <1>6, <2>2, <2>4
    <2> QED
      BY <1>3, <1>5, <2>1, <2>3, <2>5
  <1>8. wal.frames[fp + n - 1] = last /\ fp + n - 1 \in 1..Len(wal.frames)
    <2>1. n \in 1..n /\ first + n - 1 = last /\ n \in Nat
      BY <1>1, <1>3
    <2>2. wal.frames[fp + n - 1] = first + n - 1
      BY <1>7, <2>1
    <2> HIDE DEF n
    <2> QED
      BY <1>3, <1>5, <1>7, <2>1, <2>2
  <1>9. last > ckpt /\ last \in Frames(wal)
    BY <1>1, <1>3, <1>5, <1>8 DEF Frames
  <1>10. ASSUME NEW f \in Frames(wal), f <= last
         PROVE  f \in settled
    <2>1. PICK i \in 1..Len(wal.frames) : wal.frames[i] = f
      BY DEF Frames
    <2>2. CASE f <= ckpt
      BY <1>2, <2>2 DEF Covered
    <2>3. CASE f > ckpt
      <3>1. i >= fp /\ i <= fp + n - 1
        <4>1. i >= fp
          BY <1>5, <2>1, <2>3
        <4>2. ~(fp + n - 1 < i)
          <5>1. fp + n - 1 < i => wal.frames[fp + n - 1] < wal.frames[i]
            BY <1>2, <1>8 DEF Ordered
          <5>2. ~(last < f) /\ f \in Nat
            BY <1>3, <1>10, <2>1
          <5> QED
            BY <1>8, <2>1, <5>1, <5>2
        <4> QED
          BY <1>3, <1>5, <1>8, <4>1, <4>2
      <3>2. wal.frames[i] = first + (i - fp + 1) - 1 /\ i - fp + 1 \in 1..n
        <4>1. i - fp + 1 \in 1..n /\ fp + (i - fp + 1) - 1 = i
          BY <1>3, <1>5, <3>1
        <4> QED
          BY <1>7, <4>1
      <3>3. f \in first..last
        <4> DEFINE d == i - fp + 1
        <4>1. f = first + d - 1 /\ d \in 1..n
          BY <2>1, <3>2
        <4> HIDE DEF d
        <4> QED
          BY <1>3, <4>1
      <3> QED
        BY <1>1, <3>3
    <2> QED
      BY <1>3, <2>1, <2>2, <2>3
  <1>11. InProgress'
    BY <1>1, <1>9, <1>10 DEF InProgress, RenamesCommitted, Frames
  <1> QED
    BY <1>4, <1>11 DEF Consistent

LEMMA CheckpointReplaceConsistent ==
    ASSUME TypeOK, Consistent, CheckpointReplace
    PROVE  Consistent'
  <1>1. /\ op.kind = "ckpt_temp" /\ proc = "up" /\ header = "complete"
        /\ ckpt' = op.rec /\ op' = [kind |-> "ckpt_replaced", rec |-> op.rec]
        /\ UNCHANGED <<header, wal, stable, walAlt, ckptAlt, proc, next, receipts, blind, settled>>
    BY DEF CheckpointReplace, Consistent, Fresh
  <1>2. /\ walAlt = NoFile /\ ckptAlt = ckpt /\ op.rec > ckpt /\ op.rec \in Frames(wal)
        /\ \A f \in Frames(wal) : f <= op.rec => f \in settled
    BY <1>1 DEF Consistent, InProgress
  <1>3. /\ ckpt \in Nat /\ op.rec \in Nat /\ stable \in 0..Len(wal.frames)
        /\ Len(wal.frames) \in Nat
        /\ \A i \in 1..Len(wal.frames) : wal.frames[i] \in Nat
    BY FramesTyped DEF TypeOK, Records
  <1>4. Ordered(wal)' /\ Ordered(walAlt)'
    BY <1>1 DEF Consistent, Ordered
  <1>5. Fresh' /\ Placed' /\ InProgress'
    BY <1>1, <1>2, <1>3 DEF Fresh, Placed, InProgress, Openable, Frames
  <1>6. Covered'
    <2>1. Frames(walAlt') = {} /\ Frames(wal') = Frames(wal)
      BY <1>1, <1>2, NoFileOrdered
    <2>2. \A f \in Frames(wal) : (f <= op.rec => f \in settled) /\ (f <= ckpt => f \in settled)
      BY <1>2 DEF Consistent, Covered
    <2> QED
      BY <1>1, <1>2, <2>1, <2>2 DEF Covered, Frames
  <1>7. Kept'
    <2> SUFFICES ASSUME NEW r \in Readable \ settled
                 PROVE  /\ r > op.rec /\ r > ckpt
                        /\ \E i \in 1..stable : wal.frames[i] = r
                        /\ Openable(wal, op.rec) /\ Openable(wal, ckpt)
      BY <1>1, <1>2 DEF Kept, Readable, Openable, Frames
    <2>1. /\ r > ckpt /\ Openable(wal, ckpt)
          /\ \E i \in 1..stable : wal.frames[i] = r
      BY DEF Consistent, Kept
    <2>2. r \in Frames(wal) /\ r \in Nat
      BY <1>3, <2>1 DEF Frames
    <2>3. r > op.rec
      BY <1>2, <1>3, <2>2
    <2>4. Openable(wal, op.rec)
      BY <1>2, <1>3 DEF Openable
    <2> QED
      BY <2>1, <2>3, <2>4
  <1> QED
    BY <1>4, <1>5, <1>6, <1>7 DEF Consistent

LEMMA SyncConsistent ==
    ASSUME TypeOK, Consistent, CheckpointSync \/ CompactSync \/ CompactTemp
    PROVE  Consistent'
  <1>1. /\ proc = "up" /\ header = "complete" /\ RenamesCommitted
        /\ UNCHANGED <<header, wal, stable, ckpt, proc, next, receipts, blind, settled>>
        /\ op' = Idle \/ (op' = [kind |-> "compact_temp", rec |-> ckpt] /\ ckpt # NoRecord)
    BY DEF CheckpointSync, CompactSync, CompactTemp, Ready, Consistent, Fresh
  <1>2. Openable(wal, ckpt)
    BY <1>1 DEF Consistent, Placed
  <1>3. stable \in Nat /\ stable >= stable
    BY FramesTyped DEF TypeOK
  <1>4. /\ Ordered(wal)' /\ Ordered(walAlt)' /\ Fresh' /\ Placed' /\ Covered' /\ Kept'
    BY <1>1, <1>2, <1>3, RenamesKept
  <1>5. InProgress'
    BY <1>1 DEF InProgress, RenamesCommitted, Idle
  <1> QED
    BY <1>4, <1>5 DEF Consistent

(* A cut of the WAL that keeps a synced frame newer than the checkpoint     *)
(* also keeps the checkpoint's place.                                       *)
LEMMA CutKeepsPlace ==
    ASSUME TypeOK, NEW c \in Nat, Ordered(wal), Openable(wal, c),
           NEW k \in stable..Len(wal.frames), NEW t,
           NEW i \in 1..stable, wal.frames[i] > c
    PROVE  Openable(WalFile(wal.base, SubSeq(wal.frames, 1, k), t), c)
  <1> DEFINE w == WalFile(wal.base, SubSeq(wal.frames, 1, k), t)
  <1>1. /\ Len(wal.frames) \in Nat /\ stable \in 0..Len(wal.frames) /\ k \in 0..Len(wal.frames)
        /\ \A j \in 1..Len(wal.frames) : wal.frames[j] \in Nat
    BY FramesTyped DEF TypeOK, Records
  <1>2. /\ w.base = wal.base /\ w.frames = SubSeq(wal.frames, 1, k)
        /\ Len(w.frames) = k
        /\ \A j \in 1..k : w.frames[j] = wal.frames[j]
    BY <1>1, FramesTyped DEF TypeOK, WalFile
  <1>3. CASE c = NoRecord \/ c = wal.base
    BY <1>2, <1>3 DEF Openable
  <1>4. CASE c # NoRecord /\ c \in Frames(wal)
    <2>1. PICK j \in 1..Len(wal.frames) : wal.frames[j] = c
      BY <1>4 DEF Frames
    <2>2. j < i
      <3>1. i \in 1..Len(wal.frames) /\ j \in Nat /\ i \in Nat
        BY <1>1
      <3>2. i < j => wal.frames[i] < wal.frames[j]
        BY <2>1, <3>1 DEF Ordered
      <3> QED
        BY <1>1, <2>1, <3>1, <3>2
    <2>3. c \in Frames(w)
      BY <1>1, <1>2, <2>1, <2>2 DEF Frames
    <2> QED
      BY <1>4, <2>3 DEF Openable
  <1> QED
    BY <1>3, <1>4 DEF Openable

(* compact keeps the frames behind the checkpoint; the WAL it replaces may  *)
(* still come back.                                                         *)
LEMMA CompactReplaceConsistent ==
    ASSUME TypeOK, Consistent, CompactReplace
    PROVE  Consistent'
  <1>1. /\ op.kind = "compact_temp" /\ proc = "up" /\ header = "complete"
        /\ walAlt = NoFile /\ ckptAlt = ckpt /\ op.rec = ckpt /\ ckpt # NoRecord
        /\ Openable(wal, ckpt) /\ Ordered(wal) /\ Covered /\ Kept
    BY DEF CompactReplace, Consistent, InProgress, Placed, Fresh
  <1>2. /\ wal' = WalFile(ckpt, Pending(wal, ckpt), "no")
        /\ stable' = Len(Pending(wal, ckpt))
        /\ op' = [kind |-> "compact_replaced", rec |-> op.rec]
        /\ UNCHANGED <<header, ckpt, ckptAlt, proc, next, receipts, blind, settled>>
    BY <1>1 DEF CompactReplace
  <1>3. PICK k \in stable..Len(wal.frames) :
           walAlt' = WalFile(wal.base, SubSeq(wal.frames, 1, k), wal.torn)
    BY DEF CompactReplace
  <1>4. /\ wal \in WalFiles /\ wal.frames \in Seq(Records) /\ Len(wal.frames) \in Nat
        /\ stable \in 0..Len(wal.frames) /\ k \in 0..Len(wal.frames) /\ ckpt \in Nat
        /\ wal.base \in Int
        /\ \A i \in 1..Len(wal.frames) : wal.frames[i] \in Nat
    BY FramesTyped DEF TypeOK, Records
  <1> DEFINE fp == FirstPending(wal, ckpt)
  <1>5. /\ fp \in 1..Len(wal.frames) + 1
        /\ \A i \in 1..Len(wal.frames) : i >= fp <=> wal.frames[i] > ckpt
    BY <1>1, <1>4, FirstPendingPlace
  <1>6. /\ wal'.base = ckpt /\ wal'.frames = SubSeq(wal.frames, fp, Len(wal.frames))
    BY <1>2 DEF WalFile, Pending
  <1> HIDE DEF fp
  <1>7. /\ Len(wal'.frames) = Len(wal.frames) - fp + 1
        /\ \A i \in 1..Len(wal.frames) - fp + 1 : wal'.frames[i] = wal.frames[fp + i - 1]
    BY <1>4, <1>5, <1>6
  <1>8. /\ walAlt'.base = wal.base /\ walAlt'.frames = SubSeq(wal.frames, 1, k)
        /\ Len(walAlt'.frames) = k
        /\ \A i \in 1..k : walAlt'.frames[i] = wal.frames[i]
    BY <1>3, <1>4, FramesTyped DEF WalFile
  <1>9. Ordered(wal)'
    <2>1. ASSUME NEW i \in 1..Len(wal'.frames)
          PROVE  /\ fp + i - 1 \in 1..Len(wal.frames) /\ fp + i - 1 >= fp
                 /\ wal'.frames[i] = wal.frames[fp + i - 1]
      <3>1. i \in 1..Len(wal.frames) - fp + 1
        BY <1>7
      <3>2. fp + i - 1 \in 1..Len(wal.frames) /\ fp + i - 1 >= fp
        BY <1>4, <1>5, <3>1
      <3> QED
        BY <1>7, <3>1, <3>2
    <2>2. ASSUME NEW i \in 1..Len(wal'.frames)
          PROVE  wal'.base < wal'.frames[i] /\ wal'.frames[i] <= next
      BY <1>1, <1>4, <1>5, <1>6, <2>1 DEF Ordered
    <2>3. ASSUME NEW i \in 1..Len(wal'.frames), NEW j \in 1..Len(wal'.frames), i < j
          PROVE  wal'.frames[i] < wal'.frames[j]
      <3>1. fp + i - 1 < fp + j - 1
        BY <1>4, <1>5, <1>7, <2>3
      <3> QED
        BY <1>1, <2>1, <3>1 DEF Ordered
    <2> QED
      BY <1>2, <2>2, <2>3 DEF Ordered
  <1>10. Ordered(walAlt)'
    <2>1. \A i \in 1..k : i \in 1..Len(wal.frames)
      BY <1>4
    <2> QED
      BY <1>1, <1>2, <1>8, <2>1 DEF Ordered
  <1>11. Frames(wal') \subseteq Frames(wal) /\ Frames(walAlt') \subseteq Frames(wal)
    <2>1. \A i \in 1..k : i \in 1..Len(wal.frames)
      BY <1>4
    <2>2. \A i \in 1..Len(wal.frames) - fp + 1 : fp + i - 1 \in 1..Len(wal.frames)
      BY <1>4, <1>5
    <2> QED
      BY <1>7, <1>8, <2>1, <2>2 DEF Frames
  <1>12. Fresh' /\ Placed' /\ InProgress'
    BY <1>1, <1>2, <1>6 DEF Fresh, Placed, InProgress, Openable
  <1>13. Covered'
    BY <1>1, <1>2, <1>11 DEF Covered, Frames
  <1>14. Kept'
    <2> SUFFICES ASSUME NEW r \in Readable \ settled
                 PROVE  /\ r > ckpt
                        /\ \E i \in 1..stable' : wal'.frames[i] = r
                        /\ Openable(wal', ckpt)
                        /\ r \in Frames(walAlt') /\ Openable(walAlt', ckpt)
      BY <1>1, <1>2 DEF Kept, Readable, Openable, Frames
    <2>1. PICK i \in 1..stable : wal.frames[i] = r
      BY <1>1 DEF Kept
    <2>2. r > ckpt
      BY <1>1 DEF Kept
    <2>3. wal'.frames[i - fp + 1] = r /\ i - fp + 1 \in 1..stable'
      <3>1. i \in 1..Len(wal.frames) /\ i >= fp
        BY <1>4, <1>5, <2>1, <2>2
      <3>2. i - fp + 1 \in 1..Len(wal.frames) - fp + 1 /\ fp + (i - fp + 1) - 1 = i
        BY <1>4, <1>5, <3>1
      <3>3. stable' = Len(wal'.frames)
        BY <1>2 DEF WalFile
      <3> QED
        BY <1>7, <2>1, <3>2, <3>3
    <2>4. Openable(wal', ckpt)
      BY <1>1, <1>6 DEF Openable
    <2>5. r \in Frames(walAlt')
      BY <1>4, <1>8, <2>1 DEF Frames
    <2>6. Openable(walAlt', ckpt)
      BY <1>1, <1>3, <1>4, <2>1, <2>2, CutKeepsPlace
    <2> QED
      BY <2>2, <2>3, <2>4, <2>5, <2>6
  <1> QED
    BY <1>9, <1>10, <1>12, <1>13, <1>14 DEF Consistent

(* A power loss leaves some WAL and checkpoint image; Kept was about all.   *)
LEMMA LosePowerConsistent ==
    ASSUME TypeOK, Consistent, LosePower
    PROVE  Consistent'
  <1>1. /\ proc' = "down" /\ op' = Idle
        /\ stable' = Len(wal'.frames) /\ walAlt' = NoFile
        /\ ckpt' \in {ckpt, ckptAlt} /\ ckptAlt' = ckpt'
        /\ UNCHANGED <<next, receipts, blind, settled>>
    BY DEF LosePower, Stop, CheckpointImages
  <1>2. InProgress' /\ Placed' /\ Ordered(walAlt)'
    BY <1>1, NoFileOrdered DEF InProgress, Placed, Idle, Ordered
  <1>3. CASE op.kind = "create"
    <2>1. header # "complete" /\ wal' = wal
      BY <1>3 DEF LosePower, Consistent, InProgress
    <2>2. wal = EmptyWal /\ ckpt = 0 /\ ckptAlt = 0 /\ receipts = {}
      BY <2>1 DEF Consistent, Fresh
    <2>3. Ordered(wal)' /\ Fresh'
      <3>1. Ordered(wal)'
        BY <1>1, <2>1 DEF Consistent, Ordered
      <3>2. Fresh'
        BY <1>1, <2>1, <2>2 DEF Fresh
      <3> QED
        BY <3>1, <3>2
    <2>4. Covered'
      BY <1>1, <2>1, <2>2, NoFileOrdered DEF Consistent, Covered, Frames
    <2>5. Kept'
      BY <1>1, <2>2 DEF Kept, Readable
    <2> QED
      BY <1>2, <2>3, <2>4, <2>5 DEF Consistent
  <1>4. CASE op.kind # "create"
    <2>1. /\ proc = "up" /\ header' = header /\ wal' \in WalImages
      BY <1>4 DEF LosePower
    <2>2. header = "complete"
      BY <2>1 DEF Consistent, Fresh
    <2>3. Fresh'
      BY <2>1, <2>2 DEF Fresh
    <2>4. /\ ckpt \in Nat /\ ckptAlt \in Nat /\ stable \in 0..Len(wal.frames)
          /\ wal \in WalFiles /\ walAlt \in WalFiles /\ Len(wal.frames) \in Nat
      BY FramesTyped DEF TypeOK
    <2>5. CASE wal' = walAlt /\ walAlt # NoFile
      <3>1. Ordered(wal)'
        BY <1>1, <2>5 DEF Consistent, Ordered
      <3>2. Covered'
        BY <1>1, <2>5, NoFileOrdered DEF Consistent, Covered, Frames
      <3>3. Kept'
        BY <1>1, <2>5 DEF Consistent, Kept, Readable, Openable, Frames
      <3> QED
        BY <1>2, <2>3, <3>1, <3>2, <3>3 DEF Consistent
    <2>6. CASE \E k \in stable..Len(wal.frames), t \in {"no", "tail", wal.torn} :
                  wal' = WalFile(wal.base, SubSeq(wal.frames, 1, k), t)
      <3>1. PICK k \in stable..Len(wal.frames), t \in {"no", "tail", wal.torn} :
                  wal' = WalFile(wal.base, SubSeq(wal.frames, 1, k), t)
        BY <2>6
      <3>2. /\ wal'.base = wal.base /\ Len(wal'.frames) = k
            /\ k \in 0..Len(wal.frames) /\ stable <= k
            /\ \A i \in 1..k : wal'.frames[i] = wal.frames[i]
            /\ \A i \in 1..k : i \in 1..Len(wal.frames)
        BY <2>4, <3>1, FramesTyped DEF WalFile
      <3>3. Ordered(wal)'
        BY <1>1, <3>2 DEF Consistent, Ordered
      <3>4. Frames(wal') \subseteq Frames(wal)
        BY <3>2 DEF Frames
      <3>5. Covered'
        BY <1>1, <3>4, NoFileOrdered DEF Consistent, Covered, Frames
      <3>6. Kept'
        <4> SUFFICES ASSUME NEW r \in Readable \ settled
                     PROVE  /\ r > ckpt'
                            /\ \E i \in 1..stable' : wal'.frames[i] = r
                            /\ Openable(wal', ckpt')
          BY <1>1 DEF Kept, Readable, Openable, Frames
        <4>1. /\ r > ckpt /\ r > ckptAlt
              /\ Openable(wal, ckpt) /\ Openable(wal, ckptAlt) /\ Ordered(wal)
          BY DEF Consistent, Kept
        <4>2. PICK i \in 1..stable : wal.frames[i] = r
          BY DEF Consistent, Kept
        <4>3. i \in 1..stable' /\ wal'.frames[i] = r
          BY <1>1, <2>4, <3>2, <4>2
        <4>4. Openable(wal', ckpt) /\ Openable(wal', ckptAlt)
          BY <2>4, <3>1, <4>1, <4>2, CutKeepsPlace
        <4>5. Openable(wal', ckpt')
          BY <1>1, <4>4 DEF Openable
        <4> QED
          BY <1>1, <4>1, <4>3, <4>5
      <3> QED
        BY <1>2, <2>3, <3>3, <3>5, <3>6 DEF Consistent
    <2> QED
      BY <2>1, <2>5, <2>6 DEF WalImages
  <1> QED
    BY <1>3, <1>4

(* Every action preserves Consistent. *)
LEMMA NextConsistent == TypeOK /\ Consistent /\ [Next]_vars => Consistent'
  <1> SUFFICES ASSUME TypeOK, Consistent, [Next]_vars
               PROVE  Consistent'
    OBVIOUS
  <1>1. CASE CreateHeader \/ FinishHeader
    BY <1>1, CreateConsistent
  <1>2. CASE Open
    BY <1>2, OpenConsistent
  <1>3. CASE OpenRefused \/ Connect \/ AppendRefused \/ AppendSyncFailed
    BY <1>3, FilesUntouched DEF OpenRefused, Connect, Ready, AppendRefused, AppendSyncFailed
  <1>4. CASE AppendWrite
    BY <1>4, AppendWriteConsistent
  <1>5. CASE AppendTorn
    BY <1>5, AppendTornConsistent
  <1>6. CASE AppendSync
    BY <1>6, AppendSyncConsistent
  <1>7. CASE \E r \in Records : Settle(r)
    BY <1>7, FilesUntouched DEF Settle
  <1>8. CASE \E first, last \in Records : CheckpointTemp(first, last)
    BY <1>8, CheckpointTempConsistent
  <1>9. CASE \E first, last \in Records : CheckpointRejected(first, last)
    BY <1>9, FilesUntouched DEF CheckpointRejected
  <1>10. CASE CheckpointReplace
    BY <1>10, CheckpointReplaceConsistent
  <1>11. CASE CheckpointSync \/ CompactSync \/ CompactTemp
    BY <1>11, SyncConsistent
  <1>12. CASE CheckpointFailed \/ CompactFailed
    BY <1>12, FilesUntouched DEF CheckpointFailed, CompactFailed
  <1>13. CASE CompactReplace
    BY <1>13, CompactReplaceConsistent
  <1>14. CASE Kill
    BY <1>14, FilesUntouched DEF Kill, Stop
  <1>15. CASE LosePower
    BY <1>15, LosePowerConsistent
  <1>16. CASE UNCHANGED vars
    BY <1>16, FilesUntouched DEF vars, fileVars
  <1> QED
    BY <1>1, <1>2, <1>3, <1>4, <1>5, <1>6, <1>7, <1>8, <1>9, <1>10, <1>11, <1>12,
       <1>13, <1>14, <1>15, <1>16 DEF Next

-----------------------------------------------------------------------------
(* The theorems. *)

(* Type correctness of the file adapter, together with the inductive        *)
(* invariant: whatever operations of realtime_spool.rs run, fail or are cut *)
(* short, the files, the operation in progress and the receipts agree.      *)
THEOREM AlwaysConsistent == Spec => [](TypeOK /\ Consistent)
  <1>1. Init => TypeOK /\ Consistent
    BY InitTyped, InitConsistent
  <1>2. TypeOK /\ Consistent /\ [Next]_vars => TypeOK' /\ Consistent'
    BY NextTyped, NextConsistent
  <1> QED
    BY <1>1, <1>2, PTL DEF Spec

(* DurableReceipt for every instance: a receipted record whose replay has   *)
(* not converged is replayed by the next start, in every image of the WAL   *)
(* and checkpoint files a kill or a power loss can leave, unless it was     *)
(* appended behind the bytes of an append that failed.                      *)
THEOREM ReceiptsAreDurable == Spec => []DurableReceipt
  <1>1. TypeOK /\ Consistent => DurableReceipt
    <2> SUFFICES ASSUME TypeOK, Consistent,
                        NEW r \in Readable \ settled, NEW w \in WalImages \cup {wal},
                        NEW c \in CheckpointImages
                 PROVE  Openable(w, c) /\ r \in PendingSet(w, c)
      BY DEF DurableReceipt
    <2>1. /\ wal \in WalFiles /\ walAlt \in WalFiles /\ Len(wal.frames) \in Nat
          /\ stable \in 0..Len(wal.frames) /\ c \in Nat /\ next \in Nat
      BY FramesTyped DEF TypeOK, CheckpointImages
    <2>2. /\ r > c /\ Openable(wal, c) /\ Ordered(wal) /\ Ordered(walAlt)
          /\ walAlt # NoFile => r \in Frames(walAlt) /\ Openable(walAlt, c)
      BY DEF Consistent, Kept, CheckpointImages
    <2>3. PICK i \in 1..stable : wal.frames[i] = r
      BY DEF Consistent, Kept
    <2>4. CASE w = wal
      <3>1. r \in Frames(wal)
        BY <2>1, <2>3 DEF Frames
      <3> QED
        BY <2>1, <2>2, <2>4, <3>1, PendingIsLater
    <2>5. CASE w = walAlt /\ walAlt # NoFile
      BY <2>1, <2>2, <2>5, PendingIsLater
    <2>6. CASE \E k \in stable..Len(wal.frames), t \in {"no", "tail", wal.torn} :
                  w = WalFile(wal.base, SubSeq(wal.frames, 1, k), t)
      <3>1. PICK k \in stable..Len(wal.frames), t \in {"no", "tail", wal.torn} :
                  w = WalFile(wal.base, SubSeq(wal.frames, 1, k), t)
        BY <2>6
      <3>2. Openable(w, c)
        BY <2>1, <2>2, <2>3, <3>1, CutKeepsPlace
      <3>3. /\ w.base = wal.base /\ Len(w.frames) = k /\ w.frames = SubSeq(wal.frames, 1, k)
            /\ k \in 0..Len(wal.frames) /\ stable <= k
            /\ \A j \in 1..k : w.frames[j] = wal.frames[j]
            /\ \A j \in 1..k : j \in 1..Len(wal.frames)
        <4>1. k \in 0..Len(wal.frames) /\ stable <= k
          BY <2>1
        <4>2. w.base = wal.base /\ w.frames = SubSeq(wal.frames, 1, k)
          BY <3>1 DEF WalFile
        <4> QED
          BY <2>1, <4>1, <4>2, FramesTyped
      <3>4. w \in WalFiles
        BY <2>1, <3>1, <3>3, FramesTyped DEF WalFile, WalFiles, Tails
      <3>5. Ordered(w)
        BY <2>2, <3>3 DEF Ordered
      <3>6. i \in 1..k /\ w.frames[i] = r
        BY <2>1, <2>3, <3>3
      <3>7. r \in Frames(w)
        BY <3>3, <3>6 DEF Frames
      <3> QED
        BY <2>1, <2>2, <3>2, <3>4, <3>5, <3>7, PendingIsLater
    <2> QED
      BY <2>4, <2>5, <2>6 DEF WalImages
  <1> QED
    BY <1>1, AlwaysConsistent, PTL

(* NothingSkipped for every instance: the checkpoint never passes a frame   *)
(* whose replay has not converged.                                          *)
THEOREM CheckpointSkipsNothing == Spec => []NothingSkipped
  <1>1. TypeOK /\ Consistent => NothingSkipped
    <2> SUFFICES ASSUME TypeOK, Consistent, NEW c \in CheckpointImages, Openable(wal, c),
                        NEW f \in Frames(wal), f \notin PendingSet(wal, c)
                 PROVE  f \in settled
      BY DEF NothingSkipped
    <2>1. wal \in WalFiles /\ c \in Nat /\ f \in Nat
      BY FramesTyped DEF TypeOK, CheckpointImages, Frames, Records
    <2>2. f <= c
      BY <2>1, PendingIsLater DEF Consistent
    <2> QED
      BY <2>2 DEF Consistent, Covered, CheckpointImages
  <1> QED
    BY <1>1, AlwaysConsistent, PTL

(* No step moves the checkpoint that survives every crash back. *)
LEMMA StepAdvances ==
    TypeOK /\ Consistent /\ [Next]_vars
       => Min2(ckpt', ckptAlt') >= Min2(ckpt, ckptAlt)
  <1> SUFFICES ASSUME TypeOK, Consistent, [Next]_vars
               PROVE  Min2(ckpt', ckptAlt') >= Min2(ckpt, ckptAlt)
    OBVIOUS
  <1>1. ckpt \in Nat /\ ckptAlt \in Nat
    BY DEF TypeOK
  <1>2. CASE UNCHANGED <<ckpt, ckptAlt>>
    BY <1>1, <1>2 DEF Min2
  <1>3. CASE ckpt' = ckpt /\ RenamesCommitted
    BY <1>1, <1>3 DEF Min2, RenamesCommitted
  <1>4. CASE CheckpointReplace
    <2>1. ckpt' = op.rec /\ ckptAlt' = ckptAlt /\ op.rec > ckpt
      BY <1>4 DEF CheckpointReplace, Consistent, InProgress
    <2>2. op.rec \in Nat
      BY DEF TypeOK
    <2> QED
      BY <1>1, <2>1, <2>2 DEF Min2
  <1>5. CASE LosePower
    BY <1>1, <1>5 DEF LosePower, CheckpointImages, Min2
  <1> QED
    BY <1>2, <1>3, <1>4, <1>5
       DEF Next, vars, fileVars, CreateHeader, FinishHeader, Open, OpenRefused,
           Connect, AppendRefused, AppendWrite, AppendTorn, AppendSync, AppendSyncFailed,
           Settle, CheckpointTemp, CheckpointRejected, CheckpointSync,
           CheckpointFailed, CompactTemp, CompactReplace, CompactSync,
           CompactFailed, Kill

(* CheckpointOnlyAdvances for every instance: no step moves the checkpoint  *)
(* that survives every crash back to an older record.                       *)
THEOREM CheckpointAdvances == Spec => CheckpointOnlyAdvances
  BY StepAdvances, AlwaysConsistent, PTL DEF Spec, CheckpointOnlyAdvances

-----------------------------------------------------------------------------
(* The refinement.  Beyond Consistent it needs that a record has no receipt *)
(* while its append is in progress.                                         *)

Unreceipted == op.kind = "append" => op.rec \notin receipts

LEMMA NextUnreceipted ==
    ASSUME TypeOK, Unreceipted, [Next]_vars
    PROVE  Unreceipted'
  <1>1. CASE AppendWrite
    <2>1. op'.rec = next + 1 /\ receipts' = receipts
      BY <1>1 DEF AppendWrite
    <2>2. receipts \subseteq 1..next /\ next \in Nat
      BY DEF TypeOK
    <2> QED
      BY <2>1, <2>2 DEF Unreceipted
  <1>2. CASE op'.kind # "append"
    BY <1>2 DEF Unreceipted
  <1>3. CASE UNCHANGED <<op, receipts>>
    BY <1>3 DEF Unreceipted
  <1>4. CASE CreateHeader \/ FinishHeader \/ AppendSync \/ AppendSyncFailed
    BY <1>2, <1>4 DEF CreateHeader, FinishHeader, AppendSync, AppendSyncFailed, Idle
  <1>5. CASE \/ \E first, last \in Records : CheckpointTemp(first, last)
             \/ CheckpointReplace \/ CheckpointSync \/ CheckpointFailed
    BY <1>2, <1>5 DEF CheckpointTemp, CheckpointReplace, CheckpointSync, CheckpointFailed, Idle
  <1>6. CASE \/ CompactTemp \/ CompactReplace \/ CompactSync \/ CompactFailed
             \/ Kill \/ LosePower
    <2>1. CASE CompactTemp \/ CompactReplace
      <3>1. \/ op' = [kind |-> "compact_temp", rec |-> ckpt]
            \/ op' = [kind |-> "compact_replaced", rec |-> op.rec]
        BY <2>1 DEF CompactTemp, CompactReplace
      <3> QED BY <1>2, <3>1
    <2>2. CASE CompactSync \/ CompactFailed \/ Kill \/ LosePower
      <3>1. op' = Idle
        BY <2>2 DEF CompactSync, CompactFailed, Kill, LosePower, Stop
      <3> QED BY <1>2, <3>1 DEF Idle
    <2> QED BY <1>6, <2>1, <2>2
  <1>7. CASE \/ Open \/ OpenRefused \/ Connect \/ AppendRefused \/ AppendTorn
             \/ \E r \in Records : Settle(r)
             \/ \E first, last \in Records : CheckpointRejected(first, last)
             \/ UNCHANGED vars
    BY <1>3, <1>7 DEF Open, OpenRefused, Connect, AppendRefused, AppendTorn, Settle,
                      CheckpointRejected, vars
  <1> QED
    BY <1>1, <1>4, <1>5, <1>6, <1>7 DEF Next

(* What a step lets go was held, has converged, and is older than all that  *)
(* stays held.                                                              *)
LEMMA LetGo ==
    ASSUME TypeOK, Consistent', TypeOK', settled' = settled,
           Readable \subseteq Readable',
           Min2(ckpt', ckptAlt') >= Min2(ckpt, ckptAlt)
    PROVE  {r \in Held : r <= Min2(ckpt', ckptAlt')} \in Log!Released
  <1> DEFINE m == Min2(ckpt', ckptAlt')
             S == {r \in Held : r <= m}
  <1>1. ckpt' \in Nat /\ ckptAlt' \in Nat /\ Readable \subseteq Nat
    BY DEF TypeOK, Readable
  <1>2. m \in Nat /\ m <= ckpt' /\ m <= ckptAlt'
    BY <1>1 DEF Min2
  <1>3. Held \subseteq Nat /\ Held \subseteq Readable'
    BY <1>1 DEF Held
  <1> HIDE DEF m
  <1>4. S \subseteq settled
    <2> SUFFICES ASSUME NEW r \in S, r \notin settled
                 PROVE  FALSE
      OBVIOUS
    <2>1. r \in Readable' \ settled' /\ r <= m /\ r \in Nat
      BY <1>3
    <2>2. r > ckpt'
      BY <2>1 DEF Consistent, Kept
    <2> QED BY <1>1, <1>2, <2>1, <2>2
  <1>5. S \in SUBSET (Held \cap settled)
    BY <1>4
  <1>6. \A a \in S, b \in Held : b < a => b \in S
    BY <1>2, <1>3
  <1> QED BY <1>5, <1>6 DEF Log!Released, m

LEMMA HigherBar ==
    ASSUME NEW R \in SUBSET Nat, NEW a \in Nat, NEW b \in Nat, b >= a
    PROVE  {r \in R : r > b} = {r \in R : r > a} \ {r \in {q \in R : q > a} : r <= b}
  <1>1. \A x \in R : x > b <=> x > a /\ ~(x > a /\ x <= b)
    OBVIOUS
  <1> QED BY <1>1

LEMMA StepRefines ==
    ASSUME TypeOK, Consistent, Unreceipted, TypeOK', Consistent', [Next]_vars
    PROVE  [Log!Next]_(Log!vars)
  <1> DEFINE m == Min2(ckpt', ckptAlt')
             S == {r \in Held : r <= m}
  <1>0. /\ m >= Min2(ckpt, ckptAlt) /\ m \in Nat /\ Min2(ckpt, ckptAlt) \in Nat
        /\ Readable \subseteq Nat
    BY StepAdvances DEF TypeOK, Readable, Min2
  <1>1. CASE settled' = settled /\ Readable' = Readable
    <2>1. S \in Log!Released
      BY <1>0, <1>1, LetGo
    <2>2. Held' = Held \ S
      <3>1. Held' = {r \in Readable : r > m}
        BY <1>1 DEF Held
      <3> HIDE DEF m
      <3> QED BY <1>0, <3>1, HigherBar DEF Held
    <2> QED BY <1>1, <2>1, <2>2 DEF Log!Next, Log!Release
  <1>2. CASE AppendSync /\ wal.torn = "no"
    <2>1. /\ settled' = settled /\ Readable' = Readable \cup {op.rec}
          /\ ckpt' = ckpt /\ ckptAlt' = ckpt /\ op.kind = "append"
      <3>1. /\ settled' = settled /\ receipts' = receipts \cup {op.rec} /\ blind' = blind
            /\ ckpt' = ckpt /\ ckptAlt' = ckpt /\ op.kind = "append"
        BY <1>2 DEF AppendSync, RenamesCommitted
      <3>2. op.rec \notin blind
        BY <3>1 DEF TypeOK, Unreceipted
      <3> QED BY <3>1, <3>2 DEF Readable
    <2>2. op.rec \in Records /\ op.rec > ckpt /\ op.rec \notin Readable /\ ckpt \in Nat
      <3>1. op.rec > ckpt /\ op.rec \notin receipts
        BY <2>1 DEF Consistent, InProgress, Unreceipted
      <3> QED BY <3>1 DEF TypeOK, Records, Readable
    <2>3. m = ckpt
      BY <2>1, <2>2 DEF Min2
    <2>4. S \in Log!Released
      BY <1>0, <2>1, LetGo
    <2>5. Held' = (Held \ S) \cup {op.rec}
      <3>1. Held' = {r \in Readable \cup {op.rec} : r > m}
        BY <2>1 DEF Held
      <3>2. op.rec > m /\ op.rec \in Nat
        BY <2>2, <2>3 DEF Records
      <3> HIDE DEF m
      <3>3. Held' = {r \in Readable : r > m} \cup {op.rec}
        BY <3>1, <3>2
      <3> QED BY <1>0, <3>3, HigherBar DEF Held
    <2>6. op.rec \notin Held
      BY <2>2 DEF Held
    <2> QED BY <2>1, <2>2, <2>4, <2>5, <2>6 DEF Log!Next, Log!Hold
  <1>3. ASSUME NEW r \in Records, Settle(r)
        PROVE  [Log!Next]_(Log!vars)
    <2>1. settled' = settled \cup {r} /\ Held' = Held
      BY <1>3 DEF Settle, fileVars, Held, Readable
    <2> QED BY <1>3, <2>1 DEF Log!Next, Log!Settle
  <1>4. CASE AppendSync /\ wal.torn # "no"
    <2>1. /\ settled' = settled /\ receipts' = receipts \cup {op.rec}
          /\ blind' = blind \cup {op.rec} /\ op.rec \notin receipts
      BY <1>4 DEF AppendSync, Unreceipted
    <2> QED BY <1>1, <2>1 DEF Readable
  <1>5. CASE settled' = settled /\ UNCHANGED <<receipts, blind>>
    BY <1>1, <1>5 DEF Readable
  <1> QED
    BY <1>2, <1>3, <1>4, <1>5
       DEF Next, vars, CreateHeader, FinishHeader, Open, OpenRefused, Connect, AppendRefused,
           AppendWrite, AppendTorn, AppendSyncFailed, CheckpointTemp,
           CheckpointRejected, CheckpointReplace, CheckpointSync, CheckpointFailed,
           CompactTemp, CompactReplace, CompactSync, CompactFailed, Kill, LosePower, Stop

(* ImplementsDurableLog for every instance: the WAL, the checkpoint, their  *)
(* renames and every crash between them keep the promise of DurableLog.     *)
(* Appending with its sync_all holds a record, the renames of               *)
(* advance_checkpoint and the crashes that keep them let the oldest go, all *)
(* else changes nothing the promise is about.                               *)
THEOREM FilesImplementLog == Spec => ImplementsDurableLog
  <1>1. Init => Log!Init /\ Unreceipted
    BY DEF Init, Log!Init, Held, Readable, Unreceipted, Idle
  <1>2. TypeOK /\ Unreceipted /\ [Next]_vars => Unreceipted'
    BY NextUnreceipted
  <1>3. TypeOK /\ Consistent /\ Unreceipted /\ TypeOK' /\ Consistent' /\ [Next]_vars
           => [Log!Next]_(Log!vars)
    BY StepRefines
  <1> QED
    BY <1>1, <1>2, <1>3, AlwaysConsistent, PTL DEF Spec, ImplementsDurableLog, Log!Spec
=============================================================================
