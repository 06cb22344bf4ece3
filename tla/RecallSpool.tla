----------------------------- MODULE RecallSpool -----------------------------
(***************************************************************************)
(* Recall notices from the callback that receives them to the transaction  *)
(* that records them: an encrypted file of frames, a worker that copies    *)
(* the frames into the recall inbox of MySQL, claims inbox rows under a    *)
(* lease and records the recalls.                                          *)
(*                                                                         *)
(*   infrastructure/recall.rs, repo/mysql_recall.rs, recall_service.rs,    *)
(*   domain/recall.rs, runtime/handlers.rs                                 *)
(*                                                                         *)
(* Notices are numbered in the order of their frames; a message stands for *)
(* the correlation key of what a notice recalls.  The lock file allows one *)
(* process, so one worker, and the spool's mutex makes each use of the     *)
(* file one step.  A frame is whole or torn; a whole frame is not altered. *)
(***************************************************************************)
EXTENDS Naturals, Sequences, FiniteSets

CONSTANTS Messages,      \* correlation keys
          None,
          Capacity,      \* max_bytes, in frames
          MaxAttempts,   \* MAX_RECALL_ATTEMPTS
          MaxNotices,    \* bound: notices received
          MaxFaults,     \* bound: kills, shutdowns and database errors
          MaxTorn        \* bound: writes that fail half-way in a process that lives on

Notices == 1..MaxNotices

(* What the constants are to satisfy; an instance assumes it. *)
SpoolAssumption ==
    /\ None \notin Messages
    /\ {Capacity, MaxNotices, MaxFaults, MaxTorn} \subseteq Nat
    /\ MaxAttempts \in Nat \ {0}

VARIABLES
    wal,       \* the frames of the file, oldest first
    up,        \* a process holds the lock file
    stop,      \* the worker's shutdown signal
    job,       \* the await the worker stands at
    inbox,     \* secretary_recall_inbox, by correlation key
    recorded,  \* secretary_recall_events, by correlation key
    subject,   \* what notice n recalls
    acked,     \* notices whose append returned Ok
    copied,    \* notices whose enqueue_recall committed
    faults, torn

file == <<wal, subject, acked, torn>>
process == <<up, stop>>
vars == <<file, process, job, inbox, recorded, copied, faults>>

NoRow == [status |-> "none", attempts |-> 0, late |-> FALSE]
AtHead == [pc |-> "head", last |-> FALSE, n |-> 0, i |-> 1, m |-> None]
At(pc) == [AtHead EXCEPT !.pc = pc]

Init ==
    /\ wal = <<>> /\ up = FALSE /\ stop = FALSE /\ job = AtHead
    /\ inbox = [m \in Messages |-> NoRow] /\ recorded = {}
    /\ subject = <<>> /\ acked = {} /\ copied = {}
    /\ faults = 0 /\ torn = 0

Fault == faults < MaxFaults /\ faults' = faults + 1

-----------------------------------------------------------------------------
(* The file.                                                                *)

(* decode_frames: one bad frame fails the whole file. *)
Decodes(frames) == \A k \in DOMAIN frames : frames[k].whole

Frame(whole) == [n |-> Len(subject) + 1, whole |-> whole]

(* A notice comes in: the callback gives it an identity of its own. *)
Notice(m) == up /\ Len(subject) < MaxNotices /\ subject' = Append(subject, m)

(* RecallQueue::enqueue.  Ok only if every frame of the file decodes after  *)
(* the write; the frame is in the file all the same.                        *)
append(m) ==
    /\ Notice(m) /\ Len(wal) < Capacity
    /\ wal' = Append(wal, Frame(TRUE))
    /\ acked' = IF Decodes(wal') THEN acked \cup {Len(subject) + 1} ELSE acked
    /\ UNCHANGED <<torn, process, job, inbox, recorded, copied, faults>>

(* Capacity exhausted: the handler gets the error and the notice is gone. *)
AppendRefused(m) ==
    /\ Notice(m) /\ Len(wal) >= Capacity
    /\ UNCHANGED <<wal, acked, torn, process, job, inbox, recorded, copied, faults>>

(* write_all or sync_data fails: half a frame stays. *)
AppendFails(m) ==
    /\ Notice(m) /\ Len(wal) < Capacity /\ torn < MaxTorn /\ torn' = torn + 1
    /\ wal' = Append(wal, Frame(FALSE))
    /\ UNCHANGED <<acked, process, job, inbox, recorded, copied, faults>>

(* The process is killed within append, with half a frame or all of it. *)
AppendKilled(m) ==
    /\ Notice(m) /\ Len(wal) < Capacity /\ Fault
    /\ \E whole \in BOOLEAN : wal' = Append(wal, Frame(whole))
    /\ up' = FALSE /\ stop' = FALSE /\ job' = AtHead
    /\ UNCHANGED <<acked, torn, inbox, recorded, copied>>

(* Frames in the order of their writing: the ways to lay out S in a file.   *)
InOrder(S, max) ==
    {s \in UNION {[1..k -> S] : k \in 0..max} :
        /\ \A f \in S : \E k \in DOMAIN s : s[k] = f
        /\ \A j, k \in DOMAIN s : j < k => s[j].n < s[k].n}

(* recover: a torn frame whose length field reaches past the end of the     *)
(* file takes all that follows into quarantine; else decoding resumes at    *)
(* the next MAGIC.  Which, depends on where the write stopped.              *)
Recovered(frames) ==
    UNION {InOrder({frames[k] : k \in {j \in 1..cut : frames[j].whole}}, Len(frames)) :
              cut \in {Len(frames)} \cup {k \in DOMAIN frames : ~frames[k].whole}}

(* RecallWal::open and the start of the worker. *)
open ==
    /\ ~up /\ up' = TRUE
    /\ wal' \in Recovered(wal)
    /\ UNCHANGED <<subject, acked, torn, stop, job, inbox, recorded, copied, faults>>

-----------------------------------------------------------------------------
(* The worker: drain the file, claim one row, process it.                   *)

Working(pc) == up /\ job.pc = pc

(* drain_wal_to_inbox takes a snapshot and decodes it. *)
DrainSnapshot ==
    /\ Working("head")
    /\ job' = IF wal # <<>> /\ Decodes(wal)
              THEN [At("enqueue") EXCEPT !.n = Len(wal), !.last = stop]
              ELSE [At("claim") EXCEPT !.last = stop]
    /\ UNCHANGED <<file, process, inbox, recorded, copied, faults>>

(* enqueue_recall: ON DUPLICATE KEY keeps the row that is there. *)
enqueue_recall ==
    /\ Working("enqueue") /\ job.i <= job.n
    /\ LET f == wal[job.i]
           m == subject[f.n]
       IN /\ inbox' = IF inbox[m] = NoRow THEN [inbox EXCEPT ![m].status = "pending"]
                                          ELSE inbox
          /\ copied' = copied \cup {f.n}
    /\ job' = [job EXCEPT !.i = @ + 1]
    /\ UNCHANGED <<file, process, recorded, faults>>

remove_snapshot_prefix_All ==
    /\ Working("enqueue") /\ job.i > job.n
    /\ wal' = <<>>
    /\ job' = [At("claim") EXCEPT !.last = job.last]
    /\ UNCHANGED <<subject, acked, torn, process, inbox, recorded, copied, faults>>

(* The snapshot is still a prefix of the file; it is cut off. *)
remove_snapshot_prefix ==
    /\ Working("enqueue") /\ job.i > job.n
    /\ wal' = SubSeq(wal, job.n + 1, Len(wal))
    /\ job' = [At("claim") EXCEPT !.last = job.last]
    /\ UNCHANGED <<subject, acked, torn, process, inbox, recorded, copied, faults>>

DrainFails ==
    /\ Working("enqueue") /\ Fault /\ job' = [At("claim") EXCEPT !.last = job.last]
    /\ UNCHANGED <<file, process, inbox, recorded, copied>>

(* The signal is read at the head of the loop only; the drain after it is   *)
(* the last.                                                                *)
shutdown == /\ up /\ ~stop /\ stop' = TRUE /\ Fault
            /\ UNCHANGED <<file, up, job, inbox, recorded, copied>>

leave == /\ Working("claim") /\ job.last /\ up' = FALSE /\ stop' = FALSE /\ job' = AtHead
         /\ UNCHANGED <<file, inbox, recorded, copied, faults>>

Claimable_Pending(m) == inbox[m].status = "pending"
Claimable(m) == \/ inbox[m].status = "pending"
                \/ inbox[m].status = "claimed" /\ inbox[m].late

(* claim_recall: every claim that ran out goes back to pending, then the    *)
(* oldest row that is due is taken.  Back-off decides which rows are due.   *)
Returned(m) == IF inbox[m].status = "claimed" /\ inbox[m].late
               THEN [inbox[m] EXCEPT !.status = "pending", !.late = FALSE]
               ELSE inbox[m]

claim_recall(m) ==
    /\ Working("claim") /\ ~job.last /\ Claimable(m)
    /\ inbox' = [k \in Messages |->
                    IF k = m THEN [status |-> "claimed", late |-> FALSE,
                                   attempts |-> inbox[m].attempts + 1]
                    ELSE Returned(k)]
    /\ job' = [At("handle") EXCEPT !.m = m]
    /\ UNCHANGED <<file, process, recorded, copied, faults>>

(* Nothing is due, or the claim failed: sleep, or wake by a notice. *)
ClaimIdle ==
    /\ Working("claim") /\ ~job.last /\ job' = AtHead
    /\ UNCHANGED <<file, process, inbox, recorded, copied, faults>>

(* handle_recall: record_recall commits, or finds the recall recorded. *)
handle_recall ==
    /\ Working("handle")
    /\ recorded' = recorded \cup {job.m}
    /\ job' = [job EXCEPT !.pc = "applied"]
    /\ UNCHANGED <<file, process, inbox, copied, faults>>

HandleFails ==
    /\ Working("handle") /\ Fault
    /\ job' = [job EXCEPT !.pc = "failed"]
    /\ UNCHANGED <<file, process, inbox, recorded, copied>>

(* classify_failure: a store error is retried until the attempts run out. *)
classify_failure(attempt) == IF attempt >= MaxAttempts THEN "failed" ELSE "pending"

(* update_inbox_status, on the claim that is held. *)
mark_recall ==
    /\ up /\ job.pc \in {"applied", "failed"}
    /\ inbox' = [inbox EXCEPT ![job.m].late = FALSE, ![job.m].status =
                    IF job.pc = "applied" THEN "applied"
                    ELSE classify_failure(inbox[job.m].attempts)]
    /\ job' = AtHead
    /\ UNCHANGED <<file, process, recorded, copied, faults>>

MarkFails ==
    /\ up /\ job.pc \in {"applied", "failed"} /\ Fault /\ job' = AtHead
    /\ UNCHANGED <<file, process, inbox, recorded, copied>>

LeaseEnds(m) == /\ inbox[m].status = "claimed" /\ ~inbox[m].late
                /\ inbox' = [inbox EXCEPT ![m].late = TRUE]
                /\ UNCHANGED <<file, process, job, recorded, copied, faults>>

Kill == /\ up /\ Fault /\ up' = FALSE /\ stop' = FALSE /\ job' = AtHead
        /\ UNCHANGED <<file, inbox, recorded, copied>>

Worker == \/ DrainSnapshot \/ enqueue_recall \/ remove_snapshot_prefix \/ leave
          \/ ClaimIdle \/ handle_recall \/ mark_recall
          \/ \E m \in Messages : claim_recall(m)

Next == \/ \E m \in Messages : append(m) \/ AppendRefused(m) \/ AppendFails(m)
                               \/ AppendKilled(m) \/ LeaseEnds(m)
        \/ Worker \/ open \/ shutdown \/ Kill
        \/ DrainFails \/ HandleFails \/ MarkFails

Spec == Init /\ [][Next]_vars

(* The worker's loop is not left but by a kill or the signal, the service   *)
(* manager starts the process again, and leases run out.  A row that is due *)
(* is taken before the worker sleeps again and again.                       *)
Live == /\ WF_vars(Worker) /\ WF_vars(open)
        /\ \A m \in Messages : WF_vars(LeaseEnds(m)) /\ SF_vars(claim_recall(m))

LiveSpec == Spec /\ Live

-----------------------------------------------------------------------------
Frames == [n : Notices, whole : BOOLEAN]
Jobs == [pc : {"head", "enqueue", "claim", "handle", "applied", "failed"},
         last : BOOLEAN, n : Nat, i : Nat, m : Messages \cup {None}]
Rows == [status : {"none", "pending", "claimed", "applied", "failed"},
         attempts : Nat, late : BOOLEAN]

TypeOK ==
    /\ up \in BOOLEAN /\ stop \in BOOLEAN
    /\ subject \in Seq(Messages) /\ Len(subject) <= MaxNotices
    /\ wal \in Seq(Frames) /\ \A k \in DOMAIN wal : wal[k].n <= Len(subject)
    /\ job \in Jobs
    /\ inbox \in [Messages -> Rows]
    /\ recorded \subseteq Messages
    /\ acked \subseteq 1..Len(subject) /\ copied \subseteq 1..Len(subject)
    /\ faults \in 0..MaxFaults /\ torn \in 0..MaxTorn

Held == {n \in acked : \E k \in DOMAIN wal : wal[k] = [n |-> n, whole |-> TRUE]}

(* A notice whose append succeeded is never lost: whatever is torn, drained *)
(* or killed, its frame is in the file or the inbox has a row for its       *)
(* message.                                                                 *)
AckedNoticeKept == \A n \in acked : n \in Held \/ inbox[subject[n]] # NoRow

(* An inbox row is closed as applied only when the recall has been          *)
(* recorded, across kills between recording and closing, and a row that     *)
(* gave up has used all its attempts.                                       *)
ClosedRowsSettled ==
    \A m \in Messages : /\ inbox[m].status = "applied" => m \in recorded
                        /\ inbox[m].status = "failed" => inbox[m].attempts >= MaxAttempts

Acked(m) == \E n \in acked : subject[n] = m
Settled(m) == m \in recorded \/ inbox[m].status = "failed"

(* Every acknowledged recall is recorded in the end, or its row shows that  *)
(* the attempts ran out, across kills, failed transactions and leases that  *)
(* run out, unless a torn frame stays in the file of a process that lives.  *)
AckedRecallApplied ==
    []<>Decodes(wal) => \A m \in Messages : Acked(m) ~> Settled(m)

(* The worker's log says of a drain that fails that the records are kept    *)
(* and retried.  A retry that could succeed would record every acknowledged *)
(* recall.                                                                  *)
FailedDrainIsRetried == \A m \in Messages : Acked(m) ~> Settled(m)

(* The recall spool keeps the promise of the message spool: held until the  *)
(* inbox has it, and let go in the order of writing.                        *)
Log == INSTANCE DurableLog WITH held <- Held, settled <- copied, Records <- Notices
ImplementsDurableLog == Log!Spec

(* What the spool and its worker promise of a notice. *)
NoticesKept == [](AckedNoticeKept /\ ClosedRowsSettled) /\ ImplementsDurableLog

-----------------------------------------------------------------------------
(* The inductive invariant. *)

(* The file is in the order of the notices, and what was acknowledged lies  *)
(* before whatever is torn.                                                 *)
FileOrdered ==
    /\ \A j, k \in 1..Len(wal) : j < k => wal[j].n < wal[k].n
    /\ \A k \in 1..Len(wal) : wal[k].n \in acked => \A j \in 1..k : wal[j].whole

(* The snapshot under way is a prefix of the file, whole, and the frames    *)
(* before the next one have been copied.                                    *)
DrainOK ==
    /\ ~up => job.pc = "head"
    /\ job.pc = "enqueue" =>
          /\ job.n <= Len(wal) /\ 1 <= job.i /\ job.i <= job.n + 1
          /\ \A k \in 1..job.n : wal[k].whole
          /\ \A k \in 1..(job.i - 1) : wal[k].n \in copied

(* An acknowledged notice is in the file or was copied into the inbox. *)
AckedKept ==
    /\ \A n \in acked : n \in Held \/ n \in copied
    /\ \A n \in copied : inbox[subject[n]].status # "none"

(* The row the worker is at was claimed, and is recorded if it was applied. *)
RowsOK ==
    /\ \A m \in Messages : inbox[m].status = "none" => inbox[m] = NoRow
    /\ job.pc \in {"handle", "applied", "failed"} =>
          job.m \in Messages /\ inbox[job.m].status # "none"
    /\ job.pc = "applied" => job.m \in recorded

SpoolInv == /\ TypeOK /\ FileOrdered /\ DrainOK /\ AckedKept /\ RowsOK
            /\ ClosedRowsSettled
=============================================================================
