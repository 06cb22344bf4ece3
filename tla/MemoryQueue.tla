----------------------------- MODULE MemoryQueue -----------------------------
(***************************************************************************)
(* Ingestion without the spool, during one connection: the callback puts   *)
(* messages into a bounded queue and never waits; a worker stores them in  *)
(* micro-batches; a message that finds the queue full is dropped, and a gap*)
(* must bring it back from history.                                        *)
(*                                                                         *)
(*   application/ingestion_worker.rs, runtime/connection_loop.rs,          *)
(*   runtime/handlers.rs, repo/mysql_continuity.rs                         *)
(*                                                                         *)
(* One conversation; its messages are numbered as they arrive.  A gap is   *)
(* the boundary it was created with: history is read back from the newest  *)
(* message to that one.  The post-hooks of a message are in InboundStore.  *)
(* The transaction that writes it may fail: `unrecorded` names the messages *)
(* that were lost when one did and left the epoch without a gap.            *)
(***************************************************************************)
EXTENDS Integers, Sequences, FiniteSets

CONSTANTS
    queue_capacity, batch_size,
    Poison,         \* messages the store refuses as InvalidData
    MaxMessages,    \* bound: messages that arrive
    MaxFaults,      \* bound: transient errors of insert_messages_if_absent
    MaxGapFaults,   \* bound: errors of mark_connection_uncertain
    MaxTimeouts     \* bound: drains that run out of time

(* What the constants are to satisfy; an instance assumes it. *)
QueueAssumption ==
    /\ queue_capacity \in Nat \ {0} /\ batch_size \in Nat \ {0}
    /\ {MaxMessages, MaxFaults, MaxGapFaults, MaxTimeouts} \subseteq Nat
    /\ Poison \subseteq 1..MaxMessages

VARIABLES
    link,             \* "connected", "closing", "ended", "aborted"
    arrived,          \* messages that arrived
    queue,
    drop,             \* the step of record_drop the callback is in
    dropped_count, gap_persisted,   \* OverflowState
    overflow_pending, \* of IngestionMetrics, shown by the health page
    worker,           \* [pc, ret, batch, splits, seen]
    stored,           \* messages in the database
    gap,              \* the boundary of the gap of the epoch, NoGap if none
    unrecorded,       \* messages given up without the gap that was to stand for them
    faults, gapFaults, timeouts

callback == <<link, arrived, queue, drop>>
overflow == <<dropped_count, gap_persisted>>
database == <<stored, gap, unrecorded>>
bounds == <<faults, gapFaults, timeouts>>
vars == <<callback, overflow, overflow_pending, worker, database, bounds>>

NoGap == -1
Waiting == [pc |-> "head", ret |-> "recv", batch |-> <<>>, splits |-> <<>>, seen |-> FALSE]

Init ==
    /\ link = "connected" /\ arrived = 0 /\ queue = <<>> /\ drop = "none"
    /\ dropped_count = 0 /\ gap_persisted = FALSE /\ overflow_pending = FALSE
    /\ worker = Waiting /\ stored = {} /\ gap = NoGap /\ unrecorded = {}
    /\ faults = 0 /\ gapFaults = 0 /\ timeouts = 0

-----------------------------------------------------------------------------
(* The callback: try_enqueue *)

Enqueue ==
    /\ link = "connected" /\ drop = "none" /\ arrived < MaxMessages
    /\ Len(queue) < queue_capacity
    /\ arrived' = arrived + 1 /\ queue' = Append(queue, arrived + 1)
    /\ UNCHANGED <<link, drop, overflow, overflow_pending, worker, database, bounds>>

(* The queue is full: record_drop asks for a gap, *)
AskForGap ==
    /\ link = "connected" /\ drop = "none" /\ arrived < MaxMessages
    /\ Len(queue) = queue_capacity
    /\ arrived' = arrived + 1 /\ gap_persisted' = FALSE /\ drop' = "count"
    /\ UNCHANGED <<link, queue, dropped_count, overflow_pending, worker, database, bounds>>

(* then counts the message, *)
CountDrop ==
    /\ drop = "count"
    /\ dropped_count' = dropped_count + 1 /\ drop' = "metric"
    /\ UNCHANGED <<link, arrived, queue, gap_persisted, overflow_pending, worker, database, bounds>>

(* then the metric is set. *)
RaiseAlarm ==
    /\ drop = "metric"
    /\ overflow_pending' = TRUE /\ drop' = "none"
    /\ UNCHANGED <<link, arrived, queue, overflow, worker, database, bounds>>

-----------------------------------------------------------------------------
(* Where the messages are *)

Entries(s) == {s[i] : i \in DOMAIN s}
InSplits == UNION {Entries(worker.splits[i]) : i \in DOMAIN worker.splits}
Held == Entries(queue) \cup Entries(worker.batch) \cup InSplits
Absent == (1..arrived) \ stored
Lost == Absent \ Held

-----------------------------------------------------------------------------
(* The gap of the epoch *)

Cursor == IF stored = {} THEN 0 ELSE CHOOSE m \in stored : \A k \in stored : k <= m

(* insert_gap_if_absent: the boundary is that of the first. *)
WithGap == IF gap = NoGap THEN Cursor ELSE gap

gap_needs_persistence == dropped_count > 0 /\ ~gap_persisted

(* persist_overflow_gap, on the way from `at' to `to'. *)
CheckOverflow(at, to) ==
    /\ worker.pc = at
    /\ worker' = [worker EXCEPT !.pc = IF gap_needs_persistence THEN "gap" ELSE to, !.ret = to]
    /\ UNCHANGED <<callback, overflow, overflow_pending, database, bounds>>

MarkUncertain ==
    /\ worker.pc = "gap"
    /\ gap' = WithGap /\ worker' = [worker EXCEPT !.pc = "persisted"]
    /\ UNCHANGED <<callback, overflow, overflow_pending, stored, unrecorded, bounds>>

(* An error, before or after the commit.  For the messages M there is no    *)
(* gap if there is none now.                                                *)
GapFails(M) ==
    /\ gapFaults < MaxGapFaults /\ gapFaults' = gapFaults + 1
    /\ gap' \in {gap, WithGap}
    /\ unrecorded' = IF gap' = NoGap THEN unrecorded \cup M ELSE unrecorded

(* It is logged; the worker goes on to what it was about to do, and asks    *)
(* again before the next batch.                                             *)
MarkUncertainFails ==
    /\ worker.pc = "gap" /\ GapFails(Lost)
    /\ worker' = [worker EXCEPT !.pc = worker.ret]
    /\ UNCHANGED <<callback, overflow, overflow_pending, stored, faults, timeouts>>

MarkGapPersisted ==
    /\ worker.pc = "persisted"
    /\ gap_persisted' = TRUE /\ worker' = [worker EXCEPT !.pc = "look"]
    /\ UNCHANGED <<callback, dropped_count, overflow_pending, database, bounds>>

(* overflow_pending is stored from what gap_needs_persistence was. *)
LookAgain ==
    /\ worker.pc = "look"
    /\ worker' = [worker EXCEPT !.pc = "lower", !.seen = gap_needs_persistence]
    /\ UNCHANGED <<callback, overflow, overflow_pending, database, bounds>>

LowerAlarm ==
    /\ worker.pc = "lower"
    /\ overflow_pending' = worker.seen /\ worker' = [worker EXCEPT !.pc = worker.ret]
    /\ UNCHANGED <<callback, overflow, database, bounds>>

(* Mutant: the overflow is looked at once per round, not before each batch. *)
PersistOverflowGap_Round ==
    \/ CheckOverflow("head", "recv")
    \/ /\ worker.pc = "next" /\ worker.splits # <<>>
       /\ worker' = [worker EXCEPT !.pc = "insert"]
       /\ UNCHANGED <<callback, overflow, overflow_pending, database, bounds>>
    \/ CheckOverflow("final", "done")
    \/ MarkUncertain \/ MarkUncertainFails \/ MarkGapPersisted \/ LookAgain \/ LowerAlarm

PersistOverflowGap ==
    \/ CheckOverflow("head", "recv")
    \/ worker.splits # <<>> /\ CheckOverflow("next", "insert")
    \/ CheckOverflow("final", "done")
    \/ MarkUncertain \/ MarkUncertainFails \/ MarkGapPersisted \/ LookAgain \/ LowerAlarm

-----------------------------------------------------------------------------
(* run_worker: a batch *)

Take(pc) ==
    /\ worker.pc = pc /\ queue # <<>> /\ Len(worker.batch) < batch_size
    /\ queue' = Tail(queue)
    /\ worker' = [worker EXCEPT !.pc = "fill", !.batch = Append(@, Head(queue))]
    /\ UNCHANGED <<link, arrived, drop, overflow, overflow_pending, database, bounds>>

(* The batch is full, its flush time is over, or the channel is closed. *)
Flush ==
    /\ worker.pc = "fill"
    /\ worker' = [worker EXCEPT !.pc = "next", !.splits = <<worker.batch>>, !.batch = <<>>]
    /\ UNCHANGED <<callback, overflow, overflow_pending, database, bounds>>

(* The channel is closed and empty. *)
Drained ==
    /\ worker.pc = "recv" /\ queue = <<>> /\ link = "closing"
    /\ worker' = [worker EXCEPT !.pc = "final"]
    /\ UNCHANGED <<callback, overflow, overflow_pending, database, bounds>>

-----------------------------------------------------------------------------
(* process_batch_with_retry *)

Sub == Head(worker.splits)
InSub == Entries(Sub)

Halves(s) ==
    LET mid == Len(s) \div 2 IN <<SubSeq(s, 1, mid), SubSeq(s, mid + 1, Len(s))>>

(* insert_messages_if_absent: one transaction. *)
Insert ==
    /\ worker.pc = "insert" /\ InSub \cap Poison = {}
    /\ stored' = stored \cup InSub
    /\ worker' = [worker EXCEPT !.pc = "next", !.splits = Tail(@)]
    /\ UNCHANGED <<callback, overflow, overflow_pending, gap, unrecorded, bounds>>

(* A transient error, before or after the commit: the same again. *)
InsertFails ==
    /\ worker.pc = "insert" /\ InSub \cap Poison = {} /\ faults < MaxFaults
    /\ stored' \in {stored, stored \cup InSub} /\ faults' = faults + 1
    /\ UNCHANGED <<callback, overflow, overflow_pending, worker, gap, unrecorded, gapFaults, timeouts>>

(* InvalidData: the batch is halved until the message is alone. *)
Refused ==
    /\ worker.pc = "insert" /\ InSub \cap Poison # {}
    /\ worker' = IF Len(Sub) = 1 THEN [worker EXCEPT !.pc = "invalid"]
                 ELSE [worker EXCEPT !.pc = "next", !.splits = Halves(Sub) \o Tail(@)]
    /\ UNCHANGED <<callback, overflow, overflow_pending, database, bounds>>

(* A refused message is skipped, with a gap of its own. *)
SkipInvalid ==
    /\ worker.pc = "invalid"
    /\ gap' = WithGap
    /\ worker' = [worker EXCEPT !.pc = "next", !.splits = Tail(@)]
    /\ UNCHANGED <<callback, overflow, overflow_pending, stored, unrecorded, bounds>>

(* It is skipped as well when that fails, and nothing asks again. *)
SkipInvalidFails ==
    /\ worker.pc = "invalid" /\ GapFails(InSub)
    /\ worker' = [worker EXCEPT !.pc = "next", !.splits = Tail(@)]
    /\ UNCHANGED <<callback, overflow, overflow_pending, stored, faults, timeouts>>

BatchDone ==
    /\ worker.pc = "next" /\ worker.splits = <<>>
    /\ worker' = [worker EXCEPT !.pc = "head"]
    /\ UNCHANGED <<callback, overflow, overflow_pending, database, bounds>>

-----------------------------------------------------------------------------
(* The end of the connection *)

Disconnect ==
    /\ link = "connected" /\ drop = "none"
    /\ link' = "closing"
    /\ UNCHANGED <<arrived, queue, drop, overflow, overflow_pending, worker, database, bounds>>

(* finish_connection, once the worker has been drained. *)
FinishConnection ==
    /\ link = "closing" /\ worker.pc = "done"
    /\ link' = "ended" /\ gap' = WithGap
    /\ UNCHANGED <<arrived, queue, drop, overflow, overflow_pending, worker, stored, unrecorded,
                   bounds>>

(* drain_ingestion_worker runs out of time: the worker is aborted, and the  *)
(* loop returns with the epoch still open.                                  *)
DrainTimeout ==
    /\ link = "closing" /\ worker.pc # "done" /\ timeouts < MaxTimeouts
    /\ link' = "aborted" /\ timeouts' = timeouts + 1
    /\ worker' = [worker EXCEPT !.pc = "aborted"]
    /\ UNCHANGED <<arrived, queue, drop, overflow, overflow_pending, database, faults, gapFaults>>

Batch == \/ Take("recv") \/ Take("fill") \/ Flush \/ Drained
         \/ Insert \/ InsertFails \/ Refused \/ SkipInvalid \/ SkipInvalidFails \/ BatchDone
Callback == Enqueue \/ AskForGap \/ CountDrop \/ RaiseAlarm

Next == Callback \/ PersistOverflowGap \/ Batch \/ Disconnect \/ FinishConnection \/ DrainTimeout

Spec == Init /\ [][Next]_vars

(* The worker runs; the connection loop waits for it and then finishes. *)
FairSpec == Spec /\ WF_vars(PersistOverflowGap) /\ WF_vars(Batch)
                 /\ WF_vars(FinishConnection)

-----------------------------------------------------------------------------
(* The queue and the batch are bounded; what is stored or held has arrived,  *)
(* and no more messages are dropped than arrived.                           *)
TypeOK ==
    /\ link \in {"connected", "closing", "ended", "aborted"} /\ arrived \in 0..MaxMessages
    /\ Len(queue) <= queue_capacity /\ Len(worker.batch) <= batch_size
    /\ drop \in {"none", "count", "metric"}
    /\ dropped_count \in 0..arrived /\ gap_persisted \in BOOLEAN /\ overflow_pending \in BOOLEAN
    /\ worker.pc \in {"head", "recv", "fill", "next", "insert", "invalid", "gap", "persisted",
                      "look", "lower", "final", "done", "aborted"}
    /\ Held \cup stored \subseteq 1..arrived
    /\ gap \in {NoGap} \cup 0..arrived /\ unrecorded \subseteq 1..arrived

(* A message that waits is never overtaken, through errors and halved        *)
(* batches: what is stored is in the order of arrival, so that the cursor of *)
(* the conversation never passes a message that is still to be stored        *)
(* (process_batch_with_retry).                                               *)
NotOvertaken == \A w \in Held \ stored : \A m \in stored : m < w

(* A refused message takes no other with it: once the worker is drained,     *)
(* every message that entered the queue and is not itself refused is stored. *)
(* The messages that did not enter are the ones counted as dropped.          *)
OnlyPoisonSkipped ==
    link = "ended" => Cardinality((1..arrived) \ (stored \cup Poison)) <= dropped_count

(* A message that is not stored when the connection is over lies above the   *)
(* boundary of the gap, where the backfill reads (persist_overflow_gap before*)
(* every batch, mark_connection_uncertain, finish_connection).  The only     *)
(* messages that may lie below are those that were lost when a write of the  *)
(* gap failed and none was there yet: the worker goes on, and what it stores *)
(* next moves the boundary past them.  One failed write gives up no message  *)
(* that is dropped after it.                                                 *)
LossCovered ==
    link = "ended" => \A m \in Absent \ unrecorded : gap < m

(* What the comment on the gap asks for, without that exception; false.      *)
EveryLossCovered ==
    link = "ended" => \A m \in Absent : gap < m

(* The same when the drain ran out of time: the worker is aborted and the    *)
(* backfill is relied upon (drain_ingestion_worker).                         *)
AbortCovered ==
    link = "aborted" => \A m \in (1..arrived) \ stored : gap # NoGap /\ gap < m

(* An alarm that stays up while nothing goes on has a gap to be written      *)
(* behind it: the next round of the worker lowers it.                        *)
AlarmHasCause ==
    worker.pc = "recv" /\ drop = "none" /\ overflow_pending => gap_needs_persistence

(* Once the connection is lost, the worker is drained and the epoch ends, if *)
(* the database comes back before the time of the drain is over.             *)
Drains == link = "closing" ~> link = "ended"

(* What a connection without the spool promises of the messages it is given. *)
QueueLossCovered == NotOvertaken /\ OnlyPoisonSkipped /\ LossCovered

-----------------------------------------------------------------------------
(* The inductive invariant. *)

Batches == Seq(1..MaxMessages)
Checks == {"gap", "persisted", "look", "lower"}
WorkerStates ==
    [pc : {"head", "recv", "fill", "next", "insert", "invalid", "final", "done", "aborted"}
              \cup Checks,
     ret : {"recv", "insert", "done"}, batch : Batches, splits : Seq(Batches), seen : BOOLEAN]

QueueTyped ==
    /\ arrived \in 0..MaxMessages /\ dropped_count \in Nat
    /\ queue \in Batches /\ worker \in WorkerStates
    /\ Held \cup stored \subseteq 1..arrived

(* Where the worker goes once a check of the overflow is over. *)
Stage == IF worker.pc \in Checks THEN worker.ret ELSE worker.pc

(* Where messages wait. *)
Places ==
    /\ worker.batch # <<>> => worker.pc \in {"fill", "aborted"}
    /\ worker.splits # <<>> => Stage \in {"next", "insert", "invalid", "aborted"}
    /\ Stage \in {"insert", "invalid"} => worker.splits # <<>>
    /\ worker.pc = "invalid" => Len(Sub) = 1 /\ InSub \subseteq Poison
    /\ Stage \in {"final", "done"} => link # "connected" /\ queue = <<>>
    /\ link # "connected" => drop = "none"
    /\ link = "ended" => worker.pc = "done"

Ascending(s) == \A i, j \in DOMAIN s : i < j => s[i] < s[j]
Below(S, T) == \A x \in S, y \in T : x < y

(* The halves of the batch, the batch and the queue follow each other in the *)
(* order of arrival.                                                         *)
Sequenced ==
    /\ Ascending(queue) /\ Ascending(worker.batch)
    /\ \A i \in DOMAIN worker.splits : Ascending(worker.splits[i])
    /\ \A i, j \in DOMAIN worker.splits :
          i < j => Below(Entries(worker.splits[i]), Entries(worker.splits[j]))
    /\ Below(Entries(worker.batch) \cup InSplits, Entries(queue))

HasNewest == stored = {} \/ \E m \in stored : \A k \in stored : k <= m

(* What is lost was refused, or it was dropped and counted, but for the one  *)
(* the callback is about to count.                                           *)
DropsCounted ==
    Cardinality(Lost \ Poison) <= dropped_count + IF drop = "count" THEN 1 ELSE 0

OrderInv == /\ QueueTyped /\ Places /\ Sequenced /\ NotOvertaken /\ HasNewest
            /\ DropsCounted

(* Of the messages that are not given up: where there is a gap, it lies      *)
(* below all that are absent.  Where there is none yet, nothing above an     *)
(* absent one has been stored, and a dropped one is seen by the check before *)
(* anything above it is stored.                                              *)
Owed == Absent \ unrecorded
OwedLost == Lost \ unrecorded
GapInv ==
    /\ gap \in {NoGap} \cup 0..arrived
    /\ gap # NoGap => \A m \in Owed : gap < m
    /\ link = "ended" => gap # NoGap
    /\ gap = NoGap =>
          /\ Below(stored, Owed)
          /\ ~gap_persisted /\ worker.pc \notin {"persisted", "look", "lower"}
          /\ dropped_count = 0 => \A m \in OwedLost : m = arrived /\ drop = "count"
          /\ worker.pc = "insert" => Below(InSub, OwedLost)
===============================================================================
