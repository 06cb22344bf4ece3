---------------------------- MODULE ReplyThreads ----------------------------
(***************************************************************************)
(* Messages, the replies between them, and the threads they are put into.  *)
(* A reply may arrive before the message it answers: it is put into a      *)
(* thread of its own, and when the message comes in, its reply is          *)
(* resolved, taken out of that thread and put where it belongs.            *)
(*                                                                         *)
(*   repo/mysql_inbound.rs, mysql_reconcile.rs, mysql_threading.rs,        *)
(*   mysql_recall.rs (the event of a recall), domain/threading.rs,         *)
(*   thread_service.rs, reconcile_service.rs, reply_reconcile_worker.rs    *)
(*                                                                         *)
(* One conversation of one account.  Events are numbered by the time they  *)
(* happened, which need not be the order they arrive in.                   *)
(*                                                                         *)
(* A transaction that resolves replies has two steps: the first plain      *)
(* SELECT fixes the snapshot that its later ones read, and what it writes, *)
(* in the rows as they are then, it commits at once.  One that inserts a   *)
(* message holds the row of the account from before its snapshot, so only  *)
(* one of them is under way, and whoever needs that row waits: a recall, a *)
(* claim of either worker, a projection that creates a thread.  The        *)
(* reconcile worker holds the queue row it resolves, and not the account.  *)
(***************************************************************************)
EXTENDS Naturals, Sequences, FiniteSets, SequencesExt, FiniteSetsExt

CONSTANTS Events,        \* 1..N: the number is occurred_at_unix_secs
          Recalls,       \* events that record a recall
          Parent,        \* reply_to_platform_event_id of an event, or 0
          Legacy,        \* events stored before replies were resolved
          Window,        \* same_conversation_window_secs
          BatchSize,     \* batch_size of the projection
          MaxFaults      \* bound: kills and failed transactions

(* What the constants are to satisfy; an instance assumes it. *)
ThreadAssumption ==
    /\ Events \subseteq Nat \ {0} /\ IsFiniteSet(Events) /\ Recalls \subseteq Events
    /\ Legacy \subseteq Events
    /\ Parent \in [Events -> Events \cup {0}]
    /\ Window \in Nat /\ BatchSize \in Nat \ {0} /\ MaxFaults \in Nat

VARIABLES
    stored,    \* secretary_source_events
    reply,     \* reply_to_event_id, 0 for NULL
    queue,     \* secretary_reply_reconcile_claims: none, free or leased
    rec,       \* rows the reconcile worker holds in memory
    heal,      \* messages whose after-commit resolution is still to run
    thread,    \* secretary_thread_events: the thread of an event, 0 for none
    status,    \* secretary_event_threads, in the order of creation
    rel,       \* secretary_thread_relations: from, to, thread
    claim,     \* secretary_thread_projection_claims: the lease of an event, or 0
    plan,      \* the plan in the projection worker's memory
    scan,      \* threads with a row in secretary_thread_semantic_state
    derived,   \* threads with active claims, decisions, questions, expectations
    snapshot,  \* what the transaction that holds the account sees, if there is one
    fence,     \* the queue row the reconcile worker has locked, and what it sees
    missed,    \* history: threads emptied behind a snapshot, and empty since
    faults

replies == <<stored, reply, queue, rec, heal>>
threads == <<thread, status, rel, scan, derived, missed>>
transactions == <<snapshot, fence>>
vars == <<replies, threads, claim, plan, transactions, faults>>

NoPlan == [batch |-> <<>>, to |-> <<>>, rels |-> {}]

Init ==
    /\ stored \in SUBSET Legacy /\ reply = [e \in Events |-> 0]
    /\ queue = [e \in Events |-> IF e \in stored /\ Parent[e] # 0 THEN "free" ELSE "none"]
    /\ rec = {} /\ heal = {}
    /\ thread = [e \in Events |-> 0] /\ status = <<>> /\ rel = {}
    /\ claim = [e \in Events |-> 0] /\ plan = NoPlan
    /\ scan = {} /\ derived = {} /\ snapshot = {} /\ fence = {} /\ missed = {} /\ faults = 0

Fault == faults < MaxFaults /\ faults' = faults + 1
Terminal(t) == t # 0 /\ status[t] \in {"resolved", "closed"}
Members(member, t) == {e \in Events : member[e] = t}

-----------------------------------------------------------------------------
(* Replies are resolved.                                                    *)

Pending(replyTo, p) == {c \in stored' : Parent[c] = p /\ replyTo[c] = 0}

(* The statements after the UPDATE select every event that is resolved to   *)
(* the parent, not only those this call resolved.                           *)
Affected(replyTo, p) == {c \in stored' : Parent[c] = p /\ replyTo[c] \in {0, p}}

(* The threads that lose their last member. *)
Emptied(moved) ==
    {thread[c] : c \in {x \in moved : thread[x] # 0 /\ Members(thread, thread[x]) \subseteq moved}}

(* The threads the transaction goes through are those it sees its messages  *)
(* in, while what it deletes are the rows there are now.  The close of an   *)
(* open thread looks for members among the rows there are now, the count of *)
(* a terminal one in the snapshot, less what was deleted here.              *)
Left(seen, moved, t) ==
    IF Terminal(t) THEN {e \in Events : seen.thread[e] = t /\ ~(e \in moved /\ thread[e] # 0)}
    ELSE Members(thread, t) \ moved

Noticed(seen, moved) ==
    {t \in DOMAIN status : Left(seen, moved, t) = {} /\ \E c \in moved : seen.thread[c] = t}

(* Members came or went between the snapshot and now. *)
Raced(seen) == {t \in DOMAIN status : \E c \in Events : (seen.thread[c] = t) # (thread[c] = t)}

(* close_empty_thread_in_txn of each of them: a terminal one only loses     *)
(* what was derived from it.                                                *)
close_empty_thread(seen, moved) ==
    LET noticed == Noticed(seen, moved)
    IN /\ status' = [t \in DOMAIN status |-> IF t \in noticed /\ ~Terminal(t)
                                             THEN "closed" ELSE status[t]]
       /\ scan' = scan \ noticed /\ derived' = derived \ noticed
       /\ missed' = (missed \cup (Emptied(moved) \cap Raced(seen))) \ noticed

WithoutRelations(moved) == {r \in rel : r.from \notin moved /\ r.to \notin moved}

QueueAfter(moved, more) ==
    [e \in Events |-> IF e \in moved THEN "none"
                      ELSE IF e \in more /\ queue[e] = "none" THEN "free" ELSE queue[e]]

(* resolve_pending_replies_in_txn in a transaction that sees `seen`, with   *)
(* replies as it leaves them before and `more` the rows it queues.          *)
resolve_pending_replies(seen, replyTo, p, more) ==
    IF Pending(replyTo, p) = {}
    THEN /\ reply' = replyTo /\ queue' = QueueAfter({}, more)
         /\ UNCHANGED <<threads, claim>>
    ELSE LET moved == Affected(replyTo, p)
         IN /\ reply' = [e \in Events |-> IF e \in Pending(replyTo, p) THEN p ELSE replyTo[e]]
            /\ queue' = QueueAfter(moved, more)
            /\ thread' = [e \in Events |-> IF e \in moved THEN 0 ELSE thread[e]]
            /\ claim' = [e \in Events |-> IF e \in moved THEN 0 ELSE claim[e]]
            /\ rel' = WithoutRelations(moved)
            /\ close_empty_thread(seen, moved)

(* ensure_account_ref locks the row of the account, then reads. *)
View == [thread |-> thread, reply |-> reply]

ensure_account_ref ==
    /\ snapshot = {} /\ snapshot' = {View}
    /\ UNCHANGED <<replies, threads, claim, plan, fence, faults>>

(* The transaction that holds the account ends.  The rows of the queue it   *)
(* deletes or looks at are not those the reconcile worker has locked.       *)
Ends(seen, replyTo, p, more) ==
    /\ seen \in snapshot /\ snapshot' = {}
    /\ resolve_pending_replies(seen, replyTo, p, more)
    /\ \A f \in fence : f.row \notin more \cup (IF Pending(replyTo, p) = {} THEN {}
                                              ELSE Affected(replyTo, p))
    /\ UNCHANGED <<rec, plan, fence, faults>>

(* process_message_in_transaction of a new message. *)
insert(e, seen) ==
    /\ e \notin stored \cup Recalls
    /\ stored' = stored \cup {e}
    /\ LET found == IF Parent[e] \in stored THEN Parent[e] ELSE 0
       IN Ends(seen, [reply EXCEPT ![e] = found], e,
               IF Parent[e] # 0 /\ found = 0 THEN {e} ELSE {})
    /\ heal' = IF Parent[e] # 0 THEN heal \cup {e} ELSE heal

(* The message is delivered again.  Whether it waits for its parent is read *)
(* in the snapshot.                                                         *)
Duplicate(e, seen) ==
    /\ e \in stored \ Recalls /\ UNCHANGED stored
    /\ Ends(seen, reply, e, IF Parent[e] # 0 /\ seen.reply[e] = 0 THEN {e} ELSE {})
    /\ heal' = IF Parent[e] # 0 THEN heal \cup {e} ELSE heal

(* record_recall stores the recall as an event that answers the recalled    *)
(* message but is never resolved there, nor queued.                         *)
record_recall(e) ==
    /\ e \in Recalls \ stored /\ stored' = stored \cup {e} /\ snapshot = {}
    /\ UNCHANGED <<reply, queue, rec, heal, threads, claim, plan, transactions, faults>>

(* resolve_pending_reply_after_commit *)
resolve_after_commit(e, seen) ==
    /\ e \in heal /\ heal' = heal \ {e} /\ UNCHANGED stored
    /\ IF Parent[e] \in stored THEN Ends(seen, reply, Parent[e], {})
       ELSE /\ seen \in snapshot /\ snapshot' = {}
            /\ UNCHANGED <<reply, queue, rec, threads, claim, plan, fence, faults>>

HealFails(e) == /\ e \in heal /\ Fault /\ heal' = heal \ {e}
                /\ UNCHANGED <<stored, reply, queue, rec, threads, claim, plan, transactions>>

-----------------------------------------------------------------------------
(* The reconcile worker: claims what is queued, resolves row by row.        *)

Eligible(e) == e \in stored /\ reply[e] = 0 /\ queue[e] = "free"

(* claim_reconcile_batch; back-off decides how many are due.  It skips what *)
(* is locked, the row of the account included.                              *)
claim_reconcile_batch(batch) ==
    /\ rec = {} /\ batch # {} /\ \A e \in batch : Eligible(e)
    /\ snapshot = {} /\ rec' = batch
    /\ queue' = [e \in Events |-> IF e \in batch THEN "leased" ELSE queue[e]]
    /\ UNCHANGED <<stored, reply, heal, threads, claim, plan, transactions, faults>>

(* The first statements of resolve_claimed_pending_reply: without the lease *)
(* nothing is done, otherwise the queue row is locked, and then read.       *)
lock_claim(e) ==
    /\ e \in rec /\ fence = {}
    /\ IF queue[e] # "leased" THEN rec' = rec \ {e} /\ UNCHANGED fence
       ELSE fence' = {[row |-> e, seen |-> View]} /\ UNCHANGED rec
    /\ UNCHANGED <<stored, reply, queue, heal, threads, claim, plan, snapshot, faults>>

(* And the others: the queue row goes when the reply is resolved, and waits *)
(* when the parent is missing.                                              *)
resolve_claimed_pending_reply(e) ==
    /\ e \in rec /\ rec' = rec \ {e} /\ fence' = {} /\ UNCHANGED stored
    /\ \E f \in fence :
         /\ f.row = e
         /\ IF Parent[e] \in stored
            THEN resolve_pending_replies(f.seen, reply, Parent[e], {})
            ELSE /\ queue' = [queue EXCEPT ![e] = IF @ = "none" THEN @ ELSE "free"]
                 /\ UNCHANGED <<reply, threads, claim>>
    /\ UNCHANGED <<heal, plan, snapshot, faults>>

(* One failure ends the round: the other rows wait for their lease. *)
ReconcileFails ==
    /\ rec # {} /\ Fault /\ rec' = {} /\ fence' = {}
    /\ UNCHANGED <<stored, reply, queue, heal, threads, claim, plan, snapshot>>

QueueLeaseEnds(e) ==
    /\ queue[e] = "leased" /\ queue' = [queue EXCEPT ![e] = "free"]
    /\ UNCHANGED <<stored, reply, rec, heal, threads, claim, plan, transactions, faults>>

-----------------------------------------------------------------------------
(* The projection worker.                                                   *)

(* reply_parents_first: next is the oldest of those left whose parent is    *)
(* not left.                                                                *)
reply_parents_first(batch) ==
    \A i \in DOMAIN batch :
       LET left == {batch[j] : j \in i..Len(batch)}
           ready == {e \in left : reply[e] \notin left}
       IN batch[i] = Min(IF ready = {} THEN left ELSE ready)

(* The context the claim reads: the first reply that has a thread, and the  *)
(* event before this one within the window.                                 *)
ChildThread(e) ==
    LET children == {c \in stored : reply[c] = e /\ thread[c] # 0}
    IN IF children = {} THEN 0 ELSE thread[Min(children)]

PreviousEvent(e) ==
    LET earlier == {p \in stored : p < e /\ thread[p] # 0 /\ e - p <= Window}
    IN IF earlier = {} THEN 0 ELSE Max(earlier)

ParentTerminal(e) == reply[e] # 0 /\ Terminal(thread[reply[e]])
Open(t) == IF Terminal(t) THEN 0 ELSE t
FirstOf(candidates) == LET k == SelectInSeq(candidates, LAMBDA t : t # 0)
                       IN IF k = 0 THEN 0 ELSE candidates[k]

(* DeterministicThreadPlanner::plan.  A thread of the plan is one that      *)
(* exists, or Len(status) + i for the one the i-th event creates.           *)
Previous(batch, i) ==
    LET e == batch[i]
        p == IF i > 1 THEN batch[i - 1]
             ELSE IF PreviousEvent(e) # 0 /\ Terminal(thread[PreviousEvent(e)]) THEN 0
             ELSE PreviousEvent(e)
    IN IF ParentTerminal(e) \/ p = 0 \/ e > p + Window THEN 0 ELSE p

PlanThreads(batch, to) ==
    \A i \in DOMAIN batch :
       LET e == batch[i]
           before == {j \in 1..(i - 1) : batch[j] = reply[e]}
           inBatch == IF before = {} THEN 0 ELSE to[Min(before)]
           prev == Previous(batch, i)
           prevThread == IF prev = 0 THEN 0 ELSE IF i > 1 THEN to[i - 1] ELSE thread[prev]
       IN to[i] = FirstOf(IF ParentTerminal(e) THEN <<inBatch, Len(status) + i>>
                          ELSE <<inBatch, IF reply[e] = 0 THEN 0 ELSE Open(thread[reply[e]]),
                                 Open(ChildThread(e)), prevThread, Len(status) + i>>)

Relations(batch, to) ==
    UNION {LET e == batch[i]
               target == IF reply[e] = 0 THEN Previous(batch, i)
                         ELSE IF ParentTerminal(e) THEN 0 ELSE reply[e]
           IN IF target = 0 THEN {} ELSE {[from |-> e, to |-> target, thread |-> to[i]]}
           : i \in DOMAIN batch}

Unprojected == {e \in stored : thread[e] = 0 /\ claim[e] = 0}

(* claim_projection_batch: the oldest events without a thread; it skips     *)
(* what is locked.  A batch has one lease, and a process one batch at a     *)
(* time: the faults so far tell the leases apart.                           *)
Oldest == {e \in Unprojected : Cardinality({x \in Unprojected : x < e}) < BatchSize}

claim_projection_batch ==
    /\ plan = NoPlan /\ Unprojected # {} /\ snapshot = {}
    /\ claim' = [e \in Events |-> IF e \in Oldest THEN faults + 1 ELSE claim[e]]
    /\ \E batch \in SetToSeqs(Oldest) :
         /\ reply_parents_first(batch)
         /\ \E to \in [DOMAIN batch -> 1..(Len(status) + Len(batch))] :
              /\ PlanThreads(batch, to)
              /\ plan' = [batch |-> batch, to |-> to, rels |-> Relations(batch, to)]
    /\ UNCHANGED <<replies, threads, transactions, faults>>

Created(p) == {p.to[i] : i \in DOMAIN p.to} \ DOMAIN status

(* Every claim of the plan is held and no thread it names has ended. *)
PlanStands_AnyStatus(p) == \A i \in DOMAIN p.batch : claim[p.batch[i]] # 0

PlanStands(p) ==
    /\ \A i \in DOMAIN p.batch : claim[p.batch[i]] # 0
    /\ \A i \in DOMAIN p.to : p.to[i] \in DOMAIN status => ~Terminal(p.to[i])

commit_projection ==
    /\ plan # NoPlan /\ PlanStands(plan) /\ (Created(plan) # {} => snapshot = {})
    /\ LET created == Created(plan)
           id(t) == IF t \in DOMAIN status THEN t
                    ELSE Len(status) + Cardinality({x \in created : x <= t})
       IN /\ thread' = [e \in Events |->
                           IF \E i \in DOMAIN plan.batch : plan.batch[i] = e
                           THEN id(plan.to[CHOOSE i \in DOMAIN plan.batch : plan.batch[i] = e])
                           ELSE thread[e]]
          /\ status' = status \o [k \in 1..Cardinality(created) |-> "open"]
          /\ rel' = rel \cup {[r EXCEPT !.thread = id(@)] : r \in plan.rels}
    /\ claim' = [e \in Events |-> IF \E i \in DOMAIN plan.batch : plan.batch[i] = e
                                  THEN 0 ELSE claim[e]]
    /\ missed' = {t \in missed : Members(thread', t) = {}}
    /\ plan' = NoPlan
    /\ UNCHANGED <<replies, scan, derived, transactions, faults>>

(* LeaseLost, or the transaction fails: release_projection_claims. *)
release_projection_claims ==
    /\ plan # NoPlan
    /\ \/ ~PlanStands(plan) /\ UNCHANGED faults
       \/ PlanStands(plan) /\ Fault
    /\ claim' = [e \in Events |-> IF \E i \in DOMAIN plan.batch : plan.batch[i] = e
                                  THEN 0 ELSE claim[e]]
    /\ plan' = NoPlan
    /\ UNCHANGED <<replies, threads, transactions>>

ProjectionLeaseEnds(lease) ==
    /\ \E e \in Events : claim[e] = lease
    /\ claim' = [e \in Events |-> IF claim[e] = lease THEN 0 ELSE claim[e]]
    /\ UNCHANGED <<replies, threads, plan, transactions, faults>>

-----------------------------------------------------------------------------
(* The semantic worker, as far as it meets the closing of a thread.  Open   *)
(* stands for the three states that are not terminal.                       *)

claim_semantic_batch(t) ==
    /\ t \notin scan /\ Members(thread, t) # {}
    /\ scan' = scan \cup {t}
    /\ UNCHANGED <<replies, thread, status, rel, derived, missed, claim, plan, transactions,
                   faults>>

(* Without the lease nothing is written. *)
commit_semantic_patch(t, to) ==
    /\ t \in scan
    /\ to = status[t] \/ {to, status[t]} = {"open", "resolved"}
    /\ status' = [status EXCEPT ![t] = to]
    /\ derived' = derived \cup {t} /\ scan' = scan \ {t}
    /\ UNCHANGED <<replies, thread, rel, missed, claim, plan, transactions, faults>>

(* The extraction fails, is refused, or outlives its lease. *)
release_semantic_claim(t) ==
    /\ t \in scan /\ Fault /\ scan' = scan \ {t}
    /\ UNCHANGED <<replies, thread, status, rel, derived, missed, claim, plan, transactions>>

Kill ==
    /\ Fault /\ rec' = {} /\ heal' = {} /\ plan' = NoPlan /\ snapshot' = {} /\ fence' = {}
    /\ UNCHANGED <<stored, reply, queue, threads, claim>>

Projector == claim_projection_batch \/ commit_projection \/ release_projection_claims

Next ==
    \/ ensure_account_ref
    \/ \E e \in Events, seen \in snapshot :
          insert(e, seen) \/ Duplicate(e, seen) \/ resolve_after_commit(e, seen)
    \/ \E e \in Events : \/ record_recall(e) \/ HealFails(e)
                         \/ lock_claim(e) \/ resolve_claimed_pending_reply(e)
                         \/ QueueLeaseEnds(e)
    \/ \E lease \in 1..(MaxFaults + 1) : ProjectionLeaseEnds(lease)
    \/ \E batch \in SUBSET Events : claim_reconcile_batch(batch)
    \/ ReconcileFails \/ Projector \/ Kill
    \/ \E t \in DOMAIN status : \/ claim_semantic_batch(t) \/ release_semantic_claim(t)
                                \/ \E to \in {"open", "resolved", "closed"} :
                                     commit_semantic_patch(t, to)

Spec == Init /\ [][Next]_vars

-----------------------------------------------------------------------------
SeenOK ==
    /\ \A s \in snapshot : {s.thread, s.reply} \subseteq [Events -> Nat]
    /\ \A f \in fence : {f.seen.thread, f.seen.reply} \subseteq [Events -> Nat]

TypeOK ==
    /\ stored \subseteq Events /\ rec \subseteq Events /\ heal \subseteq Events
    /\ reply \in [Events -> Events \cup {0}]
    /\ queue \in [Events -> {"none", "free", "leased"}]
    /\ status \in Seq({"open", "closed", "resolved"})
    /\ thread \in [Events -> 0..Len(status)]
    /\ rel \subseteq [from : Events, to : Events, thread : DOMAIN status]
    /\ claim \in [Events -> 0..(MaxFaults + 1)]
    /\ scan \subseteq DOMAIN status /\ derived \subseteq DOMAIN status
    /\ missed \subseteq DOMAIN status /\ SeenOK
    /\ faults \in 0..MaxFaults

(* A thread that was closed because it lost its last member stays empty,    *)
(* although a projection planned before may name it.                        *)
ClosedIsEmpty == \A t \in DOMAIN status : status[t] = "closed" => Members(thread, t) = {}

(* Nothing derived by the language model stays active on a thread whose     *)
(* members have left, whatever scan was under way; except one that gained   *)
(* or lost a member between the snapshot of the transaction that took the   *)
(* last one away and its commit, for that transaction may not see it.       *)
NothingDerivedFromEmpty ==
    \A t \in DOMAIN status :
       Members(thread, t) = {} /\ t \notin missed => t \notin scan \cup derived

(* A relation belongs to the thread of the event it starts from: an event   *)
(* that moves takes its relations with it.                                  *)
RelationsFollowEvents == \A r \in rel : thread[r.from] = r.thread

(* Whoever resolves a reply takes the reconcile worker's lease of it away:  *)
(* what is leased still waits for its parent.                               *)
QueueIsPending == \A e \in Events : queue[e] = "leased" => reply[e] = 0

(* What the four rest on.  Who waits in the queue is stored; an event under *)
(* claim is in no thread, so a projection moves nothing; and a plan names   *)
(* a thread for each event of its batch, once.                              *)
PlanOK ==
    /\ plan.batch \in Seq(Events)
    /\ \A i, j \in DOMAIN plan.batch : plan.batch[i] = plan.batch[j] => i = j
    /\ plan.to \in [DOMAIN plan.batch -> Nat \ {0}]
    /\ \A r \in plan.rels :
          /\ r = [from |-> r.from, to |-> r.to, thread |-> r.thread] /\ r.to \in Events
          /\ \E i \in DOMAIN plan.batch : r.from = plan.batch[i] /\ r.thread = plan.to[i]

ThreadsInv ==
    /\ TypeOK /\ PlanOK
    /\ ClosedIsEmpty /\ NothingDerivedFromEmpty /\ RelationsFollowEvents /\ QueueIsPending
    /\ \A e \in Events : queue[e] # "none" => e \in stored
    /\ \A e \in Events : claim[e] # 0 => thread[e] = 0

(* Three comments.  close_empty_thread_in_txn: either order of a resolution *)
(* and a projection leaves nothing active on the old thread.                *)
NothingLeftOnEmpty ==
    \A t \in DOMAIN status : Members(thread, t) = {} => t \notin scan \cup derived

(* resolve_pending_replies_in_txn: no path leaves a resolved candidate.     *)
NoResolvedCandidate == \A e \in Events : queue[e] # "none" => reply[e] = 0

(* The same: only what this call resolves loses its thread, other children  *)
(* are not affected.                                                        *)
ResolvedUnaffected ==
    [][\A e \in Events : reply[e] # 0 /\ reply'[e] = reply[e] => thread'[e] # 0 \/ thread[e] = 0]_vars

=============================================================================
