---------------------------- MODULE OwnerResponses ----------------------------
(***************************************************************************)
(* The answer to an owner command, from the completed action run to the    *)
(* passive reply the platform accepts.                                     *)
(*                                                                         *)
(*   repo/mysql_owner_response_delivery.rs,                                *)
(*   application/owner_response_delivery_service.rs,                       *)
(*   adapters/qq_open_platform.rs (run_owner_response_loop), api.rs        *)
(*                                                                         *)
(* One managed account, one bot.  Two loops run when a process is replaced *)
(* before the old one has gone.  A lease token is named by the loop that   *)
(* drew it: a loop holds one claim at a time and forgets it when it is     *)
(* killed.  Process and database share one clock.                          *)
(***************************************************************************)
EXTENDS Integers, Sequences, FiniteSets

CONSTANTS
    Responses,      \* one per owner command
    Blank,          \* responses whose segments hold no text
    Loops,          \* run_owner_response_loop, one per process
    None,
    MaxAge,         \* OWNER_RESPONSE_MAX_AGE_SECS
    LeaseTime,      \* notification_lease_secs
    MaxBackoff,     \* 300 seconds
    BatchLimit,     \* rows one claim brings into the outbox
    MaxNow,         \* bound: clock
    MaxFaults       \* bound: kills, failed marks, changes of the binding

ASSUME DeliveryAssumption ==
    /\ {MaxAge, LeaseTime, MaxBackoff, BatchLimit, MaxNow, MaxFaults} \subseteq Nat
    /\ Blank \subseteq Responses
    /\ None \notin Responses \cup Loops

VARIABLES
    now,
    occurred,    \* when the command was sent: secretary_source_events
    created,     \* secretary_action_responses by created_at
    invalidated, \* responses whose sources were restricted
    bound,       \* the OwnerBinding of the commands is active
    outbox,      \* secretary_owner_response_outbox
    loop,        \* what each delivery loop is doing
    accepted,    \* replies the platform accepted, per response
    faults

env == <<occurred, created, invalidated, bound>>
vars == <<now, env, outbox, loop, accepted, faults>>

NoRow == [status |-> "none", attempts |-> 0, holder |-> None, expires |-> 0, eligible |-> 0]
Pending == [NoRow EXCEPT !.status = "pending"]
Idle == [pc |-> "idle", response |-> None, result |-> "none"]

Completed == {created[i] : i \in DOMAIN created}

Init ==
    /\ now = 0
    /\ occurred \in [Responses -> {0, 1}]
    /\ created = <<>> /\ invalidated = {} /\ bound = TRUE
    /\ outbox = [r \in Responses |-> NoRow]
    /\ loop = [w \in Loops |-> Idle]
    /\ accepted = [r \in Responses |-> 0]
    /\ faults = 0

-----------------------------------------------------------------------------
(* Around the outbox *)

(* mark_completed writes the response of a run, once. *)
MarkCompleted(r) ==
    /\ r \notin Completed /\ now >= occurred[r]
    /\ created' = Append(created, r)
    /\ UNCHANGED <<now, occurred, invalidated, bound, outbox, loop, accepted, faults>>

(* A conversation the response draws on becomes restricted. *)
Restrict(r) ==
    /\ r \in Completed \ invalidated
    /\ invalidated' = invalidated \cup {r}
    /\ UNCHANGED <<now, occurred, created, bound, outbox, loop, accepted, faults>>

(* ensure_owner_binding of a process configured for another owner, or back. *)
Rotate ==
    /\ faults < MaxFaults /\ faults' = faults + 1
    /\ bound' = ~bound
    /\ UNCHANGED <<now, occurred, created, invalidated, outbox, loop, accepted>>

Tick == /\ now < MaxNow /\ now' = now + 1
        /\ UNCHANGED <<env, outbox, loop, accepted, faults>>

-----------------------------------------------------------------------------
(* claim_pending_response: four statements of one transaction *)

Ahead(r) == LET at == CHOOSE i \in DOMAIN created : created[i] = r
            IN {created[i] : i \in 1..(at - 1)}

Fresh(r) == occurred[r] >= now - MaxAge

(* INSERT IGNORE ... SELECT: the oldest BatchLimit that have no row. *)
Entering ==
    LET missing == {r \in Completed : /\ bound /\ r \notin invalidated
                                      /\ outbox[r].status = "none"}
    IN {r \in missing : Cardinality(Ahead(r) \cap missing) < BatchLimit}

Materialized(rows) == [r \in Responses |-> IF r \in Entering THEN Pending ELSE rows[r]]

(* The row without its lease. *)
Released(row, status, eligible) ==
    [status |-> status, attempts |-> row.attempts, holder |-> None, expires |-> 0,
     eligible |-> eligible]

Outdated(rows) ==
    [r \in Responses |-> IF rows[r].status = "pending" /\ ~Fresh(r)
                         THEN Released(rows[r], "failed", 0) ELSE rows[r]]

(* Mutant: a claim whose lease ran out stays claimed. *)
Unfinished_Kept(rows) == rows

Unfinished(rows) ==
    [r \in Responses |-> IF rows[r].status = "claimed" /\ rows[r].expires < now
                         THEN Released(rows[r], "unknown_commit", 0) ELSE rows[r]]

Claimable(rows) ==
    {r \in Completed : /\ rows[r].status = "pending" /\ rows[r].eligible <= now
                       /\ r \notin invalidated /\ bound /\ Fresh(r)}

ClaimPendingResponse(w) ==
    LET rows == Unfinished(Outdated(Materialized(outbox)))
        open == Claimable(rows)
    IN /\ loop[w].pc = "idle"
       /\ \/ /\ open = {}
             /\ outbox' = rows /\ UNCHANGED loop
          \/ \E r \in open :
                /\ Ahead(r) \cap open = {}
                /\ outbox' = [rows EXCEPT ![r] =
                                [status |-> "claimed", attempts |-> @.attempts + 1,
                                 holder |-> w, expires |-> now + LeaseTime, eligible |-> 0]]
                /\ loop' = [loop EXCEPT ![w] = [Idle EXCEPT !.pc = "send", !.response = r]]
       /\ UNCHANGED <<now, env, accepted, faults>>

-----------------------------------------------------------------------------
(* The reply: what the platform did, and what the client makes of it.       *)

(* Mutant: what is not known to have arrived is tried again. *)
classify_delivery_failure_Blind(error) ==
    CASE error \in {"rate_limited", "transport"} -> "retryable"
      [] OTHER -> "permanent"

classify_delivery_failure(error) ==
    CASE error = "rate_limited" -> "retryable"
      [] error = "transport" -> "unknown_commit"   \* POST or token, 5xx
      [] OTHER -> "permanent"                      \* 4xx, a receipt without an id

Answer(w, result) == loop' = [loop EXCEPT ![w].pc = "mark", ![w].result = result]

(* Mutant: the client sends again when the answer is lost. *)
SendAccepted_Resend(w) ==
    /\ loop[w].pc = "send" /\ loop[w].response \notin Blank
    /\ accepted' = [accepted EXCEPT ![loop[w].response] = @ + 1]
    /\ Answer(w, "delivered") \/ UNCHANGED loop
    /\ UNCHANGED <<now, env, outbox, faults>>

(* The POST arrived: the answer is a receipt, a receipt the client refuses, *)
(* or is lost.                                                              *)
SendAccepted(w) ==
    LET r == loop[w].response
    IN /\ loop[w].pc = "send" /\ r \notin Blank
       /\ accepted' = [accepted EXCEPT ![r] = @ + 1]
       /\ \/ Answer(w, "delivered")
          \/ \E error \in {"transport", "protocol"} :
                Answer(w, classify_delivery_failure(error))
       /\ UNCHANGED <<now, env, outbox, faults>>

(* No text, a token or a connection not to be had, a refusal. *)
SendRefused(w) ==
    /\ loop[w].pc = "send"
    /\ \/ loop[w].response \in Blank /\ Answer(w, "permanent")
       \/ /\ loop[w].response \notin Blank
          /\ \E error \in {"rate_limited", "transport", "rejected"} :
                Answer(w, classify_delivery_failure(error))
    /\ UNCHANGED <<now, env, outbox, accepted, faults>>

-----------------------------------------------------------------------------
(* mark_response_delivered, mark_response_failed *)

Fenced(w) ==
    LET row == outbox[loop[w].response]
    IN row.status = "claimed" /\ row.holder = w /\ row.expires >= now

(* 2^(attempts - 1) seconds, at most MaxBackoff. *)
Backoff(attempts) ==
    LET doubled == 2 ^ (IF attempts - 1 < 8 THEN attempts - 1 ELSE 8)
    IN IF doubled < MaxBackoff THEN doubled ELSE MaxBackoff

Marked(row, result) ==
    CASE result = "retryable" -> Released(row, "pending", now + Backoff(row.attempts))
      [] result = "permanent" -> Released(row, "failed", 0)
      [] OTHER -> Released(row, result, 0)

(* A mark that finds no row to change is logged. *)
Mark(w) ==
    LET r == loop[w].response
    IN /\ loop[w].pc = "mark"
       /\ outbox' = IF Fenced(w)
                    THEN [outbox EXCEPT ![r] = Marked(@, loop[w].result)]
                    ELSE outbox
       /\ loop' = [loop EXCEPT ![w] = Idle]
       /\ UNCHANGED <<now, env, accepted, faults>>

(* Killed before or after the POST, or the database refuses the mark. *)
Dropped(w) ==
    /\ loop[w].pc # "idle"
    /\ faults < MaxFaults /\ faults' = faults + 1
    /\ loop' = [loop EXCEPT ![w] = Idle]
    /\ UNCHANGED <<now, env, outbox, accepted>>

-----------------------------------------------------------------------------
Deliver(w) == ClaimPendingResponse(w) \/ SendAccepted(w) \/ SendRefused(w) \/ Mark(w)

Next ==
    \/ \E r \in Responses : MarkCompleted(r) \/ Restrict(r)
    \/ Rotate \/ Tick
    \/ \E w \in Loops : Deliver(w) \/ Dropped(w)

Spec == Init /\ [][Next]_vars

(* Time passes and a loop that runs goes on: it scans every 250 ms, and the *)
(* HTTP client's timeout ends every request.                                *)
FairSpec == Spec /\ WF_vars(Tick) /\ \A w \in Loops : WF_vars(Deliver(w))

-----------------------------------------------------------------------------
Rows == [status : {"none", "pending", "claimed", "delivered", "failed", "unknown_commit"},
         attempts : Nat, holder : Loops \cup {None}, expires : Nat, eligible : Int]

(* A claim has a holder and an attempt; nothing else has a holder. *)
TypeOK ==
    /\ now \in 0..MaxNow
    /\ occurred \in [Responses -> Nat]
    /\ created \in Seq(Responses)
    /\ invalidated \subseteq Responses /\ bound \in BOOLEAN
    /\ outbox \in [Responses -> Rows]
    /\ \A r \in Responses : /\ (outbox[r].status = "claimed") = (outbox[r].holder # None)
                            /\ outbox[r].status = "claimed" => outbox[r].attempts >= 1
    /\ loop \in [Loops -> [pc : {"idle", "send", "mark"}, response : Responses \cup {None},
                           result : {"none", "delivered", "retryable", "permanent",
                                     "unknown_commit"}]]
    /\ accepted \in [Responses -> Nat]
    /\ faults \in 0..MaxFaults

(* The owner gets an answer at most once, whatever was killed, answered late *)
(* or lost between the POST and the mark (claim_pending_response: a claim    *)
(* that ended without a mark is not tried again).                            *)
AtMostOneReply == \A r \in Responses : accepted[r] <= 1

(* The outbox tells the truth where it claims to know: what it will try again *)
(* has not arrived, what it calls delivered has (classify_delivery_failure,   *)
(* mark_response_delivered).                                                  *)
StatusTruthful ==
    \A r \in Responses : /\ outbox[r].status \in {"none", "pending"} => accepted[r] = 0
                         /\ outbox[r].status = "delivered" => accepted[r] = 1

Ended == {"delivered", "failed", "unknown_commit"}

(* What has ended stays as it ended: a mark that comes after the lease was    *)
(* taken away changes nothing (require_fenced_update).                        *)
EndedStays ==
    [][\A r \in Responses : outbox[r].status \in Ended => outbox'[r] = outbox[r]]_vars

(* Every response comes to an end, though its loop is killed, its binding     *)
(* rotated or its sources restricted while it waits: only one that never may  *)
(* enter the outbox has no row.                                               *)
RepliesSettled ==
    \A r \in Responses :
        (r \in Completed) ~> \/ outbox[r].status \in Ended
                             \/ outbox[r].status = "none" /\ (r \in invalidated \/ ~bound)
===============================================================================
