-------------------------- MODULE OwnerNotifications --------------------------
(***************************************************************************)
(* Reminders to the owner, from the thing to be reminded of to the message *)
(* the platform accepts: agenda items, commitments, blocked projects and   *)
(* unanswered questions become due, scans turn them into candidates, the   *)
(* policy worker decides each candidate under the owner's rules, and the   *)
(* outbox loop sends the reminders, while the owner moves, completes and   *)
(* dismisses the same things.                                              *)
(*                                                                         *)
(*   repo/mysql_agenda.rs, mysql_follow_up.rs, mysql_follow_up_control/,   *)
(*   mysql_response_expectation_control.rs, mysql_notification_policy.rs,  *)
(*   mysql_notification_candidate_producer.rs, mysql_owner_binding.rs,     *)
(*   domain/notification_policy.rs, notification_policy_service.rs,        *)
(*   notification_policy_worker.rs, adapters/qq_open_platform.rs           *)
(*                                                                         *)
(* One account.  An occurrence <<item, version>> is the unique key of its  *)
(* candidate, of its request of generation 1 and of its outbox row.  Every *)
(* action but the sender's and the policy worker's is one transaction.     *)
(* Scans are bounded by a LIMIT that the items here stay below.            *)
(***************************************************************************)
EXTENDS Integers, Sequences, FiniteSets

CONSTANTS Agenda, Commitments, Blockers, Expectations,
          Families,       \* policy families: a kind and a scope
          Kind,           \* family -> kind
          Covers,         \* family -> items its match key matches
          Rules,          \* rules the owner may write
          Owners,         \* actors the account may be bound to
          Evaluators,     \* policy workers
          Senders,        \* outbox loops
          None,
          MaxItems,       \* bound: items that come into being
          MaxVersion,     \* bound: versions with a due date of an item
          MaxWrites,      \* bound: policy revisions
          MaxFaults       \* bound: restarts, database errors, late leases

FollowUps == Commitments \cup Blockers
Controlled == FollowUps \cup Expectations
Items == Agenda \cup Controlled
Versions == 1..MaxVersion
Occurrences == Items \X Versions
Kinds == {"conversation", "contact", "category", "account_default"}
NoRule == [outcome |-> "none", bypass |-> FALSE, silent |-> FALSE, allow |-> FALSE]
NoOccurrence == <<None, 0>>

ASSUME BoundsAssumption == /\ {MaxItems, MaxWrites, MaxFaults} \subseteq Nat
                           /\ MaxVersion \in Nat \ {0}
ASSUME ItemsAssumption ==
    /\ Agenda \cap Controlled = {} /\ FollowUps \cap Expectations = {}
    /\ Commitments \cap Blockers = {} /\ IsFiniteSet(Items)
ASSUME PolicyAssumption ==
    /\ Kind \in [Families -> Kinds \cup {"quiet_hours"}]
    /\ Covers \in [Families -> SUBSET Items]
    /\ Rules \subseteq [outcome : {"remind", "suppress", "delay"},
                        bypass : BOOLEAN, silent : BOOLEAN, allow : BOOLEAN]

VARIABLES
    source,    \* agenda items, follow-up items, response expectations
    cand,      \* secretary_notification_candidates: candidate_status
    req,       \* secretary_notification_evaluation_requests
    queue,     \* requests by created_at
    epoch,     \* secretary_accounts.policy_epoch
    head,      \* policy families with their current revision
    owner,     \* the active owner binding
    outbox,    \* secretary_notification_outbox
    eval,      \* the evaluation in progress in each policy worker
    sender,    \* the delivery in progress in each outbox loop
    post,      \* what became of the last POST of an occurrence
    accepted,  \* messages the platform accepted, per occurrence
    faults

tables == <<source, cand, req, queue, outbox>>
policy == <<epoch, head, owner>>
wire == <<post, accepted>>
jobs == <<eval, sender>>
vars == <<tables, policy, wire, jobs, faults>>

Absent == [status |-> "absent", version |-> 0, due |-> FALSE, basis |-> "live"]
NoRequest == [status |-> "none", holder |-> None, expired |-> FALSE]
NoRow == [status |-> "none", holder |-> None, expired |-> FALSE, to |-> None]
NoHeads == [f \in Families |-> [generation |-> 0, rule |-> NoRule]]
NoEvaluation == [pc |-> "idle", o |-> NoOccurrence, current |-> FALSE,
                 epoch |-> 0, owner |-> None, heads |-> NoHeads]
NoDelivery == [pc |-> "idle", o |-> NoOccurrence]

Init ==
    /\ source = [i \in Items |-> Absent]
    /\ cand = [o \in Occurrences |-> "none"]
    /\ req = [o \in Occurrences |-> NoRequest]
    /\ queue = <<>> /\ epoch = 0 /\ head = NoHeads /\ owner \in Owners
    /\ outbox = [o \in Occurrences |-> NoRow]
    /\ eval = [w \in Evaluators |-> NoEvaluation]
    /\ sender = [s \in Senders |-> NoDelivery]
    /\ post = [o \in Occurrences |-> "none"]
    /\ accepted = [o \in Occurrences |-> 0]
    /\ faults = 0

-----------------------------------------------------------------------------
(* Scans: sources come into being, end, and become candidates.              *)

Scheduled(i) == source[i].status = "scheduled"
Existing == {i \in Items : source[i].status # "absent"}

(* What the INSERT IGNORE of a scan may bring in: what stands, has no row   *)
(* yet and falls due within the horizon.                                    *)
Entering(S) ==
    {new \in SUBSET {i \in S : source[i] = Absent} :
        Cardinality(Existing \cup new) <= MaxItems}

Entered(due) == [status |-> "scheduled", version |-> 1, due |-> due, basis |-> "live"]
Over(r, status) == [r EXCEPT !.status = status, !.version = @ + 1]

Orders(S) == {s \in [1..Cardinality(S) -> S] : \A a, b \in DOMAIN s : s[a] = s[b] => a = b}

(* A candidate and its request are inserted once per version of a source. *)
produce_from_locked_source(S, sources) ==
    LET new == {o \in Occurrences : /\ o[1] \in S /\ o[2] = sources[o[1]].version
                                    /\ cand[o] = "none"}
    IN /\ cand' = [o \in Occurrences |-> IF o \in new THEN "pending" ELSE cand[o]]
       /\ req' = [o \in Occurrences |-> IF o \in new THEN [NoRequest EXCEPT !.status = "pending"]
                                                     ELSE req[o]]
       /\ \E order \in Orders(new) : queue' = queue \o order

Due(S, sources) == {i \in S : sources[i].status = "scheduled" /\ sources[i].due}

(* The sources after a scan brings in new ones, some of them late already,  *)
(* and ends those of S that lost their basis.                               *)
Scanned(new, late, S) ==
    [i \in Items |-> IF i \in new THEN Entered(i \in late)
                     ELSE IF i \in S /\ Scheduled(i) /\ source[i].basis # "live"
                     THEN Over(source[i], "ended")
                     ELSE source[i]]

Suppressed(row) == [row EXCEPT !.status = "suppressed", !.holder = None, !.expired = FALSE]

(* Ends commitments and blockers alike.  Only rows of the legacy outbox     *)
(* name a follow-up item, so the policy's rows stay.                        *)
scan_commitments ==
    \E new \in Entering(Commitments) : \E late \in SUBSET new :
        /\ source' = Scanned(new, late, FollowUps)
        /\ produce_from_locked_source(Due(Commitments, source'), source')
        /\ UNCHANGED <<outbox, policy, wire, jobs, faults>>

scan_response_expectations ==
    \E new \in Entering(Expectations) : \E late \in SUBSET new :
        /\ source' = Scanned(new, late, Expectations)
        /\ outbox' = [o \in Occurrences |->
                        IF /\ o[1] \in Expectations /\ source'[o[1]].status # "scheduled"
                           /\ outbox[o].status \in {"pending", "failed"}
                        THEN Suppressed(outbox[o]) ELSE outbox[o]]
        /\ produce_from_locked_source(Due(Expectations, source'), source')
        /\ UNCHANGED <<policy, wire, jobs, faults>>

scan_project_blockers ==
    \E new \in Entering(Blockers) : \E late \in SUBSET new :
        /\ source' = Scanned(new, late, {})
        /\ produce_from_locked_source(
               {i \in Due(Blockers, source') : source'[i].basis = "live"}, source')
        /\ UNCHANGED <<outbox, policy, wire, jobs, faults>>

produce_due_notification_candidates ==
    /\ produce_from_locked_source(Due(Agenda, source), source)
    /\ UNCHANGED <<source, outbox, policy, wire, jobs, faults>>

(* Time passes, and facts and questions change under the items that rest on *)
(* them: "settled" is a fulfilled or cancelled commitment, or a question    *)
(* that was answered and is still open; "gone" is a superseded fact or a    *)
(* question no longer open.                                                 *)
FallsDue(i) ==
    /\ Scheduled(i) /\ ~source[i].due
    /\ source' = [source EXCEPT ![i].due = TRUE]
    /\ UNCHANGED <<cand, req, queue, outbox, policy, wire, jobs, faults>>

BasisLapses(i, basis) ==
    /\ Scheduled(i) /\ i \in Controlled
    /\ \/ source[i].basis = "live" /\ basis = "gone"
       \/ source[i].basis = "live" /\ basis = "settled" /\ i \notin Blockers
       \/ source[i].basis = "settled" /\ basis = "gone"
    /\ source' = [source EXCEPT ![i].basis = basis]
    /\ UNCHANGED <<cand, req, queue, outbox, policy, wire, jobs, faults>>

-----------------------------------------------------------------------------
(* The owner's effects, each in one transaction with its receipt.           *)

Moved(r) == [r EXCEPT !.version = @ + 1, !.due = FALSE]

AgendaCreate(i) ==
    /\ i \in Agenda /\ source[i].status = "absent"
    /\ Cardinality(Existing) < MaxItems
    /\ source' = [source EXCEPT ![i] = Entered(FALSE)]
    /\ UNCHANGED <<cand, req, queue, outbox, policy, wire, jobs, faults>>

(* Reschedule and snooze.  suppress_old_notifications reaches rows of the   *)
(* legacy outbox only, and neither looks at what is being sent.             *)
AgendaReschedule(i) ==
    /\ i \in Agenda /\ Scheduled(i) /\ source[i].version < MaxVersion
    /\ source' = [source EXCEPT ![i] = Moved(@)]
    /\ UNCHANGED <<cand, req, queue, outbox, policy, wire, jobs, faults>>

AgendaEnd(i) ==
    /\ i \in Agenda /\ Scheduled(i)
    /\ source' = [source EXCEPT ![i] = Over(@, "closed")]
    /\ UNCHANGED <<cand, req, queue, outbox, policy, wire, jobs, faults>>

(* Mutant: a row in flight is no obstacle. *)
lock_and_check_outbox_Sent(targets) ==
    \A o \in Occurrences : o[1] \in targets => outbox[o].status # "unknown_commit"

(* Nothing of the targets is being sent or may have been. *)
lock_and_check_outbox(targets) ==
    \A o \in Occurrences :
        o[1] \in targets => outbox[o].status \notin {"claimed", "unknown_commit"}

suppress_pending_outbox(targets) ==
    outbox' = [o \in Occurrences |->
                  IF o[1] \in targets /\ outbox[o].status \in {"pending", "failed"}
                  THEN Suppressed(outbox[o]) ELSE outbox[o]]

Closed(targets) ==
    [i \in Items |-> IF i \in targets THEN Over(source[i], "closed") ELSE source[i]]
Postponed(targets) ==
    [i \in Items |-> IF i \in targets THEN Moved(source[i]) ELSE source[i]]

(* All targets or none: each scheduled, in the version the owner approved. *)
Control(targets, sources) ==
    /\ targets # {} /\ \A i \in targets : Scheduled(i)
    /\ lock_and_check_outbox(targets)
    /\ source' = sources
    /\ suppress_pending_outbox(targets)
    /\ UNCHANGED <<cand, req, queue, policy, wire, jobs, faults>>

DismissFollowUps(targets) ==
    /\ targets \subseteq FollowUps
    /\ Control(targets, Closed(targets))

SnoozeFollowUps(targets) ==
    /\ targets \subseteq FollowUps
    /\ \A i \in targets : source[i].version < MaxVersion
    /\ Control(targets, Postponed(targets))

(* A commitment is completed with its fact, which must still be confirmed;  *)
(* the fact that supersedes it is not read for an item that is closed.      *)
CompleteFollowUps(targets) ==
    /\ targets \subseteq FollowUps
    /\ \A i \in targets \cap Commitments : source[i].basis # "gone"
    /\ Control(targets, Closed(targets))

DismissExpectations(targets) ==
    /\ targets \subseteq Expectations
    /\ Control(targets, Closed(targets))

-----------------------------------------------------------------------------
(* Policy.  Every revision, tombstones included, takes the next generation  *)
(* of its family and the next epoch of the account.                         *)

append_revision(f, rule) ==
    /\ epoch < MaxWrites
    /\ epoch' = epoch + 1
    /\ head' = [head EXCEPT ![f] =
                  [generation |-> IF @.generation = 0 THEN 2 ELSE @.generation + 1,
                   rule |-> rule]]
    /\ UNCHANGED <<tables, owner, wire, jobs, faults>>

create_or_replace(f, rule) ==
    /\ rule.silent => Kind[f] = "conversation"
    /\ append_revision(f, rule)

disable(f) == head[f].generation > 0 /\ append_revision(f, NoRule)

(* Feedback on a candidate that the owner wants kept as a rule. *)
promote_feedback_to_rule(f, o, important) ==
    /\ cand[o] # "none" /\ Kind[f] # "quiet_hours" /\ o[1] \in Covers[f]
    /\ append_revision(f, [NoRule EXCEPT !.outcome = IF important THEN "remind" ELSE "suppress"])

-----------------------------------------------------------------------------
(* What the rules say of a candidate (NotificationPolicyEvaluator).         *)

Active(heads, kind) == {f \in Families : Kind[f] = kind /\ heads[f].rule # NoRule}
Matching(heads, kind, i) == {f \in Active(heads, kind) : i \in Covers[f]}

(* Two rules of one kind: no plan is made. *)
AmbiguousPolicyRules(heads, i) ==
    \/ \E kind \in Kinds : Cardinality(Matching(heads, kind, i)) > 1
    \/ Cardinality(Active(heads, "quiet_hours")) > 1

selected_rule(heads, i) ==
    LET first(a, b) == IF a # {} THEN a ELSE b
    IN first(Matching(heads, "conversation", i),
       first(Matching(heads, "contact", i),
       first(Matching(heads, "category", i), Matching(heads, "account_default", i))))

(* hours: where the moment of evaluation lies with respect to a configured  *)
(* quiet-hours rule; "unclear" is a local time that is ambiguous or invalid.*)
Hours == {"outside", "inside", "unclear"}

evaluate(heads, i, current, hours) ==
    LET rule == {heads[f].rule : f \in selected_rule(heads, i)}
        silent == {heads[f].rule : f \in Matching(heads, "conversation", i)}
        quiet == {heads[f].rule : f \in Active(heads, "quiet_hours")}
    IN CASE ~current -> "expired"
         [] \E r \in silent : r.silent /\ ~(r.bypass /\ r.allow) -> "suppress"
         [] quiet # {} /\ hours = "inside"
            /\ ~\E r \in rule, q \in quiet : r.bypass /\ q.allow -> "suppress"
         [] quiet # {} /\ hours = "unclear" -> "failed"
         [] rule # {} -> (CHOOSE r \in rule : TRUE).outcome
         [] OTHER -> "remind"

CandidateStatus(outcome) ==
    CASE outcome = "remind" -> "reminded"
      [] outcome = "suppress" -> "suppressed"
      [] outcome = "expired" -> "expired"
      [] OTHER -> "failed_terminal"

-----------------------------------------------------------------------------
(* The policy worker: claim, two reads, evaluation and commit.              *)

Claimable(o) == \/ req[o].status = "pending"
                \/ req[o].status = "claimed" /\ req[o].expired

Oldest(o) == \E n \in DOMAIN queue :
                /\ queue[n] = o /\ Claimable(o)
                /\ \A m \in 1..(n - 1) : ~Claimable(queue[m])

claim_evaluation(w) ==
    /\ eval[w].pc = "idle"
    /\ \E o \in Occurrences :
          /\ Oldest(o)
          /\ req' = [req EXCEPT ![o] = [status |-> "claimed", holder |-> w, expired |-> FALSE]]
          /\ eval' = [eval EXCEPT ![w] = [NoEvaluation EXCEPT !.pc = "claimed", !.o = o]]
    /\ UNCHANGED <<source, cand, queue, outbox, policy, wire, sender, faults>>

Holds(w) == req[eval[w].o] = [status |-> "claimed", holder |-> w, expired |-> FALSE]

LoadCandidate(w) ==
    /\ eval[w].pc = "claimed" /\ Holds(w)
    /\ eval' = [eval EXCEPT ![w] =
                  [pc |-> "read", o |-> @.o, current |-> (cand[@.o] = "pending"),
                   epoch |-> epoch, owner |-> owner, heads |-> NoHeads]]
    /\ UNCHANGED <<tables, policy, wire, sender, faults>>

LoadHeads(w) ==
    /\ eval[w].pc = "read"
    /\ eval' = [eval EXCEPT ![w].pc = "loaded", ![w].heads = head]
    /\ UNCHANGED <<tables, policy, wire, sender, faults>>

source_is_current(o) ==
    /\ Scheduled(o[1]) /\ source[o[1]].version = o[2]
    /\ o[1] \in FollowUps => source[o[1]].basis = "live"

(* Mutant: only the families that were read are compared. *)
SnapshotStale_Heads(w) ==
    \/ cand[eval[w].o] # "pending"
    \/ ~source_is_current(eval[w].o)
    \/ eval[w].owner # owner
    \/ \E f \in Families : eval[w].heads[f].generation # 0 /\ eval[w].heads[f] # head[f]

SnapshotStale(w) ==
    \/ eval[w].epoch # epoch
    \/ cand[eval[w].o] # "pending"
    \/ ~source_is_current(eval[w].o)
    \/ eval[w].owner # owner
    \/ \E f \in Families : eval[w].heads[f].generation # 0 /\ eval[w].heads[f] # head[f]

CanCommit(w) == /\ eval[w].pc = "loaded" /\ Holds(w)
                /\ ~AmbiguousPolicyRules(eval[w].heads, eval[w].o[1])

(* The request goes back as it was: same place in the queue, no delay. *)
requeue_stale_request(w) ==
    /\ CanCommit(w) /\ SnapshotStale(w)
    /\ req' = [req EXCEPT ![eval[w].o] = [NoRequest EXCEPT !.status = "pending"]]
    /\ eval' = [eval EXCEPT ![w] = NoEvaluation]
    /\ UNCHANGED <<source, cand, queue, outbox, policy, wire, sender, faults>>

Outcome(w, hours) == evaluate(eval[w].heads, eval[w].o[1], eval[w].current, hours)

commit_evaluation(w, hours) ==
    LET o == eval[w].o
        outcome == Outcome(w, hours)
    IN /\ CanCommit(w) /\ ~SnapshotStale(w) /\ outcome # "delay"
       /\ cand' = [cand EXCEPT ![o] = CandidateStatus(outcome)]
       /\ req' = [req EXCEPT ![o] = [NoRequest EXCEPT !.status =
                                       IF outcome = "remind" THEN "completed" ELSE "terminal"]]
       /\ outbox' = IF outcome = "remind" /\ outbox[o].status = "none"
                    THEN [outbox EXCEPT ![o] = [NoRow EXCEPT !.status = "pending",
                                                             !.to = eval[w].owner]]
                    ELSE outbox
       /\ eval' = [eval EXCEPT ![w] = NoEvaluation]
       /\ UNCHANGED <<source, queue, policy, wire, sender, faults>>

(* An evaluation that ends in an error or without its lease leaves the      *)
(* request claimed.  A rule with the outcome "delay" is such an error: the  *)
(* evaluator never says until when, and the commit refuses that.            *)
EvaluationFails(w) ==
    /\ \/ eval[w].pc \in {"claimed", "loaded"} /\ ~Holds(w) /\ faults' = faults
       \/ /\ eval[w].pc = "loaded" /\ faults' = faults
          /\ \/ AmbiguousPolicyRules(eval[w].heads, eval[w].o[1])
             \/ CanCommit(w) /\ ~SnapshotStale(w) /\ \E h \in Hours : Outcome(w, h) = "delay"
       \/ eval[w].pc # "idle" /\ faults < MaxFaults /\ faults' = faults + 1
    /\ eval' = [eval EXCEPT ![w] = NoEvaluation]
    /\ UNCHANGED <<tables, policy, wire, sender>>

EvaluationLeaseExpires(o) ==
    /\ req[o].status = "claimed" /\ ~req[o].expired
    /\ req' = [req EXCEPT ![o].expired = TRUE]
    /\ UNCHANGED <<source, cand, queue, outbox, policy, wire, jobs, faults>>

-----------------------------------------------------------------------------
(* The outbox loop: claim, send, record the answer.                         *)

(* Mutant: a row decided for the account, whoever it is bound to now. *)
Deliverable_Unbound(o) ==
    /\ outbox[o].status = "pending" /\ cand[o] = "reminded" /\ req[o].status = "completed"
    /\ source_is_current(o)
    /\ o[1] \in Expectations => source[o[1]].basis # "gone"

Deliverable(o) ==
    /\ outbox[o].status = "pending" /\ outbox[o].to = owner
    /\ cand[o] = "reminded" /\ req[o].status = "completed"
    /\ source_is_current(o)
    /\ o[1] \in Expectations => source[o[1]].basis # "gone"

Swept(row) ==
    IF row.status = "claimed" /\ row.expired
    THEN [row EXCEPT !.status = "unknown_commit", !.holder = None, !.expired = FALSE]
    ELSE row

(* Every claim gives up the rows whose lease ran out first.  A row that     *)
(* waits out its backoff is not found, so the claim may come back empty.    *)
claim_due_notification(s) ==
    /\ sender[s].pc = "idle"
    /\ LET swept == [o \in Occurrences |-> Swept(outbox[o])]
       IN \/ outbox' = swept /\ UNCHANGED <<sender, post>>
          \/ \E o \in Occurrences :
                /\ Deliverable(o)
                /\ outbox' = [swept EXCEPT ![o].status = "claimed", ![o].holder = s]
                /\ sender' = [sender EXCEPT ![s] = [pc |-> "sending", o |-> o]]
                /\ post' = [post EXCEPT ![o] = "wire"]
    /\ UNCHANGED <<source, cand, req, queue, policy, accepted, eval, faults>>

(* The platform gets the POST, now, later or never. *)
Platform(o, verdict) ==
    /\ post[o] = "wire"
    /\ post' = [post EXCEPT ![o] = verdict]
    /\ accepted' = [accepted EXCEPT ![o] = IF verdict = "accepted" THEN @ + 1 ELSE @]
    /\ UNCHANGED <<tables, policy, jobs, faults>>

(* Only the loop that holds the row records an answer for it. *)
Recorded(s, unexpired, status) ==
    LET o == sender[s].o
    IN /\ outbox' = IF /\ outbox[o].status = "claimed" /\ outbox[o].holder = s
                       /\ unexpired => ~outbox[o].expired
                    THEN [outbox EXCEPT ![o].status = status, ![o].holder = None,
                                        ![o].expired = FALSE]
                    ELSE outbox
       /\ sender' = [sender EXCEPT ![s] = NoDelivery]
       /\ UNCHANGED <<source, cand, req, queue, policy, wire, eval, faults>>

mark_notification_delivered(s) ==
    /\ sender[s].pc = "sending" /\ post[sender[s].o] = "accepted"
    /\ Recorded(s, TRUE, "delivered")

(* Mutant: an answer that cannot be read is a reason to try again. *)
FailureKinds_Unread(verdict) ==
    CASE verdict \in {"limited", "accepted"} -> {"retryable"}
      [] verdict = "rejected" -> {"permanent"}
      [] OTHER -> {"unknown"}

(* What the answer says of the POST; a broken connection or a 5xx may come  *)
(* whatever became of it, and a receipt without a usable message id counts  *)
(* as a refusal (classify_delivery_failure).                                *)
FailureKinds(verdict) ==
    CASE verdict = "limited" -> {"retryable"}
      [] verdict = "rejected" -> {"permanent"}
      [] verdict = "accepted" -> {"unknown", "permanent"}
      [] OTHER -> {"unknown"}

mark_notification_failed(s, kind) ==
    /\ sender[s].pc = "sending" /\ kind \in FailureKinds(post[sender[s].o])
    /\ CASE kind = "retryable" -> Recorded(s, TRUE, "pending")
         [] kind = "permanent" -> Recorded(s, FALSE, "failed")
         [] kind = "unknown"   -> Recorded(s, FALSE, "unknown_commit")

DeliveryLeaseExpires(o) ==
    /\ outbox[o].status = "claimed" /\ ~outbox[o].expired
    /\ outbox' = [outbox EXCEPT ![o].expired = TRUE]
    /\ UNCHANGED <<source, cand, req, queue, policy, wire, jobs, faults>>

(* The receipt of an answer is not stored. *)
ReceiptLost(s) ==
    /\ sender[s].pc = "sending" /\ faults < MaxFaults
    /\ faults' = faults + 1
    /\ sender' = [sender EXCEPT ![s] = NoDelivery]
    /\ UNCHANGED <<tables, policy, wire, eval>>

(* The process dies and starts again, for the same owner or, with another   *)
(* configuration, for another one.                                          *)
Restart(a) ==
    /\ faults < MaxFaults
    /\ faults' = faults + 1
    /\ owner' = a
    /\ req' = [o \in Occurrences |-> IF req[o].status = "claimed" /\ req[o].expired
                                     THEN [NoRequest EXCEPT !.status = "pending"] ELSE req[o]]
    /\ eval' = [w \in Evaluators |-> NoEvaluation]
    /\ sender' = [s \in Senders |-> NoDelivery]
    /\ UNCHANGED <<source, cand, queue, outbox, epoch, head, wire>>

-----------------------------------------------------------------------------
Sources == \/ scan_commitments \/ scan_response_expectations \/ scan_project_blockers
           \/ produce_due_notification_candidates
           \/ \E i \in Items : \/ FallsDue(i)
                               \/ \E basis \in {"settled", "gone"} : BasisLapses(i, basis)

OwnerActs ==
    \/ \E i \in Agenda : AgendaCreate(i) \/ AgendaReschedule(i) \/ AgendaEnd(i)
    \/ \E targets \in SUBSET FollowUps :
          \/ DismissFollowUps(targets) \/ SnoozeFollowUps(targets)
          \/ CompleteFollowUps(targets)
    \/ \E targets \in SUBSET Expectations : DismissExpectations(targets)
    \/ \E f \in Families :
          \/ \E rule \in Rules : create_or_replace(f, rule)
          \/ disable(f)
          \/ \E o \in Occurrences, important \in BOOLEAN :
                promote_feedback_to_rule(f, o, important)

Evaluates(w) == \/ claim_evaluation(w) \/ LoadCandidate(w) \/ LoadHeads(w)
                \/ requeue_stale_request(w) \/ EvaluationFails(w)
                \/ \E hours \in Hours : commit_evaluation(w, hours)

Answered(s) == \/ mark_notification_delivered(s)
               \/ \E kind \in {"retryable", "permanent", "unknown"} :
                     mark_notification_failed(s, kind)

Next == \/ Sources \/ OwnerActs
        \/ \E w \in Evaluators : Evaluates(w)
        \/ \E s \in Senders : claim_due_notification(s) \/ Answered(s) \/ ReceiptLost(s)
        \/ \E o \in Occurrences :
              \/ EvaluationLeaseExpires(o) \/ DeliveryLeaseExpires(o)
              \/ \E verdict \in {"accepted", "limited", "rejected"} : Platform(o, verdict)
        \/ \E a \in Owners : Restart(a)

Spec == Init /\ [][Next]_vars

-----------------------------------------------------------------------------
SourceRows == [status : {"absent", "scheduled", "ended", "closed"},
               version : 0..(MaxVersion + 1), due : BOOLEAN,
               basis : {"live", "settled", "gone"}]
RequestRows == [status : {"none", "pending", "claimed", "completed", "terminal"},
                holder : Evaluators \cup {None}, expired : BOOLEAN]
OutboxRows == [status : {"none", "pending", "claimed", "delivered", "failed",
                         "unknown_commit", "suppressed"},
               holder : Senders \cup {None}, expired : BOOLEAN, to : Owners \cup {None}]
Heads == [Families -> [generation : Nat, rule : Rules \cup {NoRule}
             \cup [outcome : {"remind", "suppress"}, bypass : {FALSE},
                   silent : {FALSE}, allow : {FALSE}]]]

SourcesOK ==
    /\ source \in [Items -> SourceRows]
    /\ \A i \in Items : Scheduled(i) => source[i].version \in Versions

RequestsOK ==
    /\ cand \in [Occurrences -> {"none", "pending", "reminded", "suppressed", "expired",
                                 "failed_terminal"}]
    /\ req \in [Occurrences -> RequestRows]
    /\ queue \in Seq(Occurrences)

OutboxOK ==
    /\ outbox \in [Occurrences -> OutboxRows]
    /\ sender \in [Senders -> [pc : {"idle", "sending"}, o : Occurrences \cup {NoOccurrence}]]
    /\ \A s \in Senders : sender[s].pc = "sending" => sender[s].o \in Occurrences
    /\ post \in [Occurrences -> {"none", "wire", "accepted", "limited", "rejected"}]
    /\ accepted \in [Occurrences -> Nat]

EvaluationsOK ==
    /\ epoch \in Nat /\ head \in Heads /\ owner \in Owners /\ faults \in 0..MaxFaults
    /\ eval \in [Evaluators -> [pc : {"idle", "claimed", "read", "loaded"},
                                o : Occurrences \cup {NoOccurrence}, current : BOOLEAN,
                                epoch : Nat, owner : Owners \cup {None}, heads : Heads]]
    /\ \A w \in Evaluators : eval[w].pc # "idle" => eval[w].o \in Occurrences

(* Every table and every job keeps its type: a claimed occurrence exists, a  *)
(* scheduled source is in one of its versions, a status is one of its column *)
(* (candidate_status_name).                                                  *)
TypeOK == SourcesOK /\ RequestsOK /\ OutboxOK /\ EvaluationsOK

(* No reminder reaches the owner twice: whatever is lost between the POST,   *)
(* its answer and the receipt, a row that may have been sent is not claimed  *)
(* again (claim_due_notification, mark_notification_failed).                 *)
AtMostOneSend == \A o \in Occurrences : accepted[o] <= 1

(* What the owner dismissed, completed or snoozed is not sent later: no row  *)
(* of a withdrawn version is left to be claimed, and no POST of one is still *)
(* under way, because the control refuses while a row is in flight or may    *)
(* have been sent (lock_and_check_outbox, suppress_pending_outbox).          *)
Withdrawn(o) == LET r == source[o[1]]
                IN \/ r.status = "closed"
                   \/ r.status = "scheduled" /\ o[2] < r.version
ControlWithdraws ==
    \A o \in Occurrences :
        o[1] \in Controlled /\ Withdrawn(o)
          => /\ outbox[o].status \in {"none", "delivered", "suppressed"}
             /\ post[o] # "wire"

(* A message on its way is for the owner the account is bound to now, also   *)
(* when it was decided for the former one and the process was restarted.     *)
SentToOwner == \A s \in Senders :
                  sender[s].pc = "sending" => outbox[sender[s].o].to = owner

(* A candidate is decided as the rules in force at that moment say, however  *)
(* long ago the worker read them, and only while its source is due in that   *)
(* version (commit_evaluation).                                              *)
DecidedUnderCurrentPolicy ==
    [][\A o \in Occurrences :
          cand'[o] # cand[o] /\ cand[o] # "none"
            => /\ cand[o] = "pending" /\ source_is_current(o)
               /\ \E hours \in Hours :
                     cand'[o] = CandidateStatus(evaluate(head, o[1], TRUE, hours))
      ]_vars

(* A row that was delivered, withdrawn or may have been delivered stays that *)
(* way: no late answer and no scan brings it back.                           *)
SettledRowStays ==
    [][\A o \in Occurrences :
          outbox[o].status \in {"delivered", "suppressed", "unknown_commit"}
            => outbox'[o].status = outbox[o].status]_vars
===============================================================================
