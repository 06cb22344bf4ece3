---------------------------- MODULE InboundStore ----------------------------
(***************************************************************************)
(* What MySQL holds of a message besides its row: the tombstone of a       *)
(* recall that may come first, the artifact of its attachment, the job     *)
(* that derives that artifact, and the cursors that say how far the live   *)
(* connection has come.                                                    *)
(*                                                                         *)
(*   repo/mysql_inbound.rs, mysql_recall.rs, mysql_artifact.rs,            *)
(*   mysql_artifact_derivation_helpers.inc.rs, mysql_artifact_reprocess.rs,*)
(*   application/ingestion_worker.rs, application/artifact_ttl_worker.rs   *)
(*                                                                         *)
(* Every message transaction updates the row of the account first, and a   *)
(* recall meets a message on the row of the conversation or of the event:  *)
(* each transaction is one step.  A message has one attachment.  A batch   *)
(* of messages is the sequence of its messages.                            *)
(***************************************************************************)
EXTENDS Naturals, Sequences, FiniteSets

CONSTANTS Messages, Conversations, None,
          Conv,          \* the conversation of a message
          Time,          \* occurred_at_unix_secs of a message
          MaxFaults      \* bound: kills, failed transactions, slow derivers

(* What the constants are to satisfy; an instance assumes it. *)
StoreAssumption ==
    /\ Conv \in [Messages -> Conversations]
    /\ Time \in [Messages -> Nat]
    /\ None \notin Messages
    /\ "account" \notin Conversations
    /\ MaxFaults \in Nat

VARIABLES
    stored,    \* messages with a source event and its content, in created_at order
    tomb,      \* secretary_message_tombstones, by message
    art,       \* availability of the artifact of a message
    deriv,     \* secretary_artifact_derivations, by message
    deriver,   \* the derivation under way in the worker
    hook,      \* what fire_post_hooks has still to do for a message
    connected, \* the connection epoch of live messages is connected
    cursor,    \* secretary_ingestion_cursors, by scope
    live,      \* messages accepted from the live connection
    early,     \* messages whose derivation was claimed before their recall
    faults

recalls == <<tomb, art>>
jobs == <<deriv, deriver, early>>
ingest == <<connected, cursor, live>>
vars == <<stored, recalls, jobs, hook, ingest, faults>>

NoJob == [status |-> "none", lease |-> FALSE]
Idle == [pc |-> "idle", m |-> None, recalled |-> FALSE]

Init ==
    /\ stored = <<>> /\ tomb = [m \in Messages |-> "none"]
    /\ art = [m \in Messages |-> "none"]
    /\ deriv = [m \in Messages |-> NoJob] /\ deriver = Idle /\ early = {}
    /\ hook = [m \in Messages |-> "none"]
    /\ connected = TRUE /\ cursor = [s \in Conversations \cup {"account"} |-> None]
    /\ live = {} /\ faults = 0

Fault == faults < MaxFaults /\ faults' = faults + 1
Stored == {stored[k] : k \in DOMAIN stored}

-----------------------------------------------------------------------------
(* Messages.                                                                *)

(* UPDATE ... SET availability = 'recalled' ... AND availability = 'available'. *)
invalidate_artifacts_for_source(m) ==
    IF art[m] = "available" THEN [art EXCEPT ![m] = "recalled"] ELSE art

(* apply_pending_tombstone_in_txn *)
apply_pending_tombstone(m) ==
    /\ tomb' = IF tomb[m] = "pending" THEN [tomb EXCEPT ![m] = "applied"] ELSE tomb
    /\ art' = IF tomb[m] = "pending" THEN invalidate_artifacts_for_source(m) ELSE art

Scopes(m) == {"account", Conv[m]}

(* upsert_cursor: an older message leaves the cursor where it is. *)
upsert_cursor(s, m) == IF cursor[s] # None /\ Time[m] < Time[cursor[s]] THEN cursor[s] ELSE m

record_ingestion_continuity(m) ==
    /\ connected
    /\ cursor' = [s \in DOMAIN cursor |->
                     IF s \in Scopes(m) THEN upsert_cursor(s, m) ELSE cursor[s]]
    /\ live' = live \cup {m}

(* process_message_in_transaction, Accepted.  A message of the live         *)
(* connection is refused unless its epoch is connected; history and the     *)
(* gateway carry no epoch.                                                  *)
Accept(m, from_live) ==
    /\ m \notin Stored
    /\ stored' = Append(stored, m)
    /\ deriv' = [deriv EXCEPT ![m].status = "pending"]
    /\ IF from_live THEN record_ingestion_continuity(m) ELSE UNCHANGED <<cursor, live>>
    /\ apply_pending_tombstone(m)
    /\ hook' = [hook EXCEPT ![m] = "recall"]
    /\ UNCHANGED <<deriver, early, connected, faults>>

(* The same, Duplicate: the outcome fires the hooks again. *)
Duplicate(m) ==
    /\ m \in Stored
    /\ apply_pending_tombstone(m)
    /\ hook' = [hook EXCEPT ![m] = "recall"]
    /\ UNCHANGED <<stored, jobs, ingest, faults>>

(* Hooks of the ingestion worker: RecallUseCase::on_message_ingested, then  *)
(* ArtifactUseCase::create.                                                 *)
maybe_apply_pending_recall(m) ==
    /\ hook[m] = "recall" /\ hook' = [hook EXCEPT ![m] = "artifact"]
    /\ apply_pending_tombstone(m)
    /\ UNCHANGED <<stored, jobs, ingest, faults>>

create_artifact_Unchecked(m) ==
    /\ hook[m] = "artifact" /\ hook' = [hook EXCEPT ![m] = "none"]
    /\ art' = IF art[m] # "none" THEN art ELSE [art EXCEPT ![m] = "available"]
    /\ UNCHANGED <<stored, tomb, jobs, ingest, faults>>

(* create_artifact locks the source event and asks for the tombstone before *)
(* INSERT IGNORE.                                                           *)
create_artifact(m) ==
    /\ hook[m] = "artifact" /\ hook' = [hook EXCEPT ![m] = "none"]
    /\ art' = IF art[m] # "none" THEN art
              ELSE [art EXCEPT ![m] = IF tomb[m] = "applied" THEN "recalled" ELSE "available"]
    /\ UNCHANGED <<stored, tomb, jobs, ingest, faults>>

(* A hook fails: the rest is left to the derivation job. *)
HookFails(m) ==
    /\ hook[m] # "none" /\ Fault /\ hook' = [hook EXCEPT ![m] = "none"]
    /\ UNCHANGED <<stored, recalls, jobs, ingest>>

EpochEnds == /\ connected /\ connected' = FALSE
             /\ UNCHANGED <<stored, recalls, jobs, hook, cursor, live, faults>>

EpochBegins == /\ ~connected /\ Fault /\ connected' = TRUE
               /\ UNCHANGED <<stored, recalls, jobs, hook, cursor, live>>

-----------------------------------------------------------------------------
(* Recalls.  record_recall returns at once when the recall is known.        *)

record_recall(m) ==
    /\ tomb[m] = "none"
    /\ tomb' = [tomb EXCEPT ![m] = IF m \in Stored THEN "applied" ELSE "pending"]
    /\ art' = IF m \in Stored THEN invalidate_artifacts_for_source(m) ELSE art
    /\ UNCHANGED <<stored, jobs, hook, ingest, faults>>

-----------------------------------------------------------------------------
(* The artifact worker: derive_pending, then expire_due.                    *)

(* claim_artifact_derivation: jobs whose lease has run out go back first;   *)
(* `recalled` is read in the claim's transaction.                           *)
Due(m) == \/ deriv[m].status = "pending"
          \/ deriv[m].status = "claimed" /\ ~deriv[m].lease

claim_artifact_derivation(m) ==
    /\ deriver.pc = "idle"
    /\ \E k \in DOMAIN stored : /\ stored[k] = m /\ Due(m)
                              /\ \A j \in 1..(k - 1) : ~Due(stored[j])
    /\ deriv' = [k \in Messages |->
                    IF k = m THEN [status |-> "claimed", lease |-> TRUE]
                    ELSE IF Due(k) THEN [status |-> "pending", lease |-> FALSE] ELSE deriv[k]]
    /\ deriver' = [pc |-> "derive", m |-> m, recalled |-> tomb[m] = "applied"]
    /\ early' = IF tomb[m] = "applied" THEN early ELSE early \cup {m}
    /\ UNCHANGED <<stored, recalls, hook, ingest, faults>>

(* derive_claimed_artifacts: INSERT IGNORE with what the claim has read. *)
derive_claimed_artifacts ==
    /\ deriver.pc = "derive"
    /\ art' = IF art[deriver.m] # "none" THEN art
              ELSE [art EXCEPT ![deriver.m] = IF deriver.recalled THEN "recalled" ELSE "available"]
    /\ deriver' = [deriver EXCEPT !.pc = "completed"]
    /\ UNCHANGED <<stored, tomb, deriv, early, hook, ingest, faults>>

(* The segments do not decode, or the transaction fails. *)
DeriveFails ==
    /\ deriver.pc = "derive" /\ Fault
    /\ \E pc \in {"failed", "pending"} : deriver' = [deriver EXCEPT !.pc = pc]
    /\ UNCHANGED <<stored, recalls, deriv, early, hook, ingest>>

(* update_derivation_status, on the lease token of the claim.  Nobody else  *)
(* claims while this worker is slow: there is one per process.              *)
update_derivation_status ==
    /\ deriver.pc \in {"completed", "failed", "pending"}
    /\ deriv' = [deriv EXCEPT ![deriver.m] = [status |-> deriver.pc, lease |-> FALSE]]
    /\ deriver' = Idle
    /\ UNCHANGED <<stored, recalls, early, hook, ingest, faults>>

(* expire_due, once the time to live of an artifact has passed. *)
expire_due(due) ==
    /\ due # {} /\ \A m \in due : art[m] = "available"
    /\ art' = [m \in Messages |-> IF m \in due THEN "expired" ELSE art[m]]
    /\ UNCHANGED <<stored, tomb, jobs, hook, ingest, faults>>

(* The owner's RetryFailedArtifactDerivations: apply_effect of              *)
(* mysql_artifact_reprocess.rs.                                             *)
retry_failed_derivations ==
    /\ \E m \in Messages : deriv[m].status = "failed"
    /\ deriv' = [m \in Messages |-> IF deriv[m].status = "failed"
                                    THEN [deriv[m] EXCEPT !.status = "pending"] ELSE deriv[m]]
    /\ UNCHANGED <<stored, recalls, deriver, early, hook, ingest, faults>>

(* The process dies; the lease of its job stays and runs out. *)
Kill ==
    /\ Fault /\ deriver' = Idle /\ hook' = [m \in Messages |-> "none"]
    /\ UNCHANGED <<stored, recalls, deriv, early, ingest>>

LeaseEnds(m) ==
    /\ deriv[m].lease
    /\ deriv' = [deriv EXCEPT ![m].lease = FALSE]
    /\ UNCHANGED <<stored, recalls, deriver, early, hook, ingest, faults>>

Next ==
    \/ \E m \in Messages : \/ \E from_live \in BOOLEAN : Accept(m, from_live)
                           \/ Duplicate(m) \/ record_recall(m)
                           \/ maybe_apply_pending_recall(m) \/ create_artifact(m) \/ HookFails(m)
                           \/ claim_artifact_derivation(m) \/ LeaseEnds(m)
    \/ derive_claimed_artifacts \/ DeriveFails \/ update_derivation_status
    \/ \E due \in SUBSET Messages : expire_due(due)
    \/ retry_failed_derivations \/ Kill \/ EpochEnds \/ EpochBegins

Spec == Init /\ [][Next]_vars

(* The scan of the artifact worker is repeated until the shutdown, and a    *)
(* lease runs out.                                                          *)
Live == /\ WF_vars(derive_claimed_artifacts) /\ WF_vars(update_derivation_status)
        /\ WF_vars(\E m \in Messages : claim_artifact_derivation(m))
        /\ \A m \in Messages : WF_vars(LeaseEnds(m))

LiveSpec == Spec /\ Live

-----------------------------------------------------------------------------
Jobs == [status : {"none", "pending", "claimed", "completed", "failed"}, lease : BOOLEAN]

TypeOK ==
    /\ stored \in Seq(Messages) /\ live \subseteq Stored
    /\ tomb \in [Messages -> {"none", "pending", "applied"}]
    /\ art \in [Messages -> {"none", "available", "recalled", "expired"}]
    /\ deriv \in [Messages -> Jobs]
    /\ deriver \in [pc : {"idle", "derive", "completed", "failed", "pending"},
                    m : Messages \cup {None}, recalled : BOOLEAN]
    /\ hook \in [Messages -> {"none", "recall", "artifact"}]
    /\ connected \in BOOLEAN
    /\ cursor \in [Conversations \cup {"account"} -> Messages \cup {None}]
    /\ early \subseteq Messages /\ faults \in 0..MaxFaults

(* A recall reaches its message in whichever order the two arrive: once     *)
(* both are stored, the tombstone is applied.                               *)
RecallReachesMessage == \A m \in Stored : tomb[m] # "pending"

(* A message whose recall was applied before its derivation was claimed     *)
(* never has an available artifact, whatever hooks, retries, kills or       *)
(* redeliveries come between.                                               *)
RecalledHidden ==
    \A m \in Messages : tomb[m] = "applied" /\ art[m] = "available" => m \in early

(* The same without the exception, as the comment of the message            *)
(* transaction has it: never a tombstone 'applied' with an artifact         *)
(* 'available'.                                                             *)
NoAvailableArtifactOfRecalled ==
    \A m \in Messages : tomb[m] = "applied" => art[m] # "available"

(* The cursors of the account and of the conversation stand at the newest   *)
(* message the live connection delivered, however the messages were         *)
(* ordered, and history never moves them.                                   *)
CursorAtNewest ==
    \A s \in DOMAIN cursor :
        LET seen == {m \in live : s \in Scopes(m)}
        IN IF seen = {} THEN cursor[s] = None
           ELSE cursor[s] \in seen /\ \A m \in seen : Time[m] <= Time[cursor[s]]

(* Every stored message is derived or its job fails, across kills, leases   *)
(* that run out and transactions that fail.                                 *)
EveryMessageDerived ==
    \A m \in Messages : m \in Stored ~> art[m] # "none" \/ deriv[m].status = "failed"

(* What the store promises of recalls and cursors. *)
StoreSound == RecallReachesMessage /\ RecalledHidden /\ CursorAtNewest

-----------------------------------------------------------------------------
(* What makes the three invariants inductive: a deriver that read no recall *)
(* is about a message whose claim came first.                               *)
DeriverSound ==
    /\ deriver.pc # "idle" => deriver.m \in Messages
    /\ deriver.pc = "derive" /\ ~deriver.recalled => deriver.m \in early

StoreInv == /\ TypeOK /\ DeriverSound
            /\ RecallReachesMessage /\ RecalledHidden /\ CursorAtNewest
=============================================================================
