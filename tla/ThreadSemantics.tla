--------------------------- MODULE ThreadSemantics ---------------------------
(***************************************************************************)
(* What the secretary derives from one thread: claims, decisions and open  *)
(* questions, and whether the thread is resolved.  A worker reads the      *)
(* messages beyond its cursor under a lease, asks an extractor (a language *)
(* model, or rules when that fails) and commits its patch; meanwhile the   *)
(* owner confirms, revokes, dismisses, closes and reopens, rearranges the  *)
(* thread, and takes whole conversations out of memory and back.           *)
(*                                                                         *)
(*   repo/mysql_thread_semantics.rs, mysql_thread_control.rs,              *)
(*   mysql_memory.rs (visibility), mysql_thread_mutations.rs               *)
(*   (invalidation), thread_semantic_service.rs,                           *)
(*   domain/thread_semantics.rs                                            *)
(*                                                                         *)
(* Times: an invalidation hides the rows written before it until a later   *)
(* reconfirmation, or until a row is written again.  A row carries that as *)
(* hidden; no two of these writes have the same microsecond.  No extractor *)
(* proposes a change of status, and no message of the thread is a command  *)
(* of the owner, so a resolution is always derived from evidence.          *)
(***************************************************************************)
EXTENDS Naturals, FiniteSets, FiniteSetsExt

CONSTANTS Last,         \* messages 1 .. Last join the thread in this order
          Conv,         \* the conversation of a message
          Says,         \* question, decision, claim, done
          MaxBatch,     \* max_events of a claim
          MaxCommands,  \* bound: changes of mode, invalidations, reconfirmations
          None

Events == 1 .. Last
Convs == {Conv[e] : e \in Events}

(* What the constants are to satisfy; an instance assumes it. *)
SemanticsAssumption ==
    /\ Last \in Nat /\ MaxBatch \in Nat \ {0} /\ MaxCommands \in Nat
    /\ DOMAIN Conv = Events /\ None \notin Events
    /\ Says \in [Events -> {"question", "decision", "claim", "done"}]

VARIABLES
    joined,    \* how many messages the thread has
    mode,      \* secretary_conversations.memory_mode
    status,    \* secretary_event_threads.status
    why,       \* the message the latest change to resolved cites
    state,     \* secretary_thread_semantic_state: cursor and lease
    era,       \* how often that row was deleted
    rows,      \* claims, decisions and questions with their sources
    pending,   \* an invalidation no reconfirmation has followed
    batch,     \* the claimed batch of the worker
    commands   \* see MaxCommands

vars == <<joined, mode, status, why, state, era, rows, pending, batch, commands>>

NoState == [cursor |-> 0, lease |-> "free"]
NoBatch == [events |-> {}, status |-> "open", open |-> {}]

Init ==
    /\ joined = 0 /\ mode = [c \in Convs |-> "normal"] /\ status = "open" /\ why = None
    /\ state = NoState /\ era = 0 /\ rows = {} /\ pending = FALSE /\ batch = NoBatch
    /\ commands = 0

Join ==
    /\ joined < Last /\ joined' = joined + 1
    /\ UNCHANGED <<mode, status, why, state, era, rows, pending, batch, commands>>

Visible(r) == ~r.hidden
OpenQuestion(r) == r.kind = "question" /\ r.st = "open"
Live(r) == r.st \in {"proposed", "confirmed", "open"}

-----------------------------------------------------------------------------
(* The worker.                                                              *)

Unread == {e \in 1 .. joined : e > state.cursor /\ mode[Conv[e]] = "normal"}

FirstOf(S) == {e \in S : Cardinality({x \in S : x < e}) < MaxBatch}

Claimable == state.lease # "held"

OpenQuestions == {r \in rows : OpenQuestion(r) /\ Visible(r)}

(* The status and the open questions are those of the claim. *)
claim_semantic_batch ==
    /\ batch = NoBatch /\ Claimable /\ Unread # {}
    /\ batch' = [events |-> FirstOf(Unread), status |-> status,
                 open |-> OpenQuestions]
    /\ state' = [state EXCEPT !.lease = "held"]
    /\ UNCHANGED <<joined, mode, status, why, era, rows, pending, commands>>

(* The evidence is the text of the last message of the batch. *)
derive_resolution(b) ==
    /\ b.status \in {"open", "reopened"} /\ b.open = {}
    /\ Says[Max(b.events)] = "done"

(* What a language model finds in the messages is its own affair; the rules *)
(* that stand in for it find what the text says.                            *)
ModelPatches == SUBSET batch.events
RulesPatch == batch.events

(* validate_semantic_patch: only messages of the batch are cited, and a     *)
(* thread with a question is not resolved.                                  *)
PatchValid(b, cited, resolves) ==
    /\ cited \subseteq b.events
    /\ resolves => b.open = {} /\ ~\E e \in cited : Says[e] = "question"

(* None of what a patch holds is confirmed. *)
Extracted(cited) ==
    {[src |-> e, era |-> era, kind |-> Says[e], hidden |-> FALSE,
      st |-> IF Says[e] = "question" THEN "open" ELSE "proposed"] :
       e \in {x \in cited : Says[x] # "done"}}

Owned == state.lease = "held"

NextCursor == Max(batch.events)

commit_semantic_patch(cited) ==
    LET asks == \E e \in cited : Says[e] = "question"
        resolves == ~asks /\ derive_resolution(batch)
    IN /\ batch # NoBatch /\ Owned /\ cited \in ModelPatches \cup {RulesPatch}
       /\ PatchValid(batch, cited, resolves)
       /\ resolves => status = batch.status
       /\ status' = IF resolves THEN "resolved" ELSE status
       /\ why' = IF resolves THEN Max(batch.events) ELSE why
       /\ rows' = rows \cup Extracted(cited)
       /\ state' = [cursor |-> NextCursor, lease |-> "free"]
       /\ batch' = NoBatch
       /\ UNCHANGED <<joined, mode, era, pending, commands>>

(* The extractor failed, or the commit did. *)
release_semantic_claim ==
    /\ batch # NoBatch /\ batch' = NoBatch
    /\ state' = [state EXCEPT !.lease = "free"]
    /\ UNCHANGED <<joined, mode, status, why, era, rows, pending, commands>>

LeaseEnds ==
    /\ state.lease = "held" /\ state' = [state EXCEPT !.lease = "late"]
    /\ UNCHANGED <<joined, mode, status, why, era, rows, pending, batch, commands>>

Kill ==
    /\ batch # NoBatch /\ batch' = NoBatch
    /\ UNCHANGED <<joined, mode, status, why, state, era, rows, pending, commands>>

-----------------------------------------------------------------------------
(* Commands.                                                                *)

Command == commands < MaxCommands /\ commands' = commands + 1

DeleteState_Kept == UNCHANGED <<state, era>>

(* The row goes, with its lease and its cursor: all messages are read again. *)
DeleteState == state' = NoState /\ era' = era + 1

(* record_semantic_invalidations, of a merge or a split or its reversion. *)
invalidate ==
    /\ Command /\ pending' = TRUE /\ DeleteState
    /\ rows' = {[r EXCEPT !.hidden = TRUE] : r \in rows}
    /\ UNCHANGED <<joined, mode, status, why, batch>>

reconfirm ==
    /\ Command /\ pending /\ pending' = FALSE /\ DeleteState
    /\ rows' = {[r EXCEPT !.hidden = FALSE] : r \in rows}
    /\ UNCHANGED <<joined, mode, status, why, batch>>

(* update_status: a row that is written is younger than the invalidation. *)
Rewrite(r, st) ==
    /\ rows' = (rows \ {r}) \cup {[r EXCEPT !.st = st, !.hidden = FALSE]}
    /\ UNCHANGED <<joined, mode, status, why, state, era, pending, batch, commands>>

confirm_decision(r) == r.kind = "decision" /\ r.st = "proposed" /\ Rewrite(r, "confirmed")

revoke_decision(r) ==
    r.kind = "decision" /\ r.st \in {"proposed", "confirmed"} /\ Rewrite(r, "revoked")

dismiss_question(r) == OpenQuestion(r) /\ Rewrite(r, "dismissed")

(* Closing looks at every open question, hidden or not. *)
set_thread_lifecycle(to) ==
    /\ \/ to = "closed" /\ status \in {"open", "reopened"} /\ ~\E r \in rows : OpenQuestion(r)
       \/ to = "reopened" /\ status \in {"closed", "resolved"}
    /\ status' = to /\ why' = None
    /\ UNCHANGED <<joined, mode, state, era, rows, pending, batch, commands>>

(* reconcile_conversation_visibility_in_txn *)
Withdrawn(r) ==
    [r EXCEPT !.hidden = FALSE,
              !.st = CASE r.kind = "claim" -> "withdrawn" [] r.kind = "decision" -> "revoked"
                       [] r.kind = "question" -> "dismissed"]

WithoutSource(c) == {IF Conv[r.src] = c /\ Live(r) THEN Withdrawn(r) ELSE r : r \in rows}

RestsOn(c) == status = "resolved" /\ why # None /\ Conv[why] = c

set_conversation_mode(c, m) ==
    /\ Command /\ mode[c] # m /\ mode' = [mode EXCEPT ![c] = m]
    /\ IF \E e \in 1 .. joined : Conv[e] = c THEN DeleteState ELSE UNCHANGED <<state, era>>
    /\ IF m = "normal" THEN UNCHANGED <<rows, status, why>>
       ELSE /\ rows' = WithoutSource(c)
            /\ status' = IF RestsOn(c) THEN "reopened" ELSE status
            /\ why' = IF RestsOn(c) THEN None ELSE why
    /\ UNCHANGED <<joined, pending, batch>>

Next ==
    \/ Join \/ claim_semantic_batch \/ release_semantic_claim \/ LeaseEnds \/ Kill
    \/ \E cited \in SUBSET Events : commit_semantic_patch(cited)
    \/ invalidate \/ reconfirm
    \/ \E r \in rows : confirm_decision(r) \/ revoke_decision(r) \/ dismiss_question(r)
    \/ \E to \in {"closed", "reopened"} : set_thread_lifecycle(to)
    \/ \E c \in Convs, m \in {"normal", "restricted"} : set_conversation_mode(c, m)

Spec == Init /\ [][Next]_vars

Commit == \E cited \in SUBSET Events : commit_semantic_patch(cited)

(* The worker polls until the shutdown, its leases end, and not every       *)
(* extraction fails.                                                        *)
LiveSpec == /\ Spec
            /\ WF_vars(claim_semantic_batch) /\ SF_vars(Commit)
            /\ WF_vars(release_semantic_claim) /\ WF_vars(LeaseEnds)

-----------------------------------------------------------------------------
TypeOK ==
    /\ joined \in 0 .. Last /\ mode \in [Convs -> {"normal", "restricted"}]
    /\ status \in {"open", "resolved", "closed", "reopened"} /\ why \in Events \cup {None}
    /\ state \in [cursor : 0 .. joined, lease : {"free", "held", "late"}]
    /\ era \in 0 .. MaxCommands /\ commands \in 0 .. MaxCommands /\ pending \in BOOLEAN
    /\ rows \subseteq [src : 1 .. joined, era : 0 .. era, kind : {"question", "decision", "claim"},
                       hidden : BOOLEAN,
                       st : {"open", "proposed", "confirmed", "withdrawn", "revoked", "dismissed"}]
    /\ batch.events \subseteq 1 .. joined

(* A conversation that was taken out of memory leaves nothing behind that   *)
(* is derived from it: no live claim, decision or question, and no thread   *)
(* that is resolved on the word of one of its messages; also when a worker  *)
(* had read the message before and commits afterwards.                      *)
RestrictedLeavesNothing ==
    /\ \A r \in rows : Live(r) => mode[Conv[r.src]] = "normal"
    /\ status = "resolved" /\ why # None => mode[Conv[why]] = "normal"

(* A thread is not resolved while the owner is shown an open question of    *)
(* it, although the questions were read long before the patch is committed. *)
ResolvesCleanly ==
    [][status # "resolved" /\ status' = "resolved"
         => ~\E r \in rows' : OpenQuestion(r) /\ Visible(r)]_vars

(* Kills, lost leases and failed commits do not make the worker read a      *)
(* message twice: one row of a message as long as the cursor is not thrown  *)
(* away on purpose.                                                         *)
OneRowPerReading == \A r, s \in rows : r.src = s.src /\ r.era = s.era => r = s

(* The worker catches up: in the end no visible message is unread.          *)
CatchesUp == <>[](Unread = {})

-----------------------------------------------------------------------------
(* The inductive invariant. *)

(* Under its lease a batch lies beyond the cursor, in conversations that    *)
(* may be kept, and no question has been opened that it does not know of.   *)
BatchCurrent ==
    /\ batch # NoBatch => batch.events # {}
    /\ batch # NoBatch /\ Owned =>
         /\ \A e \in batch.events : e > state.cursor /\ mode[Conv[e]] = "normal"
         /\ OpenQuestions \subseteq batch.open

(* The rows of this reading are of messages the cursor has passed. *)
RowsBehindCursor ==
    /\ era <= commands
    /\ \A r \in rows : r.era <= era /\ (r.era = era => r.src <= state.cursor)

SemanticsInv ==
    /\ TypeOK /\ BatchCurrent /\ RowsBehindCursor
    /\ RestrictedLeavesNothing /\ OneRowPerReading
=============================================================================
