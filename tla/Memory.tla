------------------------------- MODULE Memory -------------------------------
(***************************************************************************)
(* Long-term memory of one account.  A worker reads the stored messages in *)
(* the order they were received, one conversation at a time and under a    *)
(* lease, and proposes candidates; the owner approves or rejects them, and *)
(* corrects, limits and deletes the facts that come of them.  Messages are *)
(* recalled, and the owner changes what a conversation may be used for.    *)
(*                                                                         *)
(*   repo/mysql_memory_candidate.rs, mysql_memory_candidate_control.rs,    *)
(*   mysql_memory.rs, memory_candidate_service.rs, memory_service.rs,      *)
(*   domain/memory_candidate.rs, domain/memory.rs                          *)
(*                                                                         *)
(* A worker whose model runs on this machine may read local_only           *)
(* conversations (allow_local_only).  A worker that may not leaves a note  *)
(* of each such message it passes in the table of deferred messages.       *)
(* The modes envelope_only and never_long_term are one here: restricted.   *)
(*                                                                         *)
(* A candidate leaves proposed at its first change and never returns, so   *)
(* the version the owner was shown is current exactly while the candidate  *)
(* is proposed.  The effects of the owner are single transactions under    *)
(* the lock of the account; their receipts are those of ActionRuns.        *)
(***************************************************************************)
EXTENDS Naturals, FiniteSets, FiniteSetsExt

CONSTANTS Last,         \* messages 1 .. Last, numbered as they are received
          Conv,         \* the conversation of a message
          Subject,      \* what the message is about
          Says,         \* what it says of that
          MaxBatch,     \* max_events of a claim
          MaxCited,     \* bound: messages a candidate cites, 1 or 2
          MaxFacts,     \* bound: rows of secretary_memory_facts
          MaxCommands,  \* bound: changes of mode and switches of the model
          None

Events == 1 .. Last
Convs == {Conv[e] : e \in Events}
Modes == {"normal", "local_only", "restricted"}
Payloads == {Says[e] : e \in Events}

(* What the constants are to satisfy; an instance assumes it. *)
MemoryAssumption ==
    /\ Last \in Nat /\ MaxBatch \in Nat \ {0} /\ MaxCited \in {1, 2}
    /\ MaxFacts \in Nat /\ MaxCommands \in Nat
    /\ DOMAIN Conv = Events /\ DOMAIN Subject = Events /\ DOMAIN Says = Events
    /\ None \notin 1 .. MaxFacts

VARIABLES
    stored,    \* secretary_source_events with their contents
    recalled,  \* secretary_message_tombstones, applied
    mode,      \* secretary_conversations.memory_mode
    local,     \* allow_local_only of the running worker
    state,     \* secretary_memory_candidate_processing_state
    deferred,  \* secretary_memory_candidate_deferred
    batch,     \* the claimed batch of the worker
    cands,     \* secretary_memory_candidates with their sources
    facts,     \* secretary_memory_facts with their sources
    read,      \* history: the messages of every committed batch
    behind,    \* history: messages committed behind what was claimed already
    commands   \* see MaxCommands

worker == <<state, deferred, batch, read, behind>>
vars == <<stored, recalled, mode, local, worker, cands, facts, commands>>

NoState == [cursor |-> 0, lease |-> "free"]
NoBatch == [events |-> {}, next |-> 0]

Init ==
    /\ stored = {} /\ recalled = {} /\ mode = [c \in Convs |-> "normal"] /\ local = FALSE
    /\ state = NoState /\ deferred = {} /\ batch = NoBatch /\ read = {}
    /\ behind = {} /\ cands = {} /\ facts = {} /\ commands = 0

(* Up to which message the worker has looked. *)
Front == IF batch.next > state.cursor THEN batch.next ELSE state.cursor

(* received_at is the clock before the transaction waits for its locks, and *)
(* messages are stored by several writers, which commit in any order.       *)
Store(e) ==
    /\ e \notin stored /\ stored' = stored \cup {e}
    /\ behind' = IF e <= Front THEN behind \cup {e} ELSE behind
    /\ UNCHANGED <<recalled, mode, local, state, deferred, batch, read, cands, facts, commands>>

Recall(e) ==
    /\ e \in stored \ recalled /\ recalled' = recalled \cup {e}
    /\ UNCHANGED <<stored, mode, local, worker, cands, facts, commands>>

-----------------------------------------------------------------------------
(* The worker.                                                              *)

trust_clause == IF local THEN {"normal", "local_only"} ELSE {"normal"}

Present(e) == e \in stored \ recalled

Eligible(e) == Present(e) /\ mode[Conv[e]] \in trust_clause

Quotable(e) == Present(e) /\ mode[Conv[e]] = "normal"

Prefix_Conversation(S) == {e \in S : Conv[e] = Conv[Min(S)]}

(* Up to the first message of another conversation. *)
Prefix(S) ==
    LET other == {x \in S : Conv[x] # Conv[Min(S)]}
    IN {e \in S : \A x \in other : e < x}

FirstOf(S) == {e \in S : Cardinality({x \in S : x < e}) < MaxBatch}

(* invalidate_stale_proposed, the first thing a scan does. *)
Swept == {IF c.st = "proposed" /\ \E e \in c.src : ~Quotable(e)
            THEN [c EXCEPT !.st = "invalidated"] ELSE c : c \in cands}

Claimable_Free == batch = NoBatch /\ state.lease = "free"

Claimable == batch = NoBatch /\ state.lease # "held"

(* Deferred messages are looked for behind a cursor only. *)
Consumes == local /\ state.cursor # 0

Purged == IF Consumes THEN {e \in deferred : Eligible(e)} ELSE deferred

Unread == {e \in stored : Eligible(e) /\ e > state.cursor}

(* Behind the cursor nobody looks again; beyond it a claim sees what there  *)
(* is.                                                                      *)
Unseen == {e \in behind : e <= state.cursor}

claim_deferred_batch ==
    /\ Claimable /\ Consumes /\ Purged # {}
    /\ batch' = [events |-> FirstOf(Prefix(Purged)), next |-> state.cursor]
    /\ deferred' = Purged /\ cands' = Swept
    /\ state' = [state EXCEPT !.lease = "held"] /\ behind' = Unseen
    /\ UNCHANGED <<stored, recalled, mode, local, facts, read, commands>>

(* The local_only messages a remote claim passes over. *)
Passed(last) ==
    {e \in stored : Present(e) /\ state.cursor < e /\ e < last /\ mode[Conv[e]] = "local_only"}

claim_candidate_batch ==
    /\ Claimable /\ ~(Consumes /\ Purged # {}) /\ Unread # {}
    /\ LET events == FirstOf(Prefix(Unread))
       IN /\ batch' = [events |-> events, next |-> Max(events)]
          /\ deferred' = IF local THEN Purged ELSE deferred \cup Passed(Max(events))
    /\ cands' = Swept /\ state' = [state EXCEPT !.lease = "held"] /\ behind' = Unseen
    /\ UNCHANGED <<stored, recalled, mode, local, facts, read, commands>>

(* A scan that finds nothing to read, or somebody's lease. *)
scan_without_batch ==
    /\ batch = NoBatch /\ cands' = Swept
    /\ \/ state.lease = "held" /\ UNCHANGED worker
       \/ /\ state.lease # "held" /\ Unread = {} /\ ~(Consumes /\ Purged # {})
          /\ deferred' = Purged /\ state' = [state EXCEPT !.lease = "free"]
          /\ UNCHANGED <<batch, read, behind>>
    /\ UNCHANGED <<stored, recalled, mode, local, facts, commands>>

(* What an extractor may propose for a batch: something one of its messages *)
(* says, citing that message and perhaps the one of the other party.        *)
Proposals(events) ==
    {c \in [of : events, src : {{e, x} : e, x \in events}, st : {"proposed"}] :
       c.of \in c.src /\ Cardinality(c.src) <= MaxCited}

(* A model finds some of that; an answer out of bounds is dropped. *)
map_candidates(events) == SUBSET Proposals(events)

validate_memory_candidate(c, b) == c.src # {} /\ c.src \subseteq b.events

candidate_fingerprint(c) == <<Subject[c.of], Says[c.of], c.src>>

Owned == state.lease = "held"

Fresh(chosen) ==
    {c \in chosen : ~\E d \in cands : candidate_fingerprint(d) = candidate_fingerprint(c)}

(* Each is compared with the rows there are by then, which hold those of    *)
(* this batch: of several equal candidates the first is inserted.           *)
Inserts(chosen, new) ==
    /\ new \subseteq Fresh(chosen)
    /\ \A c \in Fresh(chosen) : \E d \in new : candidate_fingerprint(d) = candidate_fingerprint(c)
    /\ \A c, d \in new : candidate_fingerprint(c) = candidate_fingerprint(d) => c = d

commit_candidates(chosen) ==
    /\ batch # NoBatch /\ Owned /\ \A c \in chosen : validate_memory_candidate(c, batch)
    /\ \E new \in SUBSET chosen : Inserts(chosen, new) /\ cands' = cands \cup new
    /\ deferred' = deferred \ batch.events
    /\ state' = [cursor |-> batch.next, lease |-> "free"]
    /\ read' = read \cup batch.events /\ batch' = NoBatch
    /\ UNCHANGED <<stored, recalled, mode, local, behind, facts, commands>>

Commit == \E chosen \in map_candidates(batch.events) : commit_candidates(chosen)

(* The extractor failed. *)
release_candidate_claim ==
    /\ batch # NoBatch /\ batch' = NoBatch
    /\ state' = IF Owned THEN [state EXCEPT !.lease = "free"] ELSE state
    /\ UNCHANGED <<stored, recalled, mode, local, deferred, cands, facts, read, behind,
                   commands>>

LeaseEnds ==
    /\ state.lease = "held" /\ state' = [state EXCEPT !.lease = "late"]
    /\ UNCHANGED <<stored, recalled, mode, local, deferred, batch, cands, facts, read,
                   behind, commands>>

(* The commit was refused, or the process died. *)
Lose ==
    /\ batch # NoBatch /\ batch' = NoBatch
    /\ UNCHANGED <<stored, recalled, mode, local, state, deferred, cands, facts, read, behind,
                   commands>>

Command == commands < MaxCommands /\ commands' = commands + 1

(* The model is configured anew, with a restart. *)
Reconfigure ==
    /\ Command /\ local' = ~local /\ batch' = NoBatch
    /\ UNCHANGED <<stored, recalled, mode, state, deferred, cands, facts, read, behind>>

-----------------------------------------------------------------------------
(* Facts.                                                                   *)

ActiveFact(f) == f.st \in {"proposed", "confirmed"}
ActiveFor(subj) == {f \in facts : f.subj = subj /\ ActiveFact(f)}

NewFact(subj, pay, st, src, ttl, prev) ==
    [id |-> Cardinality(facts) + 1, subj |-> subj, pay |-> pay, st |-> st, src |-> src,
     ttl |-> ttl, prev |-> prev]

WithStatus(f, st) == (facts \ {f}) \cup {[f EXCEPT !.st = st]}

Decided(c, st) == cands' = (cands \ {c}) \cup {[c EXCEPT !.st = st]}

candidate_to_confirmed_fact(c) ==
    NewFact(Subject[c.of], Says[c.of], "confirmed", c.src, FALSE, None)

MergedSources(f, c) == (facts \ {f}) \cup {[f EXCEPT !.src = @ \cup c.src]}

(* A new fact, or new sources of an equal one.  A fact that says otherwise  *)
(* is a conflict, which changes nothing.                                    *)
apply_approve(c) ==
    /\ c.st = "proposed" /\ \A e \in c.src : Quotable(e)
    /\ \/ /\ ActiveFor(Subject[c.of]) = {} /\ Cardinality(facts) < MaxFacts
          /\ facts' = facts \cup {candidate_to_confirmed_fact(c)}
       \/ \E f \in ActiveFor(Subject[c.of]) :
            f.pay = Says[c.of] /\ facts' = MergedSources(f, c)
    /\ Decided(c, "approved")
    /\ UNCHANGED <<stored, recalled, mode, local, worker, commands>>

apply_reject(c) ==
    /\ c.st = "proposed" /\ Decided(c, "rejected")
    /\ UNCHANGED <<stored, recalled, mode, local, worker, facts, commands>>

(* validate_memory_fact and the policy of the sources. *)
Derivable(src) == /\ src # {} /\ src \subseteq stored
                  /\ \A e \in src : mode[Conv[e]] \in {"normal", "local_only"}

append_fact(subj, pay, st, src) ==
    /\ Derivable(src) /\ ActiveFor(subj) = {} /\ Cardinality(facts) < MaxFacts
    /\ facts' = facts \cup {NewFact(subj, pay, st, src, FALSE, None)}
    /\ UNCHANGED <<stored, recalled, mode, local, worker, cands, commands>>

append_owner_memory_revision_Fork(f, pay, src, ttl) ==
    /\ f.st \in {"confirmed", "superseded"} /\ Derivable(src) /\ Cardinality(facts) < MaxFacts
    /\ facts' = WithStatus(f, "superseded")
                  \cup {NewFact(f.subj, pay, "confirmed", src, ttl, f.id)}
    /\ UNCHANGED <<stored, recalled, mode, local, worker, cands, commands>>

(* Also append_fact with supersedes_fact_id. *)
append_owner_memory_revision(f, pay, src, ttl) ==
    /\ ActiveFact(f) /\ Derivable(src) /\ Cardinality(facts) < MaxFacts
    /\ facts' = WithStatus(f, "superseded")
                  \cup {NewFact(f.subj, pay, "confirmed", src, ttl, f.id)}
    /\ UNCHANGED <<stored, recalled, mode, local, worker, cands, commands>>

CorrectMemoryFact(f) ==
    \E pay \in Payloads, e \in stored, ttl \in BOOLEAN :
        append_owner_memory_revision(f, pay, {e}, ttl)

SetMemoryFactTtl(f) ==
    \E ttl \in BOOLEAN : append_owner_memory_revision(f, f.pay, f.src, ttl)

DeleteMemoryFact(f) ==
    /\ ActiveFact(f) /\ facts' = WithStatus(f, "deleted")
    /\ UNCHANGED <<stored, recalled, mode, local, worker, cands, commands>>

(* Its time has come. *)
expire_due(f) ==
    /\ ActiveFact(f) /\ f.ttl /\ facts' = WithStatus(f, "expired")
    /\ UNCHANGED <<stored, recalled, mode, local, worker, cands, commands>>

Uses(x, c) == \E e \in x.src : Conv[e] = c

DeleteState == state' = NoState

(* reconcile_conversation_visibility_in_txn.  A claim that is under way has *)
(* lost its lease with the row.                                             *)
set_conversation_mode(c, m) ==
    /\ Command /\ mode[c] # m /\ mode' = [mode EXCEPT ![c] = m]
    /\ DeleteState
    /\ IF m = "normal" THEN UNCHANGED <<cands, facts>>
       ELSE /\ cands' = {IF x.st = "proposed" /\ Uses(x, c)
                           THEN [x EXCEPT !.st = "invalidated"] ELSE x : x \in cands}
            /\ facts' = {IF ActiveFact(f) /\ Uses(f, c)
                           THEN [f EXCEPT !.st = "expired"] ELSE f : f \in facts}
    /\ UNCHANGED <<stored, recalled, local, deferred, batch, read, behind>>

Next ==
    \/ \E e \in Events : Store(e) \/ Recall(e)
    \/ claim_deferred_batch \/ claim_candidate_batch \/ scan_without_batch \/ Commit
    \/ release_candidate_claim \/ LeaseEnds \/ Lose \/ Reconfigure
    \/ \E c \in cands : apply_approve(c) \/ apply_reject(c)
    \/ \E e \in stored, st \in {"proposed", "confirmed"} :
         append_fact(Subject[e], Says[e], st, {e})
    \/ \E f \in facts : \/ CorrectMemoryFact(f) \/ SetMemoryFactTtl(f) \/ DeleteMemoryFact(f)
                        \/ expire_due(f)
    \/ \E c \in Convs, m \in Modes : set_conversation_mode(c, m)

Spec == Init /\ [][Next]_vars

(* The worker polls until the shutdown, leases end, and not every           *)
(* extraction fails.                                                        *)
LiveSpec == /\ Spec
            /\ WF_vars(claim_deferred_batch) /\ WF_vars(claim_candidate_batch)
            /\ SF_vars(Commit) /\ WF_vars(Lose) /\ WF_vars(LeaseEnds)

-----------------------------------------------------------------------------
CandRow(S) ==
    [of : Events, src : SUBSET S, st : {"proposed", "approved", "rejected", "invalidated"}]

FactRow(S) ==
    [id : 1 .. MaxFacts, subj : {Subject[e] : e \in Events}, pay : Payloads,
     st : {"proposed", "confirmed", "superseded", "deleted", "expired"}, src : SUBSET S,
     ttl : BOOLEAN, prev : {None} \cup 1 .. MaxFacts]

TypeOK ==
    /\ stored \subseteq Events /\ recalled \subseteq stored /\ read \subseteq stored
    /\ behind \subseteq stored
    /\ mode \in [Convs -> Modes] /\ local \in BOOLEAN /\ commands \in 0 .. MaxCommands
    /\ state \in [cursor : {0} \cup stored, lease : {"free", "held", "late"}]
    /\ deferred \subseteq stored
    /\ batch \in [events : SUBSET stored, next : {0} \cup stored]
    /\ cands \subseteq CandRow(stored) /\ \A c \in cands : c.of \in c.src
    /\ facts \subseteq FactRow(stored)
    /\ \A f \in facts : f.src # {} /\ f.prev \in {None} \cup 1 .. (f.id - 1)

(* The cursor of the account passes no message by: what lies behind it and  *)
(* may be used was read, or is noted as deferred, or was not yet there when *)
(* the cursor was moved past it; with conversations that alternate, a model *)
(* that is replaced and a policy that is changed.                           *)
NothingSkipped ==
    \A e \in stored \ (recalled \cup behind) :
        e <= state.cursor /\ mode[Conv[e]] # "restricted" => e \in read \cup deferred

(* What the plan says of the scan: it has read a contiguous prefix.         *)
PrefixRead ==
    \A e \in stored \ recalled :
        e <= state.cursor /\ mode[Conv[e]] # "restricted" => e \in read \cup deferred

(* The owner takes a conversation out of memory: nothing that was taken     *)
(* from it is proposed to the owner or holds as a fact, even when the       *)
(* worker had read it before and commits afterwards.                        *)
RestrictedLeavesNothing ==
    \A c \in Convs : mode[c] = "restricted" =>
        /\ ~\E x \in cands : x.st = "proposed" /\ Uses(x, c)
        /\ ~\E f \in facts : ActiveFact(f) /\ Uses(f, c)

(* What was proposed once is not proposed again: not when the cursor is     *)
(* thrown away and everything is read again, nor when a batch is repeated.  *)
ProposedOnce ==
    \A c, d \in cands : candidate_fingerprint(c) = candidate_fingerprint(d) => c = d

(* Whoever writes facts, of a subject one holds at a time,                  *)
OneFactPerSubject ==
    \A f, g \in facts : ActiveFact(f) /\ ActiveFact(g) /\ f.subj = g.subj => f = g

(* and the revisions of a fact are a chain: none is revised twice.          *)
RevisionsAreAChain ==
    \A f, g \in facts : f.prev = g.prev /\ f.prev # None => f = g

(* Facts are numbered in the order they are appended, *)
Numbered ==
    /\ \E n \in 0 .. MaxFacts : {f.id : f \in facts} = 1 .. n
    /\ \A f, g \in facts : f.id = g.id => f = g

(* a fact that was revised never holds again, *)
RevisedIsOver == \A f, g \in facts : f.prev = g.id => ~ActiveFact(g)

(* what a worker that still owns its claim may commit was not restricted    *)
(* since, for every change of a mode takes the claim away,                  *)
ClaimMayBeKept ==
    batch # NoBatch /\ Owned => \A e \in batch.events : mode[Conv[e]] # "restricted"

(* and the cursor may move to the end of the batch.                         *)
ClaimSkipsNothing ==
    batch # NoBatch /\ Owned =>
        \A e \in stored \ (recalled \cup behind) :
            e <= batch.next /\ mode[Conv[e]] # "restricted"
            => e \in read \cup deferred \cup batch.events

(* All of it, which is inductive. *)
MemoryInv ==
    /\ TypeOK
    /\ Numbered /\ RevisedIsOver /\ RevisionsAreAChain /\ OneFactPerSubject
    /\ ProposedOnce /\ RestrictedLeavesNothing /\ ClaimMayBeKept
    /\ NothingSkipped /\ ClaimSkipsNothing

(* In the end every message that this worker may use has been read, but for *)
(* those that came behind the cursor.                                       *)
EveryMessageRead ==
    <>[](\A e \in stored \ Unseen : Eligible(e) => e \in read)

(* What invalidate_stale_proposed says of itself: a scan gives a candidate  *)
(* up for a recall, or for a conversation that is envelope_only or          *)
(* never_long_term by now.                                                  *)
GivenUpWhenStale ==
    [][\A c \in cands :
         c.st = "proposed" /\ [c EXCEPT !.st = "invalidated"] \in cands' /\ mode' = mode
         => \E e \in c.src : e \in recalled' \/ mode'[Conv[e]] = "restricted"]_vars
=============================================================================
