---------------------------- MODULE ThreadOverlay ----------------------------
(***************************************************************************)
(* Threads as the owner rearranges them.  Messages are projected into      *)
(* threads once; a merge or a split the owner approved is an overlay: an   *)
(* alias of a thread, an override of a message, either of which can be     *)
(* reverted.  What the thread of a message is follows from both tables.    *)
(* Candidates for a link between threads of two conversations come from    *)
(* hints that name the thread of the message they were found in.           *)
(*                                                                         *)
(*   repo/mysql_thread_mutations.rs, mysql_thread_links.rs,                *)
(*   thread_mutation_service.rs, thread_link_service.rs,                   *)
(*   domain/thread_mutations.rs, thread_links.rs                           *)
(*                                                                         *)
(* One account, one signal that the messages of Linked share; every        *)
(* message is visible and every command is the owner's.  Projection and    *)
(* the late parent are those of ReplyThreads, in one step each; the        *)
(* invalidation of what was derived is in ThreadSemantics.                 *)
(***************************************************************************)
EXTENDS Naturals, FiniteSets

CONSTANTS Events,       \* source events
          Conv,         \* the conversation of an event
          Base,         \* threads the projection may create
          Proposals,    \* proposal ids; that of a split names its thread
          Replies,      \* replies whose parent arrives late
          Linked,       \* events with the link signal
          None

Threads == Base \cup Proposals

(* What the constants are to satisfy; an instance assumes it. *)
OverlayAssumption ==
    /\ DOMAIN Conv = Events
    /\ Replies \subseteq Events /\ Linked \subseteq Events
    /\ Base \cap Proposals = {} /\ None \notin Threads

VARIABLES
    raw,       \* secretary_thread_events
    status,    \* secretary_event_threads: none, open or closed
    late,      \* replies whose parent has not come yet
    alias,     \* secretary_thread_merge_aliases, by merged thread
    split,     \* secretary_thread_split_overrides, by event
    prop,      \* secretary_thread_mutation_proposals, and impacts in memory
    hint,      \* secretary_thread_link_hints: the thread a hint names
    scan,      \* secretary_thread_link_scan_state: none, leased, late or done
    held,      \* the claimed batch of the link worker: thread of each event
    cand       \* secretary_thread_link_candidates, by pair of threads

overlay == <<raw, status, late, alias, split, prop>>
links == <<hint, scan, held, cand>>
vars == <<overlay, links>>

NoRow == [to |-> None, by |-> None, active |-> FALSE]
NoImpact == [st |-> "none", kind |-> "merge", canonical |-> None, other |-> None, events |-> {}]

Init ==
    /\ raw = [e \in Events |-> None] /\ status = [t \in Threads |-> "none"]
    /\ late = Replies
    /\ alias = [t \in Threads |-> NoRow] /\ split = [e \in Events |-> NoRow]
    /\ prop = [p \in Proposals |-> NoImpact]
    /\ hint = [e \in Events |-> None] /\ scan = [e \in Events |-> "none"]
    /\ held = [e \in {} |-> None] /\ cand = [c \in {} |-> {}]

Members(t) == {e \in Events : raw[e] = t}

(* The view secretary_effective_thread_events. *)
EffectiveIn(alias_, split_, e) ==
    IF raw[e] = None THEN None
    ELSE IF split_[e].active THEN split_[e].to
    ELSE IF alias_[raw[e]].active THEN alias_[raw[e]].to ELSE raw[e]

Effective(e) == EffectiveIn(alias, split, e)

-----------------------------------------------------------------------------
(* Projection, and the parent that comes late.                              *)

(* A new thread, or the open one a message of the conversation is in.       *)
project(e, t) ==
    /\ raw[e] = None
    /\ \/ t \in Base /\ status[t] = "none"
       \/ status[t] = "open" /\ \E x \in Events : Conv[x] = Conv[e] /\ Effective(x) = t
    /\ raw' = [raw EXCEPT ![e] = t] /\ status' = [status EXCEPT ![t] = "open"]
    /\ UNCHANGED <<late, alias, split, prop, links>>

(* resolve_pending_replies takes the reply out; close_empty_thread looks at *)
(* the raw members only.                                                    *)
parent_arrives(e) ==
    /\ e \in late /\ raw[e] # None /\ late' = late \ {e}
    /\ raw' = [raw EXCEPT ![e] = None]
    /\ status' = IF Members(raw[e]) = {e} THEN [status EXCEPT ![raw[e]] = "closed"] ELSE status
    /\ UNCHANGED <<alias, split, prop, links>>

-----------------------------------------------------------------------------
(* Proposals: build, persist, decide, apply, revert.                        *)

Advance(p, impact) == prop' = [prop EXCEPT ![p] = impact]

(* validate_thread_mutation_impact, of a merge of two threads. *)
ValidImpact(i) ==
    /\ i.kind = "merge" => i.canonical # i.other
    /\ i.events # {}

(* build_impact *)
build_merge(p, canonical, other) ==
    LET i == [st |-> "built", kind |-> "merge", canonical |-> canonical, other |-> other,
              events |-> Members(canonical) \cup Members(other)]
    IN /\ prop[p].st = "none" /\ ValidImpact(i)
       /\ status[canonical] # "none" /\ status[other] # "none"
       /\ Advance(p, i)
       /\ UNCHANGED <<raw, status, late, alias, split, links>>

build_split(p, source, events) ==
    LET i == [st |-> "built", kind |-> "split", canonical |-> source, other |-> None,
              events |-> events]
    IN /\ prop[p].st = "none" /\ ValidImpact(i) /\ events \subseteq Members(source)
       /\ Advance(p, i)
       /\ UNCHANGED <<raw, status, late, alias, split, links>>

(* persist_proposal looks at the members again. *)
persist_proposal(p) ==
    LET i == prop[p]
    IN /\ i.st = "built"
       /\ IF i.kind = "merge" THEN i.events = Members(i.canonical) \cup Members(i.other)
          ELSE /\ i.events \subseteq Members(i.canonical)
               /\ Cardinality(Members(i.canonical)) > Cardinality(i.events)
       /\ Advance(p, [i EXCEPT !.st = "awaiting"])
       /\ UNCHANGED <<raw, status, late, alias, split, links>>

(* The two nodes of the graph around the suspension for the owner. *)
Decisions == {"approved", "rejected"}

authorize_resume(p, decision) ==
    /\ prop[p].st = "awaiting" /\ Advance(p, [prop[p] EXCEPT !.st = decision])
    /\ UNCHANGED <<raw, status, late, alias, split, links>>

(* refresh_link_hints_and_candidates, for the events of the impact. *)
ExpireCandidates_Any(events) ==
    [c \in DOMAIN cand |-> IF cand[c].src \cap events # {}
                           THEN [cand[c] EXCEPT !.st = "expired"] ELSE cand[c]]

ExpireCandidates(events) ==
    [c \in DOMAIN cand |-> IF cand[c].src \cap events # {} /\ cand[c].st = "proposed"
                           THEN [cand[c] EXCEPT !.st = "expired"] ELSE cand[c]]

refresh_link_hints(events) ==
    /\ hint' = [e \in Events |-> IF e \in events /\ hint[e] # None /\ raw[e] # None
                                 THEN EffectiveIn(alias', split', e) ELSE hint[e]]
    /\ cand' = ExpireCandidates(events)
    /\ UNCHANGED <<scan, held>>

(* No chain of aliases; the key is the merged thread, also of a row that is *)
(* no longer active.                                                        *)
MergeAllowed_NoConflictCheck(i) == alias[i.other] = NoRow

MergeAllowed(i) ==
    /\ alias[i.other] = NoRow /\ ~alias[i.canonical].active
    /\ ~\E t \in Threads : alias[t].active /\ alias[t].to = i.other

SplitAllowed(i) ==
    /\ ~alias[i.canonical].active /\ i.events \subseteq Members(i.canonical)
    /\ \A e \in i.events : split[e] = NoRow

(* apply_effect: one transaction, all or nothing. *)
apply_effect(p) ==
    LET i == prop[p]
        row(to) == [to |-> to, by |-> p, active |-> TRUE]
    IN /\ i.st = "approved"
       /\ \/ /\ i.kind = "merge" /\ MergeAllowed(i)
             /\ alias' = [alias EXCEPT ![i.other] = row(i.canonical)]
             /\ UNCHANGED <<split, status>>
          \/ /\ i.kind = "split" /\ SplitAllowed(i)
             /\ split' = [e \in Events |-> IF e \in i.events THEN row(p) ELSE split[e]]
             /\ status' = [status EXCEPT ![p] = "open"]
             /\ UNCHANGED alias
       /\ Advance(p, [i EXCEPT !.st = "applied"])
       /\ refresh_link_hints(i.events)
       /\ UNCHANGED <<raw, late>>

(* close_empty_split_thread counts members of both kinds. *)
SplitEmpty(p, split_) ==
    Members(p) = {} /\ \A e \in Events : ~(split_[e].active /\ split_[e].to = p)

Deactivated(rows, p) ==
    [x \in DOMAIN rows |-> IF rows[x].by = p THEN [rows[x] EXCEPT !.active = FALSE] ELSE rows[x]]

revert_applied(p) ==
    /\ prop[p].st = "applied" /\ Advance(p, [prop[p] EXCEPT !.st = "reverted"])
    /\ alias' = Deactivated(alias, p) /\ split' = Deactivated(split, p)
    /\ status' = IF status[p] = "open" /\ SplitEmpty(p, split')
                 THEN [status EXCEPT ![p] = "closed"] ELSE status
    /\ refresh_link_hints(prop[p].events)
    /\ UNCHANGED <<raw, late>>

-----------------------------------------------------------------------------
(* The link worker and the owner's review.                                  *)

(* A file key, a digest, a project id: extract finds a strong signal. *)
HasSignal(e) == e \in Linked

Unscanned == {e \in Events : HasSignal(e) /\ raw[e] # None /\ scan[e] \in {"none", "late"}}

claim_link_batch ==
    /\ held = [e \in {} |-> None] /\ Unscanned # {}
    /\ held' = [e \in Unscanned |-> Effective(e)]
    /\ scan' = [e \in Events |-> IF e \in Unscanned THEN "leased" ELSE scan[e]]
    /\ UNCHANGED <<overlay, hint, cand>>

(* Two hints of one signal match across conversations and threads. *)
Matches(mine, hint1) ==
    {m \in mine \X Events :
       hint1[m[2]] \notin {None, hint1[m[1]]} /\ Conv[m[1]] # Conv[m[2]]}

(* Hints are inserted with the thread the claim read; a pair is proposed    *)
(* once, whatever became of it.                                             *)
commit_link_hints ==
    LET mine == {e \in DOMAIN held : scan[e] = "leased"}
        hint1 == [e \in Events |-> IF e \in mine /\ hint[e] = None THEN held[e] ELSE hint[e]]
        matches == Matches(mine, hint1)
        pairs == {{hint1[m[1]], hint1[m[2]]} : m \in matches}
        sources(c) == UNION {{m[1], m[2]} : m \in {x \in matches : {hint1[x[1]], hint1[x[2]]} = c}}
        known(c) == IF c \in DOMAIN cand THEN cand[c] ELSE [st |-> "proposed", src |-> {}]
    IN /\ mine # {} /\ hint' = hint1
       /\ cand' = [c \in DOMAIN cand \cup pairs |->
                     [known(c) EXCEPT !.src = @ \cup (IF c \in pairs THEN sources(c) ELSE {})]]
       /\ scan' = [e \in Events |-> IF e \in mine THEN "done" ELSE scan[e]]
       /\ held' = [e \in {} |-> None]
       /\ UNCHANGED overlay

(* fail_link_batch after a lost lease or a failed transaction. *)
fail_link_batch ==
    /\ held # [e \in {} |-> None] /\ held' = [e \in {} |-> None]
    /\ scan' = [e \in Events |-> IF e \in DOMAIN held THEN "none" ELSE scan[e]]
    /\ UNCHANGED <<overlay, hint, cand>>

Leased == {e \in Events : scan[e] = "leased"}

LinkLeaseEnds ==
    /\ Leased # {} /\ scan' = [e \in Events |-> IF e \in Leased THEN "late" ELSE scan[e]]
    /\ UNCHANGED <<overlay, hint, held, cand>>

(* The process ends; its lease does not. *)
LinkWorkerKilled ==
    /\ held # [e \in {} |-> None] /\ held' = [e \in {} |-> None]
    /\ UNCHANGED <<overlay, hint, scan, cand>>

(* validate_thread_link_review *)
Reviewable(c) == c \in DOMAIN cand /\ cand[c].st = "proposed"

(* commit_link_review; a review that is repeated changes nothing. *)
commit_link_review(c, verdict) ==
    /\ Reviewable(c)
    /\ cand' = [cand EXCEPT ![c].st = verdict]
    /\ UNCHANGED <<overlay, hint, scan, held>>

Next ==
    \/ \E e \in Events : \/ \E t \in Threads : project(e, t)
                         \/ parent_arrives(e)
    \/ \E p \in Proposals :
         \/ \E a, b \in Threads : build_merge(p, a, b)
         \/ \E t \in Threads, S \in SUBSET Events : build_split(p, t, S)
         \/ persist_proposal(p) \/ apply_effect(p) \/ revert_applied(p)
         \/ \E d \in Decisions : authorize_resume(p, d)
    \/ claim_link_batch \/ commit_link_hints \/ fail_link_batch \/ LinkLeaseEnds \/ LinkWorkerKilled
    \/ \E c \in DOMAIN cand, v \in {"accepted", "rejected"} : commit_link_review(c, v)

Spec == Init /\ [][Next]_vars

(* The link worker scans until the shutdown, and a commit is not for ever   *)
(* late or failing.                                                         *)
LiveSpec == /\ Spec
            /\ WF_vars(claim_link_batch) /\ SF_vars(commit_link_hints)
            /\ WF_vars(fail_link_batch) /\ WF_vars(LinkLeaseEnds)

-----------------------------------------------------------------------------
TypeOK ==
    /\ raw \in [Events -> Threads \cup {None}]
    /\ status \in [Threads -> {"none", "open", "closed"}]
    /\ late \subseteq Replies
    /\ alias \in [Threads -> [to : Threads \cup {None}, by : Proposals \cup {None}, active : BOOLEAN]]
    /\ split \in [Events -> [to : Threads \cup {None}, by : Proposals \cup {None}, active : BOOLEAN]]
    /\ \A p \in Proposals : prop[p].st \in {"none", "built", "awaiting", "approved", "rejected",
                                           "applied", "reverted"}
    /\ hint \in [Events -> Threads \cup {None}]
    /\ scan \in [Events -> {"none", "leased", "late", "done"}]
    /\ DOMAIN held \subseteq Linked
    /\ \A c \in DOMAIN cand : Cardinality(c) = 2 /\ c \subseteq Threads

(* The view follows one alias only: no thread that others were merged into  *)
(* is merged away itself, in whatever order proposals are approved, applied *)
(* and reverted.                                                            *)
NoAliasChain == \A t \in Threads : alias[t].active => ~alias[alias[t].to].active

(* A message is away from the thread it was projected into only under a     *)
(* proposal that is applied and not reverted.                               *)
OverlayIsLive ==
    \A e \in Events : Effective(e) # raw[e] =>
        \E p \in Proposals : /\ prop[p].st = "applied"
                             /\ Effective(e) \in {p, prop[p].canonical}

(* After a split is reverted no open thread without members is left, and    *)
(* one that has gained members of its own is not closed.                    *)
SplitThreadOpenWithMembers ==
    \A p \in Proposals : prop[p].st = "reverted" /\ prop[p].kind = "split" =>
        (status[p] = "open") = (Members(p) # {})

(* The inductive invariant of the three.  A row of either table is that of  *)
(* a proposal that was applied, and in force until it is reverted; a thread *)
(* that is not open has no messages of its own.                             *)
ProposalRows ==
    {i \in [st : {"none", "built", "awaiting", "approved", "rejected", "applied", "reverted"},
            kind : {"merge", "split"}, canonical : Threads \cup {None},
            other : Threads \cup {None}, events : SUBSET Events] :
       i.st # "none" => /\ i.canonical \in Threads
                        /\ i.kind = "merge" => i.other \in Threads \ {i.canonical}}

OverlayTypes ==
    /\ raw \in [Events -> Threads \cup {None}]
    /\ status \in [Threads -> {"none", "open", "closed"}]
    /\ prop \in [Proposals -> ProposalRows]
    /\ alias \in [Threads -> [to : Threads \cup {None}, by : Proposals \cup {None}, active : BOOLEAN]]
    /\ split \in [Events -> [to : Threads \cup {None}, by : Proposals \cup {None}, active : BOOLEAN]]

RowOfProposal(row) ==
    row # NoRow => /\ row.by \in Proposals /\ prop[row.by].st \in {"applied", "reverted"}
                   /\ row.active = (prop[row.by].st = "applied")

OverlayInv ==
    /\ OverlayTypes
    /\ \A t \in Threads : /\ RowOfProposal(alias[t])
                          /\ alias[t] # NoRow => /\ alias[t].to = prop[alias[t].by].canonical
                                                 /\ alias[t].to \in Threads
    /\ \A e \in Events : RowOfProposal(split[e]) /\ (split[e] # NoRow => split[e].to = split[e].by)
    /\ \A t \in Threads : status[t] # "open" => Members(t) = {}
    /\ NoAliasChain /\ SplitThreadOpenWithMembers

(* What the owner decided about a candidate stands, whatever is merged or   *)
(* split afterwards.                                                        *)
ReviewStands ==
    [][\A c \in DOMAIN cand : cand[c].st \in {"accepted", "rejected"} => cand'[c].st = cand[c].st]_vars

(* Every message with a link signal is scanned in the end.                  *)
EveryLinkScanned == \A e \in Linked : raw[e] # None ~> scan[e] = "done" \/ raw[e] = None

(* history/2026-08.md: after a merge only the canonical thread is returned. *)
MergedThreadIsGone == \A e \in Events : Effective(e) # None => ~alias[Effective(e)].active

(* The comment of resolve_pending_replies_in_txn: the old thread is closed  *)
(* when it has become empty.                                                *)
ClosedWhenEmpty ==
    [][\A t \in Threads : status[t] = "open" /\ status'[t] = "closed"
         => \A e \in Events : Effective(e)' # t]_vars

(* persist_proposal: a split must leave at least one event in the source    *)
(* thread.                                                                  *)
SplitLeavesMembers ==
    [][\A p \in Proposals : prop[p].st = "approved" /\ prop'[p].st = "applied" /\ prop[p].kind = "split"
         => \E e \in Events : raw[e] # None /\ EffectiveIn(alias', split', e) = prop[p].canonical]_vars
=============================================================================
