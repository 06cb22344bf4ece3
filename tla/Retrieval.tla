------------------------------ MODULE Retrieval ------------------------------
(***************************************************************************)
(* The retriever: what the owner and the model are shown of the store      *)
(* (mysql_retriever.rs, retriever_service.rs, domain/retriever.rs, and the *)
(* readers of mysql_memory.rs).                                            *)
(*                                                                         *)
(* A view is put together by several SELECTs, each on a snapshot of its    *)
(* own, while messages are stored, withdrawn, merged into other threads or *)
(* taken out of memory with their conversation.  A call is a process whose *)
(* steps are its statements; the writers are the coarse effects of the     *)
(* other modules (InboundStore, ThreadOverlay, ThreadSemantics, Memory).   *)
(*                                                                         *)
(* A message is a number, which is also its time; messages and recalls are *)
(* committed in any order.  What a view shows is kept as the set of        *)
(* messages whose words or sender it gives away.  Texts are left out:      *)
(* every message matches the searched expression.                          *)
(***************************************************************************)
EXTENDS Integers, FiniteSets, Sequences

CONSTANTS
    Events,          \* messages, numbered in the order they were sent
    Commands,        \* those that the owner sent from the account of commands
    Conversations,
    Threads,
    Actors,
    conversation,    \* the conversation of a message
    actor,           \* its sender
    reply_to,        \* the message it says it answers, 0 for none
    thread,          \* the thread the projection put it in
    root_event,      \* the first message of a thread
    DerivedKinds,    \* which derived rows the instance has
    CandidateLimit,  \* LIMIT of find_reference_candidates (10)
    MaxDerived,      \* bound: derived rows that exist at a time
    Modes,           \* the memory modes the owner sets: of "normal", "local_only"
                     \* and "restricted" (envelope_only and never_long_term, which
                     \* every reader treats alike)
    LocalModel       \* the model is a loopback one and may read local_only

(* What the constants are to satisfy; an instance assumes it. *)
RetrievalAssumption ==
    /\ Events \subseteq Nat \ {0} /\ Commands \subseteq Events
    /\ conversation \in [Events -> Conversations]
    /\ actor \in [Events -> Actors]
    /\ reply_to \in [Events -> Events \cup {0}]
    /\ thread \in [Events -> Threads]
    /\ root_event \in [Threads -> Events]
    /\ CandidateLimit \in Nat \ {0}
    /\ Modes \subseteq {"normal", "local_only", "restricted"}
    /\ LocalModel \in BOOLEAN

VARIABLES
    stored,      \* messages in secretary_source_events, with their content
    recalled,    \* messages with a tombstone: applied, or pending until they are stored
    mode,        \* memory_mode of the conversations
    alias,       \* merged thread -> canonical thread
    derived,     \* claims, decisions, questions and confirmed facts
    call         \* the call under way

vars == <<stored, recalled, mode, alias, derived, call>>
store == <<stored, recalled, mode, alias, derived>>

ThreadKinds == {"claim", "decision", "question"}
FactKinds == {"commitment", "person", "project"}

Idle == [pc |-> "idle"]

-----------------------------------------------------------------------------
(* What a statement may show                                               *)

\* RetrievalVisibility::for_model: local_only only for a loopback model that
\* the configuration allows it to.
includes_local_only == LocalModel

\* Who reads.  The searches serve the model; list_active and
\* load_with_sources read facts, and take a command of the owner as a source
\* whatever its account and its conversation (message_role = 'owner_command').
ModelSearches == {"search_events", "list_recent_event_views", "read_source_event"}
FactReaders == {"list_active", "load_with_sources", "fact_sources"}
Reader(op) == IF op \in ModelSearches THEN "model"
              ELSE IF op \in FactReaders THEN "facts" ELSE "owner"

\* The WHERE clause of every statement: no tombstone, a content row, the
\* managed account, and a conversation that is normal (or local_only).
Shows(reader, m, s, r, e) ==
    /\ e \in s \ r
    /\ IF e \in Commands THEN reader = "facts"
       ELSE \/ m[conversation[e]] = "normal"
            \/ reader = "model" /\ includes_local_only /\ m[conversation[e]] = "local_only"
Seen(reader, e) == Shows(reader, mode, stored, recalled, e)
Visible(e) == Seen("owner", e)
VisibleToModel(e) == Seen("model", e)

\* The column reply_to_event_id: NULL until the parent is stored, in whose
\* transaction the replies that wait for it are linked (ReplyThreads).
reply_to_event_id(e) == IF reply_to[e] \in stored THEN reply_to[e] ELSE 0

\* secretary_effective_thread_events.
Effective(e) == alias[thread[e]]
InThread(t) == {e \in Events : Visible(e) /\ Effective(e) = t}

\* A derived row is readable while all of its sources are, and it has one.
SourcesSeen(reader, d) == d.sources # {} /\ \A e \in d.sources : Seen(reader, e)
SourcesVisible(d) == SourcesSeen("owner", d)
Readable(kind) == {d \in derived : d.kind = kind /\ SourcesVisible(d)}
OfThread(kind, t) == {d \in Readable(kind) : d.thread = t}
SourcesOf(rows) == UNION {d.sources : d \in rows}

\* serde_json::to_string(&MemoryFact): the payload is a field of the fact.
fact_json(d) == [fact_id |-> d, payload |-> [kind |-> d.kind, data |-> [person |-> d.who, promisor |-> d.who, due_at |-> 1]]]
\* JSON_EXTRACT of a top level field, NULL when there is none.
HasField(json, field) == field \in DOMAIN json

-----------------------------------------------------------------------------
(* The writers                                                             *)

\* What has been hidden since the call began stays in its record.
StillHidden(s, r, m) ==
    IF call.pc = "idle" THEN call
    ELSE [call EXCEPT !.hidden = {e \in @ : ~Shows(Reader(call.op), m, s, r, e)}]

\* The insert applies a tombstone that waits for the message.
Store(e) ==
    /\ e \notin stored
    /\ stored' = stored \cup {e}
    /\ call' = StillHidden(stored', recalled, mode)
    /\ UNCHANGED <<recalled, mode, alias, derived>>

Recall(e) ==
    /\ e \notin recalled
    /\ recalled' = recalled \cup {e}
    /\ call' = StillHidden(stored, recalled', mode)
    /\ UNCHANGED <<stored, mode, alias, derived>>

SetMode(c, m) ==
    /\ mode[c] # m
    /\ mode' = [mode EXCEPT ![c] = m]
    /\ call' = StillHidden(stored, recalled, mode')
    /\ UNCHANGED <<stored, recalled, alias, derived>>

Merge(t, u) ==
    /\ t # u /\ alias[t] = t /\ alias[u] = u
    /\ \E e \in stored : thread[e] = t
    /\ \E e \in stored : thread[e] = u
    /\ alias' = [x \in Threads |-> IF alias[x] = t THEN u ELSE alias[x]]
    /\ UNCHANGED <<stored, recalled, mode, derived, call>>

Derive(kind, e) ==
    /\ kind \in DerivedKinds
    /\ Visible(e)
    /\ Cardinality(derived) < MaxDerived
    /\ \E more \in SUBSET InThread(Effective(e)) :
         derived' = derived \cup
             {[kind |-> kind, thread |-> Effective(e), who |-> actor[e], sources |-> {e} \cup more]}
    /\ UNCHANGED <<stored, recalled, mode, alias, call>>

\* A commitment is fulfilled: the fact that takes its place cites the
\* command of the owner as well.
Fulfil(d, e) ==
    /\ d.kind = "commitment" /\ d.sources \cap Commands = {}
    /\ e \in Commands \cap stored
    /\ derived' = (derived \ {d}) \cup {[d EXCEPT !.sources = @ \cup {e}]}
    /\ UNCHANGED <<stored, recalled, mode, alias, call>>

\* The row is superseded, resolved or deleted.
Retract(d) ==
    /\ derived' = derived \ {d}
    /\ UNCHANGED <<stored, recalled, mode, alias, call>>

-----------------------------------------------------------------------------
(* Calls                                                                   *)

\* A call by op about arg.
Begin(op, arg) ==
    /\ call = Idle
    /\ call' = [op |-> op, arg |-> arg, pc |-> op, shown |-> {},
                hidden |-> {e \in Events : ~Seen(Reader(op), e)}, thread |-> {},
                reply |-> 0, parent |-> 0, rows |-> {}, answer |-> "none"]
    /\ UNCHANGED store

At(pc) == call.pc = pc
Goes(to) == call' = [call EXCEPT !.pc = to]
Adds(to, events) == call' = [call EXCEPT !.pc = to, !.shown = @ \cup events]
Answers(events) ==
    call' = [call EXCEPT !.pc = "done", !.answer = "view", !.shown = @ \cup events]
AnswersNothing == call' = [call EXCEPT !.pc = "done", !.shown = {}, !.thread = {}, !.rows = {}]
Fails == call' = [call EXCEPT !.pc = "done", !.answer = "error", !.shown = {}, !.thread = {}]

Return == call.pc = "done" /\ call' = Idle /\ UNCHANGED store

\* event_causal_context: the event itself, and the reply it is linked as.
event_causal_context ==
    /\ At("event_causal_context")
    /\ IF Visible(call.arg)
       THEN call' = [call EXCEPT !.pc = "parent", !.reply = reply_to_event_id(call.arg),
                                 !.shown = @ \cup {call.arg}]
       ELSE AnswersNothing
    /\ UNCHANGED store

load_reply_parent ==
    /\ At("parent")
    /\ IF call.reply # 0 /\ Visible(call.reply)
       THEN call' = [call EXCEPT !.pc = "thread", !.parent = call.reply,
                                 !.shown = @ \cup {call.reply}]
       ELSE Goes("thread")
    /\ UNCHANGED store

\* The thread is named only while its first message may be read.
load_effective_thread ==
    /\ At("thread")
    /\ LET t == Effective(call.arg) IN
       IF call.arg \in stored /\ Visible(root_event[t])
       THEN call' = [call EXCEPT !.pc = "participants", !.thread = {t},
                                 !.shown = @ \cup {root_event[t]}]
       ELSE Goes("relations")
    /\ UNCHANGED store

load_thread_participants ==
    /\ At("participants")
    /\ Adds("relations", UNION {InThread(t) : t \in call.thread})
    /\ UNCHANGED store

load_structural_relations_Whole ==
    /\ At("relations")
    /\ Adds("requesters", {reply_to_event_id(call.arg)} \ {0})
    /\ UNCHANGED store

\* The view of relations does not look at visibility.  replies_to is dropped
\* when the first statement read a reply and its parent was not read; of a
\* reply that was linked since then the parent is named.
load_structural_relations ==
    /\ At("relations")
    /\ Adds("requesters", IF call.reply # 0 /\ call.parent = 0 THEN {}
                          ELSE {reply_to_event_id(call.arg)} \ {0})
    /\ UNCHANGED store

load_confirmed_requesters ==
    /\ At("requesters")
    /\ Adds("commitments", UNION {SourcesOf(OfThread("claim", t)) : t \in call.thread})
    /\ UNCHANGED store

\* The commitments with a source in the thread; each is decoded as the bare
\* payload, and the first that cannot be ends the call.
load_confirmed_commitments ==
    /\ At("commitments")
    /\ LET rows == {d \in Readable("commitment") :
                      \E e \in d.sources : e \in stored /\ Effective(e) \in call.thread}
       IN IF \E d \in rows : ~HasField(fact_json(d), "promisor")
          THEN Fails
          ELSE Answers(SourcesOf(rows))
    /\ UNCHANGED store

\* thread_context: overview, actors, then claims, decisions and questions.
thread_context ==
    /\ At("thread_context")
    /\ IF InThread(call.arg) = {} THEN AnswersNothing
       ELSE call' = [call EXCEPT !.pc = "actors", !.thread = {call.arg}]
    /\ UNCHANGED store

ThreadActors ==
    /\ At("actors")
    /\ Adds("claim", InThread(call.arg))
    /\ UNCHANGED store

\* The statement that follows the one for this kind of row.
NextKind == [claim |-> "decision", decision |-> "question"]

ThreadRows(kind) ==
    /\ At(kind)
    /\ IF kind = "question" THEN Answers(SourcesOf(OfThread(kind, call.arg)))
       ELSE Adds(NextKind[kind], SourcesOf(OfThread(kind, call.arg)))
    /\ UNCHANGED store

\* query_project and load_with_sources read the row first and its sources in
\* a second statement; the row may be superseded in between.
ReadRow(op, kinds, next) ==
    /\ At(op)
    /\ \/ \E d \in derived :
            /\ d.kind \in kinds
            /\ call' = [call EXCEPT !.pc = next, !.rows = {d}]
       \/ /\ ~\E d \in derived : d.kind \in kinds
          /\ AnswersNothing
    /\ UNCHANGED store
query_project == ReadRow("query_project", {"project"}, "project_sources")
load_with_sources == ReadRow("load_with_sources", FactKinds, "fact_sources")

\* Every source of the row that was read is readable.
SourceCheck(pc) ==
    /\ At(pc)
    /\ IF \A d \in call.rows : SourcesSeen(Reader(pc), d)
       THEN Answers(SourcesOf(call.rows)) ELSE AnswersNothing
    /\ UNCHANGED store
source_valid == SourceCheck("project_sources")
all_sources_visible == SourceCheck("fact_sources")

\* participant_context: what the participant said, then the confirmed memory
\* of the person, looked up by a top level field of the stored fact.
load_related_event_ids ==
    /\ At("participant_context")
    /\ Adds("person", {e \in Events : Visible(e) /\ actor[e] = call.arg})
    /\ UNCHANGED store

load_confirmed_person_memory ==
    /\ At("person")
    /\ LET rows == {d \in Readable("person") :
                      HasField(fact_json(d), "person") /\ d.who = call.arg}
       IN call' = [call EXCEPT !.pc = "done", !.answer = "view", !.rows = rows,
                               !.shown = @ \cup SourcesOf(rows)]
    /\ UNCHANGED store

\* list_upcoming extracts the due time from a top level field as well.
list_upcoming ==
    /\ At("list_upcoming")
    /\ LET rows == {d \in Readable("commitment") : HasField(fact_json(d), "due_at")}
       IN call' = [call EXCEPT !.pc = "done", !.answer = "view", !.rows = rows,
                               !.shown = SourcesOf(rows)]
    /\ UNCHANGED store

\* One statement each, with the right path into the stored fact.
ListFacts(op, kinds) ==
    /\ At(op)
    /\ Answers(SourcesOf({d \in derived : d.kind \in kinds /\ SourcesSeen(Reader(op), d)}))
    /\ UNCHANGED store
list_projects == ListFacts("list_projects", {"project"})
list_commitments == ListFacts("list_commitments", {"commitment"})
list_active == ListFacts("list_active", FactKinds)

\* The searches that serve the model: one statement each.
search_events ==
    /\ At("search_events")
    /\ Answers({e \in Events : VisibleToModel(e)})
    /\ UNCHANGED store

list_recent_event_views ==
    /\ At("list_recent_event_views")
    /\ Answers({e \in Events : VisibleToModel(e)})
    /\ UNCHANGED store

\* read_source_event for the model.
read_source_event ==
    /\ At("read_source_event")
    /\ IF VisibleToModel(call.arg) THEN Answers({call.arg}) ELSE AnswersNothing
    /\ UNCHANGED store

-----------------------------------------------------------------------------
(* References                                                              *)

\* The newest CandidateLimit matches in a conversation, of any thread.
InScope(c) == {e \in Events : Visible(e) /\ conversation[e] = c}
Newest(S) == {e \in S : Cardinality({f \in S : f > e}) < CandidateLimit}
find_reference_candidates(c) == Newest(InScope(c))

\* resolve_reference: one sender and at most one thread among the candidates;
\* call.rows keeps the matches of the scope, to compare with.
resolve_reference ==
    /\ At("resolve_reference")
    /\ LET found == find_reference_candidates(call.arg)
           senders == {actor[e] : e \in found}
           threads == {Effective(e) : e \in found}
       IN call' = [call EXCEPT
             !.pc = "done", !.rows = {<<actor[e], Effective(e)>> : e \in InScope(call.arg)},
             !.answer = IF Cardinality(senders) = 1 /\ Cardinality(threads) <= 1
                        THEN "resolved" ELSE "ambiguous",
             !.thread = threads, !.shown = found]
    /\ UNCHANGED store

Init ==
    /\ stored = {}
    /\ recalled = {}
    /\ mode = [c \in Conversations |-> "normal"]
    /\ alias = [t \in Threads |-> t]
    /\ derived = {}
    /\ call = Idle

Write ==
    \/ \E e \in Events : Store(e) \/ Recall(e)
    \/ \E c \in Conversations, m \in Modes : SetMode(c, m)
    \/ \E t, u \in Threads : Merge(t, u)
    \/ \E kind \in ThreadKinds \cup FactKinds, e \in Events : Derive(kind, e)
    \/ \E d \in derived : Retract(d) \/ \E e \in Commands : Fulfil(d, e)

Ask ==
    \/ \E op \in {"event_causal_context", "read_source_event"}, e \in Events : Begin(op, e)
    \/ \E t \in Threads : Begin("thread_context", t)
    \/ \E a \in Actors : Begin("participant_context", a)
    \/ \E c \in Conversations : Begin("resolve_reference", c)
    \/ \E op \in {"query_project", "load_with_sources", "list_upcoming", "list_projects",
                "list_commitments", "list_active", "search_events",
                "list_recent_event_views"} : Begin(op, 0)

Read ==
    \/ event_causal_context \/ load_reply_parent \/ load_effective_thread
    \/ load_thread_participants \/ load_structural_relations
    \/ load_confirmed_requesters \/ load_confirmed_commitments
    \/ thread_context \/ ThreadActors \/ \E kind \in ThreadKinds : ThreadRows(kind)
    \/ query_project \/ source_valid \/ load_with_sources \/ all_sources_visible
    \/ load_related_event_ids \/ load_confirmed_person_memory
    \/ list_upcoming \/ list_projects \/ list_commitments \/ list_active
    \/ search_events \/ list_recent_event_views \/ read_source_event
    \/ resolve_reference
    \/ Return

Next == Write \/ Ask \/ Read

Spec == Init /\ [][Next]_vars

-----------------------------------------------------------------------------
(* Properties                                                              *)

TypeOK ==
    /\ recalled \subseteq Events /\ stored \subseteq Events
    /\ mode \in [Conversations -> Modes]
    /\ alias \in [Threads -> Threads]
    /\ \A d \in derived : d.kind \in DerivedKinds /\ d.sources \subseteq stored
    /\ call = Idle \/ (call.shown \subseteq Events /\ call.hidden \subseteq Events)

\* The parent of a reply that was not linked yet when its context was begun.
LinkedSince(c) ==
    IF c.op = "event_causal_context" /\ c.reply = 0 THEN {reply_to[c.arg]} ELSE {}

\* Whatever the order of the statements and of the recalls and mode changes
\* between them, no view gives away a message that was out of the reader's
\* reach from the call's beginning on: each statement filters for itself,
\* and the one that does not (the relations) is cut down to what was read.
\* The exception is the parent of a reply that is linked during the call.
NothingHiddenShown == call # Idle => call.shown \cap call.hidden \subseteq LinkedSince(call)

\* "The parents of replies are filtered like every other source" (TODO.md:513).
ParentsFiltered == call # Idle => call.shown \cap call.hidden = {}

\* The strengthening that is inductive: what a call may not show is what was
\* out of its reach in every state since it began, and the parent it names
\* is the reply that it read first, and one that it could see.
CallFields ==
    {"op", "arg", "pc", "shown", "hidden", "thread", "reply", "parent", "rows", "answer"}

CausalPlaces == {"event_causal_context", "parent", "thread", "participants", "relations"}

ViewInv ==
    \/ call = Idle
    \/ /\ call = [f \in CallFields |-> call[f]] /\ call.pc # "idle"
       /\ call.shown \cap call.hidden \subseteq LinkedSince(call)
       /\ \A e \in call.hidden : ~Seen(Reader(call.op), e)
       /\ call.pc # "done" =>
            /\ Reader(call.pc) = Reader(call.op)
            /\ call.pc \in CausalPlaces => call.op = "event_causal_context"
            /\ call.pc = "event_causal_context" => call.shown = {} /\ call.parent = 0
            /\ call.reply # 0 => call.reply = reply_to[call.arg]
            /\ call.parent # 0 => call.parent = call.reply /\ call.parent \notin call.hidden

\* A reference is resolved only when the scope has one candidate: "zero or
\* several legal candidates in the scope are never taken for a unique one"
\* (domain/retriever.rs:1331).
UniqueInScope ==
    (call # Idle /\ call.answer = "resolved") => Cardinality(call.rows) = 1

\* The causal context of a message that may be read is a view, not an error
\* (mysql_retriever.rs:1314 adds the confirmed commitments of its thread).
CausalContextAnswers ==
    (call # Idle /\ call.op = "event_causal_context") => call.answer # "error"

\* What is confirmed about a person and may be read is in the person's
\* context (TODO.md:294, MEM-002).
PersonMemoryShown ==
    [][load_confirmed_person_memory =>
         \A d \in Readable("person") : d.who = call.arg => d \in call'.rows]_vars

\* A commitment that is due is among the upcoming items: "due_at_unix_secs is
\* in fact_json, extracted with JSON_EXTRACT" (mysql_retriever.rs:687).
CommitmentsListed == [][list_upcoming => Readable("commitment") \subseteq call'.rows]_vars

=============================================================================
