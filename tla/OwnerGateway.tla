----------------------------- MODULE OwnerGateway -----------------------------
(***************************************************************************)
(* The QQ open platform gateway: how a message to the bot becomes a stored *)
(* event and, from the owner, a run or the answer to a suspended one.      *)
(*                                                                         *)
(*   qq-open-platform gateway.rs, api.rs, token.rs,                        *)
(*   adapters/qq_open_platform.rs (run_gateway_loop,                       *)
(*   OfficialInboundHandler), owner_approval.rs,                           *)
(*   infrastructure/qq_open_platform_mysql.rs                              *)
(*                                                                         *)
(* The platform numbers the dispatches of a session, keeps them, and sends *)
(* them again from the number a client resumes with (external).  READY has *)
(* number 1, the event at position i of a session number i + 1.  The       *)
(* client works on one dispatch at a time; a connection that ends, whoever *)
(* ends it, forgets what was not saved.                                    *)
(***************************************************************************)
EXTENDS Integers, Sequences, FiniteSets

CONSTANTS
    Commands,     \* messages of the owner that ask for something
    Approvals,    \* messages of the owner that answer a proposal
    Others,       \* messages of anybody else
    Oversized,    \* events map_message_event refuses
    Target,       \* approval -> the command its short id names, or None
    None,
    MaxSessions,  \* bound: sessions the platform opens
    MaxFaults     \* bound: ended connections, failed writes, lost sessions

Events == Commands \cup Approvals \cup Others

ASSUME GatewayAssumption ==
    /\ Commands \cap Approvals = {} /\ Others \cap (Commands \cup Approvals) = {}
    /\ Oversized \subseteq Events
    /\ Target \in [Approvals -> Commands \cup {None}]
    /\ None \notin Events
    /\ MaxSessions \in Nat /\ MaxFaults \in Nat

VARIABLES
    log,        \* the platform: events of each session, in order
    opened,     \* the platform: sessions opened
    live,       \* the platform: the session it knows, 0 for none
    sent,       \* the platform: dispatches sent on this connection
    stored,     \* secretary_qq_gateway_sessions
    session,    \* the session in memory
    pc,         \* where run_once is
    messages,   \* secretary_source_events
    raw,        \* secretary_qq_raw_events
    run,        \* action runs, by command
    resumed,    \* pairs of an approval and the command it answered
    faults

platform == <<log, opened, live>>
tables == <<messages, raw, run, resumed>>
vars == <<platform, sent, stored, session, pc, tables, faults>>

Sessions == 1..MaxSessions
NoSession == [id |-> 0, sequence |-> 0]

Init ==
    /\ log = [s \in Sessions |-> <<>>] /\ opened = 0 /\ live = 0 /\ sent = 0
    /\ stored = NoSession /\ session = NoSession /\ pc = "down"
    /\ messages = {} /\ raw = {} /\ resumed = {}
    /\ run = [c \in Commands |-> "none"]
    /\ faults = 0

Fault == faults < MaxFaults /\ faults' = faults + 1

-----------------------------------------------------------------------------
(* The platform *)

Elements(q) == {q[i] : i \in DOMAIN q}
Received == UNION {Elements(log[s]) : s \in Sessions}

(* A message to the bot, while the platform keeps a session for it. *)
Arrive(e) ==
    /\ live # 0 /\ e \notin Received
    /\ log' = [log EXCEPT ![live] = Append(@, e)]
    /\ UNCHANGED <<opened, live, sent, stored, session, pc, tables, faults>>

(* The platform drops the session, and with it the connection. *)
Forget ==
    /\ live # 0 /\ Fault
    /\ live' = 0 /\ pc' = "down" /\ session' = NoSession /\ sent' = 0
    /\ UNCHANGED <<log, opened, stored, tables>>

(* A run proposes something that needs the owner's word. *)
Suspend(c) ==
    /\ run[c] = "pending"
    /\ run' = [run EXCEPT ![c] = "suspended"]
    /\ UNCHANGED <<platform, sent, stored, session, pc, messages, raw, resumed, faults>>

-----------------------------------------------------------------------------
(* run_once *)

Connect ==
    /\ pc = "down"
    /\ session' = stored /\ pc' = "hello" /\ sent' = 0
    /\ UNCHANGED <<platform, stored, tables, faults>>

(* HELLO: RESUME with the session that was saved, else IDENTIFY. *)
Identify ==
    /\ pc = "hello" /\ session = NoSession
    /\ opened < MaxSessions /\ opened' = opened + 1 /\ live' = opened + 1
    /\ pc' = "open" /\ sent' = 0
    /\ UNCHANGED <<log, stored, session, tables, faults>>

ResumeFrom(s) == s.sequence

Resume ==
    /\ pc = "hello" /\ session # NoSession
    /\ \/ live = session.id /\ pc' = "open" /\ sent' = ResumeFrom(session)
       \/ live # session.id /\ pc' = "invalid" /\ UNCHANGED sent
    /\ UNCHANGED <<platform, stored, session, tables, faults>>

(* OP_INVALID_SESSION with d false. *)
InvalidSession ==
    /\ pc = "invalid"
    /\ stored' = NoSession /\ session' = NoSession /\ pc' = "down"
    /\ UNCHANGED <<platform, sent, tables, faults>>

(* OP_RECONNECT, a close, an error, a heartbeat without its answer, a write *)
(* that fails: run_once returns, and the loop connects again.               *)
Disconnect ==
    /\ pc # "down" /\ Fault
    /\ pc' = "down" /\ session' = NoSession
    /\ UNCHANGED <<platform, sent, stored, tables>>

Event == log[live][sent - 1]

(* READY, or the next event of the session: map_message_event. *)
Dispatch ==
    /\ pc = "open" /\ sent <= Len(log[live])
    /\ sent' = sent + 1
    /\ \/ /\ sent = 0
          /\ session' = [id |-> live, sequence |-> 1] /\ pc' = "save"
       \/ /\ sent > 0 /\ log[live][sent] \in Oversized
          /\ pc' = "down" /\ session' = NoSession
       \/ /\ sent > 0 /\ log[live][sent] \notin Oversized
          /\ pc' = "insert" /\ UNCHANGED session
    /\ UNCHANGED <<platform, stored, tables, faults>>

-----------------------------------------------------------------------------
(* OfficialInboundHandler.persist *)

InsertMessage ==
    /\ pc = "insert"
    /\ messages' = messages \cup {Event} /\ pc' = "raw"
    /\ UNCHANGED <<platform, sent, stored, session, raw, run, resumed, faults>>

(* Mutant: a failed write is logged and passed over. *)
PersistRaw_Lenient ==
    /\ pc = "raw"
    /\ \/ raw' = raw \cup {Event} /\ UNCHANGED faults
       \/ Fault /\ UNCHANGED raw
    /\ pc' = IF Event \in Others THEN "advance" ELSE "instruct"
    /\ UNCHANGED <<platform, sent, stored, session, messages, run, resumed>>

PersistRaw ==
    /\ pc = "raw"
    /\ raw' = raw \cup {Event}
    /\ pc' = IF Event \in Others THEN "advance" ELSE "instruct"
    /\ UNCHANGED <<platform, sent, stored, session, messages, run, resumed, faults>>

(* Mutant: a command that comes again starts again. *)
Ensured_Again(c) == "pending"

Ensured(c) == IF run[c] = "none" THEN "pending" ELSE run[c]

(* ensure_action_run_for_owner_command; an error is logged and dropped. *)
EnsureActionRun ==
    /\ pc = "instruct" /\ Event \in Commands
    /\ \/ run' = [run EXCEPT ![Event] = Ensured(Event)] /\ UNCHANGED faults
       \/ Fault /\ UNCHANGED run
    /\ pc' = "advance"
    /\ UNCHANGED <<platform, sent, stored, session, messages, raw, resumed>>

Matches(a) == {c \in Commands : run[c] = "suspended" /\ Target[a] \in {None, c}}

(* try_resume_owner_approval: exactly one suspended proposal, else and on an *)
(* error the answer is dropped.                                              *)
ResumeApproval ==
    /\ pc = "instruct" /\ Event \in Approvals
    /\ \/ /\ UNCHANGED faults
          /\ \/ \E c \in Matches(Event) :
                   /\ Matches(Event) = {c}
                   /\ run' = [run EXCEPT ![c] = "resumed"]
                   /\ resumed' = resumed \cup {<<Event, c>>}
             \/ Cardinality(Matches(Event)) # 1 /\ UNCHANGED <<run, resumed>>
       \/ Fault /\ UNCHANGED <<run, resumed>>
    /\ pc' = "advance"
    /\ UNCHANGED <<platform, sent, stored, session, messages, raw>>

-----------------------------------------------------------------------------
(* The sequence moves once persist has returned. *)

Advance ==
    /\ pc = "advance"
    /\ session' = [session EXCEPT !.sequence = sent] /\ pc' = "save"
    /\ UNCHANGED <<platform, sent, stored, tables, faults>>

(* ON DUPLICATE KEY UPDATE: the sequence of a session never goes back. *)
Saved(row, new) ==
    IF row.id = new.id /\ row.sequence > new.sequence THEN row ELSE new

SaveSession ==
    /\ pc = "save"
    /\ stored' = Saved(stored, session) /\ pc' = "open"
    /\ UNCHANGED <<platform, sent, session, tables, faults>>

-----------------------------------------------------------------------------
Client == \/ Connect \/ Identify \/ Resume \/ InvalidSession \/ Dispatch
          \/ InsertMessage \/ PersistRaw \/ EnsureActionRun \/ ResumeApproval
          \/ Advance \/ SaveSession

Next == \/ \E e \in Events : Arrive(e)
        \/ \E c \in Commands : Suspend(c)
        \/ Forget \/ Disconnect \/ Client

Spec == Init /\ [][Next]_vars

(* run_gateway_loop connects again after every end, and the platform sends   *)
(* what a session still has to send.                                         *)
FairSpec == Spec /\ WF_vars(Client)

-----------------------------------------------------------------------------
Row == [id : 0..MaxSessions, sequence : Nat]

(* A session in memory or in the database never runs ahead of the platform. *)
TypeOK ==
    /\ log \in [Sessions -> Seq(Events)] /\ opened \in 0..MaxSessions /\ live \in 0..opened
    /\ sent \in Nat
    /\ \A s \in {stored, session} :
          s \in Row /\ (s.id # 0 => s.sequence \in 1..(Len(log[s.id]) + 1))
    /\ pc \in {"down", "hello", "invalid", "open", "insert", "raw", "instruct", "advance", "save"}
    /\ messages \subseteq Events /\ raw \subseteq Events
    /\ run \in [Commands -> {"none", "pending", "suspended", "resumed"}]
    /\ resumed \subseteq Approvals \X Commands
    /\ faults \in 0..MaxFaults

(* What RESUME and the heartbeat tell the platform it need not send again is *)
(* stored, with its raw event, wherever run_once was cut off                 *)
(* (GatewayEventHandlerT::persist, gateway.rs 62).                           *)
NothingSkipped ==
    \A s \in {stored, session} :
        s.id # 0 => \A i \in 1..(s.sequence - 1) : log[s.id][i] \in messages \cap raw

(* A command that is delivered again does not set its run back               *)
(* (ensure_action_run).                                                      *)
CommandRunsOnce ==
    [][\A c \in Commands : run[c] \in {"suspended", "resumed"} => run'[c] \in {run[c], "resumed"}]_vars

(* Every event is stored, unless its session is gone before: what a cut       *)
(* connection lost is sent again after RESUME (run_gateway_loop).             *)
EventsStored ==
    \A e \in Events, s \in Sessions :
        (live = s /\ e \in Elements(log[s])) ~> (e \in raw \/ live # s)

(* A command of the owner that was acknowledged to the platform has a run    *)
(* (persist, qq_open_platform.rs 720: "防止...导致命令永久没有 Run").          *)
CommandsPlanned ==
    stored.id # 0 => \A i \in 1..(stored.sequence - 1) :
        log[stored.id][i] \in Commands => run[log[stored.id][i]] # "none"

(* An answer of the owner settles one proposal (try_resume_owner_approval,   *)
(* qq_open_platform.rs 574: a vague answer is not to hit the wrong one).     *)
OneProposalPerAnswer ==
    \A a \in Approvals : Cardinality({c \in Commands : <<a, c>> \in resumed}) <= 1
===============================================================================
