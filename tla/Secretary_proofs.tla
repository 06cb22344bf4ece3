--------------------------- MODULE Secretary_proofs ---------------------------
(***************************************************************************)
(* Proofs about the components of Conversations and of Knowledge, for      *)
(* every value of their constants.                                         *)
(*                                                                         *)
(* 1. OwnerGateway, for any events, sessions and faults: what the platform *)
(*    is told it need not send again is stored.                            *)
(* 2. ThreadSemantics, for any messages, conversations and commands: what  *)
(*    may not be kept leaves nothing derived, a message is read once, and  *)
(*    no thread is resolved over an open question.                         *)
(* 3. ThreadOverlay: the owner's verdicts about pairs of threads.          *)
(* 4. ThreadOverlay: merges and splits, and their reversal in any order.   *)
(* 5. ReplyThreads, for any events and parents: replies, threads and what  *)
(*    is derived of them fit together.                                     *)
(* 6. Memory: one fact of a subject, nothing of a restricted conversation, *)
(*    and a scan that passes by no message it could see.                   *)
(* 7. Retrieval: no view shows what was hidden since it began, but for the *)
(*    parent of a reply that is linked meanwhile.                          *)
(* 8. Participants: a name or a card is shown only while a message         *)
(*    supports it, and what may be said of old names.                      *)
(* 9. PagedQueries: a stable row is on one page.                           *)
(***************************************************************************)
EXTENDS Conversations, Knowledge, FiniteSetTheorems, TLAPS

(* 1. The owner's gateway.                                                  *)

PlatformOK ==
    /\ log \in [Sessions -> Seq(Events)] /\ opened \in 0..MaxSessions /\ live \in 0..opened
    /\ sent \in Nat

TablesOK ==
    /\ messages \subseteq Events /\ raw \subseteq Events
    /\ run \in [Commands -> {"none", "pending", "suspended", "resumed"}]
    /\ resumed \subseteq Approvals \X Commands
    /\ faults \in 0..MaxFaults

(* A row of secretary_qq_gateway_sessions, or its copy in memory: what is   *)
(* behind its sequence is stored.                                           *)
RowOK(s) ==
    /\ s \in Row
    /\ s.id = 0 => s = NoSession
    /\ s.id # 0 => /\ s.sequence >= 1 /\ s.sequence <= Len(log[s.id]) + 1
                   /\ \A i \in 1..(s.sequence - 1) : log[s.id][i] \in messages \cap raw

Connected == pc \in {"open", "insert", "raw", "instruct", "advance", "save"}
Handling == pc \in {"insert", "raw", "instruct", "advance"}

(* Where run_once stands between the platform's count and its own: they     *)
(* differ by the one event that is being handled.                           *)
Place ==
    /\ pc \in {"down", "hello", "invalid", "open", "insert", "raw", "instruct", "advance", "save"}
    /\ Connected => live # 0
    /\ pc = "open" => \/ session = NoSession /\ sent = 0
                      \/ session.id = live /\ sent = session.sequence
    /\ pc = "save" => session.id = live /\ sent = session.sequence
    /\ Handling => /\ session.id = live /\ sent = session.sequence + 1
                   /\ sent - 1 <= Len(log[live])
    /\ pc \in {"raw", "instruct", "advance"} => Event \in messages
    /\ pc \in {"instruct", "advance"} => Event \in raw

Inv == PlatformOK /\ TablesOK /\ RowOK(stored) /\ RowOK(session) /\ Place

-----------------------------------------------------------------------------
LEMMA Constants == MaxSessions \in Nat /\ MaxFaults \in Nat /\ 0 \notin Sessions
  BY GatewayAssumption DEF Sessions

LEMMA NoSessionOK == RowOK(NoSession)
  BY Constants DEF RowOK, NoSession, Row

LEMMA InitInv == Init => Inv
  <1> SUFFICES ASSUME Init PROVE Inv
    OBVIOUS
  <1>1. PlatformOK
    BY Constants DEF Init, PlatformOK
  <1>2. TablesOK
    BY Constants DEF Init, TablesOK
  <1>3. RowOK(stored) /\ RowOK(session)
    BY NoSessionOK DEF Init
  <1>4. Place
    BY DEF Init, Place, Connected, Handling
  <1> QED BY <1>1, <1>2, <1>3, <1>4 DEF Inv

LEMMA LiveSession == ASSUME PlatformOK, live # 0 PROVE live \in Sessions
  BY Constants DEF PlatformOK, Sessions

LEMMA RowSession == ASSUME NEW s, RowOK(s), s.id # 0 PROVE s.id \in Sessions /\ s.sequence \in Nat
  BY Constants DEF RowOK, Row, Sessions

(* What is behind a sequence stays behind it: logs and tables only grow. *)
LEMMA RowKept ==
    ASSUME NEW s, RowOK(s), PlatformOK,
           \A t \in Sessions : /\ Len(log'[t]) \in Nat /\ Len(log'[t]) >= Len(log[t])
                               /\ \A i \in 1..Len(log[t]) : log'[t][i] = log[t][i],
           messages \subseteq messages', raw \subseteq raw'
    PROVE  /\ s \in Row /\ (s.id = 0 => s = NoSession)
           /\ s.id # 0 => /\ s.sequence >= 1 /\ s.sequence <= Len(log'[s.id]) + 1
                          /\ \A i \in 1..(s.sequence - 1) : log'[s.id][i] \in messages' \cap raw'
  <1>1. s \in Row /\ (s.id = 0 => s = NoSession)
    BY DEF RowOK
  <1>2. ASSUME s.id # 0
        PROVE  /\ s.sequence >= 1 /\ s.sequence <= Len(log'[s.id]) + 1
               /\ \A i \in 1..(s.sequence - 1) : log'[s.id][i] \in messages' \cap raw'
    <2>1. s.id \in Sessions /\ s.sequence \in Nat
      BY <1>2, RowSession
    <2>2. Len(log[s.id]) \in Nat
      BY <2>1 DEF PlatformOK
    <2>3. /\ s.sequence >= 1 /\ s.sequence <= Len(log[s.id]) + 1
          /\ \A i \in 1..(s.sequence - 1) : log[s.id][i] \in messages \cap raw
      BY <1>2 DEF RowOK
    <2>4. /\ Len(log'[s.id]) \in Nat /\ Len(log'[s.id]) >= Len(log[s.id])
          /\ \A i \in 1..Len(log[s.id]) : log'[s.id][i] = log[s.id][i]
      BY <2>1
    <2>5. s.sequence <= Len(log'[s.id]) + 1
      BY ONLY <2>1, <2>2, <2>3, <2>4
    <2>6. ASSUME NEW i \in 1..(s.sequence - 1)
          PROVE  log'[s.id][i] \in messages' \cap raw'
      <3>1. i \in 1..Len(log[s.id])
        BY ONLY <2>1, <2>2, <2>3, i \in 1..(s.sequence - 1)
      <3>2. log'[s.id][i] = log[s.id][i] /\ log[s.id][i] \in messages \cap raw
        BY <2>3, <2>4, <3>1
      <3> QED BY <3>2
    <2> QED BY <2>3, <2>5, <2>6
  <1> QED BY <1>1, <1>2

(* The steps that leave the log alone. *)
LEMMA SameLog ==
    ASSUME Inv, NEW s, RowOK(s), UNCHANGED log, messages \subseteq messages', raw \subseteq raw'
    PROVE  /\ s \in Row /\ (s.id = 0 => s = NoSession)
           /\ s.id # 0 => /\ s.sequence >= 1 /\ s.sequence <= Len(log'[s.id]) + 1
                          /\ \A i \in 1..(s.sequence - 1) : log'[s.id][i] \in messages' \cap raw'
  <1>1. \A t \in Sessions : /\ Len(log'[t]) \in Nat /\ Len(log'[t]) >= Len(log[t])
                            /\ \A i \in 1..Len(log[t]) : log'[t][i] = log[t][i]
    BY DEF Inv, PlatformOK
  <1> QED BY <1>1, RowKept DEF Inv

-----------------------------------------------------------------------------
LEMMA ArriveInv == ASSUME Inv, NEW e \in Events, Arrive(e) PROVE Inv'
  <1>0. PlatformOK /\ TablesOK /\ RowOK(stored) /\ RowOK(session) /\ Place
    BY DEF Inv
  <1>1. /\ live # 0 /\ log' = [log EXCEPT ![live] = Append(@, e)]
        /\ UNCHANGED <<opened, live, sent, stored, session, pc, tables, faults>>
    BY DEF Arrive
  <1>2. live \in Sessions /\ log[live] \in Seq(Events)
    BY <1>0, <1>1, LiveSession DEF PlatformOK
  <1>3. /\ log'[live] \in Seq(Events) /\ Len(log'[live]) = Len(log[live]) + 1
        /\ \A i \in 1..Len(log[live]) : log'[live][i] = log[live][i]
        /\ \A t \in Sessions : t # live => log'[t] = log[t]
    BY <1>0, <1>1, <1>2 DEF PlatformOK
  <1>4. \A t \in Sessions : /\ Len(log'[t]) \in Nat /\ Len(log'[t]) >= Len(log[t])
                            /\ \A i \in 1..Len(log[t]) : log'[t][i] = log[t][i]
    BY <1>0, <1>2, <1>3 DEF PlatformOK
  <1>5. PlatformOK'
    BY <1>0, <1>1, <1>2, <1>3 DEF PlatformOK
  <1>6. TablesOK'
    BY <1>0, <1>1 DEF TablesOK, tables
  <1>7. RowOK(stored)' /\ RowOK(session)'
    BY <1>0, <1>1, <1>4, RowKept DEF RowOK, tables
  <1>8. Place'
    <2>1. Handling => Event' = Event /\ Len(log'[live]) >= Len(log[live])
      <3> SUFFICES ASSUME Handling PROVE Event' = Event /\ Len(log'[live]) >= Len(log[live])
        OBVIOUS
      <3>1. session.id # 0 /\ sent = session.sequence + 1 /\ sent - 1 <= Len(log[live])
        BY <1>0, <1>1 DEF Place
      <3>2. session.sequence \in Nat /\ session.sequence >= 1
        BY <1>0, <3>1, RowSession DEF RowOK
      <3>3. sent - 1 \in 1..Len(log[live])
        BY <1>2, <3>1, <3>2
      <3> QED BY <1>1, <1>2, <1>3, <3>3 DEF Event
    <2>2. Connected' = Connected /\ Handling' = Handling
      BY <1>1 DEF Connected, Handling
    <2>3. pc \in {"raw", "instruct", "advance"} => Handling
      BY DEF Handling
    <2>4. Handling => sent - 1 <= Len(log'[live])
      BY <1>0, <1>2, <1>3, <2>1 DEF Place, PlatformOK
    <2> QED BY <1>0, <1>1, <2>1, <2>2, <2>3, <2>4 DEF Place, tables
  <1> QED BY <1>5, <1>6, <1>7, <1>8 DEF Inv

(* A step that leaves the log alone needs its rows and its place looked at. *)
LEMMA QuietInv ==
    ASSUME Inv, NEW a, NEW b, RowOK(a), RowOK(b), stored' = a, session' = b,
           UNCHANGED log, messages \subseteq messages', raw \subseteq raw',
           PlatformOK', TablesOK', Place'
    PROVE  Inv'
  <1>1. RowOK(stored)'
    BY SameLog DEF RowOK
  <1>2. RowOK(session)'
    BY SameLog DEF RowOK
  <1> QED BY <1>1, <1>2 DEF Inv

(* The steps of the connection: the tables stay. *)
LEMMA ConnectionInv ==
    ASSUME Inv, Forget \/ Connect \/ Identify \/ Resume \/ InvalidSession \/ Disconnect
    PROVE  Inv'
  <1>0. PlatformOK /\ TablesOK /\ RowOK(stored) /\ RowOK(session) /\ Place
    BY DEF Inv
  <1>t. UNCHANGED <<log, messages, raw>> /\ TablesOK'
    BY <1>0, Constants DEF Forget, Connect, Identify, Resume, InvalidSession, Disconnect, Fault,
       platform, tables, TablesOK
  <1>p. PlatformOK'
    <2>1. CASE Identify
      BY <1>0, <2>1, Constants DEF Identify, PlatformOK
    <2>2. CASE Resume
      <3>1. ResumeFrom(session) \in Nat
        BY <1>0 DEF ResumeFrom, RowOK, Row
      <3> QED BY <1>0, <2>2, <3>1 DEF Resume, PlatformOK, platform
    <2>3. CASE Forget
      BY <1>0, <2>3 DEF Forget, PlatformOK
    <2>4. CASE Connect \/ InvalidSession \/ Disconnect
      BY <1>0, <2>4 DEF Connect, InvalidSession, Disconnect, PlatformOK, platform
    <2> QED BY <2>1, <2>2, <2>3, <2>4
  <1>r. /\ stored' \in {stored, NoSession} /\ session' \in {stored, session, NoSession}
    BY DEF Forget, Connect, Identify, Resume, InvalidSession, Disconnect
  <1>l. Place'
    <2>1. CASE pc' \in {"down", "hello", "invalid"}
      BY <2>1 DEF Place, Connected, Handling
    <2>2. CASE Identify
      BY <1>0, <2>2 DEF Identify, Place, Connected, Handling, PlatformOK
    <2>3. CASE Resume /\ pc' = "open"
      <3>1. live = session.id /\ sent' = session.sequence /\ UNCHANGED <<live, session>>
        BY <2>3 DEF Resume, ResumeFrom, platform
      <3>2. session.id # 0
        BY <1>0, <2>3 DEF Resume, RowOK
      <3> QED BY <2>3, <3>1, <3>2 DEF Place, Connected, Handling
    <2> QED BY <2>1, <2>2, <2>3 DEF Forget, Connect, Resume, InvalidSession, Disconnect
  <1>q. RowOK(stored') /\ RowOK(session')
    BY <1>0, <1>r, NoSessionOK
  <1> QED BY <1>0, <1>t, <1>p, <1>q, <1>l, QuietInv

LEMMA DispatchInv == ASSUME Inv, Dispatch PROVE Inv'
  <1>0. PlatformOK /\ TablesOK /\ RowOK(stored) /\ RowOK(session) /\ Place
    BY DEF Inv
  <1>1. /\ pc = "open" /\ sent <= Len(log[live]) /\ sent' = sent + 1
        /\ UNCHANGED <<log, opened, live, stored, messages, raw, run, resumed, faults>>
    BY DEF Dispatch, platform, tables
  <1>2. live \in Sessions /\ live # 0 /\ Len(log[live]) \in Nat
    BY <1>0, <1>1, LiveSession DEF Place, Connected, PlatformOK
  <1>3. PlatformOK' /\ TablesOK'
    BY <1>0, <1>1 DEF PlatformOK, TablesOK
  <1>4. CASE sent = 0 /\ session' = [id |-> live, sequence |-> 1] /\ pc' = "save"
    <2>1. RowOK([id |-> live, sequence |-> 1])
      BY <1>2, Constants DEF RowOK, Row, Sessions
    <2>2. Place'
      BY <1>1, <1>2, <1>4 DEF Place, Connected, Handling
    <2> QED BY <1>0, <1>1, <1>3, <1>4, <2>1, <2>2, QuietInv
  <1>5. CASE pc' = "down" /\ session' = NoSession
    <2>1. Place'
      BY <1>5 DEF Place, Connected, Handling
    <2> QED BY <1>0, <1>1, <1>3, <1>5, <2>1, NoSessionOK, QuietInv
  <1>6. CASE sent > 0 /\ pc' = "insert" /\ UNCHANGED session
    <2>1. session.id = live /\ sent = session.sequence
      BY <1>0, <1>1, <1>6 DEF Place
    <2>2. sent' - 1 <= Len(log[live]) /\ sent \in Nat
      BY <1>0, <1>1 DEF PlatformOK
    <2>3. Place'
      BY <1>1, <1>2, <1>6, <2>1, <2>2 DEF Place, Connected, Handling
    <2> QED BY <1>0, <1>1, <1>3, <1>6, <2>3, QuietInv
  <1> QED BY <1>4, <1>5, <1>6 DEF Dispatch

(* The event in the handler's hands is one of the platform's. *)
LEMMA EventKnown == ASSUME Inv, Handling PROVE Event \in Events /\ live \in Sessions
  <1>1. /\ live # 0 /\ session.id = live /\ sent = session.sequence + 1
        /\ sent - 1 <= Len(log[live])
    BY DEF Inv, Place, Handling, Connected
  <1>2. live \in Sessions /\ log[live] \in Seq(Events)
    BY <1>1, LiveSession DEF Inv, PlatformOK
  <1>3. session.sequence \in Nat /\ session.sequence >= 1
    BY <1>1, RowSession DEF Inv, RowOK
  <1>4. sent - 1 \in 1..Len(log[live])
    BY <1>1, <1>2, <1>3
  <1> QED BY <1>2, <1>4 DEF Event

LEMMA PersistInv ==
    ASSUME Inv, InsertMessage \/ PersistRaw \/ EnsureActionRun \/ ResumeApproval
    PROVE  Inv'
  <1>0. PlatformOK /\ TablesOK /\ RowOK(stored) /\ RowOK(session) /\ Place
    BY DEF Inv
  <1>1. /\ Handling /\ UNCHANGED <<log, opened, live, sent, stored, session>>
        /\ messages \subseteq messages' /\ raw \subseteq raw'
    BY DEF InsertMessage, PersistRaw, EnsureActionRun, ResumeApproval, Handling, platform
  <1>2. Event \in Events /\ Event' = Event
    BY <1>1, EventKnown DEF Event
  <1>3. PlatformOK'
    BY <1>0, <1>1 DEF PlatformOK
  <1>4. TablesOK' /\ Place'
    <2>1. CASE InsertMessage
      BY <1>0, <1>1, <1>2, <2>1 DEF InsertMessage, TablesOK, Place, Connected, Handling
    <2>2. CASE PersistRaw
      BY <1>0, <1>1, <1>2, <2>2 DEF PersistRaw, TablesOK, Place, Connected, Handling
    <2>3. CASE EnsureActionRun
      <3>1. /\ pc = "instruct" /\ pc' = "advance" /\ Event \in Commands
            /\ UNCHANGED <<messages, raw, resumed>>
        BY <2>3 DEF EnsureActionRun
      <3>2. run' \in [Commands -> {"none", "pending", "suspended", "resumed"}]
        BY <1>0, <2>3, <3>1 DEF EnsureActionRun, Ensured, TablesOK
      <3>3. faults' \in 0..MaxFaults
        BY <1>0, <2>3, Constants DEF EnsureActionRun, Fault, TablesOK
      <3>4. TablesOK'
        BY <1>0, <3>1, <3>2, <3>3 DEF TablesOK
      <3> QED BY <1>0, <1>1, <1>2, <3>1, <3>4 DEF Place, Connected, Handling
    <2>4. CASE ResumeApproval
      <3>1. /\ pc = "instruct" /\ pc' = "advance" /\ Event \in Approvals
            /\ UNCHANGED <<messages, raw>>
        BY <2>4 DEF ResumeApproval
      <3>2. /\ run' \in [Commands -> {"none", "pending", "suspended", "resumed"}]
            /\ resumed' \subseteq Approvals \X Commands
        BY <1>0, <2>4, <3>1 DEF ResumeApproval, Matches, TablesOK
      <3>3. faults' \in 0..MaxFaults
        BY <1>0, <2>4, Constants DEF ResumeApproval, Fault, TablesOK
      <3>4. TablesOK'
        BY <1>0, <3>1, <3>2, <3>3 DEF TablesOK
      <3> QED BY <1>0, <1>1, <1>2, <3>1, <3>4 DEF Place, Connected, Handling
    <2> QED BY <2>1, <2>2, <2>3, <2>4
  <1> QED BY <1>0, <1>1, <1>3, <1>4, QuietInv

(* The sequence passes the event once it is stored with its raw event. *)
LEMMA AdvanceInv == ASSUME Inv, Advance PROVE Inv'
  <1>0. PlatformOK /\ TablesOK /\ RowOK(stored) /\ RowOK(session) /\ Place
    BY DEF Inv
  <1>1. /\ pc = "advance" /\ Handling /\ pc' = "save"
        /\ session' = [session EXCEPT !.sequence = sent]
        /\ UNCHANGED <<log, opened, live, sent, stored, messages, raw, run, resumed, faults>>
    BY DEF Advance, Handling, platform, tables
  <1>2. /\ live # 0 /\ session.id = live /\ sent = session.sequence + 1
        /\ sent - 1 <= Len(log[live]) /\ log[live][sent - 1] \in messages \cap raw
    BY <1>0, <1>1 DEF Place, Connected, Event
  <1>3. session \in Row /\ session.sequence \in Nat /\ live \in Sessions
    BY <1>0, <1>2, LiveSession DEF RowOK, Row
  <1> DEFINE new == [id |-> live, sequence |-> sent]
  <1>4. session' = new
    BY <1>1, <1>2, <1>3 DEF Row
  <1>5. RowOK(new)
    <2>1. new \in Row /\ new.id = live /\ new.sequence = sent
      BY <1>2, <1>3, Constants DEF Row, Sessions
    <2>2. \A i \in 1..(sent - 1) : log[live][i] \in messages \cap raw
      <3>1. \A i \in 1..(session.sequence - 1) : log[live][i] \in messages \cap raw
        BY <1>0, <1>2 DEF RowOK
      <3>2. \A i \in 1..(sent - 1) : i = sent - 1 \/ i \in 1..(session.sequence - 1)
        BY <1>2, <1>3
      <3> QED BY <1>2, <3>1, <3>2
    <2>3. sent >= 1 /\ sent <= Len(log[live]) + 1
      BY <1>0, <1>2, <1>3 DEF PlatformOK
    <2> HIDE DEF new
    <2> QED BY <1>2, <2>1, <2>2, <2>3 DEF RowOK
  <1>6. PlatformOK' /\ TablesOK'
    BY <1>0, <1>1 DEF PlatformOK, TablesOK
  <1>7. Place'
    BY <1>1, <1>2, <1>4 DEF Place, Connected, Handling
  <1> HIDE DEF new
  <1> QED BY <1>0, <1>1, <1>4, <1>5, <1>6, <1>7, QuietInv

LEMMA SaveInv == ASSUME Inv, SaveSession PROVE Inv'
  <1>0. PlatformOK /\ TablesOK /\ RowOK(stored) /\ RowOK(session) /\ Place
    BY DEF Inv
  <1>1. /\ pc = "save" /\ pc' = "open" /\ stored' = Saved(stored, session)
        /\ UNCHANGED <<log, opened, live, sent, session, messages, raw, run, resumed, faults>>
    BY DEF SaveSession, platform, tables
  <1>2. stored' \in {stored, session}
    BY <1>1 DEF Saved
  <1>3. PlatformOK' /\ TablesOK'
    BY <1>0, <1>1 DEF PlatformOK, TablesOK
  <1>4. Place'
    BY <1>0, <1>1 DEF Place, Connected, Handling
  <1>5. RowOK(stored') /\ session' = session
    BY <1>0, <1>1, <1>2
  <1> QED BY <1>0, <1>1, <1>3, <1>4, <1>5, QuietInv

LEMMA SuspendInv == ASSUME Inv, NEW c \in Commands, Suspend(c) PROVE Inv'
  <1>0. PlatformOK /\ TablesOK /\ RowOK(stored) /\ RowOK(session) /\ Place
    BY DEF Inv
  <1>1. UNCHANGED <<log, opened, live, sent, stored, session, pc, messages, raw, resumed, faults>>
    BY DEF Suspend, vars, platform, tables
  <1>2. PlatformOK' /\ TablesOK'
    BY <1>0, <1>1 DEF PlatformOK, TablesOK, Suspend, vars, tables
  <1>3. Place'
    BY <1>0, <1>1 DEF Place, Connected, Handling, Event
  <1> QED BY <1>0, <1>1, <1>2, <1>3, QuietInv

LEMMA IdleInv == ASSUME Inv, UNCHANGED vars PROVE Inv'
  <1>0. PlatformOK /\ TablesOK /\ RowOK(stored) /\ RowOK(session) /\ Place
    BY DEF Inv
  <1>1. PlatformOK' /\ TablesOK'
    BY <1>0 DEF PlatformOK, TablesOK, vars, platform, tables
  <1>2. Place'
    BY <1>0 DEF Place, Connected, Handling, Event, vars, platform, tables
  <1>3. UNCHANGED <<log, stored, session, messages, raw>>
    BY DEF vars, platform, tables
  <1> QED BY <1>0, <1>1, <1>2, <1>3, QuietInv

LEMMA NextInv == Inv /\ [Next]_vars => Inv'
  BY ArriveInv, ConnectionInv, DispatchInv, PersistInv, AdvanceInv, SaveInv, SuspendInv, IdleInv
     DEF Next, Client

(* Every reachable state satisfies the inductive invariant: both rows of    *)
(* the session lie behind stored events, and the client's sequence differs  *)
(* from the platform's by the event it is handling (run_once).              *)
THEOREM Invariant == Spec => []Inv
  BY InitInv, NextInv, PTL DEF Spec

-----------------------------------------------------------------------------
(* Neither the session in memory nor the stored one is ahead of what the    *)
(* platform sent.                                                           *)
THEOREM TypeCorrect == Spec => []TypeOK
  <1>1. Inv => TypeOK
    <2> SUFFICES ASSUME Inv PROVE TypeOK
      OBVIOUS
    <2>1. ASSUME NEW s \in {stored, session}
          PROVE  s \in Row /\ (s.id # 0 => s.sequence \in 1..(Len(log[s.id]) + 1))
      <3>1. RowOK(s)
        BY DEF Inv
      <3>2. ASSUME s.id # 0 PROVE s.sequence \in 1..(Len(log[s.id]) + 1)
        <4>1. s.id \in Sessions /\ s.sequence \in Nat
          BY <3>1, <3>2, RowSession
        <4>2. Len(log[s.id]) \in Nat
          BY <4>1 DEF Inv, PlatformOK
        <4> QED BY <3>1, <3>2, <4>1, <4>2 DEF RowOK
      <3> QED BY <3>1, <3>2 DEF RowOK
    <2> QED BY <2>1 DEF Inv, PlatformOK, TablesOK, Place, TypeOK
  <1> QED BY <1>1, Invariant, PTL

(* Wherever a connection is cut or a write fails: the events behind the     *)
(* sequence that RESUME sends are stored with their raw events.             *)
THEOREM AcknowledgedStored == Spec => []NothingSkipped
  <1>1. Inv => NothingSkipped
    BY DEF Inv, RowOK, NothingSkipped
  <1> QED BY <1>1, Invariant, PTL

(* A command that is delivered again never sets its run back.               *)
THEOREM RunsNotSetBack == Spec => CommandRunsOnce
  <1>1. TypeOK /\ [Next]_vars =>
          [\A c \in Commands : run[c] \in {"suspended", "resumed"} => run'[c] \in {run[c], "resumed"}]_vars
    <2> SUFFICES ASSUME TypeOK, [Next]_vars, NEW c \in Commands,
                        run[c] \in {"suspended", "resumed"}
                 PROVE  run'[c] \in {run[c], "resumed"}
      OBVIOUS
    <2>0. run \in [Commands -> {"none", "pending", "suspended", "resumed"}]
      BY DEF TypeOK
    <2>1. CASE EnsureActionRun
      BY <2>0, <2>1 DEF EnsureActionRun, Ensured
    <2>2. CASE ResumeApproval
      BY <2>0, <2>2 DEF ResumeApproval, Matches
    <2>3. ASSUME NEW d \in Commands, Suspend(d) PROVE run'[c] \in {run[c], "resumed"}
      BY <2>0, <2>3 DEF Suspend
    <2>4. CASE run' = run
      BY <2>4
    <2> QED BY <2>1, <2>2, <2>3, <2>4
           DEF Next, Client, Arrive, Forget, Disconnect, Connect, Identify, Resume,
               InvalidSession, Dispatch, InsertMessage, PersistRaw, Advance, SaveSession,
               vars, tables
  <1> QED BY <1>1, TypeCorrect, PTL DEF Spec, CommandRunsOnce

-----------------------------------------------------------------------------
(* Sets of numbers have a least element, and a greatest one when bounded.   *)

LEMMA Smallest ==
    ASSUME NEW S \in SUBSET Nat, S # {}
    PROVE  \E x \in S : \A y \in S : x <= y
  <1> DEFINE R == {z \in Nat \X Nat : z[1] < z[2]}
  <1>1. IsWellFoundedOn(R, Nat)
    BY NatLessThanWellFounded DEF OpToRel
  <1>2. \A x, y \in Nat : y < x => <<y, x>> \in R
    OBVIOUS
  <1> HIDE DEF R
  <1>3. PICK x \in S : \A y \in S : ~(<<y, x>> \in R)
    BY WFMin, <1>1, Zenon
  <1>4. \A y \in S : ~(y < x)
    BY <1>2, <1>3
  <1> QED BY <1>4

LEMMA Largest ==
    ASSUME NEW n \in Nat, NEW S \in SUBSET (0..n), S # {}
    PROVE  \E x \in S : \A y \in S : x >= y
  <1> DEFINE B == {k \in Nat : \A y \in S : y <= k}
  <1>1. B \in SUBSET Nat /\ n \in B
    OBVIOUS
  <1> HIDE DEF B
  <1>2. PICK b \in B : \A c \in B : b <= c
    BY <1>1, Smallest
  <1>3. b \in Nat /\ (\A y \in S : y <= b) /\ \A k \in Nat : (\A y \in S : y <= k) => b <= k
    BY <1>2 DEF B
  <1>4. b \in S
    <2> SUFFICES ASSUME b \notin S PROVE FALSE
      OBVIOUS
    <2>1. PICK y \in S : TRUE
      OBVIOUS
    <2>2. b >= 1 /\ b - 1 \in Nat
      BY <1>3, <2>1
    <2>3. \A z \in S : z <= b - 1
      BY <1>3, <2>2
    <2> QED BY <1>3, <2>2, <2>3
  <1> QED BY <1>3, <1>4

-----------------------------------------------------------------------------
(* A behaviour of Conversations is one of its gateway, its threads and its  *)
(* semantics: those whose part is not played stutter.                       *)
LEMMA PartsOfConversations ==
    ConversationsSpec => Spec /\ Threads!Spec /\ Semantics!Spec
  <1>1. ConversationsInit => Init /\ Threads!Init /\ Semantics!Init
    BY DEF ConversationsInit
  <1>2. threadVars' = threadVars => Threads!vars' = Threads!vars
    BY DEF threadVars, Threads!vars, Threads!replies, Threads!threads, Threads!transactions
  <1>3. semanticVars' = semanticVars => Semantics!vars' = Semantics!vars
    BY DEF semanticVars, Semantics!vars
  <1>4. [ConversationsNext]_conversations => [Next]_vars
    BY DEF ConversationsNext, conversations, OnlyGateway, OnlyThreads, OnlyOverlay, OnlySemantics,
           OnlyPeople
  <1>5. [ConversationsNext]_conversations => [Threads!Next]_(Threads!vars)
    BY <1>2 DEF ConversationsNext, conversations, OnlyGateway, OnlyThreads, OnlyOverlay,
                OnlySemantics, OnlyPeople
  <1>6. [ConversationsNext]_conversations => [Semantics!Next]_(Semantics!vars)
    BY <1>3 DEF ConversationsNext, conversations, OnlyGateway, OnlyThreads, OnlyOverlay,
                OnlySemantics, OnlyPeople
  <1> QED BY <1>1, <1>4, <1>5, <1>6, PTL
          DEF ConversationsSpec, Spec, Threads!Spec, Semantics!Spec

(* The overlay and the directory of people each run with two sets of        *)
(* constants, chosen once.                                                  *)
LEMMA ChosenPart ==
    ASSUME [ConversationsNext]_conversations
    PROVE  /\ part' = part
           /\ part = "overlay" => [Overlay!Next]_(Overlay!vars)
           /\ part = "links" => [Links!Next]_(Links!vars)
           /\ part \notin {"overlay", "links"} => UNCHANGED overlayVars
           /\ part = "people" => Named(Chats, MaxEvents)!Next \/ UNCHANGED peopleVars
           /\ part = "renames" => Named(RenameChats, MaxRenameEvents)!Next \/ UNCHANGED peopleVars
           /\ part \notin {"people", "renames"} => UNCHANGED peopleVars
  <1>1. CASE UNCHANGED conversations
    <2>1. UNCHANGED <<part, overlayVars, peopleVars>>
      BY <1>1 DEF conversations
    <2>2. UNCHANGED Overlay!vars
      BY <2>1 DEF overlayVars, Overlay!vars, Overlay!overlay, Overlay!links
    <2>3. UNCHANGED Links!vars
      BY <2>1 DEF overlayVars, Links!vars, Links!overlay, Links!links
    <2> QED BY <2>1, <2>2, <2>3
  <1>2. CASE ConversationsNext
    <2>1. ConversationsNext => part' = part
      BY DEF ConversationsNext, OnlyGateway, OnlyThreads, OnlyOverlay, OnlySemantics, OnlyPeople
    <2>2. part = "overlay" => Overlay!Next
      BY <1>2 DEF ConversationsNext
    <2>3. part = "links" => Links!Next
      BY <1>2 DEF ConversationsNext
    <2>4. part \notin {"overlay", "links"} => UNCHANGED overlayVars
      BY <1>2 DEF ConversationsNext, OnlyGateway, OnlyThreads, OnlySemantics, OnlyPeople
    <2>5. part = "people" => Named(Chats, MaxEvents)!Next
      BY <1>2 DEF ConversationsNext
    <2>6. part = "renames" => Named(RenameChats, MaxRenameEvents)!Next
      BY <1>2 DEF ConversationsNext
    <2>7. part \notin {"people", "renames"} => UNCHANGED peopleVars
      BY <1>2 DEF ConversationsNext, OnlyGateway, OnlyThreads, OnlyOverlay, OnlySemantics
    <2> QED BY <1>2, <2>1, <2>2, <2>3, <2>4, <2>5, <2>6, <2>7
  <1> QED BY <1>1, <1>2

-----------------------------------------------------------------------------
(* 2. What is derived of a thread.                                          *)

SemanticRows == [src : Nat, era : Nat, kind : {"question", "decision", "claim"}, hidden : BOOLEAN,
                 st : {"open", "proposed", "confirmed", "withdrawn", "revoked", "dismissed"}]

LEMMA SemanticBasics ==
    ASSUME Semantics!SemanticsAssumption, Semantics!TypeOK
    PROVE  /\ joined \in Nat /\ joined <= Last /\ Last \in Nat /\ MaxCommands \in Nat
           /\ \A e \in 1..joined : e \in Nat /\ e \in Semantics!Events /\ Conv[e] \in Semantics!Convs
           /\ state.cursor \in 0..joined /\ state.lease \in {"free", "held", "late"}
           /\ state = [cursor |-> state.cursor, lease |-> state.lease]
           /\ era \in Nat /\ commands \in Nat
           /\ \A r \in rows : r \in SemanticRows /\ r.src \in 1..joined
  <1>1. /\ joined \in 0..Last /\ state \in [cursor : 0..joined, lease : {"free", "held", "late"}]
        /\ era \in 0..MaxCommands /\ commands \in 0..MaxCommands
        /\ Last \in Nat /\ MaxCommands \in Nat
    BY DEF Semantics!TypeOK, Semantics!SemanticsAssumption
  <1>2. \A r \in rows : r \in SemanticRows /\ r.src \in 1..joined
    BY <1>1 DEF Semantics!TypeOK, SemanticRows
  <1>3. \A e \in 1..joined : e \in Nat /\ e \in Semantics!Events /\ Conv[e] \in Semantics!Convs
    BY <1>1 DEF Semantics!Events, Semantics!Convs
  <1> QED BY <1>1, <1>2, <1>3

(* The last message of a batch. *)
LEMMA SemanticMax ==
    ASSUME NEW n \in Nat, NEW S \in SUBSET (1..n), S # {}
    PROVE  Semantics!Max(S) \in S /\ \A x \in S : x <= Semantics!Max(S)
  <1>1. \E x \in S : \A y \in S : x >= y
    <2>1. S \in SUBSET (0..n)
      OBVIOUS
    <2> QED BY <2>1, Largest
  <1>2. Semantics!Max(S) \in S /\ \A y \in S : Semantics!Max(S) >= y
    BY <1>1 DEF Semantics!Max
  <1> QED BY <1>2

(* A claim finds something: the first unread message is always taken. *)
LEMMA SemanticFirst ==
    ASSUME Semantics!SemanticsAssumption, NEW S \in SUBSET Nat, S # {}
    PROVE  Semantics!FirstOf(S) # {} /\ Semantics!FirstOf(S) \subseteq S
  <1>1. PICK x \in S : \A y \in S : x <= y
    BY Smallest
  <1>2. {y \in S : y < x} = {}
    <2>1. \A y \in S : y \in Nat /\ x \in Nat
      OBVIOUS
    <2>2. \A y \in S : ~(y < x)
      BY <1>1, <2>1
    <2> QED BY <2>2
  <1>3. Semantics!Cardinality({y \in S : y < x}) = 0
    <2>1. \A T : Semantics!Cardinality(T) = Cardinality(T)
      BY Zenon DEF Semantics!Cardinality, Cardinality
    <2> QED BY <1>2, <2>1, FS_EmptySet
  <1>4. x \in Semantics!FirstOf(S)
    BY <1>3 DEF Semantics!FirstOf, Semantics!SemanticsAssumption
  <1> QED BY <1>4 DEF Semantics!FirstOf

LEMMA SemanticInit == Semantics!SemanticsAssumption /\ Semantics!Init => Semantics!SemanticsInv
  <1> SUFFICES ASSUME Semantics!SemanticsAssumption, Semantics!Init PROVE Semantics!SemanticsInv
    OBVIOUS
  <1>1. /\ joined = 0 /\ mode = [c \in Semantics!Convs |-> "normal"] /\ semanticStatus = "open"
        /\ why = None /\ state = [cursor |-> 0, lease |-> "free"] /\ era = 0 /\ rows = {}
        /\ pending = FALSE /\ batch = Semantics!NoBatch /\ commands = 0
    BY DEF Semantics!Init, Semantics!NoState
  <1>2. Semantics!TypeOK
    <2>1. /\ joined \in 0..Last /\ era \in 0..MaxCommands /\ commands \in 0..MaxCommands
          /\ state.cursor \in 0..joined
      BY <1>1 DEF Semantics!SemanticsAssumption
    <2>2. state \in [cursor : 0..joined, lease : {"free", "held", "late"}]
      BY <1>1, <2>1
    <2>3. mode \in [Semantics!Convs -> {"normal", "restricted"}]
      BY <1>1
    <2>4. batch.events = {} /\ pending \in BOOLEAN
      BY <1>1 DEF Semantics!NoBatch
    <2> QED BY <1>1, <2>1, <2>2, <2>3, <2>4 DEF Semantics!TypeOK
  <1> QED BY <1>1, <1>2 DEF Semantics!SemanticsInv, Semantics!BatchCurrent, Semantics!Owned,
                            Semantics!RowsBehindCursor, Semantics!RestrictedLeavesNothing,
                            Semantics!OneRowPerReading

(* Rows are records whose source and era a change of status leaves alone.   *)
LEMMA SemanticTypes ==
    ASSUME NEW S \in SUBSET SemanticRows, NEW j \in Nat, NEW g \in Nat,
           \A r \in S : r.src \in 1..j /\ r.era <= g
    PROVE  S \subseteq [src : 1..j, era : 0..g, kind : {"question", "decision", "claim"},
                        hidden : BOOLEAN,
                        st : {"open", "proposed", "confirmed", "withdrawn", "revoked",
                              "dismissed"}]
  <1> SUFFICES ASSUME NEW r \in S
               PROVE  r \in [src : 1..j, era : 0..g, kind : {"question", "decision", "claim"},
                             hidden : BOOLEAN,
                             st : {"open", "proposed", "confirmed", "withdrawn", "revoked",
                                   "dismissed"}]
    OBVIOUS
  <1>1. r \in SemanticRows /\ r.src \in 1..j /\ r.era \in 0..g
    BY DEF SemanticRows
  <1> QED BY <1>1 DEF SemanticRows

(* Steps that touch neither rows nor modes nor the status. *)
LEMMA SemanticQuiet ==
    ASSUME Semantics!SemanticsAssumption, Semantics!SemanticsInv,
           UNCHANGED <<mode, semanticStatus, why, era, rows, pending, commands>>,
           joined' \in joined..Last, state'.cursor = state.cursor,
           state' \in [cursor : 0..joined', lease : {"free", "held", "late"}],
           batch'.events \subseteq 1..joined', Semantics!BatchCurrent'
    PROVE  Semantics!SemanticsInv'
  <1>0. Semantics!TypeOK
    BY DEF Semantics!SemanticsInv
  <1>1. joined' \in Nat /\ joined <= joined' /\ joined' \in 0..Last
    BY <1>0, SemanticBasics
  <1>2. \A r \in rows : r \in SemanticRows /\ r.src \in 1..joined' /\ r.era <= era
    BY <1>0, <1>1, SemanticBasics DEF Semantics!SemanticsInv, Semantics!RowsBehindCursor
  <1>3. rows' \subseteq [src : 1..joined', era : 0..era', kind : {"question", "decision", "claim"},
                         hidden : BOOLEAN,
                         st : {"open", "proposed", "confirmed", "withdrawn", "revoked",
                               "dismissed"}]
    <2>1. rows \in SUBSET SemanticRows /\ era \in Nat /\ rows' = rows /\ era' = era
      BY <1>0, <1>2, SemanticBasics
    <2> QED BY <1>1, <1>2, <2>1, SemanticTypes
  <1>4. Semantics!TypeOK'
    BY <1>0, <1>1, <1>3 DEF Semantics!TypeOK
  <1>5. Semantics!RowsBehindCursor' /\ Semantics!RestrictedLeavesNothing'
        /\ Semantics!OneRowPerReading'
    BY DEF Semantics!SemanticsInv, Semantics!RowsBehindCursor, Semantics!RestrictedLeavesNothing,
           Semantics!OneRowPerReading, Semantics!Live
  <1> QED BY <1>4, <1>5 DEF Semantics!SemanticsInv

LEMMA SemanticWorker ==
    ASSUME Semantics!SemanticsAssumption, Semantics!SemanticsInv,
           \/ Semantics!Join \/ Semantics!claim_semantic_batch
           \/ Semantics!release_semantic_claim \/ Semantics!LeaseEnds \/ Semantics!Kill
    PROVE  Semantics!SemanticsInv'
  <1>0. Semantics!TypeOK /\ Semantics!BatchCurrent
    BY DEF Semantics!SemanticsInv
  <1>b. /\ joined \in Nat /\ joined <= Last /\ Last \in Nat /\ state.cursor \in 0..joined
        /\ state \in [cursor : 0..joined, lease : {"free", "held", "late"}]
        /\ batch.events \subseteq 1..joined
    BY <1>0, SemanticBasics DEF Semantics!TypeOK
  <1>n. Semantics!NoBatch.events = {}
    BY DEF Semantics!NoBatch
  <1>1. CASE Semantics!Join
    <2>1. /\ joined' = joined + 1 /\ joined' <= Last
          /\ UNCHANGED <<mode, semanticStatus, why, state, era, rows, pending, batch, commands>>
      BY <1>1, <1>b DEF Semantics!Join
    <2>2. /\ joined' \in joined..Last /\ batch'.events \subseteq 1..joined'
          /\ state' \in [cursor : 0..joined', lease : {"free", "held", "late"}]
      BY <2>1, <1>b
    <2>3. Semantics!BatchCurrent'
      BY <2>1, <1>0 DEF Semantics!BatchCurrent, Semantics!Owned, Semantics!OpenQuestions,
                        Semantics!OpenQuestion, Semantics!Visible
    <2> QED BY <2>1, <2>2, <2>3, SemanticQuiet
  <1>2. CASE Semantics!claim_semantic_batch
    <2>1. /\ Semantics!Unread # {}
          /\ batch' = [events |-> Semantics!FirstOf(Semantics!Unread), status |-> semanticStatus,
                       open |-> Semantics!OpenQuestions]
          /\ state' = [state EXCEPT !.lease = "held"]
          /\ UNCHANGED <<joined, mode, semanticStatus, why, era, rows, pending, commands>>
      BY <1>2 DEF Semantics!claim_semantic_batch
    <2>2. Semantics!Unread \in SUBSET Nat /\ Semantics!Unread \subseteq 1..joined
      BY <1>b DEF Semantics!Unread
    <2>3. batch'.events # {} /\ batch'.events \subseteq Semantics!Unread
      BY <2>1, <2>2, SemanticFirst
    <2>4. state'.cursor = state.cursor
          /\ state' \in [cursor : 0..joined', lease : {"free", "held", "late"}]
      BY <2>1, <1>b
    <2>5. \A e \in batch'.events : e > state'.cursor /\ mode'[Conv[e]] = "normal"
      BY <2>1, <2>3, <2>4 DEF Semantics!Unread
    <2>6. Semantics!OpenQuestions' = batch'.open
      BY <2>1 DEF Semantics!OpenQuestions, Semantics!OpenQuestion, Semantics!Visible
    <2>7. Semantics!BatchCurrent'
      BY <2>3, <2>5, <2>6 DEF Semantics!BatchCurrent
    <2> QED BY <2>1, <2>2, <2>3, <2>4, <2>7, <1>b, SemanticQuiet
  <1>3. CASE Semantics!release_semantic_claim
    <2>1. /\ batch' = Semantics!NoBatch /\ state' = [state EXCEPT !.lease = "free"]
          /\ UNCHANGED <<joined, mode, semanticStatus, why, era, rows, pending, commands>>
      BY <1>3 DEF Semantics!release_semantic_claim
    <2>2. state'.cursor = state.cursor
          /\ state' \in [cursor : 0..joined', lease : {"free", "held", "late"}]
      BY <2>1, <1>b
    <2>3. Semantics!BatchCurrent'
      BY <2>1 DEF Semantics!BatchCurrent, Semantics!NoBatch
    <2> QED BY <2>1, <2>2, <2>3, <1>b, <1>n, SemanticQuiet
  <1>4. CASE Semantics!LeaseEnds
    <2>1. /\ state' = [state EXCEPT !.lease = "late"]
          /\ UNCHANGED <<joined, mode, semanticStatus, why, era, rows, pending, batch, commands>>
      BY <1>4 DEF Semantics!LeaseEnds
    <2>2. state'.cursor = state.cursor /\ state'.lease = "late"
          /\ state' \in [cursor : 0..joined', lease : {"free", "held", "late"}]
      BY <2>1, <1>b
    <2>3. Semantics!BatchCurrent'
      BY <2>1, <2>2, <1>0 DEF Semantics!BatchCurrent, Semantics!Owned, Semantics!NoBatch
    <2> QED BY <2>1, <2>2, <2>3, <1>b, SemanticQuiet
  <1>5. CASE Semantics!Kill
    <2>1. /\ batch' = Semantics!NoBatch
          /\ UNCHANGED <<joined, mode, semanticStatus, why, state, era, rows, pending, commands>>
      BY <1>5 DEF Semantics!Kill
    <2>2. Semantics!BatchCurrent'
      BY <2>1 DEF Semantics!BatchCurrent, Semantics!NoBatch
    <2> QED BY <2>1, <2>2, <1>b, <1>n, SemanticQuiet
  <1> QED BY <1>1, <1>2, <1>3, <1>4, <1>5

(* A patch is of messages beyond the cursor whose conversations may be      *)
(* kept, as long as the worker has its lease.                               *)
LEMMA SemanticCommit ==
    ASSUME Semantics!SemanticsAssumption, Semantics!SemanticsInv, NEW cited \in SUBSET Semantics!Events,
           Semantics!commit_semantic_patch(cited)
    PROVE  /\ Semantics!SemanticsInv'
           /\ semanticStatus # "resolved" /\ semanticStatus' = "resolved" =>
                ~\E r \in rows' : Semantics!OpenQuestion(r) /\ Semantics!Visible(r)
  <1> DEFINE asks == \E e \in cited : Says[e] = "question"
             resolves == ~asks /\ Semantics!derive_resolution(batch)
             last == Semantics!Max(batch.events)
  <1>1. /\ batch # Semantics!NoBatch /\ Semantics!Owned /\ cited \subseteq batch.events
        /\ semanticStatus' = (IF resolves THEN "resolved" ELSE semanticStatus)
        /\ why' = (IF resolves THEN last ELSE why)
        /\ rows' = rows \cup Semantics!Extracted(cited)
        /\ state' = [cursor |-> last, lease |-> "free"]
        /\ batch' = Semantics!NoBatch
        /\ UNCHANGED <<joined, mode, era, pending, commands>>
    BY DEF Semantics!commit_semantic_patch, Semantics!PatchValid, Semantics!NextCursor
  <1>2. resolves => batch.open = {}
    BY DEF Semantics!derive_resolution
  <1>q. Semantics!derive_resolution(batch) => ~asks \/ asks
    OBVIOUS
  <1> HIDE DEF resolves, last
  <1>3. /\ Semantics!TypeOK /\ batch.events # {} /\ batch.events \in SUBSET (1..joined)
        /\ \A e \in batch.events : e > state.cursor /\ mode[Conv[e]] = "normal"
        /\ Semantics!OpenQuestions \subseteq batch.open
    BY <1>1 DEF Semantics!SemanticsInv, Semantics!BatchCurrent, Semantics!TypeOK
  <1>4. joined \in Nat /\ last \in batch.events /\ \A e \in batch.events : e <= last
    BY <1>3, SemanticBasics, SemanticMax DEF last
  <1>5. /\ state.cursor \in Nat /\ last \in 1..joined /\ last > state.cursor /\ era \in Nat
        /\ \A e \in batch.events : e \in Nat /\ e \in Semantics!Events
    BY <1>3, <1>4, SemanticBasics
  <1>6. ASSUME NEW r \in Semantics!Extracted(cited)
        PROVE  /\ r \in SemanticRows /\ r.src \in cited /\ r.era = era
               /\ r = [src |-> r.src, era |-> era, kind |-> Says[r.src], hidden |-> FALSE,
                       st |-> IF Says[r.src] = "question" THEN "open" ELSE "proposed"]
    <2>1. PICK e \in cited : /\ Says[e] # "done"
                             /\ r = [src |-> e, era |-> era, kind |-> Says[e], hidden |-> FALSE,
                                     st |-> IF Says[e] = "question" THEN "open" ELSE "proposed"]
      BY DEF Semantics!Extracted
    <2>2. Says[e] \in {"question", "decision", "claim"} /\ e \in Nat
      BY <2>1, <1>1, <1>5 DEF Semantics!SemanticsAssumption
    <2> QED BY <2>1, <2>2, <1>5 DEF SemanticRows
  <1>7. \A r \in rows : /\ r \in SemanticRows /\ r.src \in 1..joined /\ r.era <= era
                        /\ (r.era = era => r.src <= state.cursor)
    BY <1>3, SemanticBasics DEF Semantics!SemanticsInv, Semantics!RowsBehindCursor
  <1>8. \A r \in rows' : /\ r \in SemanticRows /\ r.src \in 1..joined /\ r.era <= era
                         /\ (r.era = era => r.src <= last)
    <2>1. ASSUME NEW r \in rows
          PROVE  /\ r \in SemanticRows /\ r.src \in 1..joined /\ r.era <= era
                 /\ (r.era = era => r.src <= last)
      BY <1>4, <1>5, <1>7
    <2>2. ASSUME NEW r \in Semantics!Extracted(cited)
          PROVE  /\ r \in SemanticRows /\ r.src \in 1..joined /\ r.era <= era
                 /\ (r.era = era => r.src <= last)
      BY <1>1, <1>3, <1>4, <1>5, <1>6
    <2> QED BY <1>1, <2>1, <2>2
  <1>9. Semantics!TypeOK'
    <2>1. rows' \subseteq [src : 1..joined, era : 0..era, kind : {"question", "decision", "claim"},
                           hidden : BOOLEAN,
                           st : {"open", "proposed", "confirmed", "withdrawn", "revoked",
                                 "dismissed"}]
      <3>1. rows' \in SUBSET SemanticRows
        BY <1>8
      <3> QED BY <3>1, <1>4, <1>5, <1>8, SemanticTypes
    <2>2. semanticStatus' \in {"open", "resolved", "closed", "reopened"}
          /\ why' \in Semantics!Events \cup {None}
      BY <1>1, <1>3, <1>4, <1>5 DEF Semantics!TypeOK
    <2>3. /\ state' \in [cursor : 0..joined, lease : {"free", "held", "late"}]
          /\ batch'.events \subseteq 1..joined
      BY <1>1, <1>4, <1>5 DEF Semantics!NoBatch
    <2> QED BY <1>1, <1>3, <2>1, <2>2, <2>3 DEF Semantics!TypeOK
  <1>10. Semantics!BatchCurrent' /\ Semantics!RowsBehindCursor'
    <2>1. Semantics!BatchCurrent'
      BY <1>1 DEF Semantics!BatchCurrent, Semantics!NoBatch
    <2>2. Semantics!RowsBehindCursor'
      BY <1>1, <1>8 DEF Semantics!RowsBehindCursor, Semantics!SemanticsInv
    <2> QED BY <2>1, <2>2
  <1>11. Semantics!RestrictedLeavesNothing'
    <2>1. \A r \in rows' : Semantics!Live(r) => mode[Conv[r.src]] = "normal"
      <3> SUFFICES ASSUME NEW r \in rows', Semantics!Live(r) PROVE mode[Conv[r.src]] = "normal"
        OBVIOUS
      <3>1. CASE r \in rows
        BY <3>1 DEF Semantics!SemanticsInv, Semantics!RestrictedLeavesNothing
      <3>2. CASE r \in Semantics!Extracted(cited)
        BY <3>2, <1>1, <1>3, <1>6
      <3> QED BY <1>1, <3>1, <3>2
    <2>2. semanticStatus' = "resolved" /\ why' # None => mode[Conv[why']] = "normal"
      BY <1>1, <1>3, <1>4 DEF Semantics!SemanticsInv, Semantics!RestrictedLeavesNothing
    <2> QED BY <1>1, <2>1, <2>2 DEF Semantics!RestrictedLeavesNothing, Semantics!Live
  <1>12. Semantics!OneRowPerReading'
    <2> SUFFICES ASSUME NEW r \in rows', NEW s \in rows', r.src = s.src, r.era = s.era PROVE r = s
      BY DEF Semantics!OneRowPerReading
    <2>1. CASE r \in rows /\ s \in rows
      BY <2>1 DEF Semantics!SemanticsInv, Semantics!OneRowPerReading
    <2>2. CASE r \in Semantics!Extracted(cited) /\ s \in Semantics!Extracted(cited)
      <3> DEFINE row(e) == [src |-> e, era |-> era, kind |-> Says[e], hidden |-> FALSE,
                            st |-> IF Says[e] = "question" THEN "open" ELSE "proposed"]
      <3>1. r = row(r.src) /\ s = row(s.src)
        BY <2>2, <1>6
      <3> HIDE DEF row
      <3> QED BY <3>1
    <2>3. \A x \in rows, y \in Semantics!Extracted(cited) : ~(x.src = y.src /\ x.era = y.era)
      BY <1>1, <1>3, <1>5, <1>6, <1>7
    <2> QED BY <1>1, <2>1, <2>2, <2>3
  <1>13. ASSUME semanticStatus # "resolved", semanticStatus' = "resolved", NEW r \in rows'
         PROVE  ~(Semantics!OpenQuestion(r) /\ Semantics!Visible(r))
    <2>1. resolves
      BY <1>1, <1>13
    <2>2. ~asks /\ Semantics!OpenQuestions = {}
      BY <2>1, <1>2, <1>3 DEF resolves
    <2>3. CASE r \in rows
      BY <2>2, <2>3 DEF Semantics!OpenQuestions
    <2>4. CASE r \in Semantics!Extracted(cited)
      BY <2>2, <2>4, <1>6 DEF Semantics!OpenQuestion
    <2> QED BY <1>1, <2>3, <2>4
  <1> QED BY <1>9, <1>10, <1>11, <1>12, <1>13 DEF Semantics!SemanticsInv

(* The row of the state goes: no batch has a lease, and no row is of the    *)
(* reading that begins.  The rows are rewritten one by one.                 *)
LEMMA SemanticReset ==
    ASSUME Semantics!SemanticsAssumption, Semantics!SemanticsInv, Semantics!DeleteState,
           Semantics!Command, UNCHANGED <<joined, batch>>, pending' \in BOOLEAN,
           mode' \in [Semantics!Convs -> {"normal", "restricted"}],
           semanticStatus' \in {"open", "resolved", "closed", "reopened"},
           why' \in Semantics!Events \cup {None},
           NEW f, rows' = {f[r] : r \in rows},
           \A r \in rows : f[r] \in SemanticRows /\ f[r].src = r.src /\ f[r].era = r.era,
           Semantics!RestrictedLeavesNothing'
    PROVE  Semantics!SemanticsInv'
  <1>1. /\ state' = [cursor |-> 0, lease |-> "free"] /\ era' = era + 1
        /\ commands' = commands + 1 /\ commands < MaxCommands
    BY DEF Semantics!DeleteState, Semantics!Command, Semantics!NoState
  <1>2. Semantics!TypeOK /\ joined \in Nat /\ era \in Nat /\ era <= commands /\ commands \in Nat
        /\ MaxCommands \in Nat
    BY SemanticBasics DEF Semantics!SemanticsInv, Semantics!RowsBehindCursor
  <1>3. \A r \in rows : r \in SemanticRows /\ r.src \in 1..joined /\ r.era <= era /\ r.era \in Nat
    BY <1>2, SemanticBasics DEF Semantics!SemanticsInv, Semantics!RowsBehindCursor, SemanticRows
  <1>4. \A r \in rows' : r \in SemanticRows /\ r.src \in 1..joined /\ r.era <= era /\ r.era \in Nat
    BY <1>3
  <1>5. Semantics!TypeOK'
    <2>1. rows' \in SUBSET SemanticRows /\ era' \in Nat /\ joined' \in Nat
          /\ \A r \in rows' : r.src \in 1..joined' /\ r.era <= era'
      BY <1>1, <1>2, <1>4
    <2>2. rows' \subseteq [src : 1..joined', era : 0..era', kind : {"question", "decision", "claim"},
                           hidden : BOOLEAN,
                           st : {"open", "proposed", "confirmed", "withdrawn", "revoked",
                                 "dismissed"}]
      BY <2>1, SemanticTypes
    <2>3. /\ state' \in [cursor : 0..joined', lease : {"free", "held", "late"}]
          /\ era' \in 0..MaxCommands /\ commands' \in 0..MaxCommands
      BY <1>1, <1>2
    <2> QED BY <1>2, <2>2, <2>3 DEF Semantics!TypeOK
  <1>6. Semantics!BatchCurrent' /\ Semantics!RowsBehindCursor'
    <2>1. Semantics!BatchCurrent'
      BY <1>1 DEF Semantics!SemanticsInv, Semantics!BatchCurrent, Semantics!Owned, Semantics!NoBatch
    <2>2. Semantics!RowsBehindCursor'
      BY <1>1, <1>2, <1>4 DEF Semantics!RowsBehindCursor
    <2> QED BY <2>1, <2>2
  <1>7. Semantics!OneRowPerReading'
    BY DEF Semantics!SemanticsInv, Semantics!OneRowPerReading
  <1> QED BY <1>5, <1>6, <1>7 DEF Semantics!SemanticsInv

LEMMA SemanticCommands ==
    ASSUME Semantics!SemanticsAssumption, Semantics!SemanticsInv,
           Semantics!invalidate \/ Semantics!reconfirm
    PROVE  Semantics!SemanticsInv'
  <1>0. Semantics!TypeOK /\ \A r \in rows : r \in SemanticRows
    BY SemanticBasics DEF Semantics!SemanticsInv
  <1> DEFINE f(h) == [r \in rows |-> [r EXCEPT !.hidden = h]]
  <1>1. PICK h \in BOOLEAN :
          /\ rows' = {[r EXCEPT !.hidden = h] : r \in rows}
          /\ Semantics!Command /\ Semantics!DeleteState /\ pending' \in BOOLEAN
          /\ UNCHANGED <<joined, mode, semanticStatus, why, batch>>
    BY DEF Semantics!invalidate, Semantics!reconfirm
  <1>2. rows' = {f(h)[r] : r \in rows}
    BY <1>1
  <1>3. \A r \in rows : /\ f(h)[r] \in SemanticRows /\ f(h)[r].src = r.src /\ f(h)[r].era = r.era
                        /\ f(h)[r].st = r.st
    BY <1>0, <1>1 DEF SemanticRows
  <1> HIDE DEF f
  <1>4. Semantics!RestrictedLeavesNothing'
    <2>1. \A r \in rows' : Semantics!Live(r) => mode[Conv[r.src]] = "normal"
      BY <1>2, <1>3 DEF Semantics!SemanticsInv, Semantics!RestrictedLeavesNothing, Semantics!Live
    <2> QED BY <1>1, <2>1 DEF Semantics!SemanticsInv, Semantics!RestrictedLeavesNothing, Semantics!Live
  <1>5. /\ mode' \in [Semantics!Convs -> {"normal", "restricted"}]
        /\ semanticStatus' \in {"open", "resolved", "closed", "reopened"}
        /\ why' \in Semantics!Events \cup {None}
    BY <1>0, <1>1 DEF Semantics!TypeOK
  <1> QED BY <1>1, <1>2, <1>3, <1>4, <1>5, SemanticReset

(* The owner decides about a row, or about the thread. *)
LEMMA SemanticRewrites ==
    ASSUME Semantics!SemanticsAssumption, Semantics!SemanticsInv, NEW r \in rows,
           \/ Semantics!confirm_decision(r) \/ Semantics!revoke_decision(r)
           \/ Semantics!dismiss_question(r)
    PROVE  Semantics!SemanticsInv'
  <1>1. PICK st \in {"confirmed", "revoked", "dismissed"} :
          /\ Semantics!Rewrite(r, st)
          /\ st = "confirmed" => Semantics!Live(r)
          /\ st \in {"confirmed", "revoked"} => r.kind # "question"
    BY DEF Semantics!confirm_decision, Semantics!revoke_decision, Semantics!dismiss_question,
           Semantics!Live
  <1> DEFINE new == [r EXCEPT !.st = st, !.hidden = FALSE]
  <1>2. /\ rows' = (rows \ {r}) \cup {new}
        /\ UNCHANGED <<joined, mode, semanticStatus, why, state, era, pending, batch, commands>>
    BY <1>1 DEF Semantics!Rewrite
  <1>3. /\ Semantics!TypeOK /\ era \in Nat /\ joined \in Nat
        /\ \A x \in rows : /\ x \in SemanticRows /\ x.src \in 1..joined /\ x.era <= era
                           /\ (x.era = era => x.src <= state.cursor)
    BY SemanticBasics DEF Semantics!SemanticsInv, Semantics!RowsBehindCursor
  <1>4. new \in SemanticRows /\ new.src = r.src /\ new.era = r.era /\ new.st = st
        /\ new.kind = r.kind
    BY <1>3 DEF SemanticRows
  <1> HIDE DEF new
  <1>5. \A x \in rows' : /\ x \in SemanticRows /\ x.src \in 1..joined /\ x.era <= era
                         /\ (x.era = era => x.src <= state.cursor)
    BY <1>2, <1>3, <1>4
  <1>6. Semantics!TypeOK'
    <2>1. rows' \in SUBSET SemanticRows
      BY <1>5
    <2>2. rows' \subseteq [src : 1..joined, era : 0..era, kind : {"question", "decision", "claim"},
                           hidden : BOOLEAN,
                           st : {"open", "proposed", "confirmed", "withdrawn", "revoked",
                                 "dismissed"}]
      BY <2>1, <1>3, <1>5, SemanticTypes
    <2> QED BY <1>2, <1>3, <2>2 DEF Semantics!TypeOK
  <1>7. Semantics!BatchCurrent'
    <2>1. ~Semantics!OpenQuestion(new)
      BY <1>1, <1>4 DEF Semantics!OpenQuestion
    <2>2. \A x \in rows' : Semantics!OpenQuestion(x) /\ Semantics!Visible(x)
                             => x \in Semantics!OpenQuestions
      BY <1>2, <2>1 DEF Semantics!OpenQuestions
    <2>3. Semantics!OpenQuestions' \subseteq Semantics!OpenQuestions
      BY <2>2 DEF Semantics!OpenQuestions, Semantics!OpenQuestion, Semantics!Visible
    <2> QED BY <1>2, <2>3 DEF Semantics!SemanticsInv, Semantics!BatchCurrent, Semantics!Owned
  <1>8. Semantics!RowsBehindCursor'
    BY <1>2, <1>5 DEF Semantics!SemanticsInv, Semantics!RowsBehindCursor
  <1>9. Semantics!RestrictedLeavesNothing'
    <2>1. Semantics!Live(new) => mode[Conv[r.src]] = "normal"
      BY <1>1, <1>4 DEF Semantics!SemanticsInv, Semantics!RestrictedLeavesNothing, Semantics!Live
    <2>2. \A x \in rows' : Semantics!Live(x) => mode[Conv[x.src]] = "normal"
      BY <1>2, <1>4, <2>1 DEF Semantics!SemanticsInv, Semantics!RestrictedLeavesNothing
    <2> QED BY <1>2, <2>2 DEF Semantics!SemanticsInv, Semantics!RestrictedLeavesNothing,
                              Semantics!Live
  <1>10. Semantics!OneRowPerReading'
    BY <1>2, <1>4 DEF Semantics!SemanticsInv, Semantics!OneRowPerReading
  <1> QED BY <1>6, <1>7, <1>8, <1>9, <1>10 DEF Semantics!SemanticsInv

LEMMA SemanticLifecycle ==
    ASSUME Semantics!SemanticsAssumption, Semantics!SemanticsInv,
           NEW to \in {"closed", "reopened"}, Semantics!set_thread_lifecycle(to)
    PROVE  Semantics!SemanticsInv'
  <1>1. /\ semanticStatus' = to /\ why' = None
        /\ UNCHANGED <<joined, mode, state, era, rows, pending, batch, commands>>
    BY DEF Semantics!set_thread_lifecycle
  <1>2. Semantics!TypeOK'
    BY <1>1 DEF Semantics!SemanticsInv, Semantics!TypeOK
  <1> QED BY <1>1, <1>2
          DEF Semantics!SemanticsInv, Semantics!BatchCurrent, Semantics!Owned,
              Semantics!OpenQuestions, Semantics!OpenQuestion, Semantics!Visible, Semantics!Live,
              Semantics!RowsBehindCursor, Semantics!RestrictedLeavesNothing,
              Semantics!OneRowPerReading

(* The rows of a conversation that is taken out of memory are withdrawn.    *)
LEMMA SemanticWithdrawn ==
    ASSUME NEW r \in SemanticRows
    PROVE  /\ Semantics!Withdrawn(r) \in SemanticRows
           /\ Semantics!Withdrawn(r).src = r.src /\ Semantics!Withdrawn(r).era = r.era
           /\ ~Semantics!Live(Semantics!Withdrawn(r))
           /\ ~Semantics!OpenQuestion(Semantics!Withdrawn(r))
  <1>1. r.kind \in {"question", "decision", "claim"}
    BY DEF SemanticRows
  <1> DEFINE st == CASE r.kind = "claim" -> "withdrawn" [] r.kind = "decision" -> "revoked"
                     [] r.kind = "question" -> "dismissed"
  <1>2. st \in {"withdrawn", "revoked", "dismissed"}
    BY <1>1
  <1>3. Semantics!Withdrawn(r) = [r EXCEPT !.hidden = FALSE, !.st = st]
    BY DEF Semantics!Withdrawn
  <1> HIDE DEF st
  <1>4. /\ Semantics!Withdrawn(r) \in SemanticRows
        /\ Semantics!Withdrawn(r).src = r.src /\ Semantics!Withdrawn(r).era = r.era
        /\ Semantics!Withdrawn(r).st = st
    BY <1>2, <1>3 DEF SemanticRows
  <1> QED BY <1>2, <1>4 DEF Semantics!Live, Semantics!OpenQuestion

LEMMA SemanticMode ==
    ASSUME Semantics!SemanticsAssumption, Semantics!SemanticsInv,
           NEW c \in Semantics!Convs, NEW m \in {"normal", "restricted"},
           Semantics!set_conversation_mode(c, m)
    PROVE  Semantics!SemanticsInv'
  <1> DEFINE known == \E e \in 1..joined : Conv[e] = c
             f == IF m = "normal" THEN [r \in rows |-> r]
                  ELSE [r \in rows |-> IF Conv[r.src] = c /\ Semantics!Live(r)
                                       THEN Semantics!Withdrawn(r) ELSE r]
  <1>0. /\ Semantics!TypeOK /\ joined \in Nat /\ joined <= Last /\ era \in Nat
        /\ mode \in [Semantics!Convs -> {"normal", "restricted"}]
        /\ \A r \in rows : r \in SemanticRows /\ r.src \in 1..joined
        /\ semanticStatus \in {"open", "resolved", "closed", "reopened"}
        /\ why \in Semantics!Events \cup {None}
    BY SemanticBasics DEF Semantics!SemanticsInv, Semantics!TypeOK
  <1>1. /\ Semantics!Command /\ mode' = [mode EXCEPT ![c] = m] /\ mode[c] # m
        /\ IF known THEN Semantics!DeleteState ELSE UNCHANGED <<state, era>>
        /\ UNCHANGED <<joined, pending, batch>>
    BY DEF Semantics!set_conversation_mode
  <1>2. /\ rows' = {f[r] : r \in rows}
        /\ \A r \in rows : \/ f[r] = r /\ (m = "normal" \/ Conv[r.src] # c \/ ~Semantics!Live(r))
                           \/ f[r] = Semantics!Withdrawn(r) /\ Conv[r.src] = c
    <2>1. CASE m = "normal"
      BY <2>1 DEF Semantics!set_conversation_mode
    <2>2. CASE m # "normal"
      <3>1. rows' = Semantics!WithoutSource(c)
        BY <2>2 DEF Semantics!set_conversation_mode
      <3> QED BY <2>2, <3>1 DEF Semantics!WithoutSource
    <2> QED BY <2>1, <2>2
  <1>3. \/ UNCHANGED <<semanticStatus, why>> /\ (m = "normal" \/ ~Semantics!RestsOn(c))
        \/ semanticStatus' = "reopened" /\ why' = None
    BY DEF Semantics!set_conversation_mode
  <1> HIDE DEF f, known
  <1>4. \A r \in rows : f[r] \in SemanticRows /\ f[r].src = r.src /\ f[r].era = r.era
    BY <1>0, <1>2, SemanticWithdrawn
  <1>5. Semantics!RestrictedLeavesNothing'
    <2>1. ASSUME NEW r \in rows, Semantics!Live(f[r]) PROVE mode'[Conv[f[r].src]] = "normal"
      <3>1. f[r] = r /\ (m = "normal" \/ Conv[r.src] # c)
        BY <2>1, <1>0, <1>2, SemanticWithdrawn
      <3>2. mode[Conv[r.src]] = "normal"
        BY <2>1, <3>1 DEF Semantics!SemanticsInv, Semantics!RestrictedLeavesNothing
      <3> QED BY <3>1, <3>2, <1>0, <1>1
    <2>2. ASSUME semanticStatus' = "resolved", why' # None PROVE mode'[Conv[why']] = "normal"
      <3>1. /\ semanticStatus = "resolved" /\ why' = why /\ why # None
            /\ m = "normal" \/ Conv[why] # c
        BY <2>2, <1>3 DEF Semantics!RestsOn
      <3>2. mode[Conv[why]] = "normal"
        BY <3>1 DEF Semantics!SemanticsInv, Semantics!RestrictedLeavesNothing
      <3> QED BY <3>1, <3>2, <1>0, <1>1
    <2>3. \A r \in rows' : Semantics!Live(r) => mode'[Conv[r.src]] = "normal"
      BY <1>2, <2>1
    <2> QED BY <2>2, <2>3 DEF Semantics!RestrictedLeavesNothing, Semantics!Live
  <1>6. CASE known
    <2>1. /\ mode' \in [Semantics!Convs -> {"normal", "restricted"}]
          /\ semanticStatus' \in {"open", "resolved", "closed", "reopened"}
          /\ why' \in Semantics!Events \cup {None} /\ pending' \in BOOLEAN
      BY <1>0, <1>1, <1>3 DEF Semantics!TypeOK
    <2> QED BY <1>1, <1>2, <1>4, <1>5, <1>6, <2>1, SemanticReset
  <1>7. CASE ~known
    <2>0. \A e \in 1..joined : Conv[e] # c
      BY <1>7 DEF known
    <2>1. \A r \in rows : f[r] = r
      BY <2>0, <1>0, <1>2
    <2>2. rows' = rows /\ UNCHANGED <<state, era, joined, pending, batch>>
      BY <1>1, <1>2, <1>7, <2>1
    <2>3. commands' = commands + 1 /\ commands < MaxCommands /\ commands \in Nat
          /\ MaxCommands \in Nat
      BY <1>0, <1>1, SemanticBasics DEF Semantics!Command
    <2>4. /\ mode' \in [Semantics!Convs -> {"normal", "restricted"}]
          /\ semanticStatus' \in {"open", "resolved", "closed", "reopened"}
          /\ why' \in Semantics!Events \cup {None} /\ commands' \in 0..MaxCommands
      BY <1>0, <1>1, <1>3, <2>3
    <2>5. Semantics!TypeOK'
      BY <1>0, <2>2, <2>4 DEF Semantics!TypeOK
    <2>6. \A e \in 1..joined : mode'[Conv[e]] = mode[Conv[e]]
      BY <2>0, <1>0, <1>1
    <2>7. Semantics!BatchCurrent'
      <3>1. batch.events \subseteq 1..joined
        BY <1>0 DEF Semantics!TypeOK
      <3>2. Semantics!OpenQuestions' = Semantics!OpenQuestions
        BY <2>2 DEF Semantics!OpenQuestions, Semantics!OpenQuestion, Semantics!Visible
      <3> QED BY <2>2, <2>6, <3>1, <3>2
              DEF Semantics!SemanticsInv, Semantics!BatchCurrent, Semantics!Owned
    <2>8. Semantics!RowsBehindCursor' /\ Semantics!OneRowPerReading'
      BY <2>2, <2>3, <1>0 DEF Semantics!SemanticsInv, Semantics!RowsBehindCursor,
                              Semantics!OneRowPerReading
    <2> QED BY <1>5, <2>5, <2>7, <2>8 DEF Semantics!SemanticsInv
  <1> QED BY <1>6, <1>7

LEMMA SemanticNext ==
    ASSUME Semantics!SemanticsAssumption, Semantics!SemanticsInv,
           [Semantics!Next]_(Semantics!vars)
    PROVE  Semantics!SemanticsInv'
  <1>1. CASE UNCHANGED Semantics!vars
    <2>1. UNCHANGED <<joined, mode, semanticStatus, why, state, era, rows, pending, batch, commands>>
      BY <1>1 DEF Semantics!vars
    <2>2. Semantics!BatchCurrent'
      BY <2>1 DEF Semantics!SemanticsInv, Semantics!BatchCurrent, Semantics!Owned,
                  Semantics!OpenQuestions, Semantics!OpenQuestion, Semantics!Visible
    <2>3. joined' \in joined..Last /\ batch'.events \subseteq 1..joined'
          /\ state' \in [cursor : 0..joined', lease : {"free", "held", "late"}]
      BY <2>1, SemanticBasics DEF Semantics!SemanticsInv, Semantics!TypeOK
    <2> QED BY <2>1, <2>2, <2>3, SemanticQuiet
  <1>2. CASE Semantics!Next
    BY <1>2, SemanticWorker, SemanticCommit, SemanticCommands, SemanticRewrites, SemanticLifecycle,
       SemanticMode DEF Semantics!Next
  <1> QED BY <1>1, <1>2

(* Every reachable state of a thread's semantics: what is claimed lies      *)
(* beyond the cursor in conversations that may be kept, for as long as the  *)
(* lease stands, and the rows of a reading behind it (claim_semantic_batch, *)
(* commit_semantic_patch, DeleteState).                                     *)
THEOREM SemanticsInvariant ==
    ASSUME Semantics!SemanticsAssumption PROVE Semantics!Spec => []Semantics!SemanticsInv
  BY SemanticInit, SemanticNext, PTL DEF Semantics!Spec

(* For any messages, conversations, batches and commands: a conversation    *)
(* that may not be kept leaves nothing live that is derived of it, and      *)
(* killed workers and lost leases do not make a second row of one message   *)
(* (reconcile_conversation_visibility_in_txn, commit_semantic_patch).       *)
THEOREM SemanticsAreConsistent == ConversationsSpec => []SemanticsConsistent
  <1>1. Semantics!SemanticsInv => SemanticsConsistent
    BY DEF Semantics!SemanticsInv, SemanticsConsistent
  <1>2. Semantics!SemanticsAssumption
    BY ConversationsAssumption
  <1> QED BY <1>1, <1>2, SemanticsInvariant, PartsOfConversations, PTL

(* Only a commit resolves a thread. *)
LEMMA SemanticResolves ==
    ASSUME Semantics!SemanticsAssumption, Semantics!SemanticsInv,
           [Semantics!Next]_(Semantics!vars),
           semanticStatus # "resolved", semanticStatus' = "resolved"
    PROVE  ~\E r \in rows' : Semantics!OpenQuestion(r) /\ Semantics!Visible(r)
  <1>1. Semantics!Next
    BY DEF Semantics!vars
  <1>2. \A cited \in SUBSET Semantics!Events : Semantics!commit_semantic_patch(cited) =>
           ~\E r \in rows' : Semantics!OpenQuestion(r) /\ Semantics!Visible(r)
    BY SemanticCommit
  <1>3. \A to \in {"closed", "reopened"} : ~Semantics!set_thread_lifecycle(to)
    BY DEF Semantics!set_thread_lifecycle
  <1>4. \A c, m : ~Semantics!set_conversation_mode(c, m)
    BY DEF Semantics!set_conversation_mode
  <1>5. /\ ~Semantics!Join /\ ~Semantics!claim_semantic_batch
        /\ ~Semantics!release_semantic_claim /\ ~Semantics!LeaseEnds /\ ~Semantics!Kill
        /\ ~Semantics!invalidate /\ ~Semantics!reconfirm
    BY DEF Semantics!Join, Semantics!claim_semantic_batch, Semantics!release_semantic_claim,
           Semantics!LeaseEnds, Semantics!Kill, Semantics!invalidate, Semantics!reconfirm
  <1>6. \A r : /\ ~Semantics!confirm_decision(r) /\ ~Semantics!revoke_decision(r)
               /\ ~Semantics!dismiss_question(r)
    BY DEF Semantics!confirm_decision, Semantics!revoke_decision, Semantics!dismiss_question,
           Semantics!Rewrite
  <1> QED BY <1>1, <1>2, <1>3, <1>4, <1>5, <1>6 DEF Semantics!Next

-----------------------------------------------------------------------------
(* 3. The owner's verdicts about pairs of threads.                          *)

CandidatesOK == \A c \in DOMAIN cand : cand[c] = [st |-> cand[c].st, src |-> cand[c].src]

(* What happens to candidates: the expiry of those still proposed, the      *)
(* insert of new ones and of new sources, a review.                         *)
Expiry(events) ==
    cand' = [c \in DOMAIN cand |-> IF cand[c].src \cap events # {} /\ cand[c].st = "proposed"
                                   THEN [cand[c] EXCEPT !.st = "expired"] ELSE cand[c]]

Known(c) == IF c \in DOMAIN cand THEN cand[c] ELSE [st |-> "proposed", src |-> {}]

Insertion(pairs, more) ==
    cand' = [c \in DOMAIN cand \cup pairs |-> [Known(c) EXCEPT !.src = @ \cup more[c]]]

Review(c, v) == c \in DOMAIN cand /\ cand[c].st = "proposed" /\ cand' = [cand EXCEPT ![c].st = v]

CandidateStep ==
    \/ cand' = cand
    \/ \E events : Expiry(events)
    \/ \E pairs, more : Insertion(pairs, more)
    \/ \E c, v : Review(c, v)

VerdictsHold == \A c \in DOMAIN cand :
                  cand[c].st \in {"accepted", "rejected"} => cand'[c].st = cand[c].st

LEMMA VerdictKept ==
    ASSUME CandidatesOK, CandidateStep
    PROVE  CandidatesOK' /\ VerdictsHold
  <1>1. cand' = cand => CandidatesOK' /\ VerdictsHold
    BY DEF CandidatesOK, VerdictsHold
  <1>2. ASSUME NEW events, Expiry(events)
        PROVE  CandidatesOK' /\ VerdictsHold
    <2>1. DOMAIN cand' = DOMAIN cand
      BY <1>2 DEF Expiry
    <2>2. ASSUME NEW c \in DOMAIN cand
          PROVE  \/ cand'[c] = cand[c]
                 \/ /\ cand'[c] = [st |-> "expired", src |-> cand[c].src]
                    /\ cand[c].st = "proposed"
      BY <1>2 DEF CandidatesOK, Expiry
    <2> QED BY <2>1, <2>2 DEF CandidatesOK, VerdictsHold
  <1>3. ASSUME NEW pairs, NEW more, Insertion(pairs, more)
        PROVE  CandidatesOK' /\ VerdictsHold
    <2>1. /\ DOMAIN cand' = DOMAIN cand \cup pairs
          /\ \A c \in DOMAIN cand \cup pairs : cand'[c] = [Known(c) EXCEPT !.src = @ \cup more[c]]
      BY <1>3 DEF Insertion
    <2>2. ASSUME NEW c
          PROVE  Known(c) = [st |-> Known(c).st, src |-> Known(c).src]
      BY DEF CandidatesOK, Known
    <2>3. ASSUME NEW c \in DOMAIN cand \cup pairs
          PROVE  cand'[c] = [st |-> Known(c).st, src |-> Known(c).src \cup more[c]]
      <3> DEFINE row == Known(c)
      <3>1. row = [st |-> row.st, src |-> row.src]
        BY <2>2
      <3>2. cand'[c] = [row EXCEPT !.src = @ \cup more[c]]
        BY <2>1
      <3> HIDE DEF row
      <3>3. cand'[c] = [st |-> row.st, src |-> row.src \cup more[c]]
        BY <3>1, <3>2
      <3> QED BY <3>3 DEF row
    <2>4. CandidatesOK'
      BY <2>1, <2>3 DEF CandidatesOK
    <2>5. ASSUME NEW c \in DOMAIN cand
          PROVE  cand'[c].st = cand[c].st
      <3>1. Known(c) = cand[c] /\ c \in DOMAIN cand \cup pairs
        BY DEF Known
      <3>2. cand'[c] = [st |-> cand[c].st, src |-> cand[c].src \cup more[c]]
        BY <2>3, <3>1
      <3> QED BY <3>2
    <2> QED BY <2>4, <2>5 DEF VerdictsHold
  <1>4. ASSUME NEW d, NEW v, Review(d, v)
        PROVE  CandidatesOK' /\ VerdictsHold
    <2>1. DOMAIN cand' = DOMAIN cand /\ cand'[d] = [st |-> v, src |-> cand[d].src]
      BY <1>4 DEF CandidatesOK, Review
    <2>2. \A c \in DOMAIN cand : c # d => cand'[c] = cand[c]
      BY <1>4 DEF Review
    <2>3. cand[d].st = "proposed"
      BY <1>4 DEF Review
    <2> QED BY <2>1, <2>2, <2>3 DEF CandidatesOK, VerdictsHold
  <1> QED BY <1>1, <1>2, <1>3, <1>4 DEF CandidateStep

LEMMA OverlayCandidates == ASSUME [Overlay!Next]_(Overlay!vars) PROVE CandidateStep
  <1>1. cand' = cand => CandidateStep
    BY DEF CandidateStep
  <1>2. ASSUME NEW events, Overlay!refresh_link_hints(events) PROVE CandidateStep
    BY <1>2 DEF Overlay!refresh_link_hints, Overlay!ExpireCandidates, CandidateStep, Expiry
  <1>3. ASSUME NEW p, Overlay!apply_effect(p) \/ Overlay!revert_applied(p) PROVE CandidateStep
    <2>1. \E events : Overlay!refresh_link_hints(events)
      BY <1>3 DEF Overlay!apply_effect, Overlay!revert_applied
    <2> QED BY <1>2, <2>1
  <1>4. ASSUME Overlay!commit_link_hints PROVE CandidateStep
    <2> DEFINE mine == {e \in DOMAIN held : linkScan[e] = "leased"}
               hint1 == [e \in OverlayEvents |->
                           IF e \in mine /\ hint[e] = None THEN held[e] ELSE hint[e]]
               matches == Overlay!Matches(mine, hint1)
               pairs == {{hint1[m[1]], hint1[m[2]]} : m \in matches}
               sources(c) == UNION {{m[1], m[2]} :
                                      m \in {x \in matches : {hint1[x[1]], hint1[x[2]]} = c}}
               more == [c \in DOMAIN cand \cup pairs |-> IF c \in pairs THEN sources(c) ELSE {}]
    <2>1. cand' = [c \in DOMAIN cand \cup pairs |->
                     [(IF c \in DOMAIN cand THEN cand[c] ELSE [st |-> "proposed", src |-> {}])
                        EXCEPT !.src = @ \cup (IF c \in pairs THEN sources(c) ELSE {})]]
      BY <1>4 DEF Overlay!commit_link_hints
    <2>2. \A c \in DOMAIN cand \cup pairs : more[c] = IF c \in pairs THEN sources(c) ELSE {}
      OBVIOUS
    <2> HIDE DEF more, pairs, sources
    <2>3. Insertion(pairs, more)
      BY <2>1, <2>2 DEF Insertion, Known
    <2> QED BY <2>3 DEF CandidateStep
  <1>5. ASSUME NEW c, NEW v, Overlay!commit_link_review(c, v) PROVE CandidateStep
    <2>1. Review(c, v)
      BY <1>5 DEF Overlay!commit_link_review, Overlay!Reviewable, Review
    <2> QED BY <2>1 DEF CandidateStep
  <1>6. \A e, t : Overlay!project(e, t) \/ Overlay!parent_arrives(e) => cand' = cand
    BY DEF Overlay!project, Overlay!parent_arrives, Overlay!links
  <1>7. \A p, x, y : \/ Overlay!build_merge(p, x, y) \/ Overlay!build_split(p, x, y)
                    \/ Overlay!persist_proposal(p) \/ Overlay!authorize_resume(p, x)
                    => cand' = cand
    BY DEF Overlay!build_merge, Overlay!build_split, Overlay!persist_proposal, Overlay!authorize_resume,
           Overlay!links
  <1>8. /\ Overlay!claim_link_batch \/ Overlay!fail_link_batch => CandidateStep
        /\ Overlay!LinkLeaseEnds \/ Overlay!LinkWorkerKilled => CandidateStep
    BY <1>1 DEF Overlay!claim_link_batch, Overlay!fail_link_batch, Overlay!LinkLeaseEnds,
           Overlay!LinkWorkerKilled
  <1>9. \A e, t : Overlay!project(e, t) \/ Overlay!parent_arrives(e) => CandidateStep
    BY <1>6, <1>1
  <1>10. \A p, x, y : \/ Overlay!build_merge(p, x, y) \/ Overlay!build_split(p, x, y)
                     \/ Overlay!persist_proposal(p) \/ Overlay!authorize_resume(p, x)
                     \/ Overlay!apply_effect(p) \/ Overlay!revert_applied(p)
                     => CandidateStep
    BY <1>7, <1>1, <1>3
  <1>11. CASE UNCHANGED Overlay!vars
    BY <1>1, <1>11 DEF Overlay!vars, Overlay!links
  <1>12. CASE Overlay!Next
    <2>1. CASE \E e \in OverlayEvents : \/ \E t \in Overlay!Threads : Overlay!project(e, t)
                                       \/ Overlay!parent_arrives(e)
      BY <1>9, <2>1
    <2>2. CASE \E p \in Proposals :
                 \/ \E a, b \in Overlay!Threads : Overlay!build_merge(p, a, b)
                 \/ \E t \in Overlay!Threads, S \in SUBSET OverlayEvents : Overlay!build_split(p, t, S)
                 \/ Overlay!persist_proposal(p) \/ Overlay!apply_effect(p) \/ Overlay!revert_applied(p)
                 \/ \E d \in Overlay!Decisions : Overlay!authorize_resume(p, d)
      BY <1>10, <2>2
    <2>3. CASE \E c \in DOMAIN cand, v \in {"accepted", "rejected"} : Overlay!commit_link_review(c, v)
      BY <1>5, <2>3
    <2> QED BY <1>4, <1>8, <1>12, <2>1, <2>2, <2>3 DEF Overlay!Next
  <1> QED BY <1>11, <1>12

LEMMA LinksCandidates == ASSUME [Links!Next]_(Links!vars) PROVE CandidateStep
  <1>1. cand' = cand => CandidateStep
    BY DEF CandidateStep
  <1>2. ASSUME NEW events, Links!refresh_link_hints(events) PROVE CandidateStep
    BY <1>2 DEF Links!refresh_link_hints, Links!ExpireCandidates, CandidateStep, Expiry
  <1>3. ASSUME NEW p, Links!apply_effect(p) \/ Links!revert_applied(p) PROVE CandidateStep
    <2>1. \E events : Links!refresh_link_hints(events)
      BY <1>3 DEF Links!apply_effect, Links!revert_applied
    <2> QED BY <1>2, <2>1
  <1>4. ASSUME Links!commit_link_hints PROVE CandidateStep
    <2> DEFINE mine == {e \in DOMAIN held : linkScan[e] = "leased"}
               hint1 == [e \in OverlayEvents |->
                           IF e \in mine /\ hint[e] = None THEN held[e] ELSE hint[e]]
               matches == Links!Matches(mine, hint1)
               pairs == {{hint1[m[1]], hint1[m[2]]} : m \in matches}
               sources(c) == UNION {{m[1], m[2]} :
                                      m \in {x \in matches : {hint1[x[1]], hint1[x[2]]} = c}}
               more == [c \in DOMAIN cand \cup pairs |-> IF c \in pairs THEN sources(c) ELSE {}]
    <2>1. cand' = [c \in DOMAIN cand \cup pairs |->
                     [(IF c \in DOMAIN cand THEN cand[c] ELSE [st |-> "proposed", src |-> {}])
                        EXCEPT !.src = @ \cup (IF c \in pairs THEN sources(c) ELSE {})]]
      BY <1>4 DEF Links!commit_link_hints
    <2>2. \A c \in DOMAIN cand \cup pairs : more[c] = IF c \in pairs THEN sources(c) ELSE {}
      OBVIOUS
    <2> HIDE DEF more, pairs, sources
    <2>3. Insertion(pairs, more)
      BY <2>1, <2>2 DEF Insertion, Known
    <2> QED BY <2>3 DEF CandidateStep
  <1>5. ASSUME NEW c, NEW v, Links!commit_link_review(c, v) PROVE CandidateStep
    <2>1. Review(c, v)
      BY <1>5 DEF Links!commit_link_review, Links!Reviewable, Review
    <2> QED BY <2>1 DEF CandidateStep
  <1>6. \A e, t : Links!project(e, t) \/ Links!parent_arrives(e) => cand' = cand
    BY DEF Links!project, Links!parent_arrives, Links!links
  <1>7. \A p, x, y : \/ Links!build_merge(p, x, y) \/ Links!build_split(p, x, y)
                    \/ Links!persist_proposal(p) \/ Links!authorize_resume(p, x)
                    => cand' = cand
    BY DEF Links!build_merge, Links!build_split, Links!persist_proposal, Links!authorize_resume,
           Links!links
  <1>8. /\ Links!claim_link_batch \/ Links!fail_link_batch => CandidateStep
        /\ Links!LinkLeaseEnds \/ Links!LinkWorkerKilled => CandidateStep
    BY <1>1 DEF Links!claim_link_batch, Links!fail_link_batch, Links!LinkLeaseEnds,
           Links!LinkWorkerKilled
  <1>9. \A e, t : Links!project(e, t) \/ Links!parent_arrives(e) => CandidateStep
    BY <1>6, <1>1
  <1>10. \A p, x, y : \/ Links!build_merge(p, x, y) \/ Links!build_split(p, x, y)
                     \/ Links!persist_proposal(p) \/ Links!authorize_resume(p, x)
                     \/ Links!apply_effect(p) \/ Links!revert_applied(p)
                     => CandidateStep
    BY <1>7, <1>1, <1>3
  <1>11. CASE UNCHANGED Links!vars
    BY <1>1, <1>11 DEF Links!vars, Links!links
  <1>12. CASE Links!Next
    <2>1. CASE \E e \in OverlayEvents : \/ \E t \in Links!Threads : Links!project(e, t)
                                       \/ Links!parent_arrives(e)
      BY <1>9, <2>1
    <2>2. CASE \E p \in LinkProposals :
                 \/ \E a, b \in Links!Threads : Links!build_merge(p, a, b)
                 \/ \E t \in Links!Threads, S \in SUBSET OverlayEvents : Links!build_split(p, t, S)
                 \/ Links!persist_proposal(p) \/ Links!apply_effect(p) \/ Links!revert_applied(p)
                 \/ \E d \in Links!Decisions : Links!authorize_resume(p, d)
      BY <1>10, <2>2
    <2>3. CASE \E c \in DOMAIN cand, v \in {"accepted", "rejected"} : Links!commit_link_review(c, v)
      BY <1>5, <2>3
    <2> QED BY <1>4, <1>8, <1>12, <2>1, <2>2, <2>3 DEF Links!Next
  <1> QED BY <1>11, <1>12

(* What the owner decided about a pair of threads stands, whatever is       *)
(* scanned, merged or split afterwards; and no patch resolves a thread over *)
(* a question the owner is shown (refresh_link_hints_and_candidates,        *)
(* commit_link_hints, commit_semantic_patch).                               *)
THEOREM VerdictsAreKept == ConversationsSpec => VerdictsStand
  <1>1. ConversationsInit => CandidatesOK
    BY DEF ConversationsInit, Overlay!Init, Links!Init, CandidatesOK
  <1>2. [ConversationsNext]_conversations =>
          [Overlay!Next]_(Overlay!vars) \/ [Links!Next]_(Links!vars)
    <2>1. UNCHANGED overlayVars => UNCHANGED Overlay!vars
      BY DEF overlayVars, Overlay!vars, Overlay!overlay, Overlay!links
    <2> QED BY <2>1, ChosenPart
  <1>3. CandidatesOK /\ [ConversationsNext]_conversations =>
          /\ CandidatesOK'
          /\ [\A c \in DOMAIN cand : cand[c].st \in {"accepted", "rejected"}
                                     => cand'[c].st = cand[c].st]_(Links!vars)
    <2>1. [ConversationsNext]_conversations => CandidateStep
      BY <1>2, OverlayCandidates, LinksCandidates
    <2> QED BY <2>1, VerdictKept DEF VerdictsHold
  <1>4. ConversationsSpec => Links!ReviewStands
    BY <1>1, <1>3, PTL DEF ConversationsSpec, Links!ReviewStands
  <1>5. Semantics!SemanticsAssumption
    BY ConversationsAssumption
  <1>6. Semantics!SemanticsInv /\ [Semantics!Next]_(Semantics!vars) =>
          [semanticStatus # "resolved" /\ semanticStatus' = "resolved"
             => ~\E r \in rows' : Semantics!OpenQuestion(r) /\ Semantics!Visible(r)]_(Semantics!vars)
    BY <1>5, SemanticResolves
  <1>7. ConversationsSpec => Semantics!ResolvesCleanly
    BY <1>5, <1>6, SemanticsInvariant, PartsOfConversations, PTL
       DEF Semantics!Spec, Semantics!ResolvesCleanly
  <1> QED BY <1>4, <1>7 DEF VerdictsStand

-----------------------------------------------------------------------------
(* 4. What the owner merged and split.                                      *)

Rows4 == [to : Overlay!Threads \cup {None}, by : Proposals \cup {None}, active : BOOLEAN]
Done == {"applied", "reverted"}

LEMMA OverlayFacts ==
    ASSUME Overlay!OverlayInv
    PROVE  /\ projected \in [OverlayEvents -> Overlay!Threads \cup {None}]
           /\ overlayStatus \in [Overlay!Threads -> {"none", "open", "closed"}]
           /\ prop \in [Proposals -> Overlay!ProposalRows]
           /\ alias \in [Overlay!Threads -> Rows4] /\ split \in [OverlayEvents -> Rows4]
           /\ \A t \in Overlay!Threads :
                /\ Overlay!RowOfProposal(alias[t])
                /\ alias[t] # Overlay!NoRow => /\ alias[t].to = prop[alias[t].by].canonical
                                               /\ alias[t].to \in Overlay!Threads
           /\ \A e \in OverlayEvents :
                /\ Overlay!RowOfProposal(split[e])
                /\ split[e] # Overlay!NoRow => split[e].to = split[e].by
           /\ \A t \in Overlay!Threads : overlayStatus[t] # "open" => Overlay!Members(t) = {}
           /\ Overlay!NoAliasChain /\ Overlay!SplitThreadOpenWithMembers
           /\ Proposals \subseteq Overlay!Threads
  BY DEF Overlay!OverlayInv, Overlay!OverlayTypes, Rows4, Overlay!Threads

LEMMA OverlayInit == ASSUME Overlay!OverlayAssumption, Overlay!Init PROVE Overlay!OverlayInv
  <1>1. Overlay!OverlayTypes
    BY DEF Overlay!Init, Overlay!OverlayTypes, Overlay!NoRow, Overlay!NoImpact,
           Overlay!ProposalRows
  <1>2. \A t \in Overlay!Threads : Overlay!RowOfProposal(alias[t]) /\ alias[t] = Overlay!NoRow
    BY DEF Overlay!Init, Overlay!RowOfProposal
  <1>3. \A e \in OverlayEvents : Overlay!RowOfProposal(split[e]) /\ split[e] = Overlay!NoRow
    BY DEF Overlay!Init, Overlay!RowOfProposal
  <1>4. \A t \in Overlay!Threads : Overlay!Members(t) = {}
    BY DEF Overlay!Init, Overlay!Members, Overlay!OverlayAssumption
  <1>5. Overlay!NoAliasChain
    BY <1>2 DEF Overlay!NoAliasChain, Overlay!NoRow
  <1>6. Overlay!SplitThreadOpenWithMembers
    BY DEF Overlay!Init, Overlay!SplitThreadOpenWithMembers, Overlay!NoImpact
  <1> QED BY <1>1, <1>2, <1>3, <1>4, <1>5, <1>6 DEF Overlay!OverlayInv

LEMMA OverlayFrame ==
    ASSUME Overlay!OverlayInv, UNCHANGED Overlay!overlay PROVE Overlay!OverlayInv'
  BY DEF Overlay!overlay, Overlay!OverlayInv, Overlay!OverlayTypes, Overlay!RowOfProposal,
         Overlay!Members, Overlay!NoAliasChain, Overlay!SplitThreadOpenWithMembers

(* Projections and replies taken out: messages of threads change, and with  *)
(* them whether a thread is open.                                           *)
LEMMA OverlayMembers ==
    ASSUME Overlay!OverlayInv, UNCHANGED <<alias, split, prop>>,
           projected' \in [OverlayEvents -> Overlay!Threads \cup {None}],
           overlayStatus' \in [Overlay!Threads -> {"none", "open", "closed"}],
           \A t \in Overlay!Threads : overlayStatus'[t] # "open" => Overlay!Members(t)' = {},
           \A t \in Overlay!Threads :
              \/ overlayStatus'[t] = overlayStatus[t] /\ Overlay!Members(t)' = Overlay!Members(t)
              \/ (overlayStatus'[t] = "open") = (Overlay!Members(t)' # {})
    PROVE  Overlay!OverlayInv'
  <1>1. Overlay!OverlayTypes'
    BY DEF Overlay!OverlayInv, Overlay!OverlayTypes
  <1>2. (/\ \A t \in Overlay!Threads :
              /\ Overlay!RowOfProposal(alias[t])
              /\ alias[t] # Overlay!NoRow => /\ alias[t].to = prop[alias[t].by].canonical
                                             /\ alias[t].to \in Overlay!Threads
         /\ \A e \in OverlayEvents :
              /\ Overlay!RowOfProposal(split[e])
              /\ split[e] # Overlay!NoRow => split[e].to = split[e].by)'
    BY OverlayFacts DEF Overlay!RowOfProposal
  <1>3. Overlay!NoAliasChain'
    BY OverlayFacts DEF Overlay!NoAliasChain
  <1>4. Overlay!SplitThreadOpenWithMembers'
    <2> SUFFICES ASSUME NEW p \in Proposals, prop[p].st = "reverted", prop[p].kind = "split"
                 PROVE  (overlayStatus'[p] = "open") = (Overlay!Members(p)' # {})
      BY DEF Overlay!SplitThreadOpenWithMembers
    <2>1. (overlayStatus[p] = "open") = (Overlay!Members(p) # {})
      BY OverlayFacts DEF Overlay!SplitThreadOpenWithMembers
    <2>2. p \in Overlay!Threads
      BY OverlayFacts
    <2> QED BY <2>1, <2>2
  <1> QED BY <1>1, <1>2, <1>3, <1>4 DEF Overlay!OverlayInv

LEMMA OverlayProject ==
    ASSUME Overlay!OverlayAssumption, Overlay!OverlayInv, NEW e \in OverlayEvents,
           NEW t \in Overlay!Threads, Overlay!project(e, t)
    PROVE  Overlay!OverlayInv'
  <1>1. /\ projected' = [projected EXCEPT ![e] = t] /\ projected[e] = None
        /\ overlayStatus' = [overlayStatus EXCEPT ![t] = "open"]
        /\ UNCHANGED <<alias, split, prop>> /\ None \notin Overlay!Threads
    BY DEF Overlay!project, Overlay!OverlayAssumption
  <1>2. /\ projected' \in [OverlayEvents -> Overlay!Threads \cup {None}]
        /\ overlayStatus' \in [Overlay!Threads -> {"none", "open", "closed"}]
    BY <1>1, OverlayFacts
  <1>3. Overlay!Members(t)' # {} /\ overlayStatus'[t] = "open"
    BY <1>1, OverlayFacts DEF Overlay!Members
  <1>4. ASSUME NEW u \in Overlay!Threads, u # t
        PROVE  overlayStatus'[u] = overlayStatus[u] /\ Overlay!Members(u)' = Overlay!Members(u)
    <2>1. \A x \in OverlayEvents : (projected'[x] = u) = (projected[x] = u)
      BY <1>1, <1>4, OverlayFacts
    <2> QED BY <1>1, <1>4, <2>1, OverlayFacts DEF Overlay!Members
  <1>5. \A u \in Overlay!Threads : overlayStatus'[u] # "open" => Overlay!Members(u)' = {}
    BY <1>3, <1>4, OverlayFacts
  <1>6. \A u \in Overlay!Threads :
          \/ overlayStatus'[u] = overlayStatus[u] /\ Overlay!Members(u)' = Overlay!Members(u)
          \/ (overlayStatus'[u] = "open") = (Overlay!Members(u)' # {})
    BY <1>3, <1>4
  <1> QED BY <1>1, <1>2, <1>5, <1>6, OverlayMembers

LEMMA OverlayParent ==
    ASSUME Overlay!OverlayAssumption, Overlay!OverlayInv, NEW e \in OverlayEvents,
           Overlay!parent_arrives(e)
    PROVE  Overlay!OverlayInv'
  <1>t. PICK t \in Overlay!Threads : t = projected[e]
    BY OverlayFacts DEF Overlay!parent_arrives
  <1>1. /\ projected' = [projected EXCEPT ![e] = None]
        /\ overlayStatus' = IF Overlay!Members(t) = {e}
                            THEN [overlayStatus EXCEPT ![t] = "closed"] ELSE overlayStatus
        /\ UNCHANGED <<alias, split, prop>> /\ None \notin Overlay!Threads
    BY <1>t DEF Overlay!parent_arrives, Overlay!OverlayAssumption
  <1>2. /\ projected' \in [OverlayEvents -> Overlay!Threads \cup {None}]
        /\ overlayStatus' \in [Overlay!Threads -> {"none", "open", "closed"}]
    BY <1>1, OverlayFacts
  <1>3. ASSUME NEW u \in Overlay!Threads
        PROVE  Overlay!Members(u)' = Overlay!Members(u) \ {e}
    <2>1. \A x \in OverlayEvents : (projected'[x] = u) = (projected[x] = u /\ x # e)
      BY <1>1, OverlayFacts
    <2> QED BY <2>1 DEF Overlay!Members
  <1>4. e \in Overlay!Members(t) /\ overlayStatus[t] = "open"
    BY <1>t, OverlayFacts DEF Overlay!Members
  <1>5. ASSUME NEW u \in Overlay!Threads, u # t
        PROVE  overlayStatus'[u] = overlayStatus[u] /\ Overlay!Members(u)' = Overlay!Members(u)
    <2>1. overlayStatus'[u] = overlayStatus[u]
      BY <1>1, <1>5, OverlayFacts
    <2>2. e \notin Overlay!Members(u)
      BY <1>5, <1>t DEF Overlay!Members
    <2> QED BY <1>3, <2>1, <2>2
  <1>6. (overlayStatus'[t] = "open") = (Overlay!Members(t)' # {})
    <2>1. CASE Overlay!Members(t) = {e}
      <3>1. overlayStatus' = [overlayStatus EXCEPT ![t] = "closed"]
        BY <1>1, <2>1
      <3>2. overlayStatus'[t] = "closed"
        BY <3>1, OverlayFacts
      <3>3. Overlay!Members(t)' = {}
        BY <1>3, <2>1
      <3> QED BY <3>2, <3>3
    <2>2. CASE Overlay!Members(t) # {e}
      BY <1>1, <1>t, <1>3, <1>4, <2>2
    <2> QED BY <2>1, <2>2
  <1>7. \A u \in Overlay!Threads : overlayStatus'[u] # "open" => Overlay!Members(u)' = {}
    BY <1>5, <1>6, OverlayFacts
  <1>8. \A u \in Overlay!Threads :
          \/ overlayStatus'[u] = overlayStatus[u] /\ Overlay!Members(u)' = Overlay!Members(u)
          \/ (overlayStatus'[u] = "open") = (Overlay!Members(u)' # {})
    BY <1>5, <1>6
  <1> QED BY <1>1, <1>2, <1>7, <1>8, OverlayMembers

(* A proposal on its way to be applied: no row is its own yet. *)
LEMMA OverlayAdvance ==
    ASSUME Overlay!OverlayInv, NEW p \in Proposals, NEW i \in Overlay!ProposalRows,
           prop' = [prop EXCEPT ![p] = i], prop[p].st \notin Done, i.st \notin Done,
           UNCHANGED <<projected, overlayStatus, alias, split>>
    PROVE  Overlay!OverlayInv'
  <1>1. Overlay!OverlayTypes'
    BY DEF Overlay!OverlayInv, Overlay!OverlayTypes
  <1>2. \A q \in Proposals : prop'[q] = prop[q] \/ q = p
    BY OverlayFacts
  <1>3. prop'[p].st \notin Done
    BY OverlayFacts
  <1>4. ASSUME NEW row, Overlay!RowOfProposal(row)
        PROVE  /\ Overlay!RowOfProposal(row)'
               /\ row # Overlay!NoRow => prop'[row.by] = prop[row.by]
    BY <1>2, <1>4 DEF Overlay!RowOfProposal, Done
  <1>5. (\A t \in Overlay!Threads :
           /\ Overlay!RowOfProposal(alias[t])
           /\ alias[t] # Overlay!NoRow => /\ alias[t].to = prop[alias[t].by].canonical
                                          /\ alias[t].to \in Overlay!Threads)'
    BY <1>4, OverlayFacts
  <1>6. (\A e \in OverlayEvents :
           /\ Overlay!RowOfProposal(split[e])
           /\ split[e] # Overlay!NoRow => split[e].to = split[e].by)'
    BY <1>4, OverlayFacts
  <1>7. (\A t \in Overlay!Threads : overlayStatus[t] # "open" => Overlay!Members(t) = {})'
    BY OverlayFacts DEF Overlay!Members
  <1>8. Overlay!NoAliasChain'
    BY OverlayFacts DEF Overlay!NoAliasChain
  <1>9. Overlay!SplitThreadOpenWithMembers'
    <2> SUFFICES ASSUME NEW q \in Proposals, prop'[q].st = "reverted", prop'[q].kind = "split"
                 PROVE  (overlayStatus[q] = "open") = (Overlay!Members(q)' # {})
      BY DEF Overlay!SplitThreadOpenWithMembers
    <2>1. prop'[q] = prop[q]
      BY <1>2, <1>3 DEF Done
    <2>2. Overlay!Members(q)' = Overlay!Members(q)
      BY DEF Overlay!Members
    <2> QED BY <2>1, <2>2, OverlayFacts DEF Overlay!SplitThreadOpenWithMembers
  <1> QED BY <1>1, <1>5, <1>6, <1>7, <1>8, <1>9 DEF Overlay!OverlayInv

LEMMA OverlayRow ==
    ASSUME NEW i \in Overlay!ProposalRows, i.st # "none",
           NEW v \in {"awaiting", "approved", "rejected", "applied", "reverted"}
    PROVE  /\ [i EXCEPT !.st = v] \in Overlay!ProposalRows /\ [i EXCEPT !.st = v].st = v
           /\ [i EXCEPT !.st = v].canonical = i.canonical /\ [i EXCEPT !.st = v].kind = i.kind
  BY DEF Overlay!ProposalRows

LEMMA OverlayProposal ==
    ASSUME Overlay!OverlayInv, NEW p \in Proposals, NEW a \in Overlay!Threads,
           NEW b \in Overlay!Threads, NEW S \in SUBSET OverlayEvents, NEW d \in Overlay!Decisions,
           \/ Overlay!build_merge(p, a, b) \/ Overlay!build_split(p, a, S)
           \/ Overlay!persist_proposal(p) \/ Overlay!authorize_resume(p, d)
    PROVE  Overlay!OverlayInv'
  <1>1. prop[p] \in Overlay!ProposalRows
    BY OverlayFacts
  <1>2. CASE Overlay!build_merge(p, a, b)
    <2> DEFINE i == [st |-> "built", kind |-> "merge", canonical |-> a, other |-> b,
                     events |-> Overlay!Members(a) \cup Overlay!Members(b)]
    <2>1. i \in Overlay!ProposalRows /\ i.st = "built"
      BY <1>2 DEF Overlay!build_merge, Overlay!ValidImpact, Overlay!ProposalRows, Overlay!Members
    <2>2. /\ prop' = [prop EXCEPT ![p] = i] /\ prop[p].st = "none"
          /\ UNCHANGED <<projected, overlayStatus, alias, split>>
      BY <1>2 DEF Overlay!build_merge, Overlay!Advance
    <2> HIDE DEF i
    <2> QED BY <2>1, <2>2, OverlayAdvance DEF Done
  <1>3. CASE Overlay!build_split(p, a, S)
    <2> DEFINE i == [st |-> "built", kind |-> "split", canonical |-> a, other |-> None,
                     events |-> S]
    <2>1. i \in Overlay!ProposalRows /\ i.st = "built"
      BY DEF Overlay!ProposalRows
    <2>2. /\ prop' = [prop EXCEPT ![p] = i] /\ prop[p].st = "none"
          /\ UNCHANGED <<projected, overlayStatus, alias, split>>
      BY <1>3 DEF Overlay!build_split, Overlay!Advance
    <2> HIDE DEF i
    <2> QED BY <2>1, <2>2, OverlayAdvance DEF Done
  <1>4. CASE Overlay!persist_proposal(p)
    <2> DEFINE i == [prop[p] EXCEPT !.st = "awaiting"]
    <2>1. i \in Overlay!ProposalRows /\ i.st = "awaiting"
      BY <1>1, <1>4, OverlayRow DEF Overlay!persist_proposal
    <2>2. /\ prop' = [prop EXCEPT ![p] = i] /\ prop[p].st = "built"
          /\ UNCHANGED <<projected, overlayStatus, alias, split>>
      BY <1>4 DEF Overlay!persist_proposal, Overlay!Advance
    <2> HIDE DEF i
    <2> QED BY <2>1, <2>2, OverlayAdvance DEF Done
  <1>5. CASE Overlay!authorize_resume(p, d)
    <2> DEFINE i == [prop[p] EXCEPT !.st = d]
    <2>1. i \in Overlay!ProposalRows /\ i.st \notin Done
      BY <1>1, <1>5, OverlayRow DEF Overlay!authorize_resume, Overlay!Decisions, Done
    <2>2. /\ prop' = [prop EXCEPT ![p] = i] /\ prop[p].st = "awaiting"
          /\ UNCHANGED <<projected, overlayStatus, alias, split>>
      BY <1>5 DEF Overlay!authorize_resume, Overlay!Advance
    <2> HIDE DEF i
    <2> QED BY <2>1, <2>2, OverlayAdvance DEF Done
  <1> QED BY <1>2, <1>3, <1>4, <1>5

LEMMA OverlayApply ==
    ASSUME Overlay!OverlayAssumption, Overlay!OverlayInv, NEW p \in Proposals,
           Overlay!apply_effect(p)
    PROVE  Overlay!OverlayInv'
  <1> DEFINE i == prop[p]
             to(t) == [to |-> t, by |-> p, active |-> TRUE]
  <1>1. /\ i \in Overlay!ProposalRows /\ i.st = "approved"
        /\ prop' = [prop EXCEPT ![p] = [i EXCEPT !.st = "applied"]]
        /\ projected' = projected
    BY OverlayFacts DEF Overlay!apply_effect, Overlay!Advance
  <1>2. /\ prop'[p] = [i EXCEPT !.st = "applied"]
        /\ \A q \in Proposals : q # p => prop'[q] = prop[q]
        /\ prop' \in [Proposals -> Overlay!ProposalRows]
        /\ prop'[p].st = "applied" /\ prop'[p].canonical = i.canonical
    BY <1>1, OverlayFacts DEF Overlay!ProposalRows
  <1>3. ASSUME NEW row, Overlay!RowOfProposal(row)
        PROVE  /\ Overlay!RowOfProposal(row)'
               /\ row # Overlay!NoRow => prop'[row.by] = prop[row.by]
    BY <1>1, <1>2, <1>3 DEF Overlay!RowOfProposal
  <1>4. \A t : Overlay!RowOfProposal(to(t))' /\ to(t) # Overlay!NoRow
    BY <1>2 DEF Overlay!RowOfProposal, Overlay!NoRow
  <1>5. \A t \in Overlay!Threads : Overlay!Members(t)' = Overlay!Members(t)
    BY <1>1 DEF Overlay!Members
  <1>6. p \in Overlay!Threads /\ None \notin Overlay!Threads
    BY OverlayFacts DEF Overlay!OverlayAssumption
  <1>7. ASSUME NEW q \in Proposals, prop'[q].st = "reverted", prop'[q].kind = "split"
        PROVE  /\ q # p
               /\ (overlayStatus[q] = "open") = (Overlay!Members(q)' # {})
    <2>1. q # p /\ prop'[q] = prop[q]
      BY <1>2, <1>7
    <2>2. q \in Overlay!Threads /\ Overlay!Members(q)' = Overlay!Members(q)
      BY <1>5, OverlayFacts
    <2> QED BY <1>7, <2>1, <2>2, OverlayFacts DEF Overlay!SplitThreadOpenWithMembers
  <1>8. CASE /\ i.kind = "merge" /\ Overlay!MergeAllowed(i)
             /\ alias' = [alias EXCEPT ![i.other] = to(i.canonical)]
             /\ split' = split /\ overlayStatus' = overlayStatus
    <2>1. /\ i.other \in Overlay!Threads /\ i.canonical \in Overlay!Threads
          /\ i.canonical # i.other
      BY <1>1, <1>8 DEF Overlay!ProposalRows
    <2>2. /\ alias'[i.other] = to(i.canonical)
          /\ \A t \in Overlay!Threads : t # i.other => alias'[t] = alias[t]
          /\ alias' \in [Overlay!Threads -> Rows4]
      BY <1>8, <2>1, OverlayFacts DEF Rows4
    <2>3. /\ ~alias[i.canonical].active
          /\ \A t \in Overlay!Threads : alias[t].active => alias[t].to # i.other
      BY <1>8 DEF Overlay!MergeAllowed
    <2> HIDE DEF i, to
    <2>4. Overlay!OverlayTypes'
      BY <1>1, <1>2, <1>8, <2>2 DEF Overlay!OverlayInv, Overlay!OverlayTypes, Rows4
    <2>5. (\A t \in Overlay!Threads :
             /\ Overlay!RowOfProposal(alias[t])
             /\ alias[t] # Overlay!NoRow => /\ alias[t].to = prop[alias[t].by].canonical
                                            /\ alias[t].to \in Overlay!Threads)'
      <3> SUFFICES ASSUME NEW t \in Overlay!Threads
                   PROVE  (/\ Overlay!RowOfProposal(alias[t])
                           /\ alias[t] # Overlay!NoRow =>
                                /\ alias[t].to = prop[alias[t].by].canonical
                                /\ alias[t].to \in Overlay!Threads)'
        OBVIOUS
      <3>1. CASE t = i.other
        <4>1. /\ alias'[t] = to(i.canonical)
              /\ to(i.canonical).to = i.canonical /\ to(i.canonical).by = p
          BY <2>2, <3>1 DEF to
        <4> QED BY <1>2, <1>4, <2>1, <4>1 DEF Overlay!RowOfProposal
      <3>2. CASE t # i.other
        <4>1. alias'[t] = alias[t]
          BY <2>2, <3>2
        <4> QED BY <1>3, <4>1, OverlayFacts DEF Overlay!RowOfProposal
      <3> QED BY <3>1, <3>2
    <2>6. (\A e \in OverlayEvents :
             /\ Overlay!RowOfProposal(split[e])
             /\ split[e] # Overlay!NoRow => split[e].to = split[e].by)'
      BY <1>3, <1>8, OverlayFacts DEF Overlay!RowOfProposal
    <2>7. (\A t \in Overlay!Threads : overlayStatus[t] # "open" => Overlay!Members(t) = {})'
      BY <1>5, <1>8, OverlayFacts
    <2>8. Overlay!NoAliasChain'
      <3> SUFFICES ASSUME NEW t \in Overlay!Threads, alias'[t].active
                   PROVE  ~alias'[alias'[t].to].active
        BY DEF Overlay!NoAliasChain
      <3>1. CASE t = i.other
        <4>1. alias'[t].to = i.canonical
          BY <2>2, <3>1 DEF to
        <4> QED BY <2>1, <2>2, <2>3, <4>1
      <3>2. CASE t # i.other
        <4>1. /\ alias'[t] = alias[t] /\ alias[t].active
              /\ alias[t].to # i.other /\ alias[t] # Overlay!NoRow
          BY <2>2, <2>3, <3>2 DEF Overlay!NoRow
        <4>2. alias[t].to \in Overlay!Threads /\ ~alias[alias[t].to].active
          BY <4>1, OverlayFacts DEF Overlay!NoAliasChain
        <4> QED BY <2>2, <4>1, <4>2
      <3> QED BY <3>1, <3>2
    <2>9. Overlay!SplitThreadOpenWithMembers'
      BY <1>7, <1>8 DEF Overlay!SplitThreadOpenWithMembers
    <2> QED BY <2>4, <2>5, <2>6, <2>7, <2>8, <2>9 DEF Overlay!OverlayInv
  <1>9. CASE /\ split' = [e \in OverlayEvents |-> IF e \in i.events THEN to(p) ELSE split[e]]
             /\ overlayStatus' = [overlayStatus EXCEPT ![p] = "open"]
             /\ alias' = alias
    <2>1. to(p) \in Rows4 /\ to(p).to = to(p).by
      BY <1>6 DEF Rows4
    <2>2. /\ split' \in [OverlayEvents -> Rows4]
          /\ \A e \in OverlayEvents : split'[e] = to(p) \/ split'[e] = split[e]
      BY <1>9, <2>1, OverlayFacts
    <2>3. /\ overlayStatus' \in [Overlay!Threads -> {"none", "open", "closed"}]
          /\ overlayStatus'[p] = "open"
          /\ \A t \in Overlay!Threads : t # p => overlayStatus'[t] = overlayStatus[t]
      BY <1>6, <1>9, OverlayFacts
    <2> HIDE DEF i, to
    <2>4. Overlay!OverlayTypes'
      BY <1>1, <1>2, <1>9, <2>2, <2>3 DEF Overlay!OverlayInv, Overlay!OverlayTypes, Rows4
    <2>5. (\A t \in Overlay!Threads :
             /\ Overlay!RowOfProposal(alias[t])
             /\ alias[t] # Overlay!NoRow => /\ alias[t].to = prop[alias[t].by].canonical
                                            /\ alias[t].to \in Overlay!Threads)'
      BY <1>3, <1>9, OverlayFacts
    <2>6. (\A e \in OverlayEvents :
             /\ Overlay!RowOfProposal(split[e])
             /\ split[e] # Overlay!NoRow => split[e].to = split[e].by)'
      <3> SUFFICES ASSUME NEW e \in OverlayEvents
                   PROVE  (/\ Overlay!RowOfProposal(split[e])
                           /\ split[e] # Overlay!NoRow => split[e].to = split[e].by)'
        OBVIOUS
      <3>1. CASE split'[e] = to(p)
        BY <1>4, <2>1, <3>1 DEF Overlay!RowOfProposal
      <3>2. CASE split'[e] = split[e]
        BY <1>3, <3>2, OverlayFacts DEF Overlay!RowOfProposal
      <3> QED BY <2>2, <3>1, <3>2
    <2>7. (\A t \in Overlay!Threads : overlayStatus[t] # "open" => Overlay!Members(t) = {})'
      BY <1>5, <2>3, OverlayFacts
    <2>8. Overlay!NoAliasChain'
      BY <1>9, OverlayFacts DEF Overlay!NoAliasChain
    <2>9. Overlay!SplitThreadOpenWithMembers'
      <3> SUFFICES ASSUME NEW q \in Proposals, prop'[q].st = "reverted", prop'[q].kind = "split"
                   PROVE  (overlayStatus'[q] = "open") = (Overlay!Members(q)' # {})
        BY DEF Overlay!SplitThreadOpenWithMembers
      <3>1. q # p /\ q \in Overlay!Threads
        BY <1>7, OverlayFacts
      <3>2. overlayStatus'[q] = overlayStatus[q]
        BY <2>3, <3>1
      <3> QED BY <1>7, <3>2
    <2> QED BY <2>4, <2>5, <2>6, <2>7, <2>8, <2>9 DEF Overlay!OverlayInv
  <1> QED BY <1>8, <1>9 DEF Overlay!apply_effect

LEMMA OverlayRevert ==
    ASSUME Overlay!OverlayAssumption, Overlay!OverlayInv, NEW p \in Proposals,
           Overlay!revert_applied(p)
    PROVE  Overlay!OverlayInv'
  <1> DEFINE Off(row) == IF row.by = p THEN [row EXCEPT !.active = FALSE] ELSE row
  <1>1. /\ prop[p] \in Overlay!ProposalRows /\ prop[p].st = "applied" /\ p \in Overlay!Threads
        /\ prop' = [prop EXCEPT ![p] = [prop[p] EXCEPT !.st = "reverted"]]
        /\ projected' = projected /\ p # None
    BY OverlayFacts DEF Overlay!revert_applied, Overlay!Advance, Overlay!OverlayAssumption
  <1>2. /\ prop'[p].st = "reverted" /\ prop'[p].canonical = prop[p].canonical
        /\ \A q \in Proposals : q # p => prop'[q] = prop[q]
        /\ prop' \in [Proposals -> Overlay!ProposalRows]
    BY <1>1, OverlayRow, OverlayFacts
  <1>3. /\ \A t \in Overlay!Threads : alias'[t] = Off(alias[t])
        /\ \A e \in OverlayEvents : split'[e] = Off(split[e])
    BY OverlayFacts DEF Overlay!revert_applied, Overlay!Deactivated
  <1>4. /\ DOMAIN alias' = Overlay!Threads /\ DOMAIN split' = OverlayEvents
        /\ alias' = [t \in DOMAIN alias' |-> alias'[t]]
        /\ split' = [e \in DOMAIN split' |-> split'[e]]
    BY OverlayFacts DEF Overlay!revert_applied, Overlay!Deactivated
  <1>5. ASSUME NEW row \in Rows4, Overlay!RowOfProposal(row)
        PROVE  /\ Off(row) \in Rows4
               /\ Off(row).to = row.to /\ Off(row).by = row.by
               /\ Off(row).active => row.active /\ row.by # p
               /\ row = Overlay!NoRow => Off(row) = Overlay!NoRow
    <2>1. CASE row.by = p
      <3>1. Off(row) = [row EXCEPT !.active = FALSE] /\ row # Overlay!NoRow
        BY <1>1, <2>1 DEF Overlay!NoRow
      <3> HIDE DEF Off
      <3> QED BY <3>1 DEF Rows4
    <2>2. CASE row.by # p
      BY <2>2
    <2> QED BY <2>1, <2>2
  <1>6. ASSUME NEW row \in Rows4, Overlay!RowOfProposal(row)
        PROVE  Overlay!RowOfProposal(Off(row))'
    <2>1. CASE row.by = p
      <3>1. Off(row).active = FALSE
        BY <2>1 DEF Rows4
      <3> QED BY <1>2, <1>5, <1>6, <2>1, <3>1 DEF Overlay!RowOfProposal
    <2>2. CASE row.by # p
      <3>1. Off(row) = row
        BY <2>2
      <3>2. Overlay!RowOfProposal(row)'
        BY <1>2, <1>6, <2>2 DEF Overlay!RowOfProposal
      <3> QED BY <3>1, <3>2
    <2> QED BY <2>1, <2>2
  <1>7. \A t : Overlay!Members(t)' = Overlay!Members(t)
    BY <1>1 DEF Overlay!Members
  <1>8. /\ overlayStatus' \in [Overlay!Threads -> {"none", "open", "closed"}]
        /\ \A t \in Overlay!Threads : t # p => overlayStatus'[t] = overlayStatus[t]
    BY <1>1, OverlayFacts DEF Overlay!revert_applied
  <1>9. Overlay!SplitEmpty(p, split') = (Overlay!Members(p) = {})
    <2>1. ASSUME NEW e \in OverlayEvents, split'[e].active, split'[e].to = p
          PROVE  FALSE
      <3>1. split[e].active /\ split[e].by # p /\ split[e].to = p
        BY <1>3, <1>5, <2>1, OverlayFacts
      <3> QED BY <3>1, OverlayFacts DEF Overlay!NoRow
    <2> QED BY <2>1 DEF Overlay!SplitEmpty
  <1>10. /\ overlayStatus'[p] = IF overlayStatus[p] = "open" /\ Overlay!Members(p) = {}
                                THEN "closed" ELSE overlayStatus[p]
    BY <1>1, <1>9, OverlayFacts DEF Overlay!revert_applied
  <1>11. (overlayStatus'[p] = "open") = (Overlay!Members(p) # {})
    BY <1>1, <1>10, OverlayFacts
  <1> HIDE DEF Off
  <1>12. Overlay!OverlayTypes'
    <2>1. alias' \in [Overlay!Threads -> Rows4]
      BY <1>3, <1>4, <1>5, OverlayFacts
    <2>2. split' \in [OverlayEvents -> Rows4]
      BY <1>3, <1>4, <1>5, OverlayFacts
    <2> QED BY <1>1, <1>2, <1>8, <2>1, <2>2 DEF Overlay!OverlayInv, Overlay!OverlayTypes, Rows4
  <1>13. (\A t \in Overlay!Threads :
            /\ Overlay!RowOfProposal(alias[t])
            /\ alias[t] # Overlay!NoRow => /\ alias[t].to = prop[alias[t].by].canonical
                                           /\ alias[t].to \in Overlay!Threads)'
    <2> SUFFICES ASSUME NEW t \in Overlay!Threads
                 PROVE  (/\ Overlay!RowOfProposal(alias[t])
                         /\ alias[t] # Overlay!NoRow =>
                              /\ alias[t].to = prop[alias[t].by].canonical
                              /\ alias[t].to \in Overlay!Threads)'
      OBVIOUS
    <2>1. PICK row \in Rows4 : row = alias[t] /\ Overlay!RowOfProposal(row) /\ alias'[t] = Off(row)
      BY <1>3, OverlayFacts
    <2>2. Overlay!RowOfProposal(alias[t])'
      BY <1>6, <2>1 DEF Overlay!RowOfProposal
    <2>3. ASSUME alias'[t] # Overlay!NoRow
          PROVE  alias'[t].to = prop'[alias'[t].by].canonical /\ alias'[t].to \in Overlay!Threads
      <3>1. /\ row # Overlay!NoRow /\ alias'[t].to = row.to /\ alias'[t].by = row.by
        BY <1>5, <2>1, <2>3
      <3>2. row.to = prop[row.by].canonical /\ row.to \in Overlay!Threads
        BY <2>1, <3>1, OverlayFacts
      <3>3. row.by \in Proposals
        BY <2>1, <3>1 DEF Overlay!RowOfProposal
      <3> QED BY <1>2, <3>1, <3>2, <3>3
    <2> QED BY <2>2, <2>3
  <1>14. (\A e \in OverlayEvents :
            /\ Overlay!RowOfProposal(split[e])
            /\ split[e] # Overlay!NoRow => split[e].to = split[e].by)'
    <2> SUFFICES ASSUME NEW e \in OverlayEvents
                 PROVE  (/\ Overlay!RowOfProposal(split[e])
                         /\ split[e] # Overlay!NoRow => split[e].to = split[e].by)'
      OBVIOUS
    <2>1. PICK row \in Rows4 : row = split[e] /\ Overlay!RowOfProposal(row) /\ split'[e] = Off(row)
      BY <1>3, OverlayFacts
    <2>2. Overlay!RowOfProposal(split[e])'
      BY <1>6, <2>1 DEF Overlay!RowOfProposal
    <2>3. split'[e] # Overlay!NoRow => split'[e].to = split'[e].by
      BY <1>5, <2>1, OverlayFacts
    <2> QED BY <2>2, <2>3
  <1>15. (\A t \in Overlay!Threads : overlayStatus[t] # "open" => Overlay!Members(t) = {})'
    BY <1>7, <1>8, <1>11, OverlayFacts
  <1>16. Overlay!NoAliasChain'
    <2> SUFFICES ASSUME NEW t \in Overlay!Threads, alias'[t].active
                 PROVE  ~alias'[alias'[t].to].active
      BY DEF Overlay!NoAliasChain
    <2>1. alias[t].active /\ alias'[t].to = alias[t].to
      BY <1>3, <1>5, OverlayFacts
    <2>2. alias[t].to \in Overlay!Threads /\ ~alias[alias[t].to].active
      BY <2>1, OverlayFacts DEF Overlay!NoAliasChain, Overlay!NoRow
    <2> QED BY <1>3, <1>5, <2>1, <2>2, OverlayFacts
  <1>17. Overlay!SplitThreadOpenWithMembers'
    <2> SUFFICES ASSUME NEW q \in Proposals, prop'[q].st = "reverted", prop'[q].kind = "split"
                 PROVE  (overlayStatus'[q] = "open") = (Overlay!Members(q)' # {})
      BY DEF Overlay!SplitThreadOpenWithMembers
    <2>1. CASE q = p
      BY <1>7, <1>11, <2>1
    <2>2. CASE q # p
      <3>1. prop'[q] = prop[q] /\ overlayStatus'[q] = overlayStatus[q]
        BY <1>2, <1>8, <2>2, OverlayFacts
      <3>2. Overlay!Members(q)' = Overlay!Members(q)
        BY <1>7
      <3> QED BY <3>1, <3>2, OverlayFacts DEF Overlay!SplitThreadOpenWithMembers
    <2> QED BY <2>1, <2>2
  <1> QED BY <1>12, <1>13, <1>14, <1>15, <1>16, <1>17 DEF Overlay!OverlayInv

LEMMA OverlayNext ==
    ASSUME Overlay!OverlayAssumption, Overlay!OverlayInv, [Overlay!Next]_(Overlay!vars)
    PROVE  Overlay!OverlayInv'
  <1>1. UNCHANGED Overlay!overlay => Overlay!OverlayInv'
    BY OverlayFrame
  <1>2. UNCHANGED Overlay!vars => UNCHANGED Overlay!overlay
    BY DEF Overlay!vars
  <1>3. CASE Overlay!Next
    <2>1. CASE \E e \in OverlayEvents : \/ \E t \in Overlay!Threads : Overlay!project(e, t)
                                       \/ Overlay!parent_arrives(e)
      BY <2>1, OverlayProject, OverlayParent
    <2>2. ASSUME NEW p \in Proposals,
                 \/ \E a, b \in Overlay!Threads : Overlay!build_merge(p, a, b)
                 \/ \E t \in Overlay!Threads, S \in SUBSET OverlayEvents : Overlay!build_split(p, t, S)
                 \/ Overlay!persist_proposal(p) \/ Overlay!apply_effect(p)
                 \/ Overlay!revert_applied(p)
                 \/ \E d \in Overlay!Decisions : Overlay!authorize_resume(p, d)
          PROVE  Overlay!OverlayInv'
      <3>1. p \in Overlay!Threads /\ {} \in SUBSET OverlayEvents /\ "approved" \in Overlay!Decisions
        BY OverlayFacts DEF Overlay!Decisions
      <3>2. CASE \E a, b \in Overlay!Threads : Overlay!build_merge(p, a, b)
        BY <3>1, <3>2, OverlayProposal
      <3>3. CASE \E t \in Overlay!Threads, S \in SUBSET OverlayEvents : Overlay!build_split(p, t, S)
        BY <3>1, <3>3, OverlayProposal
      <3>4. CASE Overlay!persist_proposal(p)
        BY <3>1, <3>4, OverlayProposal
      <3>5. CASE \E d \in Overlay!Decisions : Overlay!authorize_resume(p, d)
        BY <3>1, <3>5, OverlayProposal
      <3>6. CASE Overlay!apply_effect(p) \/ Overlay!revert_applied(p)
        BY <3>6, OverlayApply, OverlayRevert
      <3> QED BY <2>2, <3>2, <3>3, <3>4, <3>5, <3>6
    <2>3. CASE \E c \in DOMAIN cand, v \in {"accepted", "rejected"} : Overlay!commit_link_review(c, v)
      BY <1>1, <2>3 DEF Overlay!commit_link_review
    <2>4. CASE \/ Overlay!claim_link_batch \/ Overlay!commit_link_hints
               \/ Overlay!fail_link_batch \/ Overlay!LinkLeaseEnds \/ Overlay!LinkWorkerKilled
      BY <1>1, <2>4 DEF Overlay!claim_link_batch, Overlay!commit_link_hints,
            Overlay!fail_link_batch, Overlay!LinkLeaseEnds, Overlay!LinkWorkerKilled
    <2> QED BY <1>3, <2>1, <2>2, <2>3, <2>4 DEF Overlay!Next
  <1> QED BY <1>1, <1>2, <1>3

LEMMA OverlayLive == ASSUME Overlay!OverlayInv PROVE Overlay!OverlayIsLive
  <1> SUFFICES ASSUME NEW e \in OverlayEvents, Overlay!Effective(e) # projected[e]
               PROVE  \E p \in Proposals : /\ prop[p].st = "applied"
                                           /\ Overlay!Effective(e) \in {p, prop[p].canonical}
    BY DEF Overlay!OverlayIsLive
  <1>1. CASE split[e].active
    <2>1. Overlay!Effective(e) = split[e].to /\ split[e] # Overlay!NoRow
      BY <1>1 DEF Overlay!Effective, Overlay!EffectiveIn, Overlay!NoRow
    <2> QED BY <1>1, <2>1, OverlayFacts DEF Overlay!RowOfProposal
  <1>2. CASE ~split[e].active
    <2>1. /\ projected[e] # None /\ alias[projected[e]].active
          /\ Overlay!Effective(e) = alias[projected[e]].to
      BY <1>2 DEF Overlay!Effective, Overlay!EffectiveIn
    <2>2. projected[e] \in Overlay!Threads /\ alias[projected[e]] # Overlay!NoRow
      BY <2>1, OverlayFacts DEF Overlay!NoRow
    <2> DEFINE row == alias[projected[e]]
    <2>3. /\ Overlay!RowOfProposal(row) /\ row # Overlay!NoRow /\ row.active
          /\ row.to = prop[row.by].canonical
      BY <2>1, <2>2, OverlayFacts
    <2> HIDE DEF row
    <2>4. row.by \in Proposals /\ prop[row.by].st = "applied"
      BY <2>3 DEF Overlay!RowOfProposal
    <2>5. Overlay!Effective(e) = prop[row.by].canonical
      BY <2>1, <2>3 DEF row
    <2> QED BY <2>4, <2>5
  <1> QED BY <1>1, <1>2

(* For any messages, threads and proposals, approved, applied and reverted  *)
(* in any order above a projection that goes on: no alias leads to a merged *)
(* thread, a message is away from its own thread only under a proposal in   *)
(* force, and the thread of a reverted split is open just when it has       *)
(* messages (apply_effect, revert_applied, close_empty_split_thread).       *)
THEOREM OverlayIsConsistent == ConversationsSpec => []OverlayConsistent
  <1> DEFINE Inv4 == part = "overlay" => Overlay!OverlayInv
  <1>1. ConversationsInit => Inv4
    BY OverlayInit, ConversationsAssumption DEF ConversationsInit
  <1>2. Inv4 /\ [ConversationsNext]_conversations => Inv4'
    BY ChosenPart, OverlayNext, ConversationsAssumption
  <1>3. Inv4 => OverlayConsistent
    BY OverlayLive DEF OverlayConsistent, Overlay!OverlayInv
  <1> QED BY <1>1, <1>2, <1>3, PTL DEF ConversationsSpec

-----------------------------------------------------------------------------
(* 5. Replies and the threads they are put into.                            *)

LEMMA ThreadsFacts ==
    ASSUME Threads!ThreadAssumption, Threads!ThreadsInv
    PROVE  /\ ThreadEvents \subseteq Nat \ {0} /\ Parent \in [ThreadEvents -> ThreadEvents \cup {0}]
           /\ threaded \subseteq ThreadEvents
           /\ reply \in [ThreadEvents -> ThreadEvents \cup {0}]
           /\ queue \in [ThreadEvents -> {"none", "free", "leased"}]
           /\ status \in Seq({"open", "closed", "resolved"}) /\ Len(status) \in Nat
           /\ DOMAIN status = 1..Len(status)
           /\ thread \in [ThreadEvents -> 0..Len(status)]
           /\ claim \in [ThreadEvents -> 0..(MaxThreadFaults + 1)]
           /\ rel \subseteq [from : ThreadEvents, to : ThreadEvents, thread : DOMAIN status]
           /\ scan \subseteq DOMAIN status /\ derived \subseteq DOMAIN status
           /\ missed \subseteq DOMAIN status
           /\ threadFaults \in 0..MaxThreadFaults /\ MaxThreadFaults \in Nat
  BY DEF Threads!ThreadAssumption, Threads!ThreadsInv, Threads!TypeOK

LEMMA ThreadsInit == ASSUME Threads!ThreadAssumption, Threads!Init PROVE Threads!ThreadsInv
  <1>1. Threads!TypeOK
    BY DEF Threads!ThreadAssumption, Threads!Init, Threads!TypeOK, Threads!SeenOK
  <1>2. Threads!PlanOK
    BY DEF Threads!Init, Threads!PlanOK, Threads!NoPlan
  <1>3. /\ Threads!ClosedIsEmpty /\ Threads!NothingDerivedFromEmpty
        /\ Threads!RelationsFollowEvents
    BY DEF Threads!Init, Threads!ClosedIsEmpty, Threads!NothingDerivedFromEmpty,
           Threads!RelationsFollowEvents
  <1>4. /\ Threads!QueueIsPending
        /\ \A e \in ThreadEvents : queue[e] # "none" => e \in threaded
        /\ \A e \in ThreadEvents : claim[e] # 0 => thread[e] = 0
    BY DEF Threads!Init, Threads!QueueIsPending
  <1> QED BY <1>1, <1>2, <1>3, <1>4 DEF Threads!ThreadsInv

(* The threads that lose their last message. *)
LEMMA ThreadsEmptied ==
    ASSUME Threads!ThreadAssumption, Threads!ThreadsInv, NEW moved \in SUBSET ThreadEvents,
           NEW t \in DOMAIN status
    PROVE  t \in Threads!Emptied(moved) <=>
             Threads!Members(thread, t) # {} /\ Threads!Members(thread, t) \subseteq moved
  <1>1. t # 0
    BY ThreadsFacts
  <1> QED BY <1>1 DEF Threads!Emptied, Threads!Members

(* A transaction that saw every member of a thread that it takes away, and  *)
(* no other, notices that the thread is empty.                              *)
LEMMA ThreadsNoticed ==
    ASSUME Threads!ThreadAssumption, Threads!ThreadsInv, NEW moved \in SUBSET ThreadEvents,
           NEW seen, NEW t \in DOMAIN status,
           t \in Threads!Emptied(moved), t \notin Threads!Raced(seen)
    PROVE  t \in Threads!Noticed(seen, moved)
  <1>1. t # 0
    BY ThreadsFacts
  <1>2. \A c \in ThreadEvents : seen.thread[c] = t <=> thread[c] = t
    BY DEF Threads!Raced
  <1>3. /\ Threads!Members(thread, t) # {} /\ Threads!Members(thread, t) \subseteq moved
    BY ThreadsEmptied
  <1>4. \E c \in moved : seen.thread[c] = t
    BY <1>2, <1>3 DEF Threads!Members
  <1>5. Threads!Left(seen, moved, t) = {}
    BY <1>1, <1>2, <1>3 DEF Threads!Left, Threads!Members
  <1> QED BY <1>4, <1>5 DEF Threads!Noticed

(* resolve_pending_replies_in_txn when there is something to resolve: the   *)
(* messages in `moved` leave their threads.                                 *)
LEMMA ThreadsMove ==
    ASSUME Threads!ThreadAssumption, Threads!ThreadsInv, NEW moved \in SUBSET ThreadEvents,
           NEW seen,
           thread' = [e \in ThreadEvents |-> IF e \in moved THEN 0 ELSE thread[e]],
           claim' = [e \in ThreadEvents |-> IF e \in moved THEN 0 ELSE claim[e]],
           rel' = Threads!WithoutRelations(moved), Threads!close_empty_thread(seen, moved)
    PROVE  /\ thread' \in [ThreadEvents -> 0..Len(status)] /\ Len(status') = Len(status)
           /\ status' \in Seq({"open", "closed", "resolved"})
           /\ claim' \in [ThreadEvents -> 0..(MaxThreadFaults + 1)]
           /\ rel' \subseteq rel /\ scan' \subseteq scan /\ derived' \subseteq derived
           /\ missed' \subseteq DOMAIN status
           /\ Threads!ClosedIsEmpty' /\ Threads!NothingDerivedFromEmpty'
           /\ Threads!RelationsFollowEvents'
           /\ \A e \in ThreadEvents : claim'[e] # 0 => thread'[e] = 0
  <1> DEFINE noticed == Threads!Noticed(seen, moved)
  <1>1. /\ thread' \in [ThreadEvents -> 0..Len(status)]
        /\ claim' \in [ThreadEvents -> 0..(MaxThreadFaults + 1)]
    BY ThreadsFacts
  <1>2. /\ DOMAIN status' = DOMAIN status
        /\ \A t \in DOMAIN status :
             status'[t] = IF t \in noticed /\ ~Threads!Terminal(t) THEN "closed" ELSE status[t]
        /\ scan' = scan \ noticed /\ derived' = derived \ noticed
        /\ missed' = (missed \cup (Threads!Emptied(moved) \cap Threads!Raced(seen))) \ noticed
    BY DEF Threads!close_empty_thread
  <1>3. status' \in Seq({"open", "closed", "resolved"}) /\ Len(status') = Len(status)
    <2>1. \A t \in DOMAIN status : status'[t] \in {"open", "closed", "resolved"}
      BY <1>2, ThreadsFacts
    <2>2. status' = [t \in 1..Len(status) |-> status'[t]]
      BY ThreadsFacts DEF Threads!close_empty_thread
    <2>3. Len(status) \in Nat /\ DOMAIN status = 1..Len(status)
      BY ThreadsFacts
    <2> QED BY ONLY <2>1, <2>2, <2>3
  <1>4. ASSUME NEW t \in DOMAIN status
        PROVE  Threads!Members(thread, t)' = Threads!Members(thread, t) \ moved
    <2>1. t # 0
      BY ThreadsFacts
    <2> QED BY <2>1 DEF Threads!Members
  <1>e. \A t \in noticed : ~Threads!Terminal(t) => Threads!Members(thread, t) \ moved = {}
    BY DEF Threads!Noticed, Threads!Left
  <1>n. \A t \in DOMAIN status :
           t \in Threads!Emptied(moved) => t \in noticed \/ t \in Threads!Raced(seen)
    BY ThreadsNoticed
  <1> HIDE DEF noticed
  <1>5. Threads!ClosedIsEmpty'
    <2> SUFFICES ASSUME NEW t \in DOMAIN status, status'[t] = "closed"
                 PROVE  Threads!Members(thread, t)' = {}
      BY <1>2 DEF Threads!ClosedIsEmpty
    <2>1. CASE t \in noticed /\ ~Threads!Terminal(t)
      BY <1>4, <1>e, <2>1
    <2>2. CASE ~(t \in noticed /\ ~Threads!Terminal(t))
      <3>1. status[t] = "closed"
        BY <1>2, <2>2
      <3> QED BY <1>4, <3>1 DEF Threads!ThreadsInv, Threads!ClosedIsEmpty
    <2> QED BY <2>1, <2>2
  <1>6. Threads!NothingDerivedFromEmpty'
    <2> SUFFICES ASSUME NEW t \in DOMAIN status, Threads!Members(thread, t)' = {},
                        t \notin missed'
                 PROVE  t \notin scan' \cup derived'
      BY <1>2 DEF Threads!NothingDerivedFromEmpty
    <2>1. CASE t \in noticed
      BY <1>2, <2>1
    <2>2. CASE t \notin noticed /\ Threads!Members(thread, t) = {}
      <3>1. t \notin missed
        BY <1>2, <2>2
      <3> QED BY <1>2, <2>2, <3>1 DEF Threads!ThreadsInv, Threads!NothingDerivedFromEmpty
    <2>3. CASE t \notin noticed /\ Threads!Members(thread, t) # {}
      <3>1. t \in Threads!Emptied(moved)
        BY <1>4, <2>3, ThreadsEmptied
      <3> QED BY <1>2, <1>n, <2>3, <3>1
    <2> QED BY <2>1, <2>2, <2>3
  <1>7. Threads!RelationsFollowEvents'
    <2>1. \A r \in rel' : r \in rel /\ r.from \notin moved
      BY DEF Threads!WithoutRelations
    <2>2. \A r \in rel : r.from \in ThreadEvents /\ thread[r.from] = r.thread
      BY ThreadsFacts DEF Threads!ThreadsInv, Threads!RelationsFollowEvents
    <2> QED BY <2>1, <2>2 DEF Threads!RelationsFollowEvents
  <1>8. \A e \in ThreadEvents : claim'[e] # 0 => thread'[e] = 0
    BY ThreadsFacts DEF Threads!ThreadsInv
  <1>9. rel' \subseteq rel /\ scan' \subseteq scan /\ derived' \subseteq derived
    BY <1>2 DEF Threads!WithoutRelations
  <1>10. missed' \subseteq DOMAIN status
    BY <1>2, ThreadsFacts DEF Threads!Raced
  <1> QED BY <1>1, <1>3, <1>5, <1>6, <1>7, <1>8, <1>9, <1>10

LEMMA ThreadsResolve ==
    ASSUME Threads!ThreadAssumption, Threads!ThreadsInv,
           threaded \subseteq threaded', threaded' \subseteq ThreadEvents,
           rec' \subseteq ThreadEvents, heal' \subseteq ThreadEvents,
           plan' = plan, threadFaults' = threadFaults, Threads!SeenOK', NEW seen,
           NEW replyTo \in [ThreadEvents -> ThreadEvents \cup {0}], NEW p \in ThreadEvents,
           NEW more \in SUBSET ThreadEvents,
           more \subseteq threaded',
           \A e \in ThreadEvents : queue[e] = "leased" => replyTo[e] = 0,
           Threads!resolve_pending_replies(seen, replyTo, p, more)
    PROVE  Threads!ThreadsInv'
  <1>1. CASE Threads!Pending(replyTo, p) = {}
    <2>1. /\ reply' = replyTo /\ queue' = Threads!QueueAfter({}, more)
          /\ UNCHANGED <<thread, status, rel, scan, derived, missed, claim>>
      BY <1>1 DEF Threads!resolve_pending_replies, Threads!threads
    <2>2. \A e \in ThreadEvents : /\ queue'[e] # "none" => e \in threaded'
                                  /\ queue'[e] = "leased" => reply'[e] = 0
      BY <2>1, ThreadsFacts DEF Threads!QueueAfter, Threads!ThreadsInv
    <2>3. queue' \in [ThreadEvents -> {"none", "free", "leased"}]
      BY <2>1, ThreadsFacts DEF Threads!QueueAfter
    <2>4. Threads!TypeOK'
      BY <2>1, <2>3 DEF Threads!ThreadsInv, Threads!TypeOK
    <2>5. /\ Threads!ClosedIsEmpty' /\ Threads!NothingDerivedFromEmpty'
          /\ Threads!RelationsFollowEvents' /\ Threads!PlanOK'
      BY <2>1 DEF Threads!ThreadsInv, Threads!ClosedIsEmpty, Threads!NothingDerivedFromEmpty,
                  Threads!RelationsFollowEvents, Threads!PlanOK, Threads!Members
    <2> QED BY <2>1, <2>2, <2>4, <2>5 DEF Threads!ThreadsInv, Threads!QueueIsPending
  <1>2. CASE Threads!Pending(replyTo, p) # {}
    <2> DEFINE moved == Threads!Affected(replyTo, p)
    <2>1. /\ reply' = [e \in ThreadEvents |-> IF e \in Threads!Pending(replyTo, p) THEN p ELSE replyTo[e]]
          /\ queue' = Threads!QueueAfter(moved, more)
          /\ thread' = [e \in ThreadEvents |-> IF e \in moved THEN 0 ELSE thread[e]]
          /\ claim' = [e \in ThreadEvents |-> IF e \in moved THEN 0 ELSE claim[e]]
          /\ rel' = Threads!WithoutRelations(moved)
          /\ Threads!close_empty_thread(seen, moved)
      BY <1>2 DEF Threads!resolve_pending_replies
    <2>2. moved \in SUBSET ThreadEvents /\ Threads!Pending(replyTo, p) \subseteq moved
      BY DEF Threads!Affected, Threads!Pending
    <2> HIDE DEF moved
    <2>3. \A e \in ThreadEvents : /\ queue'[e] # "none" => e \in threaded'
                                  /\ queue'[e] = "leased" => reply'[e] = 0
      BY <2>1, <2>2, ThreadsFacts DEF Threads!QueueAfter, Threads!ThreadsInv
    <2>4. queue' \in [ThreadEvents -> {"none", "free", "leased"}]
      BY <2>1, ThreadsFacts DEF Threads!QueueAfter
    <2>5. reply' \in [ThreadEvents -> ThreadEvents \cup {0}]
      BY <2>1
    <2>6. /\ thread' \in [ThreadEvents -> 0..Len(status)] /\ Len(status') = Len(status)
          /\ status' \in Seq({"open", "closed", "resolved"})
          /\ claim' \in [ThreadEvents -> 0..(MaxThreadFaults + 1)]
          /\ rel' \subseteq rel /\ scan' \subseteq scan /\ derived' \subseteq derived
          /\ missed' \subseteq DOMAIN status
          /\ Threads!ClosedIsEmpty' /\ Threads!NothingDerivedFromEmpty'
          /\ Threads!RelationsFollowEvents'
          /\ \A e \in ThreadEvents : claim'[e] # 0 => thread'[e] = 0
      BY <2>1, <2>2, ThreadsMove
    <2>7. DOMAIN status' = DOMAIN status
      BY <2>6, ThreadsFacts
    <2>8. Threads!TypeOK'
      BY <2>4, <2>5, <2>6, <2>7, ThreadsFacts DEF Threads!TypeOK
    <2>9. Threads!PlanOK'
      BY DEF Threads!ThreadsInv, Threads!PlanOK
    <2> QED BY <2>3, <2>6, <2>8, <2>9 DEF Threads!ThreadsInv, Threads!QueueIsPending
  <1> QED BY <1>1, <1>2

(* Nothing moves: the messages, the queue, the memory of the workers. *)
LEMMA ThreadsFrame ==
    ASSUME Threads!ThreadAssumption, Threads!ThreadsInv,
           UNCHANGED <<thread, status, rel, missed>>, Threads!SeenOK',
           threaded \subseteq threaded', threaded' \subseteq ThreadEvents,
           rec' \subseteq ThreadEvents, heal' \subseteq ThreadEvents, reply' = reply,
           queue' \in [ThreadEvents -> {"none", "free", "leased"}],
           \A e \in ThreadEvents :
              /\ queue'[e] # "none" => queue[e] # "none"
              /\ queue'[e] = "leased" => reply[e] = 0,
           claim' \in [ThreadEvents -> 0..(MaxThreadFaults + 1)],
           \A e \in ThreadEvents : claim'[e] # 0 => thread[e] = 0,
           scan' \subseteq DOMAIN status, derived' \subseteq DOMAIN status,
           \A t \in DOMAIN status :
              Threads!Members(thread, t) = {} /\ t \notin missed => t \notin scan' \cup derived',
           threadFaults' \in 0..MaxThreadFaults, Threads!PlanOK'
    PROVE  Threads!ThreadsInv'
  <1>1. Threads!TypeOK'
    BY ThreadsFacts DEF Threads!TypeOK
  <1>2. Threads!ClosedIsEmpty' /\ Threads!RelationsFollowEvents'
    BY DEF Threads!ThreadsInv, Threads!ClosedIsEmpty, Threads!RelationsFollowEvents,
           Threads!Members
  <1>3. Threads!NothingDerivedFromEmpty'
    BY DEF Threads!NothingDerivedFromEmpty, Threads!Members
  <1>4. Threads!QueueIsPending' /\ \A e \in ThreadEvents : queue'[e] # "none" => e \in threaded'
    BY DEF Threads!ThreadsInv, Threads!QueueIsPending
  <1> QED BY <1>1, <1>2, <1>3, <1>4 DEF Threads!ThreadsInv

(* What a transaction sees are the rows of when it began. *)
LEMMA ThreadsSeen ==
    ASSUME Threads!ThreadAssumption, Threads!ThreadsInv,
           snapshot' \in {snapshot, {}, {Threads!View}},
           \/ fence' \in {fence, {}}
           \/ \E e \in ThreadEvents : fence' = {[row |-> e, seen |-> Threads!View]}
    PROVE  Threads!SeenOK'
  <1>1. {thread, reply} \subseteq [ThreadEvents -> Nat]
    BY ThreadsFacts
  <1>2. Threads!View.thread = thread /\ Threads!View.reply = reply
    BY DEF Threads!View
  <1>3. Threads!SeenOK
    BY DEF Threads!ThreadsInv, Threads!TypeOK
  <1>4. \A s \in snapshot' : {s.thread, s.reply} \subseteq [ThreadEvents -> Nat]
    BY <1>1, <1>2, <1>3 DEF Threads!SeenOK
  <1>5. \A f \in fence' : {f.seen.thread, f.seen.reply} \subseteq [ThreadEvents -> Nat]
    <2>1. CASE fence' \in {fence, {}}
      BY <1>3, <2>1 DEF Threads!SeenOK
    <2>2. CASE \E e \in ThreadEvents : fence' = {[row |-> e, seen |-> Threads!View]}
      BY <1>1, <1>2, <2>2
    <2> QED BY <2>1, <2>2
  <1> QED BY <1>4, <1>5 DEF Threads!SeenOK

LEMMA ThreadsPlanKept ==
    ASSUME Threads!ThreadsInv, plan' = plan \/ plan' = Threads!NoPlan
    PROVE  Threads!PlanOK'
  <1>1. CASE plan' = plan
    BY <1>1 DEF Threads!ThreadsInv, Threads!PlanOK
  <1>2. CASE plan' = Threads!NoPlan
    BY <1>2 DEF Threads!PlanOK, Threads!NoPlan
  <1> QED BY <1>1, <1>2

LEMMA ThreadsFault ==
    ASSUME Threads!ThreadAssumption, Threads!ThreadsInv, Threads!Fault
    PROVE  threadFaults' \in 0..MaxThreadFaults
  BY ThreadsFacts DEF Threads!Fault, Threads!ThreadAssumption

(* What the invariant says of the queue, the claims and what is derived. *)
LEMMA ThreadsRows ==
    ASSUME Threads!ThreadAssumption, Threads!ThreadsInv
    PROVE  /\ rec \subseteq ThreadEvents /\ heal \subseteq ThreadEvents
           /\ \A x \in ThreadEvents : queue[x] # "none" => x \in threaded
           /\ \A x \in ThreadEvents : queue[x] = "leased" => reply[x] = 0
           /\ \A x \in ThreadEvents : claim[x] # 0 => thread[x] = 0
           /\ \A t \in DOMAIN status :
                Threads!Members(thread, t) = {} /\ t \notin missed => t \notin scan \cup derived
  BY DEF Threads!ThreadsInv, Threads!TypeOK, Threads!QueueIsPending,
         Threads!NothingDerivedFromEmpty

LEMMA ThreadsMessages ==
    ASSUME Threads!ThreadAssumption, Threads!ThreadsInv, NEW e \in ThreadEvents,
           \/ \E seen \in snapshot : \/ Threads!insert(e, seen) \/ Threads!Duplicate(e, seen)
                                     \/ Threads!resolve_after_commit(e, seen)
           \/ Threads!record_recall(e) \/ Threads!HealFails(e)
    PROVE  Threads!ThreadsInv'
  <1>1. ASSUME NEW seen \in snapshot, Threads!insert(e, seen)
        PROVE  Threads!ThreadsInv'
    <2> DEFINE found == IF Parent[e] \in threaded THEN Parent[e] ELSE 0
               replyTo == [reply EXCEPT ![e] = found]
               more == IF Parent[e] # 0 /\ found = 0 THEN {e} ELSE {}
    <2>1. /\ threaded' = threaded \cup {e} /\ e \notin threaded
          /\ Threads!resolve_pending_replies(seen, replyTo, e, more)
          /\ heal' \subseteq heal \cup {e} /\ snapshot' = {} /\ fence' = fence
          /\ rec' = rec /\ plan' = plan /\ threadFaults' = threadFaults
      BY <1>1 DEF Threads!insert, Threads!Ends
    <2>2. /\ replyTo \in [ThreadEvents -> ThreadEvents \cup {0}] /\ more \in SUBSET ThreadEvents
          /\ more \subseteq threaded'
          /\ \A x \in ThreadEvents : queue[x] = "leased" => replyTo[x] = 0
      BY <2>1, ThreadsFacts, ThreadsRows
    <2> HIDE DEF replyTo, more
    <2>3. Threads!SeenOK'
      BY <2>1, ThreadsSeen
    <2>4. /\ threaded \subseteq threaded' /\ threaded' \subseteq ThreadEvents
          /\ rec' \subseteq ThreadEvents /\ heal' \subseteq ThreadEvents
      BY <2>1, ThreadsFacts, ThreadsRows
    <2> QED BY <2>1, <2>2, <2>3, <2>4, ThreadsResolve
  <1>2. ASSUME NEW seen \in snapshot, Threads!Duplicate(e, seen)
        PROVE  Threads!ThreadsInv'
    <2> DEFINE more == IF Parent[e] # 0 /\ seen.reply[e] = 0 THEN {e} ELSE {}
    <2>1. /\ threaded' = threaded /\ e \in threaded
          /\ Threads!resolve_pending_replies(seen, reply, e, more)
          /\ heal' \subseteq heal \cup {e} /\ snapshot' = {} /\ fence' = fence
          /\ rec' = rec /\ plan' = plan /\ threadFaults' = threadFaults
      BY <1>2 DEF Threads!Duplicate, Threads!Ends
    <2>2. more \in SUBSET ThreadEvents /\ more \subseteq threaded'
      BY <2>1
    <2> HIDE DEF more
    <2>3. Threads!SeenOK'
      BY <2>1, ThreadsSeen
    <2>4. /\ threaded \subseteq threaded' /\ threaded' \subseteq ThreadEvents
          /\ rec' \subseteq ThreadEvents /\ heal' \subseteq ThreadEvents
      BY <2>1, ThreadsFacts, ThreadsRows
    <2>5. reply \in [ThreadEvents -> ThreadEvents \cup {0}]
      BY ThreadsFacts
    <2> QED BY <2>1, <2>2, <2>3, <2>4, <2>5, ThreadsRows, ThreadsResolve
  <1>3. CASE Threads!record_recall(e)
    <2>1. /\ threaded' = threaded \cup {e}
          /\ UNCHANGED <<reply, queue, rec, heal, thread, status, rel, scan, derived, missed,
                         claim, plan, snapshot, fence, threadFaults>>
      BY <1>3 DEF Threads!record_recall, Threads!threads, Threads!transactions
    <2>2. Threads!SeenOK'
      BY <2>1, ThreadsSeen
    <2> QED BY <2>1, <2>2, ThreadsRows, ThreadsFacts, ThreadsPlanKept, ThreadsFrame
  <1>4. ASSUME NEW seen \in snapshot, Threads!resolve_after_commit(e, seen)
        PROVE  Threads!ThreadsInv'
    <2>1. /\ threaded' = threaded /\ heal' \subseteq heal /\ snapshot' = {} /\ fence' = fence
          /\ rec' = rec /\ plan' = plan /\ threadFaults' = threadFaults
      BY <1>4 DEF Threads!resolve_after_commit, Threads!Ends
    <2>2. Threads!SeenOK'
      BY <2>1, ThreadsSeen
    <2>3. CASE Parent[e] \in threaded
      <3>1. Threads!resolve_pending_replies(seen, reply, Parent[e], {}) /\ Parent[e] \in ThreadEvents
        BY <1>4, <2>3, ThreadsFacts DEF Threads!resolve_after_commit, Threads!Ends
      <3>2. /\ threaded \subseteq threaded' /\ threaded' \subseteq ThreadEvents
            /\ rec' \subseteq ThreadEvents /\ heal' \subseteq ThreadEvents
            /\ reply \in [ThreadEvents -> ThreadEvents \cup {0}]
        BY <2>1, ThreadsFacts, ThreadsRows
      <3>3. /\ {} \in SUBSET ThreadEvents /\ {} \subseteq threaded'
            /\ \A x \in ThreadEvents : queue[x] = "leased" => reply[x] = 0
        BY ThreadsRows
      <3> QED BY <2>1, <2>2, <3>1, <3>2, <3>3, ThreadsResolve
    <2>4. CASE Parent[e] \notin threaded
      <3>1. UNCHANGED <<reply, queue, thread, status, rel, scan, derived, missed, claim>>
        BY <1>4, <2>4 DEF Threads!resolve_after_commit, Threads!threads
      <3> QED BY <2>1, <2>2, <3>1, ThreadsRows, ThreadsFacts, ThreadsPlanKept, ThreadsFrame
    <2> QED BY <2>3, <2>4
  <1>5. CASE Threads!HealFails(e)
    <2>1. /\ UNCHANGED <<threaded, reply, queue, rec, thread, status, rel, scan, derived, missed,
                         claim, plan, snapshot, fence>>
          /\ heal' \subseteq heal /\ Threads!Fault
      BY <1>5 DEF Threads!HealFails, Threads!threads, Threads!transactions
    <2>2. Threads!SeenOK'
      BY <2>1, ThreadsSeen
    <2> QED BY <2>1, <2>2, ThreadsRows, ThreadsFacts, ThreadsFault, ThreadsPlanKept, ThreadsFrame
  <1> QED BY <1>1, <1>2, <1>3, <1>4, <1>5

(* The reconcile worker, and what ends without having written. *)
LEMMA ThreadsReconcile ==
    ASSUME Threads!ThreadAssumption, Threads!ThreadsInv,
           \/ \E sel \in SUBSET ThreadEvents : Threads!claim_reconcile_batch(sel)
           \/ \E e \in ThreadEvents : \/ Threads!lock_claim(e)
                                     \/ Threads!resolve_claimed_pending_reply(e)
                                     \/ Threads!QueueLeaseEnds(e)
           \/ \E lease \in 1..(MaxThreadFaults + 1) : Threads!ProjectionLeaseEnds(lease)
           \/ Threads!ensure_account_ref
           \/ Threads!ReconcileFails \/ Threads!Kill \/ Threads!release_projection_claims
    PROVE  Threads!ThreadsInv'
  <1>1. CASE \/ \E sel \in SUBSET ThreadEvents : Threads!claim_reconcile_batch(sel)
             \/ Threads!ReconcileFails
             \/ \E e \in ThreadEvents : Threads!QueueLeaseEnds(e)
    <2>1. /\ UNCHANGED <<threaded, reply, heal, thread, status, rel, scan, derived, missed, claim,
                         plan, snapshot>>
          /\ rec' \subseteq ThreadEvents /\ fence' \in {fence, {}}
          /\ threadFaults' = threadFaults \/ Threads!Fault
      BY <1>1, ThreadsRows DEF Threads!claim_reconcile_batch, Threads!ReconcileFails,
                        Threads!QueueLeaseEnds, Threads!threads, Threads!transactions
    <2>2. queue' \in [ThreadEvents -> {"none", "free", "leased"}]
      BY <1>1, ThreadsFacts DEF Threads!claim_reconcile_batch, Threads!ReconcileFails,
                                Threads!QueueLeaseEnds
    <2>3. \A x \in ThreadEvents : /\ queue'[x] # "none" => queue[x] # "none"
                                  /\ queue'[x] = "leased" => reply[x] = 0
      BY <1>1, ThreadsFacts, ThreadsRows
         DEF Threads!claim_reconcile_batch, Threads!ReconcileFails, Threads!QueueLeaseEnds,
             Threads!Eligible
    <2>4. Threads!SeenOK'
      BY <2>1, ThreadsSeen
    <2> QED BY <2>1, <2>2, <2>3, <2>4, ThreadsRows, ThreadsFacts, ThreadsFault, ThreadsPlanKept,
               ThreadsFrame
  <1>2. ASSUME NEW e \in ThreadEvents, Threads!resolve_claimed_pending_reply(e)
        PROVE  Threads!ThreadsInv'
    <2>1. /\ threaded' = threaded /\ rec' \subseteq rec /\ snapshot' = snapshot /\ fence' = {}
          /\ heal' = heal /\ plan' = plan /\ threadFaults' = threadFaults
      BY <1>2 DEF Threads!resolve_claimed_pending_reply
    <2>2. Threads!SeenOK'
      BY <2>1, ThreadsSeen
    <2>3. CASE Parent[e] \in threaded
      <3>1. PICK f \in fence : Threads!resolve_pending_replies(f.seen, reply, Parent[e], {})
        BY <1>2, <2>3 DEF Threads!resolve_claimed_pending_reply
      <3>2. /\ threaded \subseteq threaded' /\ threaded' \subseteq ThreadEvents
            /\ rec' \subseteq ThreadEvents /\ heal' \subseteq ThreadEvents
            /\ reply \in [ThreadEvents -> ThreadEvents \cup {0}] /\ Parent[e] \in ThreadEvents
        BY <2>1, <2>3, ThreadsFacts, ThreadsRows
      <3>3. /\ {} \in SUBSET ThreadEvents /\ {} \subseteq threaded'
            /\ \A x \in ThreadEvents : queue[x] = "leased" => reply[x] = 0
        BY ThreadsRows
      <3> QED BY <2>1, <2>2, <3>1, <3>2, <3>3, ThreadsResolve
    <2>4. CASE Parent[e] \notin threaded
      <3>1. /\ UNCHANGED <<reply, thread, status, rel, scan, derived, missed, claim>>
            /\ queue' = [queue EXCEPT ![e] = IF @ = "none" THEN @ ELSE "free"]
        BY <1>2, <2>4 DEF Threads!resolve_claimed_pending_reply, Threads!threads
      <3>2. /\ queue' \in [ThreadEvents -> {"none", "free", "leased"}]
            /\ \A x \in ThreadEvents : /\ queue'[x] # "none" => queue[x] # "none"
                                       /\ queue'[x] = "leased" => reply[x] = 0
        BY <3>1, ThreadsFacts, ThreadsRows
      <3> QED BY <2>1, <2>2, <3>1, <3>2, ThreadsRows, ThreadsFacts, ThreadsPlanKept, ThreadsFrame
    <2> QED BY <2>3, <2>4
  <1>3. CASE \/ \E lease \in 1..(MaxThreadFaults + 1) : Threads!ProjectionLeaseEnds(lease)
             \/ Threads!Kill \/ Threads!release_projection_claims
    <2>1. /\ UNCHANGED <<threaded, reply, queue, thread, status, rel, scan, derived, missed>>
          /\ rec' \subseteq ThreadEvents /\ heal' \subseteq ThreadEvents
          /\ threadFaults' = threadFaults \/ Threads!Fault
          /\ plan' = plan \/ plan' = Threads!NoPlan
          /\ snapshot' \in {snapshot, {}} /\ fence' \in {fence, {}}
      <3>1. CASE \E lease \in 1..(MaxThreadFaults + 1) : Threads!ProjectionLeaseEnds(lease)
        BY <3>1, ThreadsRows DEF Threads!ProjectionLeaseEnds, Threads!threads, Threads!replies,
                                 Threads!transactions
      <3>2. CASE Threads!Kill
        BY <3>2 DEF Threads!Kill, Threads!threads
      <3>3. CASE Threads!release_projection_claims
        BY <3>3, ThreadsRows DEF Threads!release_projection_claims, Threads!threads,
                                 Threads!replies, Threads!transactions
      <3> QED BY <1>3, <3>1, <3>2, <3>3
    <2>2. /\ claim' \in [ThreadEvents -> 0..(MaxThreadFaults + 1)]
          /\ \A x \in ThreadEvents : claim'[x] # 0 => claim[x] # 0
      <3> DEFINE gone(S) == [x \in ThreadEvents |-> IF x \in S THEN 0 ELSE claim[x]]
      <3>1. ASSUME NEW S, claim' = gone(S)
            PROVE  /\ claim' \in [ThreadEvents -> 0..(MaxThreadFaults + 1)]
                   /\ \A x \in ThreadEvents : claim'[x] # 0 => claim[x] # 0
        BY <3>1, ThreadsFacts
      <3>2. ASSUME NEW lease \in 1..(MaxThreadFaults + 1), Threads!ProjectionLeaseEnds(lease)
            PROVE  claim' = gone({x \in ThreadEvents : claim[x] = lease})
        BY <3>2 DEF Threads!ProjectionLeaseEnds
      <3>3. Threads!release_projection_claims =>
              claim' = gone({x \in ThreadEvents :
                               \E i \in DOMAIN plan.batch : plan.batch[i] = x})
        BY DEF Threads!release_projection_claims
      <3> HIDE DEF gone
      <3>4. CASE Threads!Kill
        BY <3>4, ThreadsFacts DEF Threads!Kill
      <3>5. CASE Threads!release_projection_claims
        BY <3>1, <3>3, <3>5
      <3>6. CASE \E lease \in 1..(MaxThreadFaults + 1) : Threads!ProjectionLeaseEnds(lease)
        BY <3>1, <3>2, <3>6
      <3> QED BY <1>3, <3>4, <3>5, <3>6
    <2>3. Threads!SeenOK'
      BY <2>1, ThreadsSeen
    <2> QED BY <2>1, <2>2, <2>3, ThreadsRows, ThreadsFacts, ThreadsFault, ThreadsPlanKept,
               ThreadsFrame
  <1>4. CASE Threads!ensure_account_ref \/ \E e \in ThreadEvents : Threads!lock_claim(e)
    <2>1. /\ UNCHANGED <<threaded, reply, queue, heal, thread, status, rel, scan, derived, missed,
                         claim, plan, threadFaults>>
          /\ rec' \subseteq rec
          /\ snapshot' \in {snapshot, {Threads!View}}
          /\ \/ fence' = fence
             \/ \E e \in ThreadEvents : fence' = {[row |-> e, seen |-> Threads!View]}
      BY <1>4 DEF Threads!ensure_account_ref, Threads!lock_claim, Threads!threads, Threads!replies
    <2>2. Threads!SeenOK'
      BY <2>1, ThreadsSeen
    <2> QED BY <2>1, <2>2, ThreadsRows, ThreadsFacts, ThreadsPlanKept, ThreadsFrame
  <1> QED BY <1>1, <1>2, <1>3, <1>4

LEMMA ThreadsSemantic ==
    ASSUME Threads!ThreadAssumption, Threads!ThreadsInv, NEW t \in DOMAIN status,
           NEW to \in {"open", "resolved", "closed"},
           \/ Threads!claim_semantic_batch(t) \/ Threads!release_semantic_claim(t)
           \/ Threads!commit_semantic_patch(t, to)
    PROVE  Threads!ThreadsInv'
  <1>1. CASE Threads!claim_semantic_batch(t) \/ Threads!release_semantic_claim(t)
    <2>1. /\ UNCHANGED <<threaded, reply, queue, rec, heal, thread, status, rel, derived, missed,
                         claim, plan, snapshot, fence>>
          /\ threadFaults' = threadFaults \/ Threads!Fault
      BY <1>1 DEF Threads!claim_semantic_batch, Threads!release_semantic_claim, Threads!replies,
                  Threads!transactions
    <2>2. \/ scan' = scan \ {t}
          \/ scan' = scan \cup {t} /\ Threads!Members(thread, t) # {}
      BY <1>1 DEF Threads!claim_semantic_batch, Threads!release_semantic_claim
    <2>3. /\ scan' \subseteq DOMAIN status
          /\ \A u \in DOMAIN status :
               Threads!Members(thread, u) = {} /\ u \notin missed => u \notin scan' \cup derived
      BY <2>2, ThreadsRows, ThreadsFacts
    <2>4. Threads!SeenOK'
      BY <2>1, ThreadsSeen
    <2> QED BY <2>1, <2>3, <2>4, ThreadsRows, ThreadsFacts, ThreadsFault, ThreadsPlanKept,
               ThreadsFrame
  <1>2. CASE Threads!commit_semantic_patch(t, to)
    <2>1. /\ UNCHANGED <<threaded, reply, queue, rec, heal, thread, rel, missed, claim, plan,
                         snapshot, fence, threadFaults>>
          /\ t \in scan /\ scan' = scan \ {t} /\ derived' = derived \cup {t}
          /\ status' = [status EXCEPT ![t] = to]
          /\ to = status[t] \/ to # "closed"
      BY <1>2 DEF Threads!commit_semantic_patch, Threads!replies, Threads!transactions
    <2>2. /\ DOMAIN status' = DOMAIN status /\ status'[t] = to
          /\ \A u \in DOMAIN status : u # t => status'[u] = status[u]
          /\ status' \in Seq({"open", "closed", "resolved"}) /\ Len(status') = Len(status)
      BY <2>1, ThreadsFacts
    <2>3. Threads!TypeOK'
      <3>1. Threads!SeenOK'
        BY <2>1, ThreadsSeen
      <3> QED BY <2>1, <2>2, <3>1, ThreadsRows, ThreadsFacts DEF Threads!TypeOK
    <2>4. Threads!ClosedIsEmpty'
      <3>1. \A u \in DOMAIN status : status'[u] = "closed" => status[u] = "closed"
        BY <2>1, <2>2
      <3> QED BY <2>1, <2>2, <3>1
          DEF Threads!ThreadsInv, Threads!ClosedIsEmpty, Threads!Members
    <2>5. Threads!NothingDerivedFromEmpty'
      BY <2>1, <2>2, ThreadsRows DEF Threads!NothingDerivedFromEmpty, Threads!Members
    <2>6. Threads!RelationsFollowEvents' /\ Threads!QueueIsPending'
      BY <2>1 DEF Threads!ThreadsInv, Threads!RelationsFollowEvents, Threads!QueueIsPending
    <2>7. Threads!PlanOK'
      BY <2>1, ThreadsPlanKept
    <2> QED BY <2>1, <2>3, <2>4, <2>5, <2>6, <2>7, ThreadsRows DEF Threads!ThreadsInv
  <1> QED BY <1>1, <1>2

(* The events before an event that has a thread: one of them is the last. *)
LEMMA ThreadsPrevious ==
    ASSUME Threads!ThreadAssumption, Threads!ThreadsInv, NEW e \in ThreadEvents,
           Threads!PreviousEvent(e) # 0
    PROVE  Threads!PreviousEvent(e) \in ThreadEvents
  <1> DEFINE earlier == {p \in threaded : p < e /\ thread[p] # 0 /\ e - p <= Window}
  <1>1. Threads!PreviousEvent(e) = IF earlier = {} THEN 0 ELSE Threads!Max(earlier)
    BY DEF Threads!PreviousEvent
  <1>2. e \in Nat /\ earlier \in SUBSET (0..e) /\ earlier \subseteq ThreadEvents
    BY ThreadsFacts
  <1> HIDE DEF earlier
  <1>3. earlier # {} => \E x \in earlier : \A y \in earlier : x >= y
    BY <1>2, Largest
  <1>4. earlier # {} => Threads!Max(earlier) \in earlier
    BY <1>3 DEF Threads!Max
  <1> QED BY <1>1, <1>2, <1>4

LEMMA ThreadsClaim ==
    ASSUME Threads!ThreadAssumption, Threads!ThreadsInv, Threads!claim_projection_batch
    PROVE  Threads!ThreadsInv'
  <1>1. /\ UNCHANGED <<threaded, reply, queue, rec, heal, thread, status, rel, scan, derived,
                       missed, snapshot, fence, threadFaults>>
        /\ claim' = [e \in ThreadEvents |-> IF e \in Threads!Oldest THEN threadFaults + 1
                                            ELSE claim[e]]
    BY DEF Threads!claim_projection_batch, Threads!threads, Threads!replies, Threads!transactions
  <1>b. PICK sel \in Threads!SetToSeqs(Threads!Oldest) :
          \E to \in [DOMAIN sel -> 1..(Len(status) + Len(sel))] :
             plan' = [batch |-> sel, to |-> to, rels |-> Threads!Relations(sel, to)]
    BY DEF Threads!claim_projection_batch
  <1>2. PICK to \in [DOMAIN sel -> 1..(Len(status) + Len(sel))] :
          plan' = [batch |-> sel, to |-> to, rels |-> Threads!Relations(sel, to)]
    BY <1>b
  <1>3. Threads!Oldest \subseteq ThreadEvents /\ \A e \in Threads!Oldest : thread[e] = 0
    BY ThreadsFacts DEF Threads!Oldest, Threads!Unprojected
  <1>4. /\ claim' \in [ThreadEvents -> 0..(MaxThreadFaults + 1)]
        /\ \A e \in ThreadEvents : claim'[e] # 0 => thread[e] = 0
    BY <1>1, <1>3, ThreadsFacts DEF Threads!ThreadsInv
  <1> DEFINE n == Cardinality(Threads!Oldest)
  <1>5. n \in Nat
    <2>1. IsFiniteSet(Threads!Oldest)
      <3>1. IsFiniteSet(ThreadEvents)
        BY Zenon DEF Threads!ThreadAssumption, Threads!IsFiniteSet, IsFiniteSet
      <3> QED BY <1>3, <3>1, FS_Subset
    <2> QED BY <2>1, FS_CardinalityType
  <1>6. Threads!Cardinality(Threads!Oldest) = n
    BY Zenon DEF Threads!Cardinality, Cardinality
  <1> HIDE DEF n
  <1>7. sel \in [1..n -> Threads!Oldest] /\ \A i, j \in 1..n : i # j => sel[i] # sel[j]
    BY <1>6 DEF Threads!SetToSeqs
  <1>8. /\ sel \in Seq(ThreadEvents) /\ DOMAIN sel = 1..n /\ Len(sel) = n
    <2>1. sel \in [1..n -> ThreadEvents]
      BY <1>3, <1>7
    <2> QED BY <1>5, <2>1
  <1>9. to \in [DOMAIN sel -> Nat \ {0}]
    BY <1>5, <1>8, ThreadsFacts
  <1>10. ASSUME NEW r \in Threads!Relations(sel, to)
         PROVE  /\ r = [from |-> r.from, to |-> r.to, thread |-> r.thread] /\ r.to \in ThreadEvents
                /\ \E i \in DOMAIN sel : r.from = sel[i] /\ r.thread = to[i]
    <2>1. PICK i \in DOMAIN sel :
            LET e == sel[i]
                target == IF reply[e] = 0 THEN Threads!Previous(sel, i)
                          ELSE IF Threads!ParentTerminal(e) THEN 0 ELSE reply[e]
            IN target # 0 /\ r = [from |-> e, to |-> target, thread |-> to[i]]
      BY DEF Threads!Relations
    <2> DEFINE target == IF reply[sel[i]] = 0 THEN Threads!Previous(sel, i)
                         ELSE IF Threads!ParentTerminal(sel[i]) THEN 0 ELSE reply[sel[i]]
    <2>2. target # 0 /\ r = [from |-> sel[i], to |-> target, thread |-> to[i]]
      BY <2>1
    <2>3. sel[i] \in ThreadEvents /\ i \in 1..n /\ (i > 1 => i - 1 \in 1..n)
      BY <1>3, <1>5, <1>7, <1>8
    <2>4. Threads!Previous(sel, i) # 0 => Threads!Previous(sel, i) \in ThreadEvents
      <3>1. i > 1 => sel[i - 1] \in ThreadEvents
        BY <1>3, <1>7, <2>3
      <3>2. Threads!PreviousEvent(sel[i]) # 0 => Threads!PreviousEvent(sel[i]) \in ThreadEvents
        BY <2>3, ThreadsPrevious
      <3> QED BY <3>1, <3>2 DEF Threads!Previous
    <2>5. target \in ThreadEvents
      BY <2>2, <2>3, <2>4, ThreadsFacts
    <2> HIDE DEF target
    <2> QED BY <2>2, <2>5
  <1>11. Threads!PlanOK'
    <2>1. /\ plan'.batch = sel /\ plan'.to = to /\ plan'.rels = Threads!Relations(sel, to)
      BY <1>2
    <2> QED BY <1>7, <1>8, <1>9, <1>10, <2>1 DEF Threads!PlanOK
  <1>12. Threads!SeenOK'
    BY <1>1, ThreadsSeen
  <1> QED BY <1>1, <1>4, <1>11, <1>12, ThreadsRows, ThreadsFacts, ThreadsFrame

(* commit_projection: what a plan names is a thread that is open, or one of *)
(* those it creates.                                                        *)
LEMMA ThreadsCommit ==
    ASSUME Threads!ThreadAssumption, Threads!ThreadsInv, Threads!commit_projection
    PROVE  Threads!ThreadsInv'
  <1> DEFINE created == Threads!Created(plan)
             size == Cardinality(created)
             rank(t) == Cardinality({x \in created : x <= t})
             id(t) == IF t \in DOMAIN status THEN t ELSE Len(status) + rank(t)
             at(e) == CHOOSE i \in DOMAIN plan.batch : plan.batch[i] = e
             inBatch(e) == \E i \in DOMAIN plan.batch : plan.batch[i] = e
  <1>p. /\ plan.batch \in Seq(ThreadEvents) /\ plan.to \in [DOMAIN plan.batch -> Nat \ {0}]
        /\ \A i, j \in DOMAIN plan.batch : plan.batch[i] = plan.batch[j] => i = j
        /\ \A r \in plan.rels :
             /\ r = [from |-> r.from, to |-> r.to, thread |-> r.thread] /\ r.to \in ThreadEvents
             /\ \E i \in DOMAIN plan.batch : r.from = plan.batch[i] /\ r.thread = plan.to[i]
    BY DEF Threads!ThreadsInv, Threads!PlanOK
  <1>c. /\ \A T : Threads!Cardinality(T) = Cardinality(T)
    BY Zenon DEF Threads!Cardinality, Cardinality
  <1>1. /\ thread' = [e \in ThreadEvents |-> IF inBatch(e) THEN id(plan.to[at(e)]) ELSE thread[e]]
        /\ status' = status \o [k \in 1..size |-> "open"]
        /\ rel' = rel \cup {[r EXCEPT !.thread = id(@)] : r \in plan.rels}
        /\ claim' = [e \in ThreadEvents |-> IF inBatch(e) THEN 0 ELSE claim[e]]
        /\ UNCHANGED <<threaded, reply, queue, rec, heal, scan, derived, snapshot, fence,
                       threadFaults>>
        /\ missed' = {t \in missed : Threads!Members(thread', t) = {}}
        /\ plan' = Threads!NoPlan
    BY <1>c DEF Threads!commit_projection, Threads!replies, Threads!transactions
  <1>2. /\ \A i \in DOMAIN plan.batch : claim[plan.batch[i]] # 0
        /\ \A i \in DOMAIN plan.to : plan.to[i] \in DOMAIN status => ~Threads!Terminal(plan.to[i])
    BY DEF Threads!commit_projection, Threads!PlanStands
  <1>3. created \subseteq Nat /\ IsFiniteSet(created)
    <2> DEFINE T == {plan.to[i] : i \in DOMAIN plan.to}
    <2>1. DOMAIN plan.to = 1..Len(plan.batch) /\ Len(plan.batch) \in Nat
      BY <1>p
    <2>2. plan.to \in Surjection(DOMAIN plan.to, T) /\ T \subseteq Nat
      BY <1>p DEF Surjection
    <2> HIDE DEF T
    <2>3. IsFiniteSet(DOMAIN plan.to)
      BY <2>1, FS_Interval
    <2>4. IsFiniteSet(T)
      BY <2>2, <2>3, FS_Surjection
    <2>5. created \in SUBSET T
      BY DEF Threads!Created, T
    <2> QED BY <2>2, <2>4, <2>5, FS_Subset
  <1> HIDE DEF created
  <1>4. size \in Nat
    BY <1>3, FS_CardinalityType
  <1>5. ASSUME NEW t \in created
        PROVE  rank(t) \in 1..size
    <2> DEFINE below == {x \in created : x <= t}
    <2>1. below \in SUBSET created /\ t \in below
      BY <1>3
    <2> HIDE DEF below
    <2>2. IsFiniteSet(below) /\ Cardinality(below) <= size
      BY <1>3, <2>1, FS_Subset
    <2>3. Cardinality(below) \in Nat /\ Cardinality(below) # 0
      BY <2>1, <2>2, FS_CardinalityType, FS_EmptySet
    <2>4. Cardinality(below) \in 1..size
      BY <1>4, <2>2, <2>3
    <2> QED BY <2>4 DEF below
  <1> HIDE DEF size, rank
  <1> DEFINE new == [k \in 1..size |-> "open"]
  <1>6. /\ new \in Seq({"open", "closed", "resolved"}) /\ Len(new) = size
        /\ \A k \in 1..size : new[k] = "open"
    BY <1>4
  <1>7. status' = status \o new
    BY <1>1
  <1> HIDE DEF new
  <1> DEFINE States == {"open", "closed", "resolved"}
  <1>s. status \in Seq(States) /\ new \in Seq(States)
    BY <1>6, ThreadsFacts
  <1> HIDE DEF States
  <1>8. /\ status' \in Seq(States) /\ Len(status') = Len(status) + size
        /\ DOMAIN status' = 1..(Len(status) + size)
    <2>1. Len(new) = size /\ Len(status) \in Nat
      BY <1>6, ThreadsFacts
    <2>2. status' \in Seq(States) /\ Len(status') = Len(status) + Len(new)
      BY <1>7, <1>s
    <2> QED BY <2>1, <2>2
  <1>9. /\ \A t \in DOMAIN status : status'[t] = status[t]
        /\ \A k \in 1..size : status'[Len(status) + k] = "open"
    BY <1>4, <1>6, <1>7, ThreadsFacts
  <1>10. ASSUME NEW i \in DOMAIN plan.batch
         PROVE  id(plan.to[i]) \in DOMAIN status' /\ status'[id(plan.to[i])] = "open"
    <2>1. CASE plan.to[i] \in DOMAIN status
      <3>1. id(plan.to[i]) = plan.to[i]
        BY <2>1
      <3>2. status[plan.to[i]] = "open"
        <4>1. ~Threads!Terminal(plan.to[i]) /\ plan.to[i] # 0
          BY <1>2, <1>p, <2>1
        <4>2. status[plan.to[i]] \in {"open", "closed", "resolved"}
          BY <2>1, ThreadsFacts
        <4> QED BY <4>1, <4>2 DEF Threads!Terminal
      <3> QED BY <1>4, <1>8, <1>9, <2>1, <3>1, <3>2, ThreadsFacts
    <2>2. CASE plan.to[i] \notin DOMAIN status
      <3>1. plan.to[i] \in created
        BY <1>p, <2>2 DEF created, Threads!Created
      <3>2. id(plan.to[i]) = Len(status) + rank(plan.to[i]) /\ rank(plan.to[i]) \in 1..size
        BY <1>5, <2>2, <3>1
      <3>3. Len(status) + rank(plan.to[i]) \in 1..(Len(status) + size)
        BY <1>4, <3>2, ThreadsFacts
      <3> QED BY <1>8, <1>9, <3>2, <3>3
    <2> QED BY <2>1, <2>2
  <1> HIDE DEF id
  <1>11. ASSUME NEW e \in ThreadEvents, inBatch(e)
         PROVE  /\ at(e) \in DOMAIN plan.batch /\ plan.batch[at(e)] = e
                /\ thread[e] = 0 /\ thread'[e] = id(plan.to[at(e)])
    <2>1. at(e) \in DOMAIN plan.batch /\ plan.batch[at(e)] = e
      BY <1>11
    <2>2. claim[e] # 0
      BY <1>2, <2>1
    <2> QED BY <1>1, <1>11, <2>1, <2>2 DEF Threads!ThreadsInv
  <1>12. \A e \in ThreadEvents : ~inBatch(e) => thread'[e] = thread[e] /\ claim'[e] = claim[e]
    BY <1>1
  <1> HIDE DEF inBatch, at
  <1>13. \A e \in ThreadEvents : thread'[e] \in 0..(Len(status) + size)
    <2> SUFFICES ASSUME NEW e \in ThreadEvents PROVE thread'[e] \in 0..(Len(status) + size)
      OBVIOUS
    <2>1. CASE inBatch(e)
      <3>1. thread'[e] \in DOMAIN status'
        BY <1>10, <1>11, <2>1
      <3> QED BY <1>4, <1>8, <3>1, ThreadsFacts
    <2>2. CASE ~inBatch(e)
      BY <1>4, <1>12, <2>2, ThreadsFacts
    <2> QED BY <2>1, <2>2
  <1>14. ASSUME NEW e \in ThreadEvents, NEW t \in Nat \ {0}, thread'[e] = t
         PROVE  thread[e] = t \/ (t \in DOMAIN status' /\ status'[t] = "open")
    <2>1. CASE inBatch(e)
      <3>1. at(e) \in DOMAIN plan.batch /\ thread'[e] = id(plan.to[at(e)])
        BY <1>11, <2>1
      <3> QED BY <1>10, <1>14, <3>1
    <2>2. CASE ~inBatch(e)
      <3>1. thread'[e] = thread[e]
        BY <1>12, <2>2
      <3> QED BY <1>14, <3>1
    <2> QED BY <2>1, <2>2
  <1>15. ASSUME NEW e \in ThreadEvents, NEW t \in Nat \ {0}, thread[e] = t
         PROVE  thread'[e] = t
    BY <1>11, <1>12, <1>15
  <1>16. Threads!ClosedIsEmpty'
    <2> SUFFICES ASSUME NEW t \in DOMAIN status', status'[t] = "closed"
                 PROVE  Threads!Members(thread, t)' = {}
      BY DEF Threads!ClosedIsEmpty
    <2>1. t \in DOMAIN status /\ status[t] = "closed" /\ t \in Nat \ {0}
      <3>1. t \in DOMAIN status \/ t \in {Len(status) + k : k \in 1..size}
        <4>1. t \in Nat /\ t >= 1 /\ t <= Len(status) + size
          BY <1>4, <1>8, ThreadsFacts
        <4>2. t > Len(status) => t - Len(status) \in 1..size /\ t = Len(status) + (t - Len(status))
          BY <1>4, <4>1, ThreadsFacts
        <4> QED BY <4>1, <4>2, ThreadsFacts
      <3>2. t \notin {Len(status) + k : k \in 1..size}
        BY <1>9
      <3> QED BY <1>9, <3>1, <3>2, ThreadsFacts
    <2>2. Threads!Members(thread, t) = {}
      BY <2>1 DEF Threads!ThreadsInv, Threads!ClosedIsEmpty
    <2> QED BY <1>14, <2>1, <2>2 DEF Threads!Members
  <1>17. Threads!NothingDerivedFromEmpty'
    <2> SUFFICES ASSUME NEW t \in DOMAIN status', Threads!Members(thread, t)' = {},
                        t \notin missed', t \in scan \cup derived
                 PROVE  FALSE
      BY <1>1 DEF Threads!NothingDerivedFromEmpty
    <2>1. t \in DOMAIN status /\ t \in Nat \ {0}
      BY ThreadsFacts
    <2>2. Threads!Members(thread, t) = {}
      BY <1>15, <2>1 DEF Threads!Members
    <2>3. t \notin missed
      BY <1>1 DEF Threads!Members
    <2> QED BY <2>1, <2>2, <2>3 DEF Threads!ThreadsInv, Threads!NothingDerivedFromEmpty
  <1>18. ASSUME NEW r \in rel'
         PROVE  /\ thread'[r.from] = r.thread
                /\ r \in [from : ThreadEvents, to : ThreadEvents, thread : DOMAIN status']
    <2>1. CASE r \in rel
      <3>1. /\ r \in [from : ThreadEvents, to : ThreadEvents, thread : DOMAIN status]
            /\ thread[r.from] = r.thread
        BY <2>1, ThreadsFacts DEF Threads!ThreadsInv, Threads!RelationsFollowEvents
      <3>2. r.thread \in Nat \ {0} /\ r.from \in ThreadEvents
        BY <3>1, ThreadsFacts
      <3>3. DOMAIN status \subseteq DOMAIN status'
        BY <1>4, <1>8, ThreadsFacts
      <3> QED BY <1>15, <3>1, <3>2, <3>3
    <2>2. CASE r \notin rel
      <3>1. PICK q \in plan.rels : r = [q EXCEPT !.thread = id(@)]
        BY <1>1, <2>2
      <3>2. PICK i \in DOMAIN plan.batch : q.from = plan.batch[i] /\ q.thread = plan.to[i]
        BY <1>p
      <3>3. q = [from |-> q.from, to |-> q.to, thread |-> q.thread] /\ q.to \in ThreadEvents
        BY <1>p
      <3>4. r = [from |-> q.from, to |-> q.to, thread |-> id(plan.to[i])]
        BY <3>1, <3>2, <3>3
      <3>5. q.from \in ThreadEvents
        BY <1>p, <3>2
      <3>6. inBatch(q.from)
        BY <3>2 DEF inBatch
      <3>7. at(q.from) = i /\ thread'[q.from] = id(plan.to[i])
        BY <1>p, <1>11, <3>2, <3>5, <3>6
      <3>8. id(plan.to[i]) \in DOMAIN status'
        BY <1>10
      <3> QED BY <3>3, <3>4, <3>5, <3>7, <3>8
    <2> QED BY <2>1, <2>2
  <1>19. Threads!TypeOK'
    <2>1. thread' \in [ThreadEvents -> 0..Len(status')]
      BY <1>1, <1>8, <1>13
    <2>2. claim' \in [ThreadEvents -> 0..(MaxThreadFaults + 1)]
      BY <1>1, ThreadsFacts
    <2>3. /\ scan' \subseteq DOMAIN status' /\ derived' \subseteq DOMAIN status'
          /\ missed' \subseteq DOMAIN status'
      BY <1>1, <1>4, <1>8, ThreadsFacts
    <2>4. Threads!SeenOK'
      BY <1>1, ThreadsSeen
    <2> QED BY <1>1, <1>8, <1>18, <2>1, <2>2, <2>3, <2>4
            DEF States, Threads!ThreadsInv, Threads!TypeOK
  <1>20. Threads!RelationsFollowEvents' /\ Threads!QueueIsPending'
    BY <1>1, <1>18 DEF Threads!RelationsFollowEvents, Threads!QueueIsPending, Threads!ThreadsInv
  <1>21. \A e \in ThreadEvents : claim'[e] # 0 => thread'[e] = 0
    <2>1. \A e \in ThreadEvents : inBatch(e) => claim'[e] = 0
      BY <1>1 DEF inBatch
    <2> QED BY <1>12, <2>1 DEF Threads!ThreadsInv
  <1>22. Threads!PlanOK'
    BY <1>1, ThreadsPlanKept
  <1>23. \A e \in ThreadEvents : queue'[e] # "none" => e \in threaded'
    BY <1>1 DEF Threads!ThreadsInv
  <1> QED BY <1>16, <1>17, <1>19, <1>20, <1>21, <1>22, <1>23 DEF Threads!ThreadsInv

LEMMA ThreadsNext ==
    ASSUME Threads!ThreadAssumption, Threads!ThreadsInv, [Threads!Next]_(Threads!vars)
    PROVE  Threads!ThreadsInv'
  <1>1. CASE UNCHANGED Threads!vars
    <2>1. /\ UNCHANGED <<threaded, reply, queue, rec, heal, thread, status, rel, scan, derived>>
          /\ UNCHANGED <<missed, snapshot, fence, claim, plan, threadFaults>>
      BY <1>1 DEF Threads!vars, Threads!replies, Threads!threads, Threads!transactions
    <2>2. Threads!PlanOK' /\ Threads!SeenOK'
      BY <2>1, ThreadsPlanKept, ThreadsSeen
    <2> QED BY <2>1, <2>2, ThreadsRows, ThreadsFacts, ThreadsFrame
  <1>2. CASE Threads!Next
    <2>1. CASE \/ \E e \in ThreadEvents, seen \in snapshot :
                     \/ Threads!insert(e, seen) \/ Threads!Duplicate(e, seen)
                     \/ Threads!resolve_after_commit(e, seen)
               \/ \E e \in ThreadEvents : Threads!record_recall(e) \/ Threads!HealFails(e)
      BY <2>1, ThreadsMessages
    <2>2. CASE \/ \E e \in ThreadEvents :
                     \/ Threads!lock_claim(e) \/ Threads!resolve_claimed_pending_reply(e)
                     \/ Threads!QueueLeaseEnds(e)
               \/ \E lease \in 1..(MaxThreadFaults + 1) : Threads!ProjectionLeaseEnds(lease)
               \/ Threads!ensure_account_ref
      BY <2>2, ThreadsReconcile
    <2>3. CASE \E sel \in SUBSET ThreadEvents : Threads!claim_reconcile_batch(sel)
      BY <2>3, ThreadsReconcile
    <2>4. CASE Threads!ReconcileFails \/ Threads!Kill \/ Threads!release_projection_claims
      BY <2>4, ThreadsReconcile
    <2>5. CASE Threads!claim_projection_batch \/ Threads!commit_projection
      BY <2>5, ThreadsClaim, ThreadsCommit
    <2>6. CASE \E t \in DOMAIN status :
                 \/ Threads!claim_semantic_batch(t) \/ Threads!release_semantic_claim(t)
                 \/ \E to \in {"open", "resolved", "closed"} : Threads!commit_semantic_patch(t, to)
      BY <2>6, ThreadsSemantic
    <2> QED BY <1>2, <2>1, <2>2, <2>3, <2>4, <2>5, <2>6 DEF Threads!Next, Threads!Projector
  <1> QED BY <1>1, <1>2

(* The inductive invariant of replies and threads.                          *)
THEOREM ThreadsInvariant ==
    ASSUME Threads!ThreadAssumption PROVE Threads!Spec => []Threads!ThreadsInv
  BY ThreadsInit, ThreadsNext, PTL DEF Threads!Spec

(* For any messages, replies and batches, in whatever order parents, plans, *)
(* recalls, snapshots and lapsed leases come: a thread closed because its   *)
(* last message left stays empty, an empty thread has nothing derived       *)
(* unless a member came or went between the snapshot and the commit that    *)
(* emptied it, relations lie in the threads of their messages, and nobody   *)
(* holds a lease on a resolved reply (resolve_pending_replies_in_txn,       *)
(* resolve_claimed_pending_reply, commit_projection).                       *)
THEOREM ThreadsAreConsistent == ConversationsSpec => []ThreadsConsistent
  <1>1. Threads!ThreadsInv => ThreadsConsistent
    BY DEF Threads!ThreadsInv, ThreadsConsistent
  <1>2. Threads!ThreadAssumption
    BY ConversationsAssumption
  <1> QED BY <1>1, <1>2, ThreadsInvariant, PartsOfConversations, PTL

-----------------------------------------------------------------------------
(* 6. What is remembered, within any bounds b.  Its invariant is taken in   *)
(* four parts: facts, candidates, what both may be taken of, and the worker. *)

FactsOK(b, F, S) ==
    /\ F \subseteq Remembered(b)!FactRow(S)
    /\ \A f \in F : f.src # {} /\ f.prev \in {NoFact} \cup 1..(f.id - 1)
    /\ \E n \in 0..b.MaxFacts : {f.id : f \in F} = 1..n
    /\ \A f, g \in F : f.id = g.id => f = g
    /\ \A f, g \in F : f.prev = g.id => ~Remembered(b)!ActiveFact(g)
    /\ \A f, g \in F : f.prev = g.prev /\ f.prev # NoFact => f = g
    /\ \A f, g \in F :
         Remembered(b)!ActiveFact(f) /\ Remembered(b)!ActiveFact(g) /\ f.subj = g.subj => f = g

CandsOK(b, C, S) ==
    /\ C \subseteq Remembered(b)!CandRow(S) /\ \A c \in C : c.of \in c.src
    /\ \A c, d \in C :
         Remembered(b)!candidate_fingerprint(c) = Remembered(b)!candidate_fingerprint(d) => c = d

AllowedOK(b, C, F, m) ==
    /\ \A c \in C : c.st = "proposed" => \A e \in c.src : m[b.Conv[e]] # "restricted"
    /\ \A f \in F : Remembered(b)!ActiveFact(f) => \A e \in f.src : m[b.Conv[e]] # "restricted"

WorkerOK(b) ==
    /\ mStored \subseteq Remembered(b)!Events /\ mRecalled \subseteq mStored /\ mRead \subseteq mStored
    /\ mMode \in [Remembered(b)!Convs -> Remembered(b)!Modes] /\ mLocal \in BOOLEAN
    /\ mCommands \in 0..b.MaxCommands
    /\ mState \in [cursor : {0} \cup mStored, lease : {"free", "held", "late"}]
    /\ mDeferred \subseteq mStored /\ mBatch \in [events : SUBSET mStored, next : {0} \cup mStored]
    /\ Remembered(b)!ClaimMayBeKept /\ mBehind \subseteq mStored
    /\ Remembered(b)!NothingSkipped /\ Remembered(b)!ClaimSkipsNothing

LEMMA MemoryParts ==
    ASSUME NEW CONSTANT b, Remembered(b)!MemoryInv
    PROVE  /\ FactsOK(b, mFacts, mStored) /\ CandsOK(b, mCands, mStored)
           /\ AllowedOK(b, mCands, mFacts, mMode) /\ WorkerOK(b)
  <1>1. FactsOK(b, mFacts, mStored)
    BY DEF Remembered!MemoryInv, Remembered!TypeOK, Remembered!Numbered, Remembered!RevisedIsOver,
           Remembered!RevisionsAreAChain, Remembered!OneFactPerSubject, FactsOK
  <1>2. CandsOK(b, mCands, mStored)
    BY DEF Remembered!MemoryInv, Remembered!TypeOK, Remembered!ProposedOnce, CandsOK
  <1>3. WorkerOK(b)
    BY DEF Remembered!MemoryInv, Remembered!TypeOK, WorkerOK
  <1>4. \A e \in mStored : b.Conv[e] \in Remembered(b)!Convs
    BY <1>3 DEF WorkerOK, Remembered!Convs
  <1>5. AllowedOK(b, mCands, mFacts, mMode)
    <2>1. \A c \in mCands : c.src \subseteq mStored
      BY <1>2 DEF CandsOK, Remembered!CandRow
    <2>2. \A f \in mFacts : f.src \subseteq mStored
      BY <1>1 DEF FactsOK, Remembered!FactRow
    <2>3. ASSUME NEW e \in mStored, mMode[b.Conv[e]] = "restricted"
          PROVE  /\ \A c \in mCands : c.st = "proposed" => e \notin c.src
                 /\ \A f \in mFacts : Remembered(b)!ActiveFact(f) => e \notin f.src
      BY <1>4, <2>3 DEF Remembered!MemoryInv, Remembered!RestrictedLeavesNothing, Remembered!Uses
    <2> QED BY <2>1, <2>2, <2>3 DEF AllowedOK
  <1> QED BY <1>1, <1>2, <1>3, <1>5

LEMMA MemoryWhole ==
    ASSUME NEW CONSTANT b, FactsOK(b, mFacts', mStored'), CandsOK(b, mCands', mStored'),
           AllowedOK(b, mCands', mFacts', mMode'), WorkerOK(b)'
    PROVE  Remembered(b)!MemoryInv'
  <1>1. Remembered(b)!RestrictedLeavesNothing'
    BY DEF Remembered!RestrictedLeavesNothing, Remembered!Uses, AllowedOK
  <1>2. Remembered(b)!TypeOK'
    BY DEF Remembered!TypeOK, FactsOK, CandsOK, WorkerOK
  <1>3. /\ Remembered(b)!Numbered' /\ Remembered(b)!RevisedIsOver'
        /\ Remembered(b)!RevisionsAreAChain' /\ Remembered(b)!OneFactPerSubject'
    BY DEF Remembered!Numbered, Remembered!RevisedIsOver,
           Remembered!RevisionsAreAChain, Remembered!OneFactPerSubject, FactsOK
  <1>4. Remembered(b)!ProposedOnce'
    BY DEF Remembered!ProposedOnce, CandsOK
  <1> QED BY <1>1, <1>2, <1>3, <1>4 DEF Remembered!MemoryInv, WorkerOK

(* Facts change, but neither their number nor what they revise, and none    *)
(* that is over holds again.                                                *)
LEMMA FactsMap ==
    ASSUME NEW CONSTANT b, NEW F, NEW S, FactsOK(b, F, S), NEW h \in [F -> Remembered(b)!FactRow(S)],
           \A f \in F : /\ h[f].id = f.id /\ h[f].prev = f.prev /\ h[f].subj = f.subj
                        /\ h[f].src # {}
                        /\ Remembered(b)!ActiveFact(h[f]) => Remembered(b)!ActiveFact(f)
    PROVE  FactsOK(b, {h[f] : f \in F}, S) /\ {g.id : g \in {h[f] : f \in F}} = {f.id : f \in F}
  <1> DEFINE G == {h[f] : f \in F}
  <1>1. \A g \in G : \E f \in F : g = h[f]
    OBVIOUS
  <1>2. \A f \in F : h[f] \in G
    OBVIOUS
  <1>3. G \subseteq Remembered(b)!FactRow(S)
    OBVIOUS
  <1>4. {g.id : g \in G} = {f.id : f \in F}
    BY <1>1, <1>2
  <1> HIDE DEF G
  <1>5. \A f, g \in G : f.id = g.id => f = g
    BY <1>1 DEF FactsOK
  <1>6. \A f \in G : f.src # {} /\ f.prev \in {NoFact} \cup 1..(f.id - 1)
    BY <1>1 DEF FactsOK
  <1>7. \A f, g \in G : f.prev = g.id => ~Remembered(b)!ActiveFact(g)
    BY <1>1 DEF FactsOK
  <1>8. \A f, g \in G : f.prev = g.prev /\ f.prev # NoFact => f = g
    BY <1>1 DEF FactsOK
  <1>9. \A f, g \in G :
         Remembered(b)!ActiveFact(f) /\ Remembered(b)!ActiveFact(g) /\ f.subj = g.subj => f = g
    BY <1>1 DEF FactsOK
  <1>10. FactsOK(b, G, S)
    BY <1>3, <1>4, <1>5, <1>6, <1>7, <1>8, <1>9 DEF FactsOK
  <1> QED BY <1>4, <1>10 DEF G

LEMMA FactsCount ==
    ASSUME NEW CONSTANT b, NEW F, NEW S, FactsOK(b, F, S), NEW n \in Nat, {f.id : f \in F} = 1..n
    PROVE  IsFiniteSet(F) /\ Cardinality(F) = n
  <1> DEFINE row == [i \in 1..n |-> CHOOSE f \in F : f.id = i]
             num == [f \in F |-> f.id]
  <1>1. \A f, g \in F : f.id = g.id => f = g
    BY DEF FactsOK
  <1>2. \A i \in 1..n : \E f \in F : f.id = i
    BY Zenon
  <1>3. \A i \in 1..n : row[i] \in F /\ row[i].id = i
    BY <1>2
  <1>4. \A f \in F : f.id \in 1..n
    BY Zenon
  <1>5. row \in Surjection(1..n, F)
    <2>1. \A f \in F : row[f.id] = f
      BY <1>1, <1>3, <1>4
    <2> QED BY <1>3, <1>4, <2>1 DEF Surjection
  <1>6. num \in Surjection(F, 1..n)
    BY <1>2, <1>4 DEF Surjection
  <1>7. IsFiniteSet(1..n) /\ Cardinality(1..n) = n
    BY FS_Interval
  <1> HIDE DEF row, num
  <1>8. IsFiniteSet(F) /\ Cardinality(F) <= n
    BY <1>5, <1>7, FS_Surjection
  <1>9. n <= Cardinality(F)
    BY <1>6, <1>7, <1>8, FS_Surjection
  <1> QED BY <1>8, <1>9, FS_CardinalityType

(* A fact is appended. *)
LEMMA FactsAppend ==
    ASSUME NEW CONSTANT b, b.MaxFacts \in Nat, NoFact \notin 1..b.MaxFacts,
           NEW F, NEW S, FactsOK(b, F, S), NEW n \in Nat,
           {f.id : f \in F} = 1..n, n < b.MaxFacts,
           NEW r \in Remembered(b)!FactRow(S), r.id = n + 1, r.src # {},
           \/ r.prev = NoFact
           \/ /\ r.prev \in 1..n
              /\ \A f \in F : f.prev # r.prev /\ (f.id = r.prev => ~Remembered(b)!ActiveFact(f)),
           \A f \in F : f.subj = r.subj => ~Remembered(b)!ActiveFact(f)
    PROVE  FactsOK(b, F \cup {r}, S)
  <1>1. \A f \in F : f.id \in 1..n
    BY Zenon
  <1>2. \A f \in F : f.prev \in {NoFact} \cup 1..(n - 1)
    BY <1>1 DEF FactsOK
  <1>3. {f.id : f \in F \cup {r}} = 1..(n + 1)
    <2>1. {f.id : f \in F \cup {r}} = {f.id : f \in F} \cup {n + 1}
      OBVIOUS
    <2> QED BY <2>1
  <1>4. \A f, g \in F \cup {r} : f.id = g.id => f = g
    BY <1>1 DEF FactsOK
  <1>5. \A f \in F \cup {r} : f.src # {} /\ f.prev \in {NoFact} \cup 1..(f.id - 1)
    BY DEF FactsOK
  <1>6. \A f, g \in F \cup {r} : f.prev = g.id => ~Remembered(b)!ActiveFact(g)
    <2> SUFFICES ASSUME NEW f \in F \cup {r}, NEW g \in F \cup {r}, f.prev = g.id
                 PROVE  ~Remembered(b)!ActiveFact(g)
      OBVIOUS
    <2>1. g.id \in 1..(n + 1) /\ n + 1 <= b.MaxFacts
      BY <1>1
    <2>2. CASE g = r
      BY <1>2, <2>1, <2>2
    <2>3. CASE g \in F /\ f = r
      BY <1>1, <2>1, <2>3
    <2>4. CASE g \in F /\ f \in F
      BY <2>4 DEF FactsOK
    <2> QED BY <2>2, <2>3, <2>4
  <1>7. \A f, g \in F \cup {r} : f.prev = g.prev /\ f.prev # NoFact => f = g
    BY DEF FactsOK
  <1>8. \A f, g \in F \cup {r} :
         Remembered(b)!ActiveFact(f) /\ Remembered(b)!ActiveFact(g) /\ f.subj = g.subj => f = g
    BY DEF FactsOK
  <1>9. F \cup {r} \subseteq Remembered(b)!FactRow(S) /\ n + 1 \in 0..b.MaxFacts
    BY DEF FactsOK
  <1> QED BY <1>3, <1>4, <1>5, <1>6, <1>7, <1>8, <1>9 DEF FactsOK

(* Candidates change, but not what they propose. *)
LEMMA CandsMap ==
    ASSUME NEW CONSTANT b, NEW C, NEW S, CandsOK(b, C, S), NEW h \in [C -> Remembered(b)!CandRow(S)],
           \A c \in C : h[c].of = c.of /\ h[c].src = c.src
    PROVE  CandsOK(b, {h[c] : c \in C}, S)
  <1> DEFINE D == {h[c] : c \in C}
  <1>1. \A d \in D : \E c \in C : d = h[c]
    OBVIOUS
  <1>2. D \subseteq Remembered(b)!CandRow(S)
    OBVIOUS
  <1> HIDE DEF D
  <1>3. \A d \in D : d.of \in d.src
    BY <1>1 DEF CandsOK
  <1>4. \A c \in C : Remembered(b)!candidate_fingerprint(h[c]) = Remembered(b)!candidate_fingerprint(c)
    BY DEF Remembered!candidate_fingerprint
  <1>5. \A c, d \in D :
         Remembered(b)!candidate_fingerprint(c) = Remembered(b)!candidate_fingerprint(d) => c = d
    BY <1>1, <1>4 DEF CandsOK
  <1> QED BY <1>2, <1>3, <1>5 DEF CandsOK, D

LEMMA CandReplaced ==
    ASSUME NEW CONSTANT b, NEW C, NEW S, CandsOK(b, C, S), NEW c \in C,
           NEW d \in Remembered(b)!CandRow(S), d.of = c.of, d.src = c.src
    PROVE  CandsOK(b, (C \ {c}) \cup {d}, S)
  <1> DEFINE h == [x \in C |-> IF x = c THEN d ELSE x]
  <1>1. h \in [C -> Remembered(b)!CandRow(S)] /\ \A x \in C : h[x].of = x.of /\ h[x].src = x.src
    BY DEF CandsOK
  <1>2. {h[x] : x \in C} = (C \ {c}) \cup {d}
    OBVIOUS
  <1> HIDE DEF h
  <1> QED BY <1>1, <1>2, CandsMap

LEMMA FactReplaced ==
    ASSUME NEW CONSTANT b, NEW F, NEW S, FactsOK(b, F, S), NEW f \in F,
           NEW g \in Remembered(b)!FactRow(S), g.id = f.id, g.prev = f.prev, g.subj = f.subj,
           g.src # {}, Remembered(b)!ActiveFact(g) => Remembered(b)!ActiveFact(f)
    PROVE  /\ FactsOK(b, (F \ {f}) \cup {g}, S)
           /\ {x.id : x \in (F \ {f}) \cup {g}} = {x.id : x \in F}
  <1> DEFINE h == [x \in F |-> IF x = f THEN g ELSE x]
  <1>1. h \in [F -> Remembered(b)!FactRow(S)]
    BY DEF FactsOK
  <1>2. \A x \in F : /\ h[x].id = x.id /\ h[x].prev = x.prev /\ h[x].subj = x.subj /\ h[x].src # {}
                     /\ Remembered(b)!ActiveFact(h[x]) => Remembered(b)!ActiveFact(x)
    BY DEF FactsOK
  <1>3. {h[x] : x \in F} = (F \ {f}) \cup {g}
    OBVIOUS
  <1> HIDE DEF h
  <1>4. /\ FactsOK(b, {h[x] : x \in F}, S)
        /\ {x.id : x \in {h[y] : y \in F}} = {x.id : x \in F}
    BY <1>1, <1>2, FactsMap
  <1> QED BY ONLY <1>3, <1>4

(* invalidate_stale_proposed changes the status of candidates only. *)
LEMMA SweptOK ==
    ASSUME NEW CONSTANT b, NEW F, CandsOK(b, mCands, mStored), AllowedOK(b, mCands, F, mMode)
    PROVE  CandsOK(b, Remembered(b)!Swept, mStored) /\ AllowedOK(b, Remembered(b)!Swept, F, mMode)
  <1> DEFINE stale(c) == c.st = "proposed" /\ \E e \in c.src : ~Remembered(b)!Quotable(e)
             h == [c \in mCands |-> IF stale(c) THEN [c EXCEPT !.st = "invalidated"] ELSE c]
  <1>1. Remembered(b)!Swept = {h[c] : c \in mCands}
    BY DEF Remembered!Swept
  <1> HIDE DEF stale
  <1>2. \A c \in mCands : c \in Remembered(b)!CandRow(mStored)
    BY DEF CandsOK
  <1>3. \A c \in mCands : /\ h[c] \in Remembered(b)!CandRow(mStored)
                          /\ h[c].of = c.of /\ h[c].src = c.src
                          /\ h[c].st = "proposed" => c.st = "proposed"
    BY <1>2 DEF Remembered!CandRow
  <1>4. h \in [mCands -> Remembered(b)!CandRow(mStored)]
    BY <1>3
  <1> HIDE DEF h
  <1>5. CandsOK(b, Remembered(b)!Swept, mStored)
    BY <1>1, <1>3, <1>4, CandsMap
  <1>6. \A d \in Remembered(b)!Swept : \E c \in mCands : d = h[c]
    BY <1>1
  <1> QED BY <1>3, <1>5, <1>6 DEF AllowedOK

LEMMA DecidedOK ==
    ASSUME NEW CONSTANT b, CandsOK(b, mCands, mStored), NEW c \in mCands,
           NEW st \in {"approved", "rejected"}, Remembered(b)!Decided(c, st)
    PROVE  /\ CandsOK(b, mCands', mStored)
           /\ \A d \in mCands' : d.st = "proposed" => d \in mCands
  <1> DEFINE d == [c EXCEPT !.st = st]
  <1>1. mCands' = (mCands \ {c}) \cup {d}
    BY DEF Remembered!Decided
  <1>2. c \in Remembered(b)!CandRow(mStored)
    BY DEF CandsOK
  <1>3. d \in Remembered(b)!CandRow(mStored) /\ d.of = c.of /\ d.src = c.src /\ d.st # "proposed"
    BY <1>2 DEF Remembered!CandRow
  <1> HIDE DEF d
  <1>4. CandsOK(b, (mCands \ {c}) \cup {d}, mStored)
    BY <1>3, CandReplaced
  <1> QED BY <1>1, <1>3, <1>4

LEMMA WorkerFrame ==
    ASSUME NEW CONSTANT b, WorkerOK(b),
           UNCHANGED <<mStored, mRecalled, mMode, mLocal, mState, mDeferred, mBatch, mRead, mBehind,
                       mCommands>>
    PROVE  WorkerOK(b)'
  BY DEF WorkerOK, Remembered!ClaimMayBeKept, Remembered!ClaimSkipsNothing, Remembered!NothingSkipped,
         Remembered!Owned, Remembered!NoBatch

LEMMA MemoryBounds ==
    ASSUME NEW CONSTANT b, Remembered(b)!MemoryAssumption
    PROVE  /\ b.Last \in Nat /\ b.MaxBatch \in Nat /\ b.MaxBatch >= 1 /\ b.MaxFacts \in Nat
           /\ b.MaxCommands \in Nat /\ NoFact \notin 1..b.MaxFacts
           /\ Remembered(b)!Events = 1..b.Last
           /\ \A e \in 1..b.Last : /\ b.Conv[e] \in Remembered(b)!Convs
                                   /\ b.Says[e] \in Remembered(b)!Payloads
  BY DEF Remembered!MemoryAssumption, Remembered!Events, Remembered!Convs, Remembered!Payloads

LEMMA FactAppended ==
    ASSUME NEW CONSTANT b, Remembered(b)!MemoryAssumption, FactsOK(b, mFacts, mStored),
           NEW F, FactsOK(b, F, mStored), {f.id : f \in F} = {f.id : f \in mFacts},
           Remembered(b)!Cardinality(mFacts) < b.MaxFacts,
           NEW subj \in {b.Subject[e] : e \in Remembered(b)!Events},
           NEW pay \in Remembered(b)!Payloads, NEW st \in {"proposed", "confirmed"},
           NEW src \in SUBSET mStored, src # {}, NEW ttl \in BOOLEAN, NEW prev,
           \/ prev = NoFact
           \/ /\ \E f \in F : f.id = prev
              /\ \A f \in F : f.prev # prev /\ (f.id = prev => ~Remembered(b)!ActiveFact(f)),
           \A f \in F : f.subj = subj => ~Remembered(b)!ActiveFact(f)
    PROVE  FactsOK(b, F \cup {Remembered(b)!NewFact(subj, pay, st, src, ttl, prev)}, mStored)
  <1> DEFINE r == Remembered(b)!NewFact(subj, pay, st, src, ttl, prev)
  <1>1. PICK n \in 0..b.MaxFacts : {f.id : f \in mFacts} = 1..n
    BY DEF FactsOK
  <1>2. b.MaxFacts \in Nat /\ NoFact \notin 1..b.MaxFacts /\ n \in Nat
    BY MemoryBounds
  <1>3. \A T : Remembered(b)!Cardinality(T) = Cardinality(T)
    BY Zenon DEF Remembered!Cardinality, Cardinality
  <1>4. Cardinality(mFacts) = n
    BY <1>1, <1>2, FactsCount
  <1>5. n < b.MaxFacts /\ {f.id : f \in F} = 1..n
    BY <1>1, <1>3, <1>4
  <1>6. r = [id |-> n + 1, subj |-> subj, pay |-> pay, st |-> st, src |-> src, ttl |-> ttl,
             prev |-> prev]
    BY <1>3, <1>4 DEF Remembered!NewFact
  <1>7. prev = NoFact \/ prev \in 1..n
    BY <1>5
  <1>8. r \in Remembered(b)!FactRow(mStored)
    BY <1>2, <1>5, <1>6, <1>7 DEF Remembered!FactRow
  <1>9. r.id = n + 1 /\ r.src # {} /\ r.subj = subj /\ r.prev = prev
    BY <1>6
  <1> HIDE DEF r
  <1>10. FactsOK(b, F \cup {r}, mStored)
    BY <1>2, <1>5, <1>7, <1>8, <1>9, FactsAppend
  <1> QED BY <1>10 DEF r

(* A fact that stands no longer. *)
LEMMA StatusOK ==
    ASSUME NEW CONSTANT b, NEW F, FactsOK(b, F, mStored), F = mFacts, NEW f \in F,
           NEW st \in {"superseded", "deleted", "expired"}
    PROVE  /\ FactsOK(b, Remembered(b)!WithStatus(f, st), mStored)
           /\ {x.id : x \in Remembered(b)!WithStatus(f, st)} = {x.id : x \in F}
           /\ \E g \in Remembered(b)!WithStatus(f, st) :
                /\ Remembered(b)!WithStatus(f, st) = (F \ {f}) \cup {g}
                /\ g.id = f.id /\ g.prev = f.prev /\ ~Remembered(b)!ActiveFact(g)
  <1> DEFINE g == [f EXCEPT !.st = st]
  <1>1. Remembered(b)!WithStatus(f, st) = (F \ {f}) \cup {g}
    BY DEF Remembered!WithStatus
  <1>2. f \in Remembered(b)!FactRow(mStored) /\ f.src # {}
    BY DEF FactsOK
  <1>3. /\ g \in Remembered(b)!FactRow(mStored) /\ g.id = f.id /\ g.prev = f.prev /\ g.subj = f.subj
        /\ g.src = f.src /\ g.st = st
    BY <1>2 DEF Remembered!FactRow
  <1> HIDE DEF g
  <1>4. ~Remembered(b)!ActiveFact(g)
    BY <1>3 DEF Remembered!ActiveFact
  <1>5. FactsOK(b, (F \ {f}) \cup {g}, mStored) /\ {x.id : x \in (F \ {f}) \cup {g}} = {x.id : x \in F}
    BY <1>2, <1>3, <1>4, FactReplaced
  <1> QED BY <1>1, <1>3, <1>4, <1>5

(* The owner approves a candidate: a new fact, or new sources of one. *)
LEMMA MemoryApprove ==
    ASSUME NEW CONSTANT b, Remembered(b)!MemoryAssumption, Remembered(b)!MemoryInv, NEW c \in mCands,
           Remembered(b)!apply_approve(c)
    PROVE  Remembered(b)!MemoryInv'
  <1>1. /\ FactsOK(b, mFacts, mStored) /\ CandsOK(b, mCands, mStored)
        /\ AllowedOK(b, mCands, mFacts, mMode) /\ WorkerOK(b)
    BY MemoryParts
  <1>2. c \in Remembered(b)!CandRow(mStored) /\ c.of \in c.src
    BY <1>1 DEF CandsOK
  <1>3. /\ c.src \in SUBSET mStored /\ c.src # {} /\ c.of \in Remembered(b)!Events
        /\ b.Subject[c.of] \in {b.Subject[e] : e \in Remembered(b)!Events}
        /\ b.Says[c.of] \in Remembered(b)!Payloads
    BY <1>2 DEF Remembered!CandRow, Remembered!Payloads
  <1>4. \A e \in c.src : mMode[b.Conv[e]] # "restricted"
    BY DEF Remembered!apply_approve, Remembered!Quotable
  <1>5. UNCHANGED <<mStored, mRecalled, mMode, mLocal, mState, mDeferred, mBatch, mRead, mBehind,
                       mCommands>>
    BY DEF Remembered!apply_approve, Remembered!worker
  <1>6. CandsOK(b, mCands', mStored) /\ \A d \in mCands' : d.st = "proposed" => d \in mCands
    <2>1. Remembered(b)!Decided(c, "approved")
      BY DEF Remembered!apply_approve
    <2> QED BY <1>1, <2>1, DecidedOK
  <1>7. /\ FactsOK(b, mFacts', mStored)
        /\ \A f \in mFacts' : Remembered(b)!ActiveFact(f) =>
             \A e \in f.src : mMode[b.Conv[e]] # "restricted"
    <2>1. CASE /\ Remembered(b)!ActiveFor(b.Subject[c.of]) = {}
               /\ Remembered(b)!Cardinality(mFacts) < b.MaxFacts
               /\ mFacts' = mFacts \cup {Remembered(b)!candidate_to_confirmed_fact(c)}
      <3> DEFINE r == Remembered(b)!NewFact(b.Subject[c.of], b.Says[c.of], "confirmed", c.src, FALSE,
                                            NoFact)
      <3>1. mFacts' = mFacts \cup {r}
        BY <2>1 DEF Remembered!candidate_to_confirmed_fact
      <3>2. \A f \in mFacts : f.subj = b.Subject[c.of] => ~Remembered(b)!ActiveFact(f)
        BY <2>1 DEF Remembered!ActiveFor
      <3>3. FactsOK(b, mFacts \cup {r}, mStored)
        BY <1>1, <1>3, <2>1, <3>2, FactAppended
      <3>4. r.src = c.src
        BY DEF Remembered!NewFact
      <3> HIDE DEF r
      <3> QED BY <1>1, <1>4, <3>1, <3>3, <3>4 DEF AllowedOK
    <2>2. CASE \E f \in Remembered(b)!ActiveFor(b.Subject[c.of]) :
                 f.pay = b.Says[c.of] /\ mFacts' = Remembered(b)!MergedSources(f, c)
      <3>1. PICK f \in mFacts : /\ Remembered(b)!ActiveFact(f)
                                /\ mFacts' = Remembered(b)!MergedSources(f, c)
        BY <2>2 DEF Remembered!ActiveFor
      <3> DEFINE g == [f EXCEPT !.src = f.src \cup c.src]
      <3>2. mFacts' = (mFacts \ {f}) \cup {g}
        BY <3>1 DEF Remembered!MergedSources
      <3>3. f \in Remembered(b)!FactRow(mStored) /\ f.src # {}
        BY <1>1 DEF FactsOK
      <3>4. /\ g \in Remembered(b)!FactRow(mStored) /\ g.id = f.id /\ g.prev = f.prev
            /\ g.subj = f.subj /\ g.src = f.src \cup c.src /\ g.src # {}
        BY <1>3, <3>3 DEF Remembered!FactRow
      <3> HIDE DEF g
      <3>5. FactsOK(b, (mFacts \ {f}) \cup {g}, mStored)
        BY <1>1, <3>1, <3>4, FactReplaced
      <3> QED BY <1>1, <1>4, <3>1, <3>2, <3>4, <3>5 DEF AllowedOK
    <2> QED BY <2>1, <2>2 DEF Remembered!apply_approve
  <1>8. AllowedOK(b, mCands', mFacts', mMode)
    BY <1>1, <1>6, <1>7 DEF AllowedOK
  <1>9. WorkerOK(b)'
    BY <1>1, <1>5, WorkerFrame
  <1> QED BY <1>5, <1>6, <1>7, <1>8, <1>9, MemoryWhole

LEMMA MemoryReject ==
    ASSUME NEW CONSTANT b, Remembered(b)!MemoryAssumption, Remembered(b)!MemoryInv, NEW c \in mCands,
           Remembered(b)!apply_reject(c)
    PROVE  Remembered(b)!MemoryInv'
  <1>1. /\ FactsOK(b, mFacts, mStored) /\ CandsOK(b, mCands, mStored)
        /\ AllowedOK(b, mCands, mFacts, mMode) /\ WorkerOK(b)
    BY MemoryParts
  <1>2. /\ UNCHANGED <<mStored, mRecalled, mMode, mLocal, mState, mDeferred, mBatch, mRead, mBehind,
                       mCommands>>
        /\ UNCHANGED mFacts
    BY DEF Remembered!apply_reject, Remembered!worker
  <1>3. CandsOK(b, mCands', mStored) /\ \A d \in mCands' : d.st = "proposed" => d \in mCands
    <2>1. Remembered(b)!Decided(c, "rejected")
      BY DEF Remembered!apply_reject
    <2> QED BY <1>1, <2>1, DecidedOK
  <1>4. AllowedOK(b, mCands', mFacts', mMode)
    BY <1>1, <1>2, <1>3 DEF AllowedOK
  <1>5. WorkerOK(b)'
    BY <1>1, <1>2, WorkerFrame
  <1> QED BY <1>1, <1>2, <1>3, <1>4, <1>5, MemoryWhole

LEMMA MemoryAppend ==
    ASSUME NEW CONSTANT b, Remembered(b)!MemoryAssumption, Remembered(b)!MemoryInv, NEW e \in mStored,
           NEW st \in {"proposed", "confirmed"},
           Remembered(b)!append_fact(b.Subject[e], b.Says[e], st, {e})
    PROVE  Remembered(b)!MemoryInv'
  <1>1. /\ FactsOK(b, mFacts, mStored) /\ CandsOK(b, mCands, mStored)
        /\ AllowedOK(b, mCands, mFacts, mMode) /\ WorkerOK(b)
    BY MemoryParts
  <1>2. /\ UNCHANGED <<mStored, mRecalled, mMode, mLocal, mState, mDeferred, mBatch, mRead, mBehind,
                       mCommands>>
        /\ UNCHANGED mCands
    BY DEF Remembered!append_fact, Remembered!worker
  <1> DEFINE r == Remembered(b)!NewFact(b.Subject[e], b.Says[e], st, {e}, FALSE, NoFact)
  <1>3. /\ Remembered(b)!Cardinality(mFacts) < b.MaxFacts /\ mFacts' = mFacts \cup {r}
        /\ \A f \in mFacts : f.subj = b.Subject[e] => ~Remembered(b)!ActiveFact(f)
        /\ mMode[b.Conv[e]] # "restricted"
    BY DEF Remembered!append_fact, Remembered!ActiveFor, Remembered!Derivable
  <1>4. /\ b.Subject[e] \in {b.Subject[x] : x \in Remembered(b)!Events}
        /\ b.Says[e] \in Remembered(b)!Payloads
    BY <1>1 DEF WorkerOK, Remembered!Payloads
  <1>5. FactsOK(b, mFacts \cup {r}, mStored)
    BY <1>1, <1>3, <1>4, FactAppended
  <1>6. r.src = {e}
    BY DEF Remembered!NewFact
  <1> HIDE DEF r
  <1>7. AllowedOK(b, mCands', mFacts', mMode)
    BY <1>1, <1>2, <1>3, <1>6 DEF AllowedOK
  <1>8. WorkerOK(b)'
    BY <1>1, <1>2, WorkerFrame
  <1> QED BY <1>1, <1>2, <1>3, <1>5, <1>7, <1>8, MemoryWhole

(* The owner corrects a fact or gives it a time to live. *)
LEMMA MemoryRevise ==
    ASSUME NEW CONSTANT b, Remembered(b)!MemoryAssumption, Remembered(b)!MemoryInv, NEW f \in mFacts,
           NEW pay \in Remembered(b)!Payloads, NEW src \in SUBSET mStored, NEW ttl \in BOOLEAN,
           Remembered(b)!append_owner_memory_revision(f, pay, src, ttl)
    PROVE  Remembered(b)!MemoryInv'
  <1>1. /\ FactsOK(b, mFacts, mStored) /\ CandsOK(b, mCands, mStored)
        /\ AllowedOK(b, mCands, mFacts, mMode) /\ WorkerOK(b)
    BY MemoryParts
  <1>2. /\ UNCHANGED <<mStored, mRecalled, mMode, mLocal, mState, mDeferred, mBatch, mRead, mBehind,
                       mCommands>>
        /\ UNCHANGED mCands
    BY DEF Remembered!append_owner_memory_revision, Remembered!worker
  <1> DEFINE F == Remembered(b)!WithStatus(f, "superseded")
             r == Remembered(b)!NewFact(f.subj, pay, "confirmed", src, ttl, f.id)
  <1>3. /\ Remembered(b)!ActiveFact(f) /\ Remembered(b)!Cardinality(mFacts) < b.MaxFacts
        /\ mFacts' = F \cup {r} /\ src # {}
        /\ \A e \in src : mMode[b.Conv[e]] # "restricted"
    BY DEF Remembered!append_owner_memory_revision, Remembered!Derivable
  <1>4. /\ FactsOK(b, F, mStored) /\ {x.id : x \in F} = {x.id : x \in mFacts}
        /\ \E g \in F : /\ F = (mFacts \ {f}) \cup {g} /\ g.id = f.id /\ g.prev = f.prev
                        /\ ~Remembered(b)!ActiveFact(g)
    BY <1>1, StatusOK
  <1>5. r.src = src
    BY DEF Remembered!NewFact
  <1> HIDE DEF F, r
  <1>6. PICK g \in F : /\ F = (mFacts \ {f}) \cup {g} /\ g.id = f.id /\ g.prev = f.prev
                       /\ ~Remembered(b)!ActiveFact(g)
    BY <1>4
  <1>7. \A x \in F : x.subj = f.subj => ~Remembered(b)!ActiveFact(x)
    BY <1>1, <1>3, <1>6 DEF FactsOK
  <1>8. \A x \in F : x.prev # f.id /\ (x.id = f.id => ~Remembered(b)!ActiveFact(x))
    <2>1. \A x \in mFacts : x.prev # f.id /\ (x.id = f.id => x = f)
      BY <1>1, <1>3 DEF FactsOK
    <2> QED BY <1>6, <2>1
  <1>9. f.subj \in {b.Subject[e] : e \in Remembered(b)!Events}
    BY <1>1 DEF FactsOK, Remembered!FactRow
  <1>10. FactsOK(b, F \cup {r}, mStored)
    <2>1. \E x \in F : x.id = f.id
      BY <1>6
    <2> QED BY <1>1, <1>3, <1>4, <1>7, <1>8, <1>9, <2>1, FactAppended DEF r
  <1>11. AllowedOK(b, mCands', mFacts', mMode)
    BY <1>1, <1>2, <1>3, <1>5, <1>6 DEF AllowedOK
  <1>12. WorkerOK(b)'
    BY <1>1, <1>2, WorkerFrame
  <1> QED BY <1>1, <1>2, <1>3, <1>10, <1>11, <1>12, MemoryWhole

(* A fact is deleted, or expires. *)
LEMMA MemoryEnd ==
    ASSUME NEW CONSTANT b, Remembered(b)!MemoryAssumption, Remembered(b)!MemoryInv, NEW f \in mFacts,
           Remembered(b)!DeleteMemoryFact(f) \/ Remembered(b)!expire_due(f)
    PROVE  Remembered(b)!MemoryInv'
  <1>1. /\ FactsOK(b, mFacts, mStored) /\ CandsOK(b, mCands, mStored)
        /\ AllowedOK(b, mCands, mFacts, mMode) /\ WorkerOK(b)
    BY MemoryParts
  <1>2. /\ UNCHANGED <<mStored, mRecalled, mMode, mLocal, mState, mDeferred, mBatch, mRead, mBehind,
                       mCommands>>
        /\ UNCHANGED mCands
    BY DEF Remembered!DeleteMemoryFact, Remembered!expire_due, Remembered!worker
  <1>3. PICK st \in {"deleted", "expired"} : mFacts' = Remembered(b)!WithStatus(f, st)
    BY DEF Remembered!DeleteMemoryFact, Remembered!expire_due
  <1>4. /\ FactsOK(b, mFacts', mStored)
        /\ \E g \in mFacts' : mFacts' = (mFacts \ {f}) \cup {g} /\ ~Remembered(b)!ActiveFact(g)
    BY <1>1, <1>3, StatusOK
  <1>5. AllowedOK(b, mCands', mFacts', mMode)
    BY <1>1, <1>2, <1>4 DEF AllowedOK
  <1>6. WorkerOK(b)'
    BY <1>1, <1>2, WorkerFrame
  <1> QED BY <1>1, <1>2, <1>4, <1>5, <1>6, MemoryWhole

(* The owner changes what a conversation may be used for.  The row of the   *)
(* worker goes with it, and so does a claim that is under way.              *)
LEMMA MemoryMode ==
    ASSUME NEW CONSTANT b, Remembered(b)!MemoryAssumption, Remembered(b)!MemoryInv,
           NEW c \in Remembered(b)!Convs, NEW m \in Remembered(b)!Modes,
           Remembered(b)!set_conversation_mode(c, m)
    PROVE  Remembered(b)!MemoryInv'
  <1>1. /\ FactsOK(b, mFacts, mStored) /\ CandsOK(b, mCands, mStored)
        /\ AllowedOK(b, mCands, mFacts, mMode) /\ WorkerOK(b)
    BY MemoryParts
  <1>2. /\ UNCHANGED <<mStored, mRecalled, mLocal, mDeferred, mBatch, mRead, mBehind>>
        /\ mMode' = [mMode EXCEPT ![c] = m] /\ mState' = [cursor |-> 0, lease |-> "free"]
        /\ mCommands < b.MaxCommands /\ mCommands' = mCommands + 1
    BY DEF Remembered!set_conversation_mode, Remembered!Command, Remembered!DeleteState,
           Remembered!NoState
  <1>3. WorkerOK(b)'
    <2>1. mMode' \in [Remembered(b)!Convs -> Remembered(b)!Modes]
      BY <1>1, <1>2 DEF WorkerOK
    <2>2. mCommands' \in 0..b.MaxCommands
      BY <1>1, <1>2, MemoryBounds DEF WorkerOK
    <2>3. mState' \in [cursor : {0} \cup mStored, lease : {"free", "held", "late"}]
      BY <1>2
    <2>4. mState'.lease = "free" /\ mState'.cursor = 0
      BY <1>2
    <2>5. \A e \in mStored : ~(e <= 0)
      BY <1>1, MemoryBounds DEF WorkerOK
    <2>6. /\ mStored \subseteq Remembered(b)!Events /\ mRecalled \subseteq mStored
          /\ mRead \subseteq mStored /\ mLocal \in BOOLEAN /\ mDeferred \subseteq mStored
          /\ mBatch \in [events : SUBSET mStored, next : {0} \cup mStored]
          /\ mBehind \subseteq mStored
      BY <1>1 DEF WorkerOK
    <2> QED BY <1>2, <2>1, <2>2, <2>3, <2>4, <2>5, <2>6
            DEF WorkerOK, Remembered!ClaimMayBeKept, Remembered!ClaimSkipsNothing,
                Remembered!NothingSkipped, Remembered!Owned
  <1>4. CASE m = "normal"
    <2>1. UNCHANGED <<mCands, mFacts>>
      BY <1>4 DEF Remembered!set_conversation_mode
    <2>2. \A e \in mStored : mMode'[b.Conv[e]] = "restricted" => mMode[b.Conv[e]] = "restricted"
      BY <1>1, <1>2, <1>4, MemoryBounds DEF WorkerOK
    <2>3. \A x \in mCands : x.src \subseteq mStored
      BY <1>1 DEF CandsOK, Remembered!CandRow
    <2>4. \A f \in mFacts : f.src \subseteq mStored
      BY <1>1 DEF FactsOK, Remembered!FactRow
    <2>5. AllowedOK(b, mCands', mFacts', mMode')
      BY <1>1, <2>1, <2>2, <2>3, <2>4 DEF AllowedOK
    <2> QED BY <1>1, <1>2, <1>3, <2>1, <2>5, MemoryWhole
  <1>5. CASE m # "normal"
    <2> DEFINE h == [x \in mCands |-> IF x.st = "proposed" /\ Remembered(b)!Uses(x, c)
                                        THEN [x EXCEPT !.st = "invalidated"] ELSE x]
               k == [f \in mFacts |-> IF Remembered(b)!ActiveFact(f) /\ Remembered(b)!Uses(f, c)
                                        THEN [f EXCEPT !.st = "expired"] ELSE f]
    <2>1. mCands' = {h[x] : x \in mCands} /\ mFacts' = {k[f] : f \in mFacts}
      BY <1>5 DEF Remembered!set_conversation_mode
    <2>2. /\ \A x \in mCands : x \in Remembered(b)!CandRow(mStored)
          /\ \A f \in mFacts : f \in Remembered(b)!FactRow(mStored) /\ f.src # {}
      BY <1>1 DEF CandsOK, FactsOK
    <2>3. \A x \in mCands : /\ h[x] \in Remembered(b)!CandRow(mStored)
                            /\ h[x].of = x.of /\ h[x].src = x.src
                            /\ h[x].st = "proposed" => x.st = "proposed" /\ ~Remembered(b)!Uses(x, c)
      BY <2>2 DEF Remembered!CandRow
    <2>4. \A f \in mFacts : /\ k[f] \in Remembered(b)!FactRow(mStored)
                            /\ k[f].id = f.id /\ k[f].prev = f.prev /\ k[f].subj = f.subj
                            /\ k[f].src = f.src
                            /\ Remembered(b)!ActiveFact(k[f]) =>
                                 Remembered(b)!ActiveFact(f) /\ ~Remembered(b)!Uses(f, c)
      BY <2>2 DEF Remembered!FactRow, Remembered!ActiveFact
    <2>5. /\ h \in [mCands -> Remembered(b)!CandRow(mStored)]
          /\ k \in [mFacts -> Remembered(b)!FactRow(mStored)]
      BY <2>3, <2>4
    <2> HIDE DEF h, k
    <2>6. CandsOK(b, mCands', mStored)
      BY <1>1, <2>1, <2>3, <2>5, CandsMap
    <2>7. \A f \in mFacts : /\ k[f].id = f.id /\ k[f].prev = f.prev /\ k[f].subj = f.subj
                            /\ k[f].src # {}
                            /\ Remembered(b)!ActiveFact(k[f]) => Remembered(b)!ActiveFact(f)
      BY <2>2, <2>4
    <2>8. FactsOK(b, mFacts', mStored)
      <3>1. FactsOK(b, {k[f] : f \in mFacts}, mStored)
        <4>1. FactsOK(b, mFacts, mStored) /\ k \in [mFacts -> Remembered(b)!FactRow(mStored)]
          BY <1>1, <2>5
        <4> QED BY ONLY <4>1, <2>7, FactsMap
      <3> QED BY <2>1, <3>1
    <2>9. \A e \in mStored : b.Conv[e] # c => mMode'[b.Conv[e]] = mMode[b.Conv[e]]
      BY <1>1, <1>2, MemoryBounds DEF WorkerOK
    <2>10. \A x \in mCands' : \E y \in mCands : x = h[y]
      BY <2>1
    <2>11. \A x \in mFacts' : \E y \in mFacts : x = k[y]
      BY <2>1
    <2>12. AllowedOK(b, mCands', mFacts', mMode')
      <3>1. ASSUME NEW x \in mCands', x.st = "proposed", NEW e \in x.src
            PROVE  mMode'[b.Conv[e]] # "restricted"
        <4>1. PICK y \in mCands : x = h[y]
          BY <2>10
        <4>2. y.st = "proposed" /\ ~Remembered(b)!Uses(y, c) /\ e \in y.src
          BY <2>3, <3>1, <4>1
        <4>3. e \in mStored /\ b.Conv[e] # c
          BY <2>2, <4>2 DEF Remembered!CandRow, Remembered!Uses
        <4> QED BY <1>1, <2>9, <4>2, <4>3 DEF AllowedOK
      <3>2. ASSUME NEW x \in mFacts', Remembered(b)!ActiveFact(x), NEW e \in x.src
            PROVE  mMode'[b.Conv[e]] # "restricted"
        <4>1. PICK y \in mFacts : x = k[y]
          BY <2>11
        <4>2. Remembered(b)!ActiveFact(y) /\ ~Remembered(b)!Uses(y, c) /\ e \in y.src
          BY <2>4, <3>2, <4>1
        <4>3. e \in mStored /\ b.Conv[e] # c
          BY <2>2, <4>2 DEF Remembered!FactRow, Remembered!Uses
        <4> QED BY <1>1, <2>9, <4>2, <4>3 DEF AllowedOK
      <3> QED BY <3>1, <3>2 DEF AllowedOK
    <2> QED BY <1>2, <1>3, <2>6, <2>8, <2>12, MemoryWhole
  <1> QED BY <1>4, <1>5

(* A batch takes messages from the front of what is unread. *)
LEMMA MemoryFirst ==
    ASSUME NEW CONSTANT b, Remembered(b)!MemoryAssumption, NEW S \in SUBSET (1..b.Last), S # {}
    PROVE  LET T == Remembered(b)!FirstOf(Remembered(b)!Prefix(S))
           IN  /\ T # {} /\ T \subseteq S
               /\ \A x \in S, y \in T : x <= y => x \in T
  <1> DEFINE P == Remembered(b)!Prefix(S)
             T == Remembered(b)!FirstOf(P)
             Below(y) == {x \in P : x < y}
  <1>1. b.Last \in Nat /\ b.MaxBatch \in Nat /\ b.MaxBatch >= 1
    BY MemoryBounds
  <1>2. \A x \in S : x \in Nat
    BY <1>1
  <1>3. /\ Remembered(b)!Min(S) \in S /\ \A y \in S : Remembered(b)!Min(S) <= y
    <2>1. \E x \in S : \A y \in S : x <= y
      BY <1>2, Smallest
    <2> QED BY <2>1 DEF Remembered!Min
  <1> DEFINE first == Remembered(b)!Min(S)
  <1>10. first \in S /\ first \in Nat /\ \A x \in S : first <= x
    BY <1>2, <1>3
  <1>4. P = {e \in S : \A x \in S : b.Conv[x] # b.Conv[first] => e < x}
    BY DEF Remembered!Prefix
  <1>5. T = {e \in P : Cardinality(Below(e)) < b.MaxBatch}
    <2>1. \A A : Remembered(b)!Cardinality(A) = Cardinality(A)
      BY Zenon DEF Remembered!Cardinality, Cardinality
    <2> QED BY <2>1 DEF Remembered!FirstOf
  <1> HIDE DEF P, T, first
  <1>6. first \in P /\ P \subseteq S
    <2>1. \A x \in S : x # first => first < x
      BY ONLY <1>2, <1>10
    <2>2. \A x \in S : b.Conv[x] # b.Conv[first] => first < x
      BY <2>1, Zenon
    <2> QED BY <1>4, <1>10, <2>2
  <1>7. ASSUME NEW x \in S, NEW y \in P, x <= y
        PROVE  x \in P
    <2>1. ASSUME NEW z \in S, b.Conv[z] # b.Conv[first]
          PROVE  x < z
      <3>1. y < z
        BY <1>4, <2>1
      <3>2. x \in Nat /\ y \in Nat /\ z \in Nat
        BY <1>2, <1>6
      <3> QED BY ONLY <3>1, <3>2, x <= y
    <2> QED BY <1>4, <2>1
  <1>8. first \in T
    <2>1. \A x \in P : ~(x < first)
      BY ONLY <1>2, <1>6, <1>10
    <2>3. Below(first) = {}
      BY <2>1, Zenon
    <2>2. Cardinality(Below(first)) = 0
      BY <2>3, FS_EmptySet
    <2> QED BY <1>1, <1>5, <1>6, <2>2
  <1>9. ASSUME NEW x \in S, NEW y \in T, x <= y
        PROVE  x \in T
    <2>1. x \in P /\ y \in P
      BY <1>5, <1>7, <1>9
    <2>2. IsFiniteSet(Below(y))
      <3>1. IsFiniteSet(1..b.Last)
        <4>1. 1 \in Int /\ b.Last \in Int
          BY ONLY <1>1
        <4> QED BY ONLY <4>1, FS_Interval
      <3>2. Below(y) \in SUBSET (1..b.Last)
        BY <1>6
      <3> QED BY <3>1, <3>2, FS_Subset
    <2>3. Below(x) \in SUBSET Below(y)
      <3>1. \A z \in P : z < x => z < y
        BY ONLY <1>2, <1>6, <1>9, <2>1
      <3> QED BY <3>1
    <2>4. IsFiniteSet(Below(x)) /\ Cardinality(Below(x)) <= Cardinality(Below(y))
      BY <2>2, <2>3, FS_Subset
    <2>5. Cardinality(Below(x)) \in Nat /\ Cardinality(Below(y)) \in Nat
      BY <2>2, <2>4, FS_CardinalityType
    <2>6. Cardinality(Below(y)) < b.MaxBatch
      BY <1>5
    <2> QED BY <1>1, <1>5, <2>1, <2>4, <2>5, <2>6
  <1> QED BY <1>5, <1>6, <1>8, <1>9 DEF P, T

LEMMA MemoryMax ==
    ASSUME NEW CONSTANT b, NEW n \in Nat, NEW S \in SUBSET (1..n), S # {}
    PROVE  Remembered(b)!Max(S) \in S /\ \A x \in S : x <= Remembered(b)!Max(S)
  <1>1. \E x \in S : \A y \in S : x >= y
    <2>1. S \in SUBSET (0..n)
      OBVIOUS
    <2> QED BY <2>1, Largest
  <1>2. Remembered(b)!Max(S) \in S /\ \A y \in S : Remembered(b)!Max(S) >= y
    BY <1>1 DEF Remembered!Max
  <1> QED BY <1>2

(* Facts and what may be kept stay as they are. *)
LEMMA MemoryWorker ==
    ASSUME NEW CONSTANT b, Remembered(b)!MemoryInv,
           mCands' \in {mCands, Remembered(b)!Swept}, UNCHANGED <<mStored, mMode, mFacts>>,
           WorkerOK(b)'
    PROVE  Remembered(b)!MemoryInv'
  <1>1. /\ FactsOK(b, mFacts, mStored) /\ CandsOK(b, mCands, mStored)
        /\ AllowedOK(b, mCands, mFacts, mMode) /\ WorkerOK(b)
    BY MemoryParts
  <1>2. CandsOK(b, mCands', mStored) /\ AllowedOK(b, mCands', mFacts, mMode)
    <2>1. CASE mCands' = mCands
      BY <1>1, <2>1
    <2>2. CASE mCands' = Remembered(b)!Swept
      <3>1. CandsOK(b, Remembered(b)!Swept, mStored) /\ AllowedOK(b, Remembered(b)!Swept, mFacts, mMode)
        BY <1>1, SweptOK
      <3> QED BY <2>2, <3>1
    <2> QED BY <2>1, <2>2
  <1> QED BY <1>1, <1>2, MemoryWhole

(* A claim takes its batch from the front of what is unread, or of what was *)
(* deferred, and leaves a note of what a remote model passes over.          *)
LEMMA MemoryClaim ==
    ASSUME NEW CONSTANT b, Remembered(b)!MemoryAssumption, Remembered(b)!MemoryInv,
           Remembered(b)!claim_candidate_batch
    PROVE  Remembered(b)!MemoryInv'
  <1> DEFINE U == Remembered(b)!Unread
             T == Remembered(b)!FirstOf(Remembered(b)!Prefix(U))
             last == Remembered(b)!Max(T)
  <1>1. WorkerOK(b)
    BY MemoryParts
  <1>2. mStored \subseteq 1..b.Last /\ b.Last \in Nat
    BY <1>1, MemoryBounds DEF WorkerOK
  <1>3. U # {} /\ U \in SUBSET (1..b.Last) /\ U \subseteq mStored
    BY <1>2 DEF Remembered!claim_candidate_batch, Remembered!Unread
  <1>4. T # {} /\ T \subseteq U /\ \A x \in U, y \in T : x <= y => x \in T
    BY <1>3, MemoryFirst
  <1> HIDE DEF U, T
  <1>5. last \in T /\ \A x \in T : x <= last
    <2>1. T \in SUBSET (1..b.Last)
      BY <1>3, <1>4
    <2> QED BY <1>2, <1>4, <2>1, MemoryMax
  <1>6. /\ mBatch' = [events |-> T, next |-> last]
        /\ mDeferred' = IF mLocal THEN Remembered(b)!Purged ELSE mDeferred \cup Remembered(b)!Passed(last)
        /\ mCands' = Remembered(b)!Swept /\ mState' = [mState EXCEPT !.lease = "held"]
        /\ mBehind' = {e \in mBehind : e <= mState.cursor}
        /\ UNCHANGED <<mStored, mRecalled, mMode, mLocal, mFacts, mRead, mCommands>>
    BY DEF Remembered!claim_candidate_batch, Remembered!Unseen, U, T
  <1> HIDE DEF last
  <1>7. \A e \in T : Remembered(b)!Eligible(e) /\ e \in mStored /\ e > mState.cursor
    BY <1>4 DEF Remembered!Unread, U
  <1>8. \A e \in T : mMode[b.Conv[e]] # "restricted"
    BY <1>7 DEF Remembered!Eligible, Remembered!trust_clause
  <1>9. last \in Nat /\ mState.cursor \in Nat
    <2>1. \A e \in mStored : e \in Nat
      BY ONLY <1>2
    <2>2. last \in mStored /\ mState.cursor \in {0} \cup mStored
      BY <1>1, <1>5, <1>7 DEF WorkerOK
    <2> QED BY ONLY <2>1, <2>2
  <1>10. mDeferred' \subseteq mStored
    BY <1>1, <1>6 DEF WorkerOK, Remembered!Purged, Remembered!Passed
  <1>11. /\ mState' \in [cursor : {0} \cup mStored, lease : {"free", "held", "late"}]
         /\ mState'.cursor = mState.cursor
    BY <1>1, <1>6 DEF WorkerOK
  <1>12. mBatch' \in [events : SUBSET mStored, next : {0} \cup mStored] /\ mBatch'.events = T
         /\ mBatch'.next = last
    BY <1>5, <1>6, <1>7
  <1>13. ASSUME NEW e \in mStored, e \notin mRecalled, mMode[b.Conv[e]] # "restricted", e \in mDeferred
         PROVE  e \in mDeferred'
    <2>1. mMode[b.Conv[e]] \in {"normal", "local_only"}
      BY <1>1, <1>2, <1>13, MemoryBounds DEF WorkerOK, Remembered!Modes
    <2>2. mLocal => Remembered(b)!Eligible(e)
      BY <1>13, <2>1 DEF Remembered!Eligible, Remembered!Present, Remembered!trust_clause
    <2> QED BY <1>6, <1>13, <2>2 DEF Remembered!Purged
  <1>14. ASSUME NEW e \in mStored, e \notin mRecalled, mMode[b.Conv[e]] # "restricted",
                e <= last, e > mState.cursor
         PROVE  e \in mDeferred' \cup T
    <2>1. mMode[b.Conv[e]] \in {"normal", "local_only"} /\ e \in Nat
      BY <1>1, <1>2, <1>14, MemoryBounds DEF WorkerOK, Remembered!Modes
    <2>2. CASE Remembered(b)!Eligible(e)
      <3>1. e \in U
        BY <1>14, <2>2 DEF Remembered!Unread, U
      <3> QED BY <1>4, <1>5, <1>14, <3>1
    <2>3. CASE ~Remembered(b)!Eligible(e)
      <3>1. ~mLocal /\ mMode[b.Conv[e]] = "local_only"
        BY <1>1, <1>14, <2>1, <2>3
           DEF WorkerOK, Remembered!Eligible, Remembered!Present, Remembered!trust_clause
      <3>2. e < last
        BY <1>5, <1>7, <1>9, <1>14, <2>1, <2>3
      <3>3. e \in Remembered(b)!Passed(last)
        BY <1>14, <3>1, <3>2 DEF Remembered!Passed, Remembered!Present
      <3> QED BY <1>6, <3>1, <3>3
    <2> QED BY <2>2, <2>3
  <1>15. ASSUME NEW e \in mStored, e \notin mRecalled \cup mBehind',
                mMode[b.Conv[e]] # "restricted", e <= mState.cursor
         PROVE  e \in mRead \cup mDeferred'
    BY <1>1, <1>6, <1>13, <1>15 DEF WorkerOK, Remembered!NothingSkipped
  <1>16. Remembered(b)!NothingSkipped'
    BY <1>6, <1>11, <1>15 DEF Remembered!NothingSkipped
  <1>17. Remembered(b)!ClaimSkipsNothing'
    <2>1. \A e \in mStored : e \in Nat
      BY <1>2
    <2>2. \A e \in mStored \ (mRecalled \cup mBehind') : e <= last /\ mMode[b.Conv[e]] # "restricted"
            => e \in mRead \cup mDeferred' \cup T
      BY <1>9, <1>14, <1>15, <2>1
    <2> QED BY <1>6, <1>12, <2>2 DEF Remembered!ClaimSkipsNothing
  <1>18. Remembered(b)!ClaimMayBeKept'
    BY <1>6, <1>8, <1>12 DEF Remembered!ClaimMayBeKept
  <1>19. WorkerOK(b)'
    BY <1>1, <1>6, <1>10, <1>11, <1>12, <1>16, <1>17, <1>18 DEF WorkerOK
  <1> QED BY <1>6, <1>19, MemoryWorker

(* A local model takes deferred messages first. *)
LEMMA MemoryDeferred ==
    ASSUME NEW CONSTANT b, Remembered(b)!MemoryAssumption, Remembered(b)!MemoryInv,
           Remembered(b)!claim_deferred_batch
    PROVE  Remembered(b)!MemoryInv'
  <1> DEFINE U == Remembered(b)!Purged
             T == Remembered(b)!FirstOf(Remembered(b)!Prefix(U))
  <1>1. WorkerOK(b)
    BY MemoryParts
  <1>2. mStored \subseteq 1..b.Last /\ b.Last \in Nat
    BY <1>1, MemoryBounds DEF WorkerOK
  <1>3. /\ U # {} /\ mLocal /\ U = {e \in mDeferred : Remembered(b)!Eligible(e)}
        /\ U \in SUBSET (1..b.Last)
    BY <1>1, <1>2 DEF Remembered!claim_deferred_batch, Remembered!Purged, Remembered!Consumes, WorkerOK
  <1>4. T # {} /\ T \subseteq U
    BY <1>3, MemoryFirst
  <1> HIDE DEF T
  <1>5. /\ mBatch' = [events |-> T, next |-> mState.cursor] /\ mDeferred' = U
        /\ mCands' = Remembered(b)!Swept /\ mState' = [mState EXCEPT !.lease = "held"]
        /\ mBehind' = {e \in mBehind : e <= mState.cursor}
        /\ UNCHANGED <<mStored, mRecalled, mMode, mLocal, mFacts, mRead, mCommands>>
    BY DEF Remembered!claim_deferred_batch, Remembered!Unseen, T
  <1> HIDE DEF U
  <1>6. \A e \in T : mMode[b.Conv[e]] # "restricted"
    BY <1>3, <1>4 DEF Remembered!Eligible, Remembered!trust_clause
  <1>7. U \subseteq mStored
    BY <1>1, <1>3 DEF WorkerOK
  <1>8. /\ mState' \in [cursor : {0} \cup mStored, lease : {"free", "held", "late"}]
        /\ mState'.cursor = mState.cursor
    BY <1>1, <1>5 DEF WorkerOK
  <1>9. /\ mBatch' \in [events : SUBSET mStored, next : {0} \cup mStored]
        /\ mBatch'.events = T /\ mBatch'.next = mState.cursor
    BY <1>1, <1>4, <1>5, <1>7 DEF WorkerOK
  <1>10. ASSUME NEW e \in mStored, e \notin mRecalled \cup mBehind',
                mMode[b.Conv[e]] # "restricted", e <= mState.cursor
         PROVE  e \in mRead \cup mDeferred'
    <2>1. mMode[b.Conv[e]] \in {"normal", "local_only"}
      BY <1>1, <1>2, <1>10, MemoryBounds DEF WorkerOK, Remembered!Modes
    <2>2. Remembered(b)!Eligible(e)
      BY <1>3, <1>10, <2>1 DEF Remembered!Eligible, Remembered!Present, Remembered!trust_clause
    <2> QED BY <1>1, <1>3, <1>5, <1>10, <2>2 DEF WorkerOK, Remembered!NothingSkipped
  <1>11. Remembered(b)!NothingSkipped'
    BY <1>5, <1>8, <1>10 DEF Remembered!NothingSkipped
  <1>12. Remembered(b)!ClaimSkipsNothing'
    BY <1>5, <1>9, <1>10 DEF Remembered!ClaimSkipsNothing
  <1>13. Remembered(b)!ClaimMayBeKept'
    BY <1>5, <1>6, <1>9 DEF Remembered!ClaimMayBeKept
  <1>14. WorkerOK(b)'
    BY <1>1, <1>5, <1>7, <1>8, <1>9, <1>11, <1>12, <1>13 DEF WorkerOK
  <1> QED BY <1>5, <1>14, MemoryWorker

LEMMA MemoryScan ==
    ASSUME NEW CONSTANT b, Remembered(b)!MemoryAssumption, Remembered(b)!MemoryInv,
           Remembered(b)!scan_without_batch
    PROVE  Remembered(b)!MemoryInv'
  <1>1. WorkerOK(b)
    BY MemoryParts
  <1>2. /\ mCands' = Remembered(b)!Swept /\ mBatch = Remembered(b)!NoBatch
        /\ UNCHANGED <<mStored, mRecalled, mMode, mLocal, mFacts, mRead, mBehind, mBatch,
                       mCommands>>
        /\ mDeferred' \in {mDeferred, Remembered(b)!Purged}
        /\ mState' \in {mState, [mState EXCEPT !.lease = "free"]}
    BY DEF Remembered!scan_without_batch, Remembered!worker
  <1>3. /\ mState' \in [cursor : {0} \cup mStored, lease : {"free", "held", "late"}]
        /\ mState'.cursor = mState.cursor
    BY <1>1, <1>2 DEF WorkerOK
  <1>4. mDeferred' \subseteq mDeferred
    BY <1>2 DEF Remembered!Purged
  <1>5. ASSUME NEW e \in mStored, e \notin mRecalled, mMode[b.Conv[e]] # "restricted", e \in mDeferred
        PROVE  e \in mDeferred'
    <2>1. mMode[b.Conv[e]] \in {"normal", "local_only"}
      BY <1>1, <1>5, MemoryBounds DEF WorkerOK, Remembered!Modes
    <2>2. mLocal => Remembered(b)!Eligible(e)
      BY <1>5, <2>1 DEF Remembered!Eligible, Remembered!Present, Remembered!trust_clause
    <2> QED BY <1>2, <1>5, <2>2 DEF Remembered!Purged, Remembered!Consumes
  <1>6. Remembered(b)!NothingSkipped'
    BY <1>1, <1>2, <1>3, <1>5 DEF WorkerOK, Remembered!NothingSkipped
  <1>7. Remembered(b)!ClaimSkipsNothing' /\ Remembered(b)!ClaimMayBeKept'
    BY <1>2 DEF Remembered!ClaimSkipsNothing, Remembered!ClaimMayBeKept, Remembered!NoBatch
  <1>8. WorkerOK(b)'
    BY <1>1, <1>2, <1>3, <1>4, <1>6, <1>7 DEF WorkerOK
  <1> QED BY <1>2, <1>8, MemoryWorker

(* A claim is given up, or its lease ends. *)
LEMMA MemoryGivesUp ==
    ASSUME NEW CONSTANT b, Remembered(b)!MemoryAssumption, Remembered(b)!MemoryInv,
           \/ Remembered(b)!release_candidate_claim \/ Remembered(b)!LeaseEnds
           \/ Remembered(b)!Lose \/ Remembered(b)!Reconfigure
    PROVE  Remembered(b)!MemoryInv'
  <1>1. WorkerOK(b)
    BY MemoryParts
  <1>2. UNCHANGED <<mStored, mRecalled, mMode, mDeferred, mCands, mFacts, mRead, mBehind>>
    BY DEF Remembered!release_candidate_claim, Remembered!LeaseEnds, Remembered!Lose,
           Remembered!Reconfigure
  <1>3. /\ mState' \in {mState, [mState EXCEPT !.lease = "free"], [mState EXCEPT !.lease = "late"]}
        /\ mBatch' = Remembered(b)!NoBatch \/ (mBatch' = mBatch /\ mState'.lease # "held")
    BY <1>1 DEF Remembered!release_candidate_claim, Remembered!LeaseEnds, Remembered!Lose,
                Remembered!Reconfigure, WorkerOK
  <1>4. mLocal' \in BOOLEAN /\ mCommands' \in 0..b.MaxCommands
    <2>1. \/ UNCHANGED <<mLocal, mCommands>>
          \/ mLocal' = ~mLocal /\ mCommands < b.MaxCommands /\ mCommands' = mCommands + 1
      BY DEF Remembered!release_candidate_claim, Remembered!LeaseEnds, Remembered!Lose,
             Remembered!Reconfigure, Remembered!Command
    <2>2. mCommands \in 0..b.MaxCommands /\ b.MaxCommands \in Nat
      BY <1>1, MemoryBounds DEF WorkerOK
    <2>3. mLocal' \in BOOLEAN
      BY <1>1, <2>1, Zenon DEF WorkerOK
    <2> QED BY <2>1, <2>2, <2>3
  <1>5. /\ mState' \in [cursor : {0} \cup mStored, lease : {"free", "held", "late"}]
        /\ mState'.cursor = mState.cursor
    BY <1>1, <1>3 DEF WorkerOK
  <1>6. mBatch' \in [events : SUBSET mStored, next : {0} \cup mStored]
    BY <1>1, <1>3 DEF WorkerOK, Remembered!NoBatch
  <1>7. Remembered(b)!NothingSkipped'
    BY <1>1, <1>2, <1>5 DEF WorkerOK, Remembered!NothingSkipped
  <1>8. Remembered(b)!ClaimSkipsNothing' /\ Remembered(b)!ClaimMayBeKept'
    BY <1>3 DEF Remembered!ClaimSkipsNothing, Remembered!ClaimMayBeKept, Remembered!Owned,
                Remembered!NoBatch
  <1>9. WorkerOK(b)'
    BY <1>1, <1>2, <1>4, <1>5, <1>6, <1>7, <1>8 DEF WorkerOK
  <1> QED BY <1>2, <1>9, MemoryWorker

(* The batch is committed by the owner of the lease. *)
LEMMA MemoryCommit ==
    ASSUME NEW CONSTANT b, Remembered(b)!MemoryAssumption, Remembered(b)!MemoryInv, Remembered(b)!Commit
    PROVE  Remembered(b)!MemoryInv'
  <1>1. /\ FactsOK(b, mFacts, mStored) /\ CandsOK(b, mCands, mStored)
        /\ AllowedOK(b, mCands, mFacts, mMode) /\ WorkerOK(b)
    BY MemoryParts
  <1>2. PICK chosen \in Remembered(b)!map_candidates(mBatch.events) :
               Remembered(b)!commit_candidates(chosen)
    BY DEF Remembered!Commit
  <1>3. /\ mBatch # Remembered(b)!NoBatch /\ Remembered(b)!Owned
        /\ mDeferred' = mDeferred \ mBatch.events
        /\ mState' = [cursor |-> mBatch.next, lease |-> "free"]
        /\ mRead' = mRead \cup mBatch.events /\ mBatch' = Remembered(b)!NoBatch
        /\ UNCHANGED <<mStored, mRecalled, mMode, mLocal, mFacts, mBehind, mCommands>>
    BY <1>2 DEF Remembered!commit_candidates
  <1>4. PICK new \in SUBSET chosen : Remembered(b)!Inserts(chosen, new) /\ mCands' = mCands \cup new
    BY <1>2 DEF Remembered!commit_candidates
  <1>5. mBatch \in [events : SUBSET mStored, next : {0} \cup mStored] /\ mStored \subseteq Remembered(b)!Events
    BY <1>1 DEF WorkerOK
  <1>6. \A c \in new : /\ c \in Remembered(b)!CandRow(mStored) /\ c.of \in c.src
                       /\ c.src \subseteq mBatch.events
    <2>1. \A c \in chosen : c \in Remembered(b)!Proposals(mBatch.events)
      BY <1>2 DEF Remembered!map_candidates
    <2>2. \A c \in chosen : /\ c \in [of : mBatch.events, src : SUBSET mBatch.events, st : {"proposed"}]
                            /\ c.of \in c.src
      <3>1. {{e, x} : e, x \in mBatch.events} \subseteq SUBSET mBatch.events
        OBVIOUS
      <3> QED BY <2>1, <3>1 DEF Remembered!Proposals
    <2> QED BY <1>5, <2>2 DEF Remembered!CandRow
  <1>7. CandsOK(b, mCands', mStored)
    <2>1. \A c \in new, d \in mCands :
             Remembered(b)!candidate_fingerprint(c) # Remembered(b)!candidate_fingerprint(d)
      BY <1>4 DEF Remembered!Inserts, Remembered!Fresh
    <2>2. \A c, d \in new :
             Remembered(b)!candidate_fingerprint(c) = Remembered(b)!candidate_fingerprint(d) => c = d
      BY <1>4 DEF Remembered!Inserts
    <2>3. mCands' \subseteq Remembered(b)!CandRow(mStored) /\ \A c \in mCands' : c.of \in c.src
      BY <1>1, <1>4, <1>6 DEF CandsOK
    <2>4. \A c, d \in mCands :
             Remembered(b)!candidate_fingerprint(c) = Remembered(b)!candidate_fingerprint(d) => c = d
      BY <1>1 DEF CandsOK
    <2>5. \A c, d \in mCands' :
             Remembered(b)!candidate_fingerprint(c) = Remembered(b)!candidate_fingerprint(d) => c = d
      BY <1>4, <2>1, <2>2, <2>4
    <2> QED BY <2>3, <2>5 DEF CandsOK
  <1>8. AllowedOK(b, mCands', mFacts', mMode)
    <2>1. \A e \in mBatch.events : mMode[b.Conv[e]] # "restricted"
      BY <1>1, <1>3 DEF WorkerOK, Remembered!ClaimMayBeKept
    <2> QED BY <1>1, <1>3, <1>4, <1>6, <2>1 DEF AllowedOK
  <1>9. WorkerOK(b)'
    <2>1. /\ mState' \in [cursor : {0} \cup mStored, lease : {"free", "held", "late"}]
          /\ mState'.cursor = mBatch.next
      BY <1>3, <1>5
    <2>2. mDeferred' \subseteq mStored /\ mRead' \subseteq mStored
      BY <1>1, <1>3, <1>5 DEF WorkerOK
    <2>3. mBatch' \in [events : SUBSET mStored, next : {0} \cup mStored]
      BY <1>3 DEF Remembered!NoBatch
    <2>4. Remembered(b)!ClaimMayBeKept' /\ Remembered(b)!ClaimSkipsNothing'
      BY <1>3 DEF Remembered!ClaimMayBeKept, Remembered!ClaimSkipsNothing, Remembered!NoBatch
    <2>5. \A e \in mStored \ (mRecalled \cup mBehind) :
             e <= mBatch.next /\ mMode[b.Conv[e]] # "restricted"
             => e \in mRead \cup mDeferred \cup mBatch.events
      BY <1>1, <1>3 DEF WorkerOK, Remembered!ClaimSkipsNothing
    <2>6. Remembered(b)!NothingSkipped'
      BY <1>3, <2>1, <2>5 DEF Remembered!NothingSkipped
    <2> QED BY <1>1, <1>3, <2>1, <2>2, <2>3, <2>4, <2>6 DEF WorkerOK
  <1> QED BY <1>1, <1>3, <1>7, <1>8, <1>9, MemoryWhole

LEMMA MemoryArrival ==
    ASSUME NEW CONSTANT b, Remembered(b)!MemoryAssumption, Remembered(b)!MemoryInv,
           NEW e \in Remembered(b)!Events, Remembered(b)!Store(e) \/ Remembered(b)!Recall(e)
    PROVE  Remembered(b)!MemoryInv'
  <1>1. /\ FactsOK(b, mFacts, mStored) /\ CandsOK(b, mCands, mStored)
        /\ AllowedOK(b, mCands, mFacts, mMode) /\ WorkerOK(b)
    BY MemoryParts
  <1>2. /\ UNCHANGED <<mMode, mLocal, mState, mDeferred, mBatch, mRead, mCands, mFacts, mCommands>>
        /\ mStored \subseteq mStored' /\ mRecalled \subseteq mRecalled'
        /\ mStored' \subseteq mStored \cup {e} /\ mRecalled' \subseteq mStored'
        /\ mBehind \subseteq mBehind' /\ mBehind' \subseteq mBehind \cup {e}
        /\ e \in mBehind' \ mBehind => e \in mStored'
        /\ e \in mStored' \ mStored => ~(e <= Remembered(b)!Front) \/ e \in mBehind'
    BY <1>1, MemoryBounds DEF Remembered!Store, Remembered!Recall, Remembered!worker, WorkerOK
  <1>3. mStored \subseteq 1..b.Last /\ b.Last \in Nat /\ e \in 1..b.Last
    BY <1>1, MemoryBounds DEF WorkerOK
  <1>4. FactsOK(b, mFacts', mStored') /\ CandsOK(b, mCands', mStored')
    <2>1. Remembered(b)!FactRow(mStored) \subseteq Remembered(b)!FactRow(mStored')
      BY <1>2 DEF Remembered!FactRow
    <2>2. Remembered(b)!CandRow(mStored) \subseteq Remembered(b)!CandRow(mStored')
      BY <1>2 DEF Remembered!CandRow
    <2> QED BY <1>1, <1>2, <2>1, <2>2 DEF FactsOK, CandsOK
  <1>5. AllowedOK(b, mCands', mFacts', mMode')
    BY <1>1, <1>2
  <1>6. mState.cursor \in Nat /\ mBatch.next \in Nat
    <2>1. mState.cursor \in {0} \cup mStored /\ mBatch.next \in {0} \cup mStored
      BY <1>1 DEF WorkerOK
    <2>2. \A x \in mStored : x \in Nat
      BY ONLY <1>3
    <2> QED BY ONLY <2>1, <2>2
  <1>7. ASSUME NEW x \in mStored', x \notin mBehind', x <= mState.cursor \/ x <= mBatch.next
        PROVE  x \in mStored
    <2>1. Remembered(b)!Front \in Nat /\ mState.cursor <= Remembered(b)!Front
          /\ mBatch.next <= Remembered(b)!Front
      BY <1>6 DEF Remembered!Front
    <2>2. x = e => x <= Remembered(b)!Front
      BY <1>3, <1>6, <1>7, <2>1
    <2> QED BY <1>2, <1>7, <2>2
  <1>8. mBehind' \subseteq mStored'
    BY <1>1, <1>2 DEF WorkerOK
  <1>9. Remembered(b)!NothingSkipped' /\ Remembered(b)!ClaimSkipsNothing'
        /\ Remembered(b)!ClaimMayBeKept'
    <2>1. Remembered(b)!NothingSkipped'
      BY <1>1, <1>2, <1>7 DEF WorkerOK, Remembered!NothingSkipped
    <2>2. Remembered(b)!ClaimSkipsNothing'
      BY <1>1, <1>2, <1>7 DEF WorkerOK, Remembered!ClaimSkipsNothing, Remembered!Owned,
                              Remembered!NoBatch
    <2>3. Remembered(b)!ClaimMayBeKept'
      BY <1>1, <1>2 DEF WorkerOK, Remembered!ClaimMayBeKept, Remembered!Owned, Remembered!NoBatch
    <2> QED BY <2>1, <2>2, <2>3
  <1>10. WorkerOK(b)'
    <2>1. mStored' \subseteq Remembered(b)!Events
      BY <1>1, <1>2 DEF WorkerOK
    <2>2. /\ mRead' \subseteq mStored' /\ mDeferred' \subseteq mStored'
          /\ mState' \in [cursor : {0} \cup mStored', lease : {"free", "held", "late"}]
          /\ mBatch' \in [events : SUBSET mStored', next : {0} \cup mStored']
      BY <1>1, <1>2 DEF WorkerOK
    <2> QED BY <1>1, <1>2, <1>8, <1>9, <2>1, <2>2 DEF WorkerOK
  <1> QED BY <1>4, <1>5, <1>10, MemoryWhole

LEMMA MemoryInit ==
    ASSUME NEW CONSTANT b, Remembered(b)!MemoryAssumption, Remembered(b)!Init
    PROVE  Remembered(b)!MemoryInv
  <1>1. /\ mStored = {} /\ mRecalled = {} /\ mMode = [c \in Remembered(b)!Convs |-> "normal"]
        /\ mLocal = FALSE /\ mState = [cursor |-> 0, lease |-> "free"] /\ mDeferred = {}
        /\ mBatch = Remembered(b)!NoBatch /\ mRead = {} /\ mBehind = {} /\ mCands = {} /\ mFacts = {}
        /\ mCommands = 0
    BY DEF Remembered!Init, Remembered!NoState
  <1>2. b.MaxFacts \in Nat /\ b.MaxCommands \in Nat
    BY MemoryBounds
  <1>3. Remembered(b)!TypeOK
    <2>1. mMode \in [Remembered(b)!Convs -> Remembered(b)!Modes]
      BY <1>1 DEF Remembered!Modes
    <2>2. mState \in [cursor : {0} \cup mStored, lease : {"free", "held", "late"}]
      BY <1>1
    <2>3. mBatch \in [events : SUBSET mStored, next : {0} \cup mStored]
      BY <1>1 DEF Remembered!NoBatch
    <2>4. mCommands \in 0..b.MaxCommands
      BY <1>1, <1>2
    <2>5. /\ mStored \subseteq Remembered(b)!Events /\ mRecalled \subseteq mStored
          /\ mRead \subseteq mStored /\ mLocal \in BOOLEAN /\ mDeferred \subseteq mStored
          /\ mBehind \subseteq mStored
      BY <1>1
    <2>6. /\ mCands \subseteq Remembered(b)!CandRow(mStored) /\ mFacts \subseteq Remembered(b)!FactRow(mStored)
          /\ (\A c \in mCands : c.of \in c.src)
          /\ \A f \in mFacts : f.src # {} /\ f.prev \in {NoFact} \cup 1..(f.id - 1)
      BY <1>1
    <2> QED BY <2>1, <2>2, <2>3, <2>4, <2>5, <2>6 DEF Remembered!TypeOK
  <1>4. Remembered(b)!Numbered
    <2>1. {f.id : f \in mFacts} = 1..0
      BY <1>1
    <2> QED BY <1>1, <1>2, <2>1 DEF Remembered!Numbered
  <1>5. /\ Remembered(b)!RevisedIsOver /\ Remembered(b)!RevisionsAreAChain
        /\ Remembered(b)!OneFactPerSubject /\ Remembered(b)!ProposedOnce
        /\ Remembered(b)!RestrictedLeavesNothing
    BY <1>1 DEF Remembered!RevisedIsOver, Remembered!RevisionsAreAChain,
                Remembered!OneFactPerSubject, Remembered!ProposedOnce,
                Remembered!RestrictedLeavesNothing
  <1>6. /\ Remembered(b)!ClaimMayBeKept /\ Remembered(b)!NothingSkipped
        /\ Remembered(b)!ClaimSkipsNothing
    BY <1>1 DEF Remembered!ClaimMayBeKept, Remembered!NothingSkipped, Remembered!ClaimSkipsNothing
  <1> QED BY <1>3, <1>4, <1>5, <1>6 DEF Remembered!MemoryInv

LEMMA MemoryNext ==
    ASSUME NEW CONSTANT b, Remembered(b)!MemoryAssumption, Remembered(b)!MemoryInv, Remembered(b)!Next
    PROVE  Remembered(b)!MemoryInv'
  <1>1. CASE \E e \in Remembered(b)!Events : Remembered(b)!Store(e) \/ Remembered(b)!Recall(e)
    BY <1>1, MemoryArrival
  <1>2. CASE \/ Remembered(b)!claim_deferred_batch \/ Remembered(b)!claim_candidate_batch
             \/ Remembered(b)!scan_without_batch \/ Remembered(b)!Commit
    BY <1>2, MemoryDeferred, MemoryClaim, MemoryScan, MemoryCommit
  <1>3. CASE \/ Remembered(b)!release_candidate_claim \/ Remembered(b)!LeaseEnds
             \/ Remembered(b)!Lose \/ Remembered(b)!Reconfigure
    BY <1>3, MemoryGivesUp
  <1>4. CASE \E c \in mCands : Remembered(b)!apply_approve(c) \/ Remembered(b)!apply_reject(c)
    BY <1>4, MemoryApprove, MemoryReject
  <1>5. CASE \E e \in mStored, st \in {"proposed", "confirmed"} :
               Remembered(b)!append_fact(b.Subject[e], b.Says[e], st, {e})
    BY <1>5, MemoryAppend
  <1>6. CASE \E f \in mFacts : Remembered(b)!CorrectMemoryFact(f) \/ Remembered(b)!SetMemoryFactTtl(f)
    <2>1. PICK f \in mFacts : Remembered(b)!CorrectMemoryFact(f) \/ Remembered(b)!SetMemoryFactTtl(f)
      BY <1>6
    <2>2. f.pay \in Remembered(b)!Payloads /\ f.src \in SUBSET mStored
      BY DEF Remembered!MemoryInv, Remembered!TypeOK, Remembered!FactRow
    <2>3. \E pay \in Remembered(b)!Payloads, src \in SUBSET mStored, ttl \in BOOLEAN :
             Remembered(b)!append_owner_memory_revision(f, pay, src, ttl)
      <3>1. CASE Remembered(b)!CorrectMemoryFact(f)
        <4>1. PICK pay \in Remembered(b)!Payloads, e \in mStored, ttl \in BOOLEAN :
                 Remembered(b)!append_owner_memory_revision(f, pay, {e}, ttl)
          BY <3>1 DEF Remembered!CorrectMemoryFact
        <4>2. {e} \in SUBSET mStored
          OBVIOUS
        <4> QED BY <4>1, <4>2
      <3>2. CASE Remembered(b)!SetMemoryFactTtl(f)
        BY <2>2, <3>2 DEF Remembered!SetMemoryFactTtl
      <3> QED BY <2>1, <3>1, <3>2
    <2> QED BY <2>3, MemoryRevise
  <1>7. CASE \E f \in mFacts : Remembered(b)!DeleteMemoryFact(f) \/ Remembered(b)!expire_due(f)
    BY <1>7, MemoryEnd
  <1>8. CASE \E c \in Remembered(b)!Convs, m \in Remembered(b)!Modes :
               Remembered(b)!set_conversation_mode(c, m)
    BY <1>8, MemoryMode
  <1> QED BY <1>1, <1>2, <1>3, <1>4, <1>5, <1>6, <1>7, <1>8 DEF Remembered!Next

LEMMA MemoryStutters ==
    ASSUME NEW CONSTANT b, Remembered(b)!MemoryInv, UNCHANGED memoryVars
    PROVE  Remembered(b)!MemoryInv'
  <1>1. /\ FactsOK(b, mFacts, mStored) /\ CandsOK(b, mCands, mStored)
        /\ AllowedOK(b, mCands, mFacts, mMode) /\ WorkerOK(b)
    BY MemoryParts
  <1>2. UNCHANGED <<mStored, mRecalled, mMode, mLocal, mState, mDeferred, mBatch, mRead, mBehind,
                    mCommands, mCands, mFacts>>
    BY DEF memoryVars
  <1>3. WorkerOK(b)'
    BY <1>1, <1>2, WorkerFrame
  <1> QED BY <1>1, <1>2, <1>3, MemoryWhole

(* A behaviour of Knowledge is one of the topic that was chosen.            *)
LEMMA ChosenTopic ==
    ASSUME [KnowledgeNext]_knowledge
    PROVE  /\ topic' = topic
           /\ topic = "facts" => Remembered(FactBounds)!Next \/ UNCHANGED memoryVars
           /\ topic = "revisions" => Remembered(RevisionBounds)!Next \/ UNCHANGED memoryVars
           /\ topic = "scan" => Remembered(ScanBounds)!Next \/ UNCHANGED memoryVars
           /\ topic = "remote" => Viewed(Remotely, FALSE)!Next \/ UNCHANGED retrievalVars
           /\ topic = "local" => Viewed(Locally, TRUE)!Next \/ UNCHANGED retrievalVars
           /\ topic = "pages" => Pages!Next \/ UNCHANGED pageVars
  <1>1. CASE KnowledgeNext
    BY <1>1 DEF KnowledgeNext
  <1>2. CASE UNCHANGED knowledge
    BY <1>2 DEF knowledge
  <1> QED BY <1>1, <1>2

RememberedInv ==
    /\ topic = "facts" => Remembered(FactBounds)!MemoryInv
    /\ topic = "revisions" => Remembered(RevisionBounds)!MemoryInv
    /\ topic = "scan" => Remembered(ScanBounds)!MemoryInv

(* Within any bounds, through every approval, correction, recall, change of *)
(* mode and lost lease (mysql_memory_candidate.rs, mysql_memory.rs): facts  *)
(* are numbered as they come, one that was revised never holds again, and   *)
(* a batch in hand under its lease leaves nothing behind it unread.         *)
THEOREM MemoryInvariant == KnowledgeSpec => []RememberedInv
  <1>1. KnowledgeInit => RememberedInv
    <2> SUFFICES ASSUME KnowledgeInit PROVE RememberedInv
      OBVIOUS
    <2>1. topic = "facts" => Remembered(FactBounds)!Init
      BY DEF KnowledgeInit
    <2>2. topic = "revisions" => Remembered(RevisionBounds)!Init
      BY DEF KnowledgeInit
    <2>3. topic = "scan" => Remembered(ScanBounds)!Init
      BY DEF KnowledgeInit
    <2> QED BY <2>1, <2>2, <2>3, MemoryInit, KnowledgeAssumption DEF RememberedInv
  <1>2. RememberedInv /\ [KnowledgeNext]_knowledge => RememberedInv'
    <2> SUFFICES ASSUME RememberedInv, [KnowledgeNext]_knowledge PROVE RememberedInv'
      OBVIOUS
    <2>1. topic' = topic
      BY ChosenTopic
    <2>2. CASE topic = "facts"
      <3>1. Remembered(FactBounds)!Next \/ UNCHANGED memoryVars
        BY <2>2, ChosenTopic
      <3>2. Remembered(FactBounds)!MemoryInv'
        BY <2>2, <3>1, MemoryNext, MemoryStutters, KnowledgeAssumption DEF RememberedInv
      <3> QED BY <2>1, <2>2, <3>2 DEF RememberedInv
    <2>3. CASE topic = "revisions"
      <3>1. Remembered(RevisionBounds)!Next \/ UNCHANGED memoryVars
        BY <2>3, ChosenTopic
      <3>2. Remembered(RevisionBounds)!MemoryInv'
        BY <2>3, <3>1, MemoryNext, MemoryStutters, KnowledgeAssumption DEF RememberedInv
      <3> QED BY <2>1, <2>3, <3>2 DEF RememberedInv
    <2>4. CASE topic = "scan"
      <3>1. Remembered(ScanBounds)!Next \/ UNCHANGED memoryVars
        BY <2>4, ChosenTopic
      <3>2. Remembered(ScanBounds)!MemoryInv'
        BY <2>4, <3>1, MemoryNext, MemoryStutters, KnowledgeAssumption DEF RememberedInv
      <3> QED BY <2>1, <2>4, <3>2 DEF RememberedInv
    <2>5. CASE topic \notin {"facts", "revisions", "scan"}
      BY <2>1, <2>5 DEF RememberedInv
    <2> QED BY <2>2, <2>3, <2>4, <2>5
  <1> QED BY <1>1, <1>2, PTL DEF KnowledgeSpec

(* One fact holds of a subject at a time, the revisions of a fact are a     *)
(* chain, and a conversation taken out of memory leaves no candidate and no *)
(* fact, whatever a worker commits that read it before.                     *)
THEOREM FactsAreConsistent == KnowledgeSpec => []FactsConsistent
  <1>1. RememberedInv => FactsConsistent
    BY DEF RememberedInv, FactsConsistent, Remembered!MemoryInv
  <1> QED BY <1>1, MemoryInvariant, PTL

(* The cursor of the account passes by no message that may be used and was  *)
(* committed when the claim looked that moves it (messages are committed in *)
(* any order), and what was proposed once is not proposed again.            *)
THEOREM ScanReadsAll == KnowledgeSpec => []ScanSkipsNothing
  <1>1. RememberedInv => ScanSkipsNothing
    BY DEF RememberedInv, ScanSkipsNothing, Remembered!MemoryInv
  <1> QED BY <1>1, MemoryInvariant, PTL

-----------------------------------------------------------------------------
(* 7. What a view shows, for any messages b and a remote or a local model.  *)

LEMMA ViewVisible ==
    ASSUME NEW CONSTANT b, NEW CONSTANT local, Viewed(b, local)!ViewInv,
           call # Viewed(b, local)!Idle, call.pc # "done",
           NEW e, Viewed(b, local)!Seen(Viewed(b, local)!Reader(call.pc), e)
    PROVE  e \notin call.hidden
  BY DEF Viewed!ViewInv

(* Most statements read for the owner. *)
LEMMA ViewOwned ==
    ASSUME NEW CONSTANT b, NEW CONSTANT local, Viewed(b, local)!ViewInv,
           call # Viewed(b, local)!Idle, call.pc # "done",
           Viewed(b, local)!Reader(call.pc) = "owner", NEW e, Viewed(b, local)!Visible(e)
    PROVE  e \notin call.hidden
  BY ViewVisible DEF Viewed!Visible

LEMMA ViewSources ==
    ASSUME NEW CONSTANT b, NEW CONSTANT local, NEW R, NEW reader,
           \A d \in R : Viewed(b, local)!SourcesSeen(reader, d)
    PROVE  \A e \in Viewed(b, local)!SourcesOf(R) : Viewed(b, local)!Seen(reader, e)
  BY DEF Viewed!SourcesOf, Viewed!SourcesSeen

(* A statement keeps what the call was asked and what is hidden from it. *)
LEMMA ViewStep ==
    ASSUME NEW CONSTANT b, NEW CONSTANT local, Viewed(b, local)!ViewInv,
           UNCHANGED Viewed(b, local)!store, call # Viewed(b, local)!Idle,
           call' = [f \in Viewed(b, local)!CallFields |-> call'[f]],
           call'.pc \notin {"idle", "event_causal_context"}, call'.op = call.op,
           call'.hidden = call.hidden,
           call'.shown \cap call'.hidden \subseteq Viewed(b, local)!LinkedSince(call'),
           call'.pc # "done" =>
             /\ Viewed(b, local)!Reader(call'.pc) = Viewed(b, local)!Reader(call.op)
             /\ call'.pc \in Viewed(b, local)!CausalPlaces => call.op = "event_causal_context"
             /\ call'.reply # 0 => call'.reply = b.reply_to[call'.arg]
             /\ call'.parent # 0 => call'.parent = call'.reply /\ call'.parent \notin call.hidden
    PROVE  Viewed(b, local)!ViewInv'
  <1>1. \A e \in call.hidden :
           ~Viewed(b, local)!Shows(Viewed(b, local)!Reader(call.op), rMode, rStored, rRecalled, e)
    BY DEF Viewed!ViewInv, Viewed!Seen
  <1>2. \A e \in call'.hidden :
           ~Viewed(b, local)!Shows(Viewed(b, local)!Reader(call'.op), rMode', rStored', rRecalled', e)
    BY <1>1 DEF Viewed!store
  <1>3. Viewed(b, local)!Reader(call'.pc) = Viewed(b, local)!Reader(call'.op) \/ call'.pc = "done"
    OBVIOUS
  <1> QED BY <1>2, <1>3 DEF Viewed!ViewInv, Viewed!Seen

(* Where a call may stand after a statement that reads for the owner. *)
ViewPlaces == {"parent", "thread", "participants", "relations", "requesters", "commitments", "actors",
               "decision", "question", "claim", "project_sources", "person"}

LEMMA ViewPlacesOwned ==
    ASSUME NEW CONSTANT b, NEW CONSTANT local, NEW to \in ViewPlaces
    PROVE  Viewed(b, local)!Reader(to) = "owner" /\ to \notin {"idle", "event_causal_context"}
  BY DEF ViewPlaces, Viewed!Reader, Viewed!ModelSearches, Viewed!FactReaders

(* The forms in which the statements of a call end. *)
LEMMA ViewAdds ==
    ASSUME NEW CONSTANT b, NEW CONSTANT local, Viewed(b, local)!ViewInv,
           UNCHANGED Viewed(b, local)!store, call # Viewed(b, local)!Idle, call.pc # "done",
           Viewed(b, local)!Reader(call.pc) = "owner",
           NEW S, \A e \in S : e \notin call.hidden \/ e \in Viewed(b, local)!LinkedSince(call),
           NEW to \in ViewPlaces,
           to \in Viewed(b, local)!CausalPlaces => call.pc \in Viewed(b, local)!CausalPlaces,
           \/ Viewed(b, local)!Adds(to, S)
           \/ \E t : call' = [call EXCEPT !.pc = to, !.thread = t, !.shown = @ \cup S]
           \/ \E t : call' = [call EXCEPT !.pc = to, !.thread = t]
           \/ \E r : call' = [call EXCEPT !.pc = to, !.rows = r]
           \/ Viewed(b, local)!Goes(to)
    PROVE  Viewed(b, local)!ViewInv'
  <1>1. call = [f \in Viewed(b, local)!CallFields |-> call[f]]
    BY DEF Viewed!ViewInv
  <1>2. /\ call' = [f \in Viewed(b, local)!CallFields |-> call'[f]]
        /\ call'.pc = to /\ call'.hidden = call.hidden /\ call'.op = call.op
        /\ call'.arg = call.arg /\ call'.parent = call.parent /\ call'.reply = call.reply
        /\ call'.shown \subseteq call.shown \cup S
    BY <1>1 DEF Viewed!Adds, Viewed!Goes, Viewed!CallFields
  <1>3. Viewed(b, local)!LinkedSince(call') = Viewed(b, local)!LinkedSince(call)
    BY <1>2 DEF Viewed!LinkedSince
  <1>4. call'.shown \cap call'.hidden \subseteq Viewed(b, local)!LinkedSince(call')
    BY <1>2, <1>3 DEF Viewed!ViewInv
  <1>5. call'.reply # 0 => call'.reply = b.reply_to[call'.arg]
    BY <1>2 DEF Viewed!ViewInv
  <1>6. /\ call'.parent # 0 => call'.parent = call'.reply /\ call'.parent \notin call.hidden
        /\ Viewed(b, local)!Reader(call'.pc) = Viewed(b, local)!Reader(call.op)
        /\ call'.pc \in Viewed(b, local)!CausalPlaces => call.op = "event_causal_context"
    BY <1>2, ViewPlacesOwned DEF Viewed!ViewInv
  <1> QED BY <1>2, <1>4, <1>5, <1>6, ViewPlacesOwned, ViewStep

LEMMA ViewEnds ==
    ASSUME NEW CONSTANT b, NEW CONSTANT local, Viewed(b, local)!ViewInv,
           UNCHANGED Viewed(b, local)!store, call # Viewed(b, local)!Idle,
           NEW S, \A e \in S : e \notin call.hidden,
           \/ Viewed(b, local)!Answers(S) \/ Viewed(b, local)!AnswersNothing \/ Viewed(b, local)!Fails
           \/ \E r : call' = [call EXCEPT !.pc = "done", !.answer = "view", !.rows = r,
                                          !.shown = @ \cup S]
           \/ \E r : call' = [call EXCEPT !.pc = "done", !.answer = "view", !.rows = r, !.shown = S]
           \/ \E r, t, a : call' = [call EXCEPT !.pc = "done", !.rows = r, !.answer = a,
                                                !.thread = t, !.shown = S]
    PROVE  Viewed(b, local)!ViewInv'
  <1>1. call = [f \in Viewed(b, local)!CallFields |-> call[f]]
    BY DEF Viewed!ViewInv
  <1>2. /\ call' = [f \in Viewed(b, local)!CallFields |-> call'[f]]
        /\ call'.pc = "done" /\ call'.hidden = call.hidden /\ call'.op = call.op
        /\ call'.arg = call.arg /\ call'.reply = call.reply
        /\ call'.shown \subseteq call.shown \cup S
    BY <1>1 DEF Viewed!Answers, Viewed!AnswersNothing, Viewed!Fails, Viewed!CallFields
  <1>3. Viewed(b, local)!LinkedSince(call') = Viewed(b, local)!LinkedSince(call)
    BY <1>2 DEF Viewed!LinkedSince
  <1>4. call'.shown \cap call'.hidden \subseteq Viewed(b, local)!LinkedSince(call')
    BY <1>2, <1>3 DEF Viewed!ViewInv
  <1> QED BY <1>2, <1>4, ViewStep

(* Statements that show nothing. *)
LEMMA ViewMoves ==
    ASSUME NEW CONSTANT b, NEW CONSTANT local, Viewed(b, local)!ViewInv,
           UNCHANGED Viewed(b, local)!store, call # Viewed(b, local)!Idle, call.pc # "done",
           \/ Viewed(b, local)!AnswersNothing
           \/ /\ Viewed(b, local)!Reader(call.pc) = "owner"
              /\ \E to \in ViewPlaces :
                   /\ to \in Viewed(b, local)!CausalPlaces => call.pc \in Viewed(b, local)!CausalPlaces
                   /\ \/ Viewed(b, local)!Goes(to)
                      \/ \E t : call' = [call EXCEPT !.pc = to, !.thread = t]
                      \/ \E r : call' = [call EXCEPT !.pc = to, !.rows = r]
    PROVE  Viewed(b, local)!ViewInv'
  <1> DEFINE S == {}
  <1>1. /\ \A e \in S : e \notin call.hidden
        /\ \A e \in S : e \notin call.hidden \/ e \in Viewed(b, local)!LinkedSince(call)
    OBVIOUS
  <1> HIDE DEF S
  <1>2. CASE Viewed(b, local)!AnswersNothing
    BY <1>1, <1>2, ViewEnds
  <1>3. ASSUME NEW to \in ViewPlaces, Viewed(b, local)!Reader(call.pc) = "owner",
               to \in Viewed(b, local)!CausalPlaces => call.pc \in Viewed(b, local)!CausalPlaces,
               \/ Viewed(b, local)!Goes(to)
               \/ \E t : call' = [call EXCEPT !.pc = to, !.thread = t]
               \/ \E r : call' = [call EXCEPT !.pc = to, !.rows = r]
        PROVE  Viewed(b, local)!ViewInv'
    BY <1>1, <1>3, ViewAdds
  <1> QED BY <1>2, <1>3

(* The statements, with the names the proof gives to what they read. *)
LEMMA ViewReads ==
    ASSUME NEW CONSTANT b, NEW CONSTANT local, Viewed(b, local)!ViewInv, Viewed(b, local)!Read
    PROVE  Viewed(b, local)!ViewInv'
  <1> DEFINE Safe(S) == \A e \in S : e \notin call.hidden
  <1>1. CASE Viewed(b, local)!Return
    BY <1>1 DEF Viewed!Return, Viewed!ViewInv
  <1>2. CASE Viewed(b, local)!event_causal_context
    <2>1. UNCHANGED Viewed(b, local)!store /\ call.pc = "event_causal_context"
      BY <1>2 DEF Viewed!event_causal_context, Viewed!At
    <2>2. /\ call # Viewed(b, local)!Idle /\ call.pc # "done"
          /\ Viewed(b, local)!Reader(call.pc) = "owner"
      BY <2>1 DEF Viewed!Idle, Viewed!Reader, Viewed!ModelSearches, Viewed!FactReaders
    <2>3. CASE Viewed(b, local)!Visible(call.arg)
      <3>1. call.arg \notin call.hidden /\ call.shown = {} /\ call.parent = 0
        BY <2>1, <2>2, <2>3, ViewOwned DEF Viewed!ViewInv
      <3> DEFINE r == Viewed(b, local)!reply_to_event_id(call.arg)
      <3>2. call' = [call EXCEPT !.pc = "parent", !.reply = r, !.shown = @ \cup {call.arg}]
        BY <1>2, <2>3 DEF Viewed!event_causal_context
      <3>3. r # 0 => r = b.reply_to[call.arg]
        BY DEF Viewed!reply_to_event_id
      <3> HIDE DEF r
      <3>4. call = [f \in Viewed(b, local)!CallFields |-> call[f]]
        BY <2>2 DEF Viewed!ViewInv
      <3>5. /\ call' = [f \in Viewed(b, local)!CallFields |-> call'[f]]
            /\ call'.pc = "parent" /\ call'.hidden = call.hidden /\ call'.op = call.op
            /\ call'.arg = call.arg /\ call'.parent = call.parent /\ call'.reply = r
            /\ call'.shown = call.shown \cup {call.arg}
        BY <3>2, <3>4 DEF Viewed!CallFields
      <3>6. /\ call.op = "event_causal_context"
            /\ Viewed(b, local)!Reader(call.op) = "owner"
        BY <2>1, <2>2 DEF Viewed!ViewInv, Viewed!CausalPlaces
      <3>7. Viewed(b, local)!Reader("parent") = "owner"
        BY DEF Viewed!Reader, Viewed!ModelSearches, Viewed!FactReaders
      <3> QED BY <2>1, <2>2, <3>1, <3>3, <3>5, <3>6, <3>7, ViewStep
    <2>4. CASE ~Viewed(b, local)!Visible(call.arg)
      <3>1. Viewed(b, local)!AnswersNothing
        BY <1>2, <2>4 DEF Viewed!event_causal_context
      <3> QED BY <2>1, <2>2, <3>1, ViewMoves
    <2> QED BY <2>3, <2>4
  <1>3. CASE Viewed(b, local)!load_reply_parent
    <2>1. UNCHANGED Viewed(b, local)!store /\ call.pc = "parent"
      BY <1>3 DEF Viewed!load_reply_parent, Viewed!At
    <2>2. /\ call # Viewed(b, local)!Idle /\ call.pc # "done"
          /\ Viewed(b, local)!Reader(call.pc) = "owner"
      BY <2>1 DEF Viewed!Idle, Viewed!Reader, Viewed!ModelSearches, Viewed!FactReaders
    <2> DEFINE p == call.reply
    <2>3. CASE p # 0 /\ Viewed(b, local)!Visible(p)
      <3>1. p \notin call.hidden
        BY <2>2, <2>3, ViewOwned
      <3>2. call' = [call EXCEPT !.pc = "thread", !.parent = p, !.shown = @ \cup {p}]
        BY <1>3, <2>3 DEF Viewed!load_reply_parent
      <3>3. call = [f \in Viewed(b, local)!CallFields |-> call[f]]
        BY <2>2 DEF Viewed!ViewInv
      <3>4. /\ call' = [f \in Viewed(b, local)!CallFields |-> call'[f]]
            /\ call'.pc = "thread" /\ call'.hidden = call.hidden /\ call'.op = call.op
            /\ call'.arg = call.arg /\ call'.parent = p /\ call'.reply = p
            /\ call'.shown = call.shown \cup {p}
        BY <3>2, <3>3 DEF Viewed!CallFields
      <3>5. call'.shown \cap call'.hidden \subseteq Viewed(b, local)!LinkedSince(call')
        <4>1. Viewed(b, local)!LinkedSince(call') = Viewed(b, local)!LinkedSince(call)
          BY <3>4 DEF Viewed!LinkedSince
        <4> QED BY <2>2, <3>1, <3>4, <4>1 DEF Viewed!ViewInv
      <3>6. /\ call.op = "event_causal_context" /\ p = b.reply_to[call.arg]
            /\ Viewed(b, local)!Reader(call.op) = "owner"
        BY <2>1, <2>2, <2>3 DEF Viewed!ViewInv, Viewed!CausalPlaces
      <3>7. Viewed(b, local)!Reader("thread") = "owner"
        BY DEF Viewed!Reader, Viewed!ModelSearches, Viewed!FactReaders
      <3> QED BY <2>1, <2>2, <3>1, <3>4, <3>5, <3>6, <3>7, ViewStep
    <2>4. CASE ~(p # 0 /\ Viewed(b, local)!Visible(p))
      <3>1. Viewed(b, local)!Goes("thread")
        BY <1>3, <2>4 DEF Viewed!load_reply_parent
      <3> QED BY <2>1, <2>2, <3>1, ViewMoves DEF ViewPlaces, Viewed!CausalPlaces
    <2> QED BY <2>3, <2>4
  <1>4. CASE Viewed(b, local)!load_effective_thread
    <2>1. UNCHANGED Viewed(b, local)!store /\ call.pc = "thread"
      BY <1>4 DEF Viewed!load_effective_thread, Viewed!At
    <2>2. /\ call # Viewed(b, local)!Idle /\ call.pc # "done"
          /\ Viewed(b, local)!Reader(call.pc) = "owner"
      BY <2>1 DEF Viewed!Idle, Viewed!Reader, Viewed!ModelSearches, Viewed!FactReaders
    <2> DEFINE t == Viewed(b, local)!Effective(call.arg)
    <2>3. CASE call.arg \in rStored /\ Viewed(b, local)!Visible(b.root_event[t])
      <3>1. Safe({b.root_event[t]})
        BY <2>2, <2>3, ViewOwned
      <3>2. call' = [call EXCEPT !.pc = "participants", !.thread = {t},
                                 !.shown = @ \cup {b.root_event[t]}]
        BY <1>4, <2>3 DEF Viewed!load_effective_thread
      <3> HIDE DEF t
      <3> QED BY <2>1, <2>2, <3>1, <3>2, ViewAdds DEF ViewPlaces, Viewed!CausalPlaces
    <2>4. CASE ~(call.arg \in rStored /\ Viewed(b, local)!Visible(b.root_event[t]))
      <3>1. Viewed(b, local)!Goes("relations")
        BY <1>4, <2>4 DEF Viewed!load_effective_thread
      <3> QED BY <2>1, <2>2, <3>1, ViewMoves DEF ViewPlaces, Viewed!CausalPlaces
    <2> QED BY <2>3, <2>4
  <1>5. CASE Viewed(b, local)!load_thread_participants
    <2>1. UNCHANGED Viewed(b, local)!store /\ call.pc = "participants"
      BY <1>5 DEF Viewed!load_thread_participants, Viewed!At
    <2>2. /\ call # Viewed(b, local)!Idle /\ call.pc # "done"
          /\ Viewed(b, local)!Reader(call.pc) = "owner"
      BY <2>1 DEF Viewed!Idle, Viewed!Reader, Viewed!ModelSearches, Viewed!FactReaders
    <2> DEFINE S == UNION {Viewed(b, local)!InThread(t) : t \in call.thread}
    <2>3. \A e \in S : Viewed(b, local)!Visible(e)
      BY DEF Viewed!InThread
    <2>4. Viewed(b, local)!Adds("relations", S)
      BY <1>5 DEF Viewed!load_thread_participants
    <2> HIDE DEF S
    <2>5. Safe(S)
      BY <2>2, <2>3, ViewOwned
    <2> QED BY <2>1, <2>2, <2>4, <2>5, ViewAdds DEF ViewPlaces, Viewed!CausalPlaces
  <1>6. CASE Viewed(b, local)!load_structural_relations
    <2>1. UNCHANGED Viewed(b, local)!store /\ call.pc = "relations"
      BY <1>6 DEF Viewed!load_structural_relations, Viewed!At
    <2>2. /\ call # Viewed(b, local)!Idle /\ call.pc # "done"
          /\ Viewed(b, local)!Reader(call.pc) = "owner"
      BY <2>1 DEF Viewed!Idle, Viewed!Reader, Viewed!ModelSearches, Viewed!FactReaders
    <2> DEFINE S == IF call.reply # 0 /\ call.parent = 0 THEN {}
                    ELSE {Viewed(b, local)!reply_to_event_id(call.arg)} \ {0}
    <2>3. \A e \in S : e \notin call.hidden \/ e \in Viewed(b, local)!LinkedSince(call)
      <3>1. \A e \in S : e = b.reply_to[call.arg]
        BY DEF Viewed!reply_to_event_id
      <3>2. CASE call.reply = 0
        BY <2>1, <2>2, <3>1, <3>2 DEF Viewed!ViewInv, Viewed!LinkedSince, Viewed!CausalPlaces
      <3>3. CASE call.reply # 0 /\ call.parent # 0
        BY <2>2, <3>1, <3>3 DEF Viewed!ViewInv
      <3>4. CASE call.reply # 0 /\ call.parent = 0
        BY <3>4
      <3> QED BY <3>2, <3>3, <3>4
    <2>4. Viewed(b, local)!Adds("requesters", S)
      BY <1>6 DEF Viewed!load_structural_relations
    <2> HIDE DEF S
    <2> QED BY <2>1, <2>2, <2>3, <2>4, ViewAdds DEF ViewPlaces, Viewed!CausalPlaces
  <1>7. CASE Viewed(b, local)!load_confirmed_requesters
    <2>1. UNCHANGED Viewed(b, local)!store /\ call.pc = "requesters"
      BY <1>7 DEF Viewed!load_confirmed_requesters, Viewed!At
    <2>2. /\ call # Viewed(b, local)!Idle /\ call.pc # "done"
          /\ Viewed(b, local)!Reader(call.pc) = "owner"
      BY <2>1 DEF Viewed!Idle, Viewed!Reader, Viewed!ModelSearches, Viewed!FactReaders
    <2> DEFINE S == UNION {Viewed(b, local)!SourcesOf(Viewed(b, local)!OfThread("claim", t)) :
                             t \in call.thread}
    <2>3. \A e \in S : Viewed(b, local)!Visible(e)
      BY DEF Viewed!SourcesOf, Viewed!OfThread, Viewed!Readable, Viewed!SourcesVisible,
             Viewed!SourcesSeen, Viewed!Visible
    <2>4. Viewed(b, local)!Adds("commitments", S)
      BY <1>7 DEF Viewed!load_confirmed_requesters
    <2> HIDE DEF S
    <2>5. Safe(S)
      BY <2>2, <2>3, ViewOwned
    <2> QED BY <2>1, <2>2, <2>4, <2>5, ViewAdds DEF ViewPlaces, Viewed!CausalPlaces
  <1>8. CASE Viewed(b, local)!load_confirmed_commitments
    <2>1. UNCHANGED Viewed(b, local)!store /\ call.pc = "commitments"
      BY <1>8 DEF Viewed!load_confirmed_commitments, Viewed!At
    <2>2. /\ call # Viewed(b, local)!Idle /\ call.pc # "done"
          /\ Viewed(b, local)!Reader(call.pc) = "owner"
      BY <2>1 DEF Viewed!Idle, Viewed!Reader, Viewed!ModelSearches, Viewed!FactReaders
    <2> DEFINE R == {d \in Viewed(b, local)!Readable("commitment") :
                       \E e \in d.sources :
                          e \in rStored /\ Viewed(b, local)!Effective(e) \in call.thread}
               S == Viewed(b, local)!SourcesOf(R)
    <2>3. \A e \in S : Viewed(b, local)!Visible(e)
      BY DEF Viewed!SourcesOf, Viewed!Readable, Viewed!SourcesVisible, Viewed!SourcesSeen,
             Viewed!Visible
    <2>4. Viewed(b, local)!Fails \/ Viewed(b, local)!Answers(S)
      BY <1>8 DEF Viewed!load_confirmed_commitments
    <2> HIDE DEF S
    <2>5. Safe(S)
      BY <2>2, <2>3, ViewOwned
    <2> QED BY <2>1, <2>2, <2>4, <2>5, ViewEnds
  <1>9. CASE Viewed(b, local)!thread_context
    <2>1. UNCHANGED Viewed(b, local)!store /\ call.pc = "thread_context"
      BY <1>9 DEF Viewed!thread_context, Viewed!At
    <2>2. /\ call # Viewed(b, local)!Idle /\ call.pc # "done"
          /\ Viewed(b, local)!Reader(call.pc) = "owner"
      BY <2>1 DEF Viewed!Idle, Viewed!Reader, Viewed!ModelSearches, Viewed!FactReaders
    <2>3. CASE Viewed(b, local)!AnswersNothing
      BY <2>1, <2>2, <2>3, ViewMoves
    <2>4. CASE call' = [call EXCEPT !.pc = "actors", !.thread = {call.arg}]
      BY <2>1, <2>2, <2>4, ViewMoves DEF ViewPlaces, Viewed!CausalPlaces
    <2> QED BY <1>9, <2>3, <2>4 DEF Viewed!thread_context
  <1>10. CASE Viewed(b, local)!ThreadActors
    <2>1. UNCHANGED Viewed(b, local)!store /\ call.pc = "actors"
      BY <1>10 DEF Viewed!ThreadActors, Viewed!At
    <2>2. /\ call # Viewed(b, local)!Idle /\ call.pc # "done"
          /\ Viewed(b, local)!Reader(call.pc) = "owner"
      BY <2>1 DEF Viewed!Idle, Viewed!Reader, Viewed!ModelSearches, Viewed!FactReaders
    <2> DEFINE S == Viewed(b, local)!InThread(call.arg)
    <2>3. \A e \in S : Viewed(b, local)!Visible(e)
      BY DEF Viewed!InThread
    <2>4. Viewed(b, local)!Adds("claim", S)
      BY <1>10 DEF Viewed!ThreadActors
    <2> HIDE DEF S
    <2>5. Safe(S)
      BY <2>2, <2>3, ViewOwned
    <2> QED BY <2>1, <2>2, <2>4, <2>5, ViewAdds DEF ViewPlaces, Viewed!CausalPlaces
  <1>11. CASE \E kind \in Viewed(b, local)!ThreadKinds : Viewed(b, local)!ThreadRows(kind)
    <2>1. PICK kind \in Viewed(b, local)!ThreadKinds : Viewed(b, local)!ThreadRows(kind)
      BY <1>11
    <2>2. /\ UNCHANGED Viewed(b, local)!store /\ call.pc = kind
          /\ kind \in {"claim", "decision", "question"}
      BY <2>1 DEF Viewed!ThreadRows, Viewed!At, Viewed!ThreadKinds
    <2>3. /\ call # Viewed(b, local)!Idle /\ call.pc # "done"
          /\ Viewed(b, local)!Reader(call.pc) = "owner"
      BY <2>2 DEF Viewed!Idle, Viewed!Reader, Viewed!ModelSearches, Viewed!FactReaders
    <2> DEFINE S == Viewed(b, local)!SourcesOf(Viewed(b, local)!OfThread(kind, call.arg))
    <2>4. \A e \in S : Viewed(b, local)!Visible(e)
      BY DEF Viewed!SourcesOf, Viewed!OfThread, Viewed!Readable, Viewed!SourcesVisible,
             Viewed!SourcesSeen, Viewed!Visible
    <2>5. \/ kind = "question" /\ Viewed(b, local)!Answers(S)
          \/ kind = "claim" /\ Viewed(b, local)!Adds("decision", S)
          \/ kind = "decision" /\ Viewed(b, local)!Adds("question", S)
      BY <2>1, <2>2 DEF Viewed!ThreadRows, Viewed!NextKind
    <2> HIDE DEF S
    <2>6. Safe(S)
      BY <2>3, <2>4, ViewOwned
    <2>7. CASE Viewed(b, local)!Answers(S)
      BY <2>2, <2>3, <2>6, <2>7, ViewEnds
    <2>8. CASE Viewed(b, local)!Adds("decision", S)
      BY <2>2, <2>3, <2>6, <2>8, ViewAdds DEF ViewPlaces, Viewed!CausalPlaces
    <2>9. CASE Viewed(b, local)!Adds("question", S)
      BY <2>2, <2>3, <2>6, <2>9, ViewAdds DEF ViewPlaces, Viewed!CausalPlaces
    <2> QED BY <2>5, <2>7, <2>8, <2>9
  <1>12. CASE Viewed(b, local)!query_project
    <2>1. UNCHANGED Viewed(b, local)!store /\ call.pc = "query_project"
      BY <1>12 DEF Viewed!query_project, Viewed!ReadRow, Viewed!At
    <2>2. /\ call # Viewed(b, local)!Idle /\ call.pc # "done"
          /\ Viewed(b, local)!Reader(call.pc) = "owner"
      BY <2>1 DEF Viewed!Idle, Viewed!Reader, Viewed!ModelSearches, Viewed!FactReaders
    <2>3. \/ \E r : call' = [call EXCEPT !.pc = "project_sources", !.rows = r]
          \/ Viewed(b, local)!AnswersNothing
      BY <1>12 DEF Viewed!query_project, Viewed!ReadRow, Viewed!At
    <2> QED BY <2>1, <2>2, <2>3, ViewMoves DEF ViewPlaces, Viewed!CausalPlaces
  <1>13. CASE Viewed(b, local)!load_with_sources
    <2>1. UNCHANGED Viewed(b, local)!store /\ call.pc = "load_with_sources"
      BY <1>13 DEF Viewed!load_with_sources, Viewed!ReadRow, Viewed!At
    <2>2. call # Viewed(b, local)!Idle /\ call.pc # "done"
      BY <2>1 DEF Viewed!Idle
    <2>3. CASE Viewed(b, local)!AnswersNothing
      BY <2>1, <2>2, <2>3, ViewMoves
    <2>4. CASE \E r : call' = [call EXCEPT !.pc = "fact_sources", !.rows = r]
      <3>1. PICK r : call' = [call EXCEPT !.pc = "fact_sources", !.rows = r]
        BY <2>4
      <3>2. call = [f \in Viewed(b, local)!CallFields |-> call[f]]
        BY <2>2 DEF Viewed!ViewInv
      <3>3. /\ call' = [f \in Viewed(b, local)!CallFields |-> call'[f]]
            /\ call'.pc = "fact_sources" /\ call'.hidden = call.hidden /\ call'.op = call.op
            /\ call'.arg = call.arg /\ call'.parent = call.parent /\ call'.reply = call.reply
            /\ call'.shown = call.shown
        BY <3>1, <3>2 DEF Viewed!CallFields
      <3>4. call'.shown \cap call'.hidden \subseteq Viewed(b, local)!LinkedSince(call')
        <4>1. Viewed(b, local)!LinkedSince(call') = Viewed(b, local)!LinkedSince(call)
          BY <3>3 DEF Viewed!LinkedSince
        <4> QED BY <2>2, <3>3, <4>1 DEF Viewed!ViewInv
      <3>5. /\ Viewed(b, local)!Reader("fact_sources") = Viewed(b, local)!Reader(call.pc)
            /\ "fact_sources" \notin Viewed(b, local)!CausalPlaces
        BY <2>1 DEF Viewed!Reader, Viewed!ModelSearches, Viewed!FactReaders, Viewed!CausalPlaces
      <3>6. /\ Viewed(b, local)!Reader(call.pc) = Viewed(b, local)!Reader(call.op)
            /\ call.reply # 0 => call.reply = b.reply_to[call.arg]
            /\ call.parent # 0 => call.parent = call.reply /\ call.parent \notin call.hidden
        BY <2>2 DEF Viewed!ViewInv
      <3> QED BY <2>1, <2>2, <3>3, <3>4, <3>5, <3>6, ViewStep
    <2> QED BY <1>13, <2>1, <2>3, <2>4 DEF Viewed!load_with_sources, Viewed!ReadRow
  <1>14. CASE Viewed(b, local)!source_valid \/ Viewed(b, local)!all_sources_visible
    <2>1. PICK at \in {"project_sources", "fact_sources"} : Viewed(b, local)!SourceCheck(at)
      BY <1>14 DEF Viewed!source_valid, Viewed!all_sources_visible
    <2>2. /\ UNCHANGED Viewed(b, local)!store /\ call.pc = at
          /\ call # Viewed(b, local)!Idle /\ call.pc # "done"
      BY <2>1 DEF Viewed!SourceCheck, Viewed!At, Viewed!Idle
    <2> DEFINE reader == Viewed(b, local)!Reader(at)
    <2>3. CASE \A d \in call.rows : Viewed(b, local)!SourcesSeen(reader, d)
      <3>1. \A e \in Viewed(b, local)!SourcesOf(call.rows) : Viewed(b, local)!Seen(reader, e)
        BY <2>3, ViewSources
      <3>2. Safe(Viewed(b, local)!SourcesOf(call.rows))
        BY <2>2, <3>1, ViewVisible
      <3>3. Viewed(b, local)!Answers(Viewed(b, local)!SourcesOf(call.rows))
        BY <2>1, <2>3 DEF Viewed!SourceCheck
      <3> QED BY <2>2, <3>2, <3>3, ViewEnds
    <2>4. CASE ~\A d \in call.rows : Viewed(b, local)!SourcesSeen(reader, d)
      <3>1. Viewed(b, local)!AnswersNothing
        BY <2>1, <2>4 DEF Viewed!SourceCheck
      <3> QED BY <2>2, <3>1, ViewMoves
    <2> QED BY <2>3, <2>4
  <1>15. CASE Viewed(b, local)!load_related_event_ids
    <2>1. UNCHANGED Viewed(b, local)!store /\ call.pc = "participant_context"
      BY <1>15 DEF Viewed!load_related_event_ids, Viewed!At
    <2>2. /\ call # Viewed(b, local)!Idle /\ call.pc # "done"
          /\ Viewed(b, local)!Reader(call.pc) = "owner"
      BY <2>1 DEF Viewed!Idle, Viewed!Reader, Viewed!ModelSearches, Viewed!FactReaders
    <2> DEFINE S == {e \in b.Events : Viewed(b, local)!Visible(e) /\ b.actor[e] = call.arg}
    <2>3. Safe(S)
      BY <2>2, ViewOwned
    <2>4. Viewed(b, local)!Adds("person", S)
      BY <1>15 DEF Viewed!load_related_event_ids
    <2> HIDE DEF S
    <2> QED BY <2>1, <2>2, <2>3, <2>4, ViewAdds DEF ViewPlaces, Viewed!CausalPlaces
  <1>16. CASE Viewed(b, local)!load_confirmed_person_memory \/ Viewed(b, local)!list_upcoming
    <2>1. /\ UNCHANGED Viewed(b, local)!store /\ call.pc \in {"person", "list_upcoming"}
      BY <1>16 DEF Viewed!load_confirmed_person_memory, Viewed!list_upcoming, Viewed!At
    <2>2. /\ call # Viewed(b, local)!Idle /\ call.pc # "done"
          /\ Viewed(b, local)!Reader(call.pc) = "owner"
      BY <2>1 DEF Viewed!Idle, Viewed!Reader, Viewed!ModelSearches, Viewed!FactReaders
    <2>3. PICK R : /\ \A d \in R : Viewed(b, local)!SourcesSeen("owner", d)
                   /\ \/ call' = [call EXCEPT !.pc = "done", !.answer = "view", !.rows = R,
                                          !.shown = @ \cup Viewed(b, local)!SourcesOf(R)]
                      \/ call' = [call EXCEPT !.pc = "done", !.answer = "view", !.rows = R,
                                              !.shown = Viewed(b, local)!SourcesOf(R)]
      BY <1>16 DEF Viewed!load_confirmed_person_memory, Viewed!list_upcoming, Viewed!Readable,
                   Viewed!SourcesVisible
    <2>4. Safe(Viewed(b, local)!SourcesOf(R))
      BY <2>2, <2>3, ViewSources, ViewVisible
    <2> QED BY <2>1, <2>2, <2>3, <2>4, ViewEnds
  <1>17. CASE \/ Viewed(b, local)!list_projects \/ Viewed(b, local)!list_commitments
              \/ Viewed(b, local)!list_active
    <2>1. PICK op \in {"list_projects", "list_commitments", "list_active"},
               kinds \in SUBSET Viewed(b, local)!FactKinds :
             Viewed(b, local)!ListFacts(op, kinds)
      BY <1>17 DEF Viewed!list_projects, Viewed!list_commitments, Viewed!list_active,
                   Viewed!FactKinds
    <2>2. /\ UNCHANGED Viewed(b, local)!store /\ call.pc = op
          /\ call # Viewed(b, local)!Idle /\ call.pc # "done"
      BY <2>1 DEF Viewed!ListFacts, Viewed!At, Viewed!Idle
    <2> DEFINE reader == Viewed(b, local)!Reader(op)
               R == {d \in rDerived : d.kind \in kinds /\ Viewed(b, local)!SourcesSeen(reader, d)}
    <2>3. Viewed(b, local)!Answers(Viewed(b, local)!SourcesOf(R))
      BY <2>1 DEF Viewed!ListFacts
    <2>4. \A d \in R : Viewed(b, local)!SourcesSeen(reader, d)
      OBVIOUS
    <2> HIDE DEF R
    <2>5. \A e \in Viewed(b, local)!SourcesOf(R) : Viewed(b, local)!Seen(reader, e)
      BY <2>4, ViewSources
    <2>6. Safe(Viewed(b, local)!SourcesOf(R))
      BY <2>2, <2>5, ViewVisible
    <2> QED BY <2>2, <2>3, <2>6, ViewEnds
  <1>18. CASE \/ Viewed(b, local)!search_events \/ Viewed(b, local)!list_recent_event_views
              \/ Viewed(b, local)!read_source_event
    <2>1. /\ UNCHANGED Viewed(b, local)!store /\ call.pc \in Viewed(b, local)!ModelSearches
          /\ \/ Viewed(b, local)!Answers({e \in b.Events : Viewed(b, local)!VisibleToModel(e)})
             \/ /\ Viewed(b, local)!VisibleToModel(call.arg)
                /\ Viewed(b, local)!Answers({call.arg})
             \/ Viewed(b, local)!AnswersNothing
      BY <1>18 DEF Viewed!search_events, Viewed!list_recent_event_views, Viewed!read_source_event,
                   Viewed!At, Viewed!ModelSearches
    <2>2. /\ call # Viewed(b, local)!Idle /\ call.pc # "done"
          /\ Viewed(b, local)!Reader(call.pc) = "model"
      BY <2>1 DEF Viewed!Idle, Viewed!Reader, Viewed!ModelSearches
    <2>6. \A e : Viewed(b, local)!VisibleToModel(e) => e \notin call.hidden
      BY <2>2, ViewVisible DEF Viewed!VisibleToModel
    <2>3. CASE Viewed(b, local)!Answers({e \in b.Events : Viewed(b, local)!VisibleToModel(e)})
      <3>1. Safe({e \in b.Events : Viewed(b, local)!VisibleToModel(e)})
        BY <2>6
      <3> QED BY <2>1, <2>2, <2>3, <3>1, ViewEnds
    <2>4. CASE /\ Viewed(b, local)!VisibleToModel(call.arg)
               /\ Viewed(b, local)!Answers({call.arg})
      <3>1. Safe({call.arg})
        BY <2>4, <2>6
      <3> QED BY <2>1, <2>2, <2>4, <3>1, ViewEnds
    <2>5. CASE Viewed(b, local)!AnswersNothing
      BY <2>1, <2>2, <2>5, ViewMoves
    <2> QED BY <2>1, <2>3, <2>4, <2>5
  <1>19. CASE Viewed(b, local)!resolve_reference
    <2>1. UNCHANGED Viewed(b, local)!store /\ call.pc = "resolve_reference"
      BY <1>19 DEF Viewed!resolve_reference, Viewed!At
    <2>2. /\ call # Viewed(b, local)!Idle /\ call.pc # "done"
          /\ Viewed(b, local)!Reader(call.pc) = "owner"
      BY <2>1 DEF Viewed!Idle, Viewed!Reader, Viewed!ModelSearches, Viewed!FactReaders
    <2> DEFINE S == Viewed(b, local)!find_reference_candidates(call.arg)
    <2>3. \A e \in S : Viewed(b, local)!Visible(e)
      BY DEF Viewed!find_reference_candidates, Viewed!Newest, Viewed!InScope
    <2>4. \E r, t, a : call' = [call EXCEPT !.pc = "done", !.rows = r, !.answer = a, !.thread = t,
                                            !.shown = S]
      BY <1>19 DEF Viewed!resolve_reference
    <2> HIDE DEF S
    <2>5. Safe(S)
      BY <2>2, <2>3, ViewOwned
    <2> QED BY <2>1, <2>2, <2>4, <2>5, ViewEnds
  <1> QED BY <1>1, <1>2, <1>3, <1>4, <1>5, <1>6, <1>7, <1>8, <1>9, <1>10, <1>11, <1>12, <1>13, <1>14,
             <1>15, <1>16, <1>17, <1>18, <1>19 DEF Viewed!Read

(* The writers hide messages, and never show what was hidden to a call that *)
(* is under way.                                                            *)
LEMMA ViewWrites ==
    ASSUME NEW CONSTANT b, NEW CONSTANT local, Viewed(b, local)!ViewInv, Viewed(b, local)!Write
    PROVE  Viewed(b, local)!ViewInv'
  <1>1. \/ call' = Viewed(b, local)!StillHidden(rStored', rRecalled', rMode')
        \/ call' = call /\ UNCHANGED <<rStored, rRecalled, rMode>>
    BY DEF Viewed!Write, Viewed!Store, Viewed!Recall, Viewed!SetMode, Viewed!Merge, Viewed!Derive,
           Viewed!Fulfil, Viewed!Retract
  <1>2. CASE call' = call /\ UNCHANGED <<rStored, rRecalled, rMode>>
    BY <1>2 DEF Viewed!ViewInv, Viewed!Seen, Viewed!Shows
  <1>3. CASE call' = Viewed(b, local)!StillHidden(rStored', rRecalled', rMode')
    <2>1. CASE call = Viewed(b, local)!Idle
      BY <1>3, <2>1 DEF Viewed!ViewInv, Viewed!StillHidden, Viewed!Idle
    <2>2. CASE call # Viewed(b, local)!Idle
      <3>1. call = [f \in Viewed(b, local)!CallFields |-> call[f]] /\ call.pc # "idle"
        BY <2>2 DEF Viewed!ViewInv
      <3> DEFINE H == {e \in call.hidden :
                         ~Viewed(b, local)!Shows(Viewed(b, local)!Reader(call.op),
                                                 rMode', rStored', rRecalled', e)}
      <3>2. call' = [call EXCEPT !.hidden = H]
        BY <1>3, <3>1 DEF Viewed!StillHidden
      <3>3. /\ H \subseteq call.hidden
            /\ \A e \in H : ~Viewed(b, local)!Shows(Viewed(b, local)!Reader(call.op),
                                                    rMode', rStored', rRecalled', e)
        OBVIOUS
      <3> HIDE DEF H
      <3>4. /\ call' = [f \in Viewed(b, local)!CallFields |-> call'[f]]
            /\ call'.pc = call.pc /\ call'.hidden = H /\ call'.op = call.op
            /\ call'.arg = call.arg /\ call'.parent = call.parent /\ call'.shown = call.shown
            /\ call'.reply = call.reply
        BY <3>1, <3>2 DEF Viewed!CallFields
      <3>5. call'.shown \cap call'.hidden \subseteq Viewed(b, local)!LinkedSince(call')
        <4>1. Viewed(b, local)!LinkedSince(call') = Viewed(b, local)!LinkedSince(call)
          BY <3>4 DEF Viewed!LinkedSince
        <4> QED BY <2>2, <3>3, <3>4, <4>1 DEF Viewed!ViewInv
      <3>6. \A e \in call'.hidden :
               ~Viewed(b, local)!Shows(Viewed(b, local)!Reader(call'.op), rMode', rStored', rRecalled', e)
        BY <3>3, <3>4
      <3> QED BY <2>2, <3>1, <3>3, <3>4, <3>5, <3>6 DEF Viewed!ViewInv, Viewed!Seen
    <2> QED BY <2>1, <2>2
  <1> QED BY <1>1, <1>2, <1>3

LEMMA ViewBegins ==
    ASSUME NEW CONSTANT b, NEW CONSTANT local, Viewed(b, local)!ViewInv, Viewed(b, local)!Ask
    PROVE  Viewed(b, local)!ViewInv'
  <1>1. PICK op, arg :
           /\ Viewed(b, local)!Begin(op, arg)
           /\ op \notin {"idle", "done", "parent", "thread", "participants", "relations"}
    <2> DEFINE Begun(op, arg) ==
                 /\ Viewed(b, local)!Begin(op, arg)
                 /\ op \notin {"idle", "done", "parent", "thread", "participants", "relations"}
    <2> SUFFICES \E op, arg : Begun(op, arg)
      OBVIOUS
    <2>1. CASE \E op \in {"event_causal_context", "read_source_event"}, e \in b.Events :
                 Viewed(b, local)!Begin(op, e)
      <3>1. PICK op \in {"event_causal_context", "read_source_event"}, e \in b.Events :
                 Viewed(b, local)!Begin(op, e)
        BY <2>1
      <3>2. Begun(op, e)
        BY <3>1
      <3> QED BY <3>2
    <2>2. CASE \E t \in b.Threads : Viewed(b, local)!Begin("thread_context", t)
      <3>1. PICK t : Viewed(b, local)!Begin("thread_context", t)
        BY <2>2
      <3>2. Begun("thread_context", t)
        BY <3>1
      <3> QED BY <3>2
    <2>3. CASE \E a \in b.Actors : Viewed(b, local)!Begin("participant_context", a)
      <3>1. PICK a : Viewed(b, local)!Begin("participant_context", a)
        BY <2>3
      <3>2. Begun("participant_context", a)
        BY <3>1
      <3> QED BY <3>2
    <2>4. CASE \E c \in b.Conversations : Viewed(b, local)!Begin("resolve_reference", c)
      <3>1. PICK c : Viewed(b, local)!Begin("resolve_reference", c)
        BY <2>4
      <3>2. Begun("resolve_reference", c)
        BY <3>1
      <3> QED BY <3>2
    <2>5. CASE \E op \in {"query_project", "load_with_sources", "list_upcoming", "list_projects",
                          "list_commitments", "list_active", "search_events",
                          "list_recent_event_views"} : Viewed(b, local)!Begin(op, 0)
      <3>1. PICK op \in {"query_project", "load_with_sources", "list_upcoming", "list_projects",
                         "list_commitments", "list_active", "search_events",
                         "list_recent_event_views"} : Viewed(b, local)!Begin(op, 0)
        BY <2>5
      <3>2. Begun(op, 0)
        BY <3>1
      <3> QED BY <3>2
    <2> HIDE DEF Begun
    <2> QED BY <2>1, <2>2, <2>3, <2>4, <2>5 DEF Viewed!Ask
  <1> DEFINE H == {e \in b.Events : ~Viewed(b, local)!Seen(Viewed(b, local)!Reader(op), e)}
  <1>2. /\ call' = [op |-> op, arg |-> arg, pc |-> op, shown |-> {}, hidden |-> H, thread |-> {},
                    reply |-> 0, parent |-> 0, rows |-> {}, answer |-> "none"]
        /\ UNCHANGED Viewed(b, local)!store
    BY <1>1 DEF Viewed!Begin
  <1>3. \A e \in H :
           ~Viewed(b, local)!Shows(Viewed(b, local)!Reader(op), rMode, rStored, rRecalled, e)
    BY DEF Viewed!Seen
  <1> HIDE DEF H
  <1>4. /\ call' = [f \in Viewed(b, local)!CallFields |-> call'[f]]
        /\ call'.pc = op /\ call'.op = op /\ call'.hidden = H /\ call'.shown = {}
        /\ call'.parent = 0 /\ call'.reply = 0
    BY <1>2 DEF Viewed!CallFields
  <1>5. \A e \in call'.hidden :
           ~Viewed(b, local)!Shows(Viewed(b, local)!Reader(call'.op), rMode', rStored', rRecalled', e)
    BY <1>2, <1>3, <1>4 DEF Viewed!store
  <1>6. op \in Viewed(b, local)!CausalPlaces => op = "event_causal_context"
    BY <1>1 DEF Viewed!CausalPlaces
  <1> QED BY <1>1, <1>4, <1>5, <1>6 DEF Viewed!ViewInv, Viewed!Seen

LEMMA ViewNext ==
    ASSUME NEW CONSTANT b, NEW CONSTANT local, Viewed(b, local)!ViewInv,
           Viewed(b, local)!Next \/ UNCHANGED retrievalVars
    PROVE  Viewed(b, local)!ViewInv'
  <1>1. CASE Viewed(b, local)!Next
    BY <1>1, ViewReads, ViewWrites, ViewBegins DEF Viewed!Next
  <1>2. CASE UNCHANGED retrievalVars
    BY <1>2 DEF retrievalVars, Viewed!ViewInv, Viewed!Seen, Viewed!Shows
  <1> QED BY <1>1, <1>2

ViewedInv ==
    /\ topic = "remote" => Viewed(Remotely, FALSE)!ViewInv
    /\ topic = "local" => Viewed(Locally, TRUE)!ViewInv

(* Whatever is stored, recalled, merged, restricted and derived between the *)
(* statements of a call (mysql_retriever.rs, mysql_memory.rs), the view it  *)
(* returns holds no message that was out of the reader's reach from its     *)
(* beginning on, except the parent of a reply that was not linked when the  *)
(* first statement read it.                                                 *)
THEOREM ViewsHideWhatIsHidden == KnowledgeSpec => []NothingHiddenShown
  <1>1. KnowledgeInit => ViewedInv
    <2>1. \A b, local : Viewed(b, local)!Init => Viewed(b, local)!ViewInv
      BY DEF Viewed!Init, Viewed!ViewInv
    <2> QED BY <2>1 DEF KnowledgeInit, ViewedInv
  <1>2. ViewedInv /\ [KnowledgeNext]_knowledge => ViewedInv'
    <2> SUFFICES ASSUME ViewedInv, [KnowledgeNext]_knowledge PROVE ViewedInv'
      OBVIOUS
    <2>1. topic' = topic
      BY ChosenTopic
    <2>2. topic = "remote" => Viewed(Remotely, FALSE)!ViewInv'
      BY ChosenTopic, ViewNext DEF ViewedInv
    <2>3. topic = "local" => Viewed(Locally, TRUE)!ViewInv'
      BY ChosenTopic, ViewNext DEF ViewedInv
    <2> QED BY <2>1, <2>2, <2>3 DEF ViewedInv
  <1>3. ViewedInv => NothingHiddenShown
    <2>1. \A b, local : Viewed(b, local)!ViewInv => Viewed(b, local)!NothingHiddenShown
      BY DEF Viewed!ViewInv, Viewed!NothingHiddenShown
    <2> QED BY <2>1 DEF ViewedInv, NothingHiddenShown
  <1> QED BY <1>1, <1>2, <1>3, PTL DEF KnowledgeSpec

-----------------------------------------------------------------------------
(* 8. Names and cards of people.                                            *)

LEMMA SourceAppended ==
    ASSUME NEW CONSTANT chats, NEW CONSTANT events, Named(chats, events)!ParticipantAssumption,
           NEW sources \in Seq(Nat), NEW e \in Nat
    PROVE  Named(chats, events)!append_source(sources, e) \in Seq(Nat)
  <1>1. MaxSources \in Nat /\ MaxSources >= 1
    BY DEF Named!ParticipantAssumption
  <1>2. CASE Len(sources) >= MaxSources
    <2>1. sources # <<>>
      BY ONLY <1>1, <1>2, sources \in Seq(Nat)
    <2>2. Tail(sources) \in Seq(Nat)
      BY <2>1
    <2> QED BY <1>2, <2>2 DEF Named!append_source
  <1>3. CASE ~(Len(sources) >= MaxSources)
    BY <1>3 DEF Named!append_source
  <1> QED BY <1>2, <1>3

NamedMessage(chats) == [conv : chats, name : Names, card : Cards]
NamedAlias == [alias : Names, source : Nat]

(* What the front of a list of aliases holds. *)
LEMMA FrontOf ==
    ASSUME NEW CONSTANT chats, NEW CONSTANT events, NEW s \in Seq(NamedAlias), NEW n \in Nat
    PROVE  /\ Named(chats, events)!First(s, n) \in Seq(NamedAlias)
           /\ \A k \in DOMAIN Named(chats, events)!First(s, n) :
                k \in DOMAIN s /\ Named(chats, events)!First(s, n)[k] = s[k]
  <1> DEFINE m == IF Len(s) < n THEN Len(s) ELSE n
  <1>1. m \in Nat /\ m <= Len(s)
    OBVIOUS
  <1>2. Named(chats, events)!First(s, n) = SubSeq(s, 1, m)
    BY DEF Named!First
  <1> HIDE DEF m
  <1>3. SubSeq(s, 1, m) \in Seq(NamedAlias) /\ Len(SubSeq(s, 1, m)) = m
        /\ \A k \in 1..m : SubSeq(s, 1, m)[k] = s[k]
    BY <1>1
  <1> QED BY <1>1, <1>2, <1>3

(* The aliases after a rename are aliases before it, and the old name with  *)
(* the message that established it.                                         *)
LEMMA RenamedAliases ==
    ASSUME NEW CONSTANT chats, NEW CONSTANT events, Named(chats, events)!ParticipantAssumption,
           Named(chats, events)!NamesInv, profile # Named(chats, events)!NoProfile
    PROVE  /\ Named(chats, events)!AliasesAfter(profile) \in Seq(NamedAlias)
           /\ \A k \in DOMAIN Named(chats, events)!AliasesAfter(profile) :
                Named(chats, events)!Carries(
                    Named(chats, events)!AliasesAfter(profile)[k].source,
                    Named(chats, events)!AliasesAfter(profile)[k].alias)
  <1> DEFINE old == [alias |-> profile.name, source |-> profile.established]
             s == IF profile.name = Empty
                     \/ \E k \in DOMAIN profile.aliases : profile.aliases[k].alias = profile.name
                  THEN profile.aliases ELSE Append(profile.aliases, old)
  <1>1. /\ profile.aliases \in Seq(NamedAlias) /\ profile.name \in Names
        /\ profile.established \in Nat
    BY DEF Named!NamesInv, Named!ProfileShape, NamedAlias
  <1>2. \A k \in DOMAIN profile.aliases :
           Named(chats, events)!Carries(profile.aliases[k].source, profile.aliases[k].alias)
    BY DEF Named!NamesInv
  <1>3. Named(chats, events)!Carries(profile.established, profile.name)
    BY DEF Named!NamesInv
  <1>4. MaxAliases \in Nat
    BY DEF Named!ParticipantAssumption
  <1>5. Named(chats, events)!AliasesAfter(profile) = Named(chats, events)!First(s, MaxAliases)
    BY DEF Named!AliasesAfter
  <1>6. old \in NamedAlias /\ old.alias = profile.name /\ old.source = profile.established
    BY <1>1 DEF NamedAlias
  <1> DEFINE more == Append(profile.aliases, old)
  <1>7. s = profile.aliases \/ s = more
    OBVIOUS
  <1> HIDE DEF old, s
  <1>8. /\ more \in Seq(NamedAlias)
        /\ \A k \in DOMAIN more :
              \/ k \in DOMAIN profile.aliases /\ more[k] = profile.aliases[k]
              \/ more[k] = old
    BY <1>1, <1>6
  <1> HIDE DEF more
  <1>9. /\ s \in Seq(NamedAlias)
        /\ \A k \in DOMAIN s : Named(chats, events)!Carries(s[k].source, s[k].alias)
    BY <1>1, <1>2, <1>3, <1>6, <1>7, <1>8
  <1> QED BY <1>4, <1>5, <1>9, FrontOf

LEMMA RenamedSources ==
    ASSUME NEW CONSTANT chats, NEW CONSTANT events, Named(chats, events)!ParticipantAssumption,
           Named(chats, events)!NamesInv
    PROVE  \A k \in DOMAIN Named(chats, events)!AliasesAfter(profile) :
             LET source == Named(chats, events)!AliasesAfter(profile)[k].source
             IN \/ source = profile.established
                \/ \E i \in DOMAIN profile.aliases : source = profile.aliases[i].source
  <1> DEFINE old == [alias |-> profile.name, source |-> profile.established]
             more == Append(profile.aliases, old)
  <1>1. profile.aliases \in Seq(NamedAlias) /\ old \in NamedAlias /\ MaxAliases \in Nat
    BY DEF Named!NamesInv, Named!ProfileShape, NamedAlias, Named!ParticipantAssumption
  <1>2. old.source = profile.established
    OBVIOUS
  <1> HIDE DEF old
  <1>3. /\ more \in Seq(NamedAlias)
        /\ \A k \in DOMAIN more :
             (k \in DOMAIN profile.aliases /\ more[k] = profile.aliases[k]) \/ more[k] = old
    BY <1>1
  <1>4. Named(chats, events)!AliasesAfter(profile) \in
          {Named(chats, events)!First(profile.aliases, MaxAliases),
           Named(chats, events)!First(more, MaxAliases)}
    BY DEF Named!AliasesAfter, old
  <1> HIDE DEF more
  <1>5. MaxAliases \in Nat
    BY <1>1
  <1>6. ASSUME NEW q \in Seq(NamedAlias)
        PROVE  /\ Named(chats, events)!First(q, MaxAliases) \in Seq(NamedAlias)
               /\ \A k \in DOMAIN Named(chats, events)!First(q, MaxAliases) :
                    k \in DOMAIN q /\ Named(chats, events)!First(q, MaxAliases)[k] = q[k]
    BY <1>5, FrontOf
  <1>7. CASE Named(chats, events)!AliasesAfter(profile)
               = Named(chats, events)!First(profile.aliases, MaxAliases)
    <2>1. \A k \in DOMAIN Named(chats, events)!AliasesAfter(profile) :
             /\ k \in DOMAIN profile.aliases
             /\ Named(chats, events)!AliasesAfter(profile)[k] = profile.aliases[k]
      BY <1>1, <1>6, <1>7
    <2> QED BY <2>1
  <1>8. CASE Named(chats, events)!AliasesAfter(profile)
               = Named(chats, events)!First(more, MaxAliases)
    <2>1. \A k \in DOMAIN Named(chats, events)!AliasesAfter(profile) :
             k \in DOMAIN more /\ Named(chats, events)!AliasesAfter(profile)[k] = more[k]
      BY <1>3, <1>6, <1>8
    <2> QED BY <1>2, <1>3, <2>1
  <1> QED BY <1>4, <1>7, <1>8

(* A message that is stored brings its names; what was carried stays so. *)
LEMMA NamesInsert ==
    ASSUME NEW CONSTANT chats, NEW CONSTANT events, Named(chats, events)!ParticipantAssumption,
           Named(chats, events)!NamesInv, NEW c \in chats, NEW name \in Names, NEW card \in Cards,
           Named(chats, events)!insert(c, name, card)
    PROVE  Named(chats, events)!NamesInv'
  <1> DEFINE m == [conv |-> c, name |-> name, card |-> card]
             e == Len(people) + 1
  <1>1. /\ people \in Seq(NamedMessage(chats)) /\ profile \in Named(chats, events)!ProfileShape
        /\ obs \in [chats -> Named(chats, events)!ObservationShape]
    BY DEF Named!NamesInv, NamedMessage
  <1>2. m \in NamedMessage(chats) /\ m.conv = c /\ m.name = name /\ m.card = card
    BY DEF NamedMessage
  <1>3. people' = Append(people, m)
    BY DEF Named!insert
  <1> HIDE DEF m
  <1>4. /\ people' \in Seq(NamedMessage(chats)) /\ e \in Nat /\ e \in DOMAIN people'
        /\ people'[e] = m
        /\ \A k \in DOMAIN people : k \in DOMAIN people' /\ people'[k] = people[k]
    BY <1>1, <1>2, <1>3
  <1>5. /\ profile' = profile \/ profile' = Named(chats, events)!upsert_participant_profile(
                                                profile, name, e)
        /\ \/ obs' = obs
           \/ obs' = [obs EXCEPT ![c] = Named(chats, events)!upsert_conversation_observation(
                                            @, card, e)]
    BY DEF Named!insert
  <1> HIDE DEF e
  <1>6. \A k, n : Named(chats, events)!Carries(k, n) => k \in DOMAIN people' /\ people'[k].name = n
    BY <1>4 DEF Named!Carries
  <1>7. /\ profile' \in Named(chats, events)!ProfileShape
        /\ \/ profile' = Named(chats, events)!NoProfile
           \/ profile'.established \in DOMAIN people'
              /\ people'[profile'.established].name = profile'.name
        /\ \A k \in DOMAIN profile'.aliases :
             /\ profile'.aliases[k].source \in DOMAIN people'
             /\ people'[profile'.aliases[k].source].name = profile'.aliases[k].alias
    <2> DEFINE Goal(p) == /\ p \in Named(chats, events)!ProfileShape
                          /\ \/ p = Named(chats, events)!NoProfile
                             \/ p.established \in DOMAIN people'
                                /\ people'[p.established].name = p.name
                          /\ \A k \in DOMAIN p.aliases :
                               /\ p.aliases[k].source \in DOMAIN people'
                               /\ people'[p.aliases[k].source].name = p.aliases[k].alias
    <2>1. Goal(profile)
      BY <1>1, <1>6 DEF Named!NamesInv
    <2>2. Named(chats, events)!append_source(profile.sources, e) \in Seq(Nat)
      BY <1>1, <1>4, SourceAppended DEF Named!ProfileShape
    <2>3. CASE profile = Named(chats, events)!NoProfile
      <3> DEFINE p == [name |-> name, aliases |-> <<>>, established |-> e, sources |-> <<e>>,
                       invalidated |-> FALSE]
      <3>1. Named(chats, events)!upsert_participant_profile(profile, name, e) = p
        BY <2>3 DEF Named!upsert_participant_profile, Named!NoProfile
      <3>2. Goal(p)
        BY <1>2, <1>4 DEF Named!ProfileShape
      <3> HIDE DEF p, Goal
      <3>3. Goal(profile')
        BY <1>5, <2>1, <3>1, <3>2
      <3> QED BY <3>3 DEF Goal
    <2>4. CASE profile # Named(chats, events)!NoProfile /\ profile.name = name
      <3> DEFINE new == Named(chats, events)!append_source(profile.sources, e)
                 p == [profile EXCEPT !.sources = new]
      <3>1. Named(chats, events)!upsert_participant_profile(profile, name, e) = p
        BY <2>4 DEF Named!upsert_participant_profile
      <3> HIDE DEF new
      <3>2. /\ p \in Named(chats, events)!ProfileShape /\ p.name = profile.name
            /\ p.established = profile.established /\ p.aliases = profile.aliases
        BY <1>1, <2>2 DEF Named!ProfileShape, new
      <3> HIDE DEF p
      <3>3. Goal(p)
        BY <2>1, <2>4, <3>2
      <3> QED BY <1>5, <2>1, <3>1, <3>3
    <2>5. CASE profile # Named(chats, events)!NoProfile /\ profile.name # name
      <3> DEFINE new == Named(chats, events)!append_source(profile.sources, e)
                 al == Named(chats, events)!AliasesAfter(profile)
                 p == [name |-> name, aliases |-> al, established |-> e, sources |-> new,
                       invalidated |-> FALSE]
      <3>1. Named(chats, events)!upsert_participant_profile(profile, name, e) = p
        BY <2>5 DEF Named!upsert_participant_profile
      <3>2. /\ al \in Seq(NamedAlias)
            /\ \A k \in DOMAIN al : Named(chats, events)!Carries(al[k].source, al[k].alias)
        BY <2>5, RenamedAliases
      <3> HIDE DEF new, al
      <3>3. p \in Named(chats, events)!ProfileShape
        BY <1>4, <2>2, <3>2 DEF Named!ProfileShape, new, NamedAlias
      <3>4. \A k \in DOMAIN al : /\ al[k].source \in DOMAIN people'
                                 /\ people'[al[k].source].name = al[k].alias
        BY <1>6, <3>2
      <3>5. p.established = e /\ p.name = name /\ p.aliases = al
        OBVIOUS
      <3> HIDE DEF p
      <3>6. Goal(p)
        BY <1>2, <1>4, <3>3, <3>4, <3>5
      <3> QED BY <1>5, <2>1, <3>1, <3>6
    <2> QED BY <2>3, <2>4, <2>5
  <1>8. /\ obs' \in [chats -> Named(chats, events)!ObservationShape]
        /\ \A d \in chats :
             \/ obs'[d].card = Empty
             \/ /\ obs'[d].established \in DOMAIN people'
                /\ people'[obs'[d].established].card = obs'[d].card
                /\ people'[obs'[d].established].conv = d
    <2> DEFINE Goal(d, o) == /\ o \in Named(chats, events)!ObservationShape
                             /\ \/ o.card = Empty
                                \/ /\ o.established \in DOMAIN people'
                                   /\ people'[o.established].card = o.card
                                   /\ people'[o.established].conv = d
    <2>1. \A d \in chats : Goal(d, obs[d])
      BY <1>1, <1>4 DEF Named!NamesInv, Named!CardCarried
    <2> DEFINE new == Named(chats, events)!append_source(obs[c].sources, e)
               since == IF card = Empty \/ obs[c].card # card THEN e ELSE obs[c].established
               o == Named(chats, events)!upsert_conversation_observation(obs[c], card, e)
    <2>2. obs[c] \in Named(chats, events)!ObservationShape
      BY <1>1
    <2>3. new \in Seq(Nat)
      BY <1>4, <2>2, SourceAppended DEF Named!ObservationShape
    <2>4. o = [obs[c] EXCEPT !.card = card, !.sources = new, !.established = since]
      BY DEF Named!upsert_conversation_observation
    <2> HIDE DEF new, o
    <2>5. since \in Nat /\ card \in Names
      BY <1>4, <2>2 DEF Named!ObservationShape, Named!ParticipantAssumption
    <2>6. /\ o \in Named(chats, events)!ObservationShape /\ o.card = card
          /\ o.established = since
      <3> HIDE DEF since
      <3> QED BY <2>2, <2>3, <2>4, <2>5 DEF Named!ObservationShape
    <2>7. Goal(c, o)
      BY <1>2, <1>4, <2>1, <2>6
    <2> HIDE DEF Goal, since
    <2>8. CASE obs' = obs
      BY <1>1, <2>1, <2>8 DEF Goal
    <2>9. CASE obs' = [obs EXCEPT ![c] = o]
      <3>1. /\ obs' \in [chats -> Named(chats, events)!ObservationShape]
            /\ \A d \in chats : obs'[d] = IF d = c THEN o ELSE obs[d]
        BY <1>1, <2>6, <2>9
      <3> QED BY <2>1, <2>7, <3>1 DEF Goal
    <2> QED BY <1>5, <2>8, <2>9 DEF o
  <1> QED BY <1>4, <1>7, <1>8 DEF Named!NamesInv, NamedMessage, Named!Carries, Named!CardCarried

(* Nobody knows a person without a profile, in any conversation.            *)
LEMMA UnknownUntouched ==
    ASSUME NEW CONSTANT chats, NEW CONSTANT events, Named(chats, events)!NamesInv,
           NEW c \in chats, NEW m, Named(chats, events)!set_conversation_mode(c, m),
           profile = Named(chats, events)!NoProfile
    PROVE  profile' = profile
  <1>1. profile.established = 0 /\ profile.sources = <<>>
    BY DEF Named!NoProfile
  <1>2. people \in Seq(NamedMessage(chats))
    BY DEF Named!NamesInv, NamedMessage
  <1>3. 0 \notin DOMAIN people
    BY <1>2
  <1>4. ~Named(chats, events)!In(c, profile.established)
    BY <1>1, <1>3 DEF Named!In
  <1>5. DOMAIN profile.sources = {}
    BY <1>1
  <1> QED BY <1>4, <1>5 DEF Named!set_conversation_mode

(* A conversation that is restricted invalidates what came from it, and     *)
(* takes no name away.                                                      *)
LEMMA NamesMode ==
    ASSUME NEW CONSTANT chats, NEW CONSTANT events, Named(chats, events)!NamesInv,
           NEW c \in chats, NEW m, Named(chats, events)!set_conversation_mode(c, m)
    PROVE  Named(chats, events)!NamesInv'
  <1>1. /\ people' = people
        /\ profile' = profile \/ profile' = [profile EXCEPT !.invalidated = TRUE]
        /\ obs' = obs \/ obs' = [obs EXCEPT ![c].invalidated = TRUE]
    BY DEF Named!set_conversation_mode, Named!messages
  <1>2. /\ profile \in Named(chats, events)!ProfileShape
        /\ obs \in [chats -> Named(chats, events)!ObservationShape]
    BY DEF Named!NamesInv
  <1>3. /\ profile' \in Named(chats, events)!ProfileShape /\ profile'.name = profile.name
        /\ profile'.established = profile.established /\ profile'.aliases = profile.aliases
    <2> DEFINE p == [profile EXCEPT !.invalidated = TRUE]
    <2>1. /\ p \in Named(chats, events)!ProfileShape /\ p.name = profile.name
          /\ p.established = profile.established /\ p.aliases = profile.aliases
      BY <1>2 DEF Named!ProfileShape
    <2> HIDE DEF p
    <2> QED BY <1>1, <1>2, <2>1 DEF p
  <1>4. /\ obs' \in [chats -> Named(chats, events)!ObservationShape]
        /\ \A d \in chats : obs'[d].card = obs[d].card /\ obs'[d].established = obs[d].established
    <2> DEFINE o == [obs[c] EXCEPT !.invalidated = TRUE]
    <2>1. obs[c] \in Named(chats, events)!ObservationShape
      BY <1>2
    <2>2. /\ o \in Named(chats, events)!ObservationShape /\ o.card = obs[c].card
          /\ o.established = obs[c].established
      BY <2>1 DEF Named!ObservationShape
    <2> HIDE DEF o
    <2>3. obs' = obs \/ obs' = [obs EXCEPT ![c] = o]
      BY <1>1 DEF o
    <2> QED BY <1>2, <2>2, <2>3
  <1>5. profile = Named(chats, events)!NoProfile =>
           profile' = profile \/ Named(chats, events)!Carries(profile.established, profile.name)
    BY UnknownUntouched
  <1>6. profile' = Named(chats, events)!NoProfile
           \/ Named(chats, events)!Carries(profile'.established, profile'.name)
    BY <1>3, <1>5 DEF Named!NamesInv
  <1> QED BY <1>1, <1>3, <1>4, <1>6
          DEF Named!NamesInv, Named!Carries, Named!CardCarried

LEMMA NamesNext ==
    ASSUME NEW CONSTANT chats, NEW CONSTANT events, Named(chats, events)!ParticipantAssumption,
           Named(chats, events)!NamesInv,
           Named(chats, events)!Next \/ UNCHANGED peopleVars
    PROVE  Named(chats, events)!NamesInv'
  <1>1. CASE UNCHANGED peopleVars
    BY <1>1 DEF peopleVars, Named!NamesInv, Named!Carries, Named!CardCarried
  <1>2. CASE \E c \in chats, name \in Names, card \in Cards :
                Named(chats, events)!insert(c, name, card)
    BY <1>2, NamesInsert
  <1>3. CASE \E e \in Named(chats, events)!Events : Named(chats, events)!record_recall(e)
    BY <1>3 DEF Named!record_recall, Named!NamesInv, Named!Carries, Named!CardCarried
  <1>4. CASE \E c \in chats, m \in Named(chats, events)!Modes :
                Named(chats, events)!set_conversation_mode(c, m)
    BY <1>4, NamesMode
  <1> QED BY <1>1, <1>2, <1>3, <1>4 DEF Named!Next

(* A number above those of an ascending sequence goes to its end, and the   *)
(* first makes room.                                                        *)
LEMMA EndAppended ==
    ASSUME NEW s \in Seq(Nat), NEW x \in Nat
    PROVE  LET t == Append(s, x)
           IN /\ t \in Seq(Nat) /\ Len(t) = Len(s) + 1 /\ DOMAIN t = 1..(Len(s) + 1)
              /\ t[Len(s) + 1] = x /\ \A k \in 1..Len(s) : t[k] = s[k]
  OBVIOUS

LEMMA FirstDropped ==
    ASSUME NEW s \in Seq(Nat), NEW x \in Nat, s # <<>>
    PROVE  LET t == Append(Tail(s), x)
           IN /\ t \in Seq(Nat) /\ Len(t) = Len(s) /\ DOMAIN t = 1..Len(s)
              /\ t[Len(s)] = x /\ \A k \in 1..(Len(s) - 1) : t[k] = s[k + 1]
  <1> DEFINE u == Tail(s)
  <1>1. /\ u \in Seq(Nat) /\ Len(u) = Len(s) - 1 /\ Len(s) \in Nat /\ Len(s) >= 1
        /\ \A k \in 1..(Len(s) - 1) : u[k] = s[k + 1]
    OBVIOUS
  <1> HIDE DEF u
  <1>2. /\ Append(u, x) \in Seq(Nat) /\ Len(Append(u, x)) = Len(u) + 1
        /\ DOMAIN Append(u, x) = 1..(Len(u) + 1)
        /\ Append(u, x)[Len(u) + 1] = x /\ \A k \in 1..Len(u) : Append(u, x)[k] = u[k]
    BY <1>1, EndAppended
  <1> QED BY <1>1, <1>2 DEF u

(* The list of sources keeps the last messages in their order.              *)
Ascending(s, n) == /\ \A k \in DOMAIN s : s[k] \in 1..n
                   /\ \A k, l \in DOMAIN s : k < l => s[k] < s[l]
Has(s, e) == \E k \in DOMAIN s : s[k] = e
AllAfter(s, e) == \A k \in DOMAIN s : s[k] > e

LEMMA LastSources ==
    ASSUME NEW CONSTANT chats, NEW CONSTANT events, Named(chats, events)!ParticipantAssumption,
           NEW s \in Seq(Nat), NEW n \in Nat, Len(s) <= MaxSources, Ascending(s, n),
           NEW t, t = Named(chats, events)!append_source(s, n + 1)
    PROVE  /\ t \in Seq(Nat) /\ Len(t) <= MaxSources /\ Ascending(t, n + 1) /\ Has(t, n + 1)
           /\ \A e \in 1..n :
                (Has(s, e) \/ (Len(s) = MaxSources /\ AllAfter(s, e)))
                => (Has(t, e) \/ (Len(t) = MaxSources /\ AllAfter(t, e)))
  <1>1. MaxSources \in Nat /\ MaxSources >= 1
    BY DEF Named!ParticipantAssumption
  <1>2. /\ \A k \in DOMAIN s : s[k] # n + 1
        /\ DOMAIN s = 1..Len(s) /\ Len(s) \in Nat /\ n + 1 \in Nat
    BY DEF Ascending
  <1>3. CASE Len(s) < MaxSources
    <2>1. t = Append(s, n + 1)
      BY <1>1, <1>2, <1>3 DEF Named!append_source
    <2>2. /\ t \in Seq(Nat) /\ Len(t) = Len(s) + 1 /\ DOMAIN t = 1..(Len(s) + 1)
          /\ t[Len(s) + 1] = n + 1 /\ \A k \in 1..Len(s) : t[k] = s[k]
      BY <1>2, <2>1, EndAppended
    <2>3. \A k \in DOMAIN t : k \in 1..Len(s) \/ k = Len(s) + 1
      BY ONLY <1>2, <2>2
    <2>4. \A k \in DOMAIN t : t[k] \in 1..(n + 1)
      BY ONLY n \in Nat, Ascending(s, n), <1>2, <2>2, <2>3 DEF Ascending
    <2>5. ASSUME NEW k \in DOMAIN t, NEW l \in DOMAIN t, k < l PROVE t[k] < t[l]
      <3>1. k \in 1..Len(s) /\ t[k] = s[k] /\ s[k] \in 1..n
        BY <1>2, <2>2, <2>3, <2>5 DEF Ascending
      <3>2. CASE l = Len(s) + 1
        BY ONLY n \in Nat, <2>2, <3>1, <3>2
      <3>3. CASE l \in 1..Len(s)
        BY <1>2, <2>2, <2>5, <3>1, <3>3 DEF Ascending
      <3> QED BY <2>3, <3>2, <3>3
    <2>6. Has(t, n + 1)
      BY ONLY <1>2, <2>2 DEF Has
    <2>7. \A e \in 1..n : Has(s, e) => Has(t, e)
      BY ONLY <1>2, <2>2 DEF Has
    <2>8. Len(t) <= MaxSources /\ Len(s) # MaxSources
      <3>1. Len(t) = Len(s) + 1 /\ Len(s) \in Nat /\ MaxSources \in Nat
        BY <1>1, <1>2, <2>2
      <3> QED BY ONLY <1>3, <3>1
    <2> QED BY <2>2, <2>4, <2>5, <2>6, <2>7, <2>8 DEF Ascending
  <1>4. CASE Len(s) = MaxSources
    <2>1. s # <<>>
      BY <1>1, <1>4
    <2>2. t = Append(Tail(s), n + 1)
      BY <1>1, <1>2, <1>4 DEF Named!append_source
    <2>3. /\ t \in Seq(Nat) /\ Len(t) = Len(s) /\ DOMAIN t = 1..Len(s)
          /\ t[Len(s)] = n + 1 /\ \A k \in 1..(Len(s) - 1) : t[k] = s[k + 1]
      <3>1. n + 1 \in Nat
        OBVIOUS
      <3> QED BY ONLY s \in Seq(Nat), <2>1, <2>2, <3>1, FirstDropped
    <2>4. \A k \in DOMAIN t : (k \in 1..(Len(s) - 1) /\ k + 1 \in DOMAIN s) \/ k = Len(s)
      BY ONLY <1>2, <2>3
    <2>5. \A k \in DOMAIN t : t[k] \in 1..(n + 1)
      <3>1. \A k \in 1..(Len(s) - 1) : k + 1 \in DOMAIN s => t[k] \in 1..n
        BY <2>3 DEF Ascending
      <3>2. n + 1 \in 1..(n + 1) /\ 1..n \subseteq 1..(n + 1)
        BY ONLY n \in Nat
      <3> QED BY <2>3, <2>4, <3>1, <3>2
    <2>6. ASSUME NEW k \in DOMAIN t, NEW l \in DOMAIN t, k < l PROVE t[k] < t[l]
      <3>1. k \in 1..(Len(s) - 1) /\ k + 1 \in DOMAIN s /\ t[k] = s[k + 1] /\ s[k + 1] \in 1..n
        BY <1>2, <2>3, <2>4, <2>6 DEF Ascending
      <3>2. CASE l = Len(s)
        BY ONLY n \in Nat, <2>3, <3>1, <3>2
      <3>3. CASE l \in 1..(Len(s) - 1) /\ l + 1 \in DOMAIN s
        <4>1. t[l] = s[l + 1] /\ k + 1 < l + 1
          BY ONLY <1>2, <2>3, <2>6, <3>1, <3>3
        <4> QED BY <3>1, <3>3, <4>1 DEF Ascending
      <3> QED BY <2>4, <3>2, <3>3
    <2>7. ASSUME NEW e \in 1..n, NEW k \in DOMAIN s, s[k] = e
          PROVE  Has(t, e) \/ AllAfter(t, e)
      <3>1. CASE k = 1
        <4>1. ASSUME NEW l \in DOMAIN t PROVE t[l] > e
          <5>1. CASE l = Len(s)
            BY ONLY e \in 1..n, n \in Nat, <2>3, <5>1
          <5>2. CASE l \in 1..(Len(s) - 1) /\ l + 1 \in DOMAIN s
            <6>1. k < l + 1 /\ t[l] = s[l + 1]
              BY ONLY <1>2, <2>3, <3>1, <5>2
            <6>2. s[k] < s[l + 1] /\ s[l + 1] \in Nat /\ s[k] \in Nat
              BY <5>2, <6>1 DEF Ascending
            <6> QED BY ONLY <2>7, <6>1, <6>2
          <5> QED BY <2>4, <5>1, <5>2
        <4> QED BY <4>1 DEF AllAfter
      <3>2. CASE k > 1
        <4>1. k - 1 \in 1..(Len(s) - 1) /\ k - 1 \in DOMAIN t /\ (k - 1) + 1 = k
          BY ONLY k \in DOMAIN s, <1>2, <2>3, <3>2
        <4>2. t[k - 1] = s[(k - 1) + 1]
          BY ONLY <2>3, <4>1
        <4> QED BY ONLY <2>7, <4>1, <4>2 DEF Has
      <3>3. k = 1 \/ k > 1
        BY ONLY k \in DOMAIN s, <1>2
      <3> QED BY <3>1, <3>2, <3>3
    <2>8. ASSUME NEW e \in 1..n, AllAfter(s, e) PROVE AllAfter(t, e)
      BY ONLY e \in 1..n, n \in Nat, <2>3, <2>4, <2>8 DEF AllAfter
    <2>9. Has(t, n + 1)
      BY ONLY <1>1, <1>2, <1>4, <2>3 DEF Has
    <2>10. \A e \in 1..n : Has(s, e) => Has(t, e) \/ AllAfter(t, e)
      BY <2>7 DEF Has
    <2> QED BY <1>1, <1>4, <2>3, <2>5, <2>6, <2>8, <2>9, <2>10 DEF Ascending
  <1>5. Len(s) < MaxSources \/ Len(s) = MaxSources
    BY <1>1
  <1> QED BY <1>3, <1>4, <1>5

(* A message that is stored is followed by the list of the profile, and so  *)
(* are the messages that were.                                              *)
LEMMA SourcesInsert ==
    ASSUME NEW CONSTANT chats, NEW CONSTANT events, Named(chats, events)!ParticipantAssumption,
           Named(chats, events)!NamesInv, Named(chats, events)!SourcesInv,
           NEW c \in chats, NEW name \in Names, NEW card \in Cards,
           Named(chats, events)!insert(c, name, card)
    PROVE  Named(chats, events)!SourcesInv'
  <1> DEFINE n == Len(people)
             m == [conv |-> c, name |-> name, card |-> card]
             t == Named(chats, events)!append_source(profile.sources, n + 1)
             Follows(e, s) == Has(s, e) \/ (Len(s) = MaxSources /\ AllAfter(s, e))
             Listed(s, k) == Len(s) <= MaxSources /\ Ascending(s, k)
  <1>1. /\ people \in Seq(NamedMessage(chats)) /\ n \in Nat /\ DOMAIN people = 1..n
        /\ profile.sources \in Seq(Nat) /\ profile \in Named(chats, events)!ProfileShape
    BY DEF Named!NamesInv, Named!ProfileShape, NamedMessage
  <1>2. /\ people' = Append(people, m)
        /\ \/ profile' = profile
           \/ profile' = Named(chats, events)!upsert_participant_profile(profile, name, n + 1)
    BY DEF Named!insert
  <1>3. m \in NamedMessage(chats)
    BY DEF NamedMessage
  <1> HIDE DEF m
  <1>4. DOMAIN people' = 1..(n + 1) /\ 1..n \subseteq 1..(n + 1)
    BY <1>1, <1>2, <1>3
  <1> DEFINE Good(p, k) ==
               /\ Listed(p.sources, k)
               /\ p = Named(chats, events)!NoProfile \/ Follows(p.established, p.sources)
               /\ \A i \in DOMAIN p.aliases : Follows(p.aliases[i].source, p.sources)
  <1>5. Good(profile, n)
    BY <1>1 DEF Named!SourcesInv, Named!Followed, Named!InSources, Named!PushedOut, Has, AllAfter,
                Ascending
  <1>6. /\ t \in Seq(Nat) /\ Listed(t, n + 1) /\ Follows(n + 1, t)
        /\ \A e \in 1..n : Follows(e, profile.sources) => Follows(e, t)
    BY <1>1, <1>5, LastSources
  <1>7. Good(profile, n + 1)
    BY <1>1, <1>4, <1>5 DEF Ascending
  <1>8. /\ profile = Named(chats, events)!NoProfile \/ profile.established \in 1..n
        /\ \A k \in DOMAIN profile.aliases : profile.aliases[k].source \in 1..n
    BY <1>1 DEF Named!NamesInv, Named!Carries
  <1> HIDE DEF t, n, Follows, Listed
  <1>9. Good(Named(chats, events)!upsert_participant_profile(profile, name, n + 1), n + 1)
    <2>1. CASE profile = Named(chats, events)!NoProfile
      <3> DEFINE p == [name |-> name, aliases |-> <<>>, established |-> n + 1,
                       sources |-> <<n + 1>>, invalidated |-> FALSE]
      <3>1. Named(chats, events)!upsert_participant_profile(profile, name, n + 1) = p
        BY <2>1 DEF Named!upsert_participant_profile, Named!NoProfile
      <3>2. Good(p, n + 1)
        BY <1>1 DEF Follows, Listed, Has, Ascending, Named!ParticipantAssumption
      <3> QED BY <3>1, <3>2
    <2>2. CASE profile # Named(chats, events)!NoProfile /\ profile.name = name
      <3> DEFINE p == [profile EXCEPT !.sources = t]
      <3>1. Named(chats, events)!upsert_participant_profile(profile, name, n + 1) = p
        BY <2>2 DEF Named!upsert_participant_profile, t
      <3>2. /\ p.established = profile.established /\ p.aliases = profile.aliases
            /\ p.sources = t
        BY <1>1 DEF Named!ProfileShape
      <3> HIDE DEF p
      <3>3. Good(p, n + 1)
        BY <1>5, <1>6, <1>8, <2>2, <3>2
      <3> QED BY <3>1, <3>3
    <2>3. CASE profile # Named(chats, events)!NoProfile /\ profile.name # name
      <3> DEFINE al == Named(chats, events)!AliasesAfter(profile)
                 p == [name |-> name, aliases |-> al, established |-> n + 1, sources |-> t,
                       invalidated |-> FALSE]
      <3>1. Named(chats, events)!upsert_participant_profile(profile, name, n + 1) = p
        BY <2>3 DEF Named!upsert_participant_profile, t
      <3>2. \A k \in DOMAIN al : \/ al[k].source = profile.established
                                 \/ \E i \in DOMAIN profile.aliases :
                                       al[k].source = profile.aliases[i].source
        BY <2>3, RenamedSources
      <3> HIDE DEF al
      <3>3. \A k \in DOMAIN al : al[k].source \in 1..n /\ Follows(al[k].source, profile.sources)
        BY <1>5, <1>8, <2>3, <3>2
      <3>4. Good(p, n + 1)
        BY <1>6, <3>3
      <3> QED BY <3>1, <3>4
    <2> QED BY <2>1, <2>2, <2>3
  <1>10. Good(profile', n + 1)
    BY <1>2, <1>7, <1>9
  <1> QED BY <1>4, <1>10 DEF Follows, Listed, Has, AllAfter, Ascending, Named!SourcesInv, Named!Followed, Named!InSources,
                             Named!PushedOut

LEMMA SourcesNext ==
    ASSUME NEW CONSTANT chats, NEW CONSTANT events, Named(chats, events)!ParticipantAssumption,
           Named(chats, events)!NamesInv, Named(chats, events)!SourcesInv,
           Named(chats, events)!Next \/ UNCHANGED peopleVars
    PROVE  Named(chats, events)!SourcesInv'
  <1>1. CASE \E c \in chats, name \in Names, card \in Cards :
                Named(chats, events)!insert(c, name, card)
    BY <1>1, SourcesInsert
  <1>2. CASE \E e \in Named(chats, events)!Events : Named(chats, events)!record_recall(e)
    BY <1>2 DEF Named!record_recall, Named!SourcesInv, Named!Followed, Named!InSources,
                Named!PushedOut
  <1>3. CASE \E c \in chats, m \in Named(chats, events)!Modes :
                Named(chats, events)!set_conversation_mode(c, m)
    <2>1. PICK c \in chats, m \in Named(chats, events)!Modes :
             Named(chats, events)!set_conversation_mode(c, m)
      BY <1>3
    <2>2. /\ people' = people
          /\ profile' = profile \/ profile' = [profile EXCEPT !.invalidated = TRUE]
      BY <2>1 DEF Named!set_conversation_mode, Named!messages
    <2>3. profile \in Named(chats, events)!ProfileShape
      BY DEF Named!NamesInv
    <2>4. /\ profile'.sources = profile.sources /\ profile'.aliases = profile.aliases
          /\ profile'.established = profile.established
      BY <2>2, <2>3 DEF Named!ProfileShape
    <2>5. profile = Named(chats, events)!NoProfile => profile' = profile
      BY <2>1, UnknownUntouched
    <2> QED BY <2>2, <2>4, <2>5 DEF Named!SourcesInv, Named!Followed, Named!InSources,
                                    Named!PushedOut
  <1>4. CASE UNCHANGED peopleVars
    BY <1>4 DEF peopleVars, Named!SourcesInv, Named!Followed, Named!InSources, Named!PushedOut
  <1> QED BY <1>1, <1>2, <1>3, <1>4 DEF Named!Next

(* What is shown, and what one is found under, is then supported.           *)
LEMMA NamesShown ==
    ASSUME NEW CONSTANT chats, NEW CONSTANT events, Named(chats, events)!NamesInv,
           Named(chats, events)!SourcesInv
    PROVE  /\ Named(chats, events)!NameShownIsSupported
           /\ Named(chats, events)!CardShownIsSupported
           /\ Named(chats, events)!OldNameShownIsSupported
           /\ Named(chats, events)!ByNameIsSupported
  <1>1. Named(chats, events)!NameShownIsSupported
    <2> SUFFICES ASSUME NEW name \in Named(chats, events)!DisplayName
                 PROVE  \E e \in DOMAIN people :
                          Named(chats, events)!Supports(e, name, Named(chats, events)!Envelope)
      BY DEF Named!NameShownIsSupported
    <2>1. /\ Named(chats, events)!profile_event_valid(profile.established)
          /\ name = profile.name /\ name # Empty
      BY DEF Named!DisplayName
    <2>2. Named(chats, events)!Usable(profile.established, Named(chats, events)!Envelope)
      BY <2>1 DEF Named!profile_event_valid
    <2>3. profile # Named(chats, events)!NoProfile
      BY <2>1 DEF Named!NoProfile
    <2>4. Named(chats, events)!Carries(profile.established, profile.name)
      BY <2>3 DEF Named!NamesInv
    <2> QED BY <2>1, <2>2, <2>4 DEF Named!Supports, Named!Carries
  <1>2. Named(chats, events)!CardShownIsSupported
    <2> SUFFICES ASSUME NEW c \in chats, NEW card \in Named(chats, events)!GroupCard(c)
                 PROVE  \E e \in DOMAIN people :
                          /\ Named(chats, events)!Usable(e, {"normal"}) /\ people[e].card = card
                          /\ people[e].conv = c
      BY DEF Named!CardShownIsSupported
    <2>1. Named(chats, events)!observation_valid(c) /\ card = obs[c].card /\ card # Empty
      BY DEF Named!GroupCard
    <2>2. Named(chats, events)!Usable(obs[c].established, {"normal"})
      BY <2>1 DEF Named!observation_valid, Named!single_event_valid
    <2>3. Named(chats, events)!CardCarried(c, obs[c].established, obs[c].card)
      BY <2>1 DEF Named!NamesInv
    <2> QED BY <2>1, <2>2, <2>3 DEF Named!CardCarried
  <1>3. Named(chats, events)!ByNameIsSupported
    <2> SUFFICES ASSUME NEW name \in Names \ {Empty}, NEW c \in chats,
                        Named(chats, events)!participants_by_display_name(name, c)
                 PROVE  \E e \in DOMAIN people :
                          \/ Named(chats, events)!Supports(e, name, {"normal"})
                          \/ /\ Named(chats, events)!Usable(e, {"normal"})
                             /\ people[e].card = name /\ people[e].conv = c
      BY DEF Named!ByNameIsSupported
    <2>1. CASE profile.name = name
               /\ Named(chats, events)!single_event_valid(profile.established)
      <3>1. profile # Named(chats, events)!NoProfile
        BY <2>1 DEF Named!NoProfile
      <3>2. Named(chats, events)!Carries(profile.established, profile.name)
        BY <3>1 DEF Named!NamesInv
      <3> QED BY <2>1, <3>2 DEF Named!single_event_valid, Named!Supports, Named!Carries
    <2>2. CASE \E k \in DOMAIN profile.aliases :
                 /\ profile.aliases[k].alias = name
                 /\ Named(chats, events)!single_event_valid(profile.aliases[k].source)
      <3>1. PICK k \in DOMAIN profile.aliases :
                 /\ profile.aliases[k].alias = name
                 /\ Named(chats, events)!single_event_valid(profile.aliases[k].source)
        BY <2>2
      <3>2. Named(chats, events)!Carries(profile.aliases[k].source, profile.aliases[k].alias)
        BY DEF Named!NamesInv
      <3> QED BY <3>1, <3>2 DEF Named!single_event_valid, Named!Supports, Named!Carries
    <2>3. CASE obs[c].card = name /\ Named(chats, events)!observation_valid(c)
      <3>1. Named(chats, events)!Usable(obs[c].established, {"normal"})
        BY <2>3 DEF Named!observation_valid, Named!single_event_valid
      <3>2. Named(chats, events)!CardCarried(c, obs[c].established, obs[c].card)
        BY <2>3 DEF Named!NamesInv
      <3> QED BY <2>3, <3>1, <3>2 DEF Named!CardCarried
    <2> QED BY <2>1, <2>2, <2>3 DEF Named!participants_by_display_name
  <1>4. Named(chats, events)!OldNameShownIsSupported
    <2> SUFFICES ASSUME Named(chats, events)!profile_valid, NEW k \in DOMAIN profile.aliases
                 PROVE  LET old == profile.aliases[k]
                        IN /\ Named(chats, events)!Carries(old.source, old.alias)
                           /\ \/ Named(chats, events)!Usable(old.source,
                                                             Named(chats, events)!Envelope)
                              \/ Named(chats, events)!PushedOut(old.source)
      BY DEF Named!OldNameShownIsSupported
    <2>1. Named(chats, events)!Carries(profile.aliases[k].source, profile.aliases[k].alias)
      BY DEF Named!NamesInv
    <2>2. Named(chats, events)!Followed(profile.aliases[k].source)
      BY DEF Named!SourcesInv
    <2>3. \A l \in DOMAIN profile.sources :
             Named(chats, events)!Usable(profile.sources[l], Named(chats, events)!Envelope)
      BY DEF Named!profile_valid, Named!profile_source_refs_valid, Named!Valid
    <2> QED BY <2>1, <2>2, <2>3 DEF Named!Followed, Named!InSources
  <1> QED BY <1>1, <1>2, <1>3, <1>4

PeopleInv ==
    IF part = "renames"
    THEN Named(RenameChats, MaxRenameEvents)!NamesInv
         /\ Named(RenameChats, MaxRenameEvents)!SourcesInv
    ELSE Named(Chats, MaxEvents)!NamesInv /\ Named(Chats, MaxEvents)!SourcesInv

LEMMA NamesInit ==
    ASSUME NEW CONSTANT chats, NEW CONSTANT events, Named(chats, events)!ParticipantAssumption,
           Named(chats, events)!Init
    PROVE  Named(chats, events)!NamesInv /\ Named(chats, events)!SourcesInv
  <1>1. Empty \in Names
    BY DEF Named!ParticipantAssumption
  <1>2. profile \in Named(chats, events)!ProfileShape /\ profile = Named(chats, events)!NoProfile
    BY <1>1 DEF Named!Init, Named!NoProfile, Named!ProfileShape
  <1>3. /\ obs \in [chats -> Named(chats, events)!ObservationShape]
        /\ \A c \in chats : obs[c].card = Empty
    BY <1>1 DEF Named!Init, Named!NoObservation, Named!ObservationShape
  <1>4. /\ people = <<>> /\ DOMAIN profile.aliases = {} /\ DOMAIN profile.sources = {}
        /\ Len(profile.sources) = 0
    BY <1>2 DEF Named!Init, Named!NoProfile
  <1>5. Named(chats, events)!NamesInv
    BY <1>2, <1>3, <1>4 DEF Named!NamesInv
  <1>6. Named(chats, events)!SourcesInv
    BY <1>2, <1>4 DEF Named!SourcesInv, Named!ParticipantAssumption
  <1> QED BY <1>5, <1>6

(* A name or a group card is shown, and a person is found under a name, an  *)
(* old name or a card, only while a message that may be used carries it,    *)
(* however profiles and observations drop their sources; an old name is     *)
(* shown without one only when MaxSources later messages fill the profile's *)
(* list (mysql_inbound.rs, mysql_retriever.rs).                             *)
THEOREM NamesAreSupported == ConversationsSpec => []NamesSupported
  <1>1. /\ Named(Chats, MaxEvents)!ParticipantAssumption
        /\ Named(RenameChats, MaxRenameEvents)!ParticipantAssumption
    BY ConversationsAssumption
  <1>2. ConversationsInit => PeopleInv
    BY <1>1, NamesInit DEF ConversationsInit, PeopleInv
  <1>3. PeopleInv /\ [ConversationsNext]_conversations => PeopleInv'
    <2> SUFFICES ASSUME PeopleInv, [ConversationsNext]_conversations PROVE PeopleInv'
      OBVIOUS
    <2>1. part' = part
      BY ChosenPart
    <2>2. CASE part = "renames"
      <3>1. /\ Named(RenameChats, MaxRenameEvents)!NamesInv'
            /\ Named(RenameChats, MaxRenameEvents)!SourcesInv'
        BY <1>1, <2>2, ChosenPart, NamesNext, SourcesNext DEF PeopleInv
      <3> QED BY <2>1, <2>2, <3>1 DEF PeopleInv
    <2>3. CASE part # "renames"
      <3>1. Named(Chats, MaxEvents)!Next \/ UNCHANGED peopleVars
        BY <2>3, ChosenPart
      <3>2. Named(Chats, MaxEvents)!NamesInv' /\ Named(Chats, MaxEvents)!SourcesInv'
        BY <1>1, <2>3, <3>1, NamesNext, SourcesNext DEF PeopleInv
      <3> QED BY <2>1, <2>3, <3>2 DEF PeopleInv
    <2> QED BY <2>2, <2>3
  <1>4. PeopleInv => NamesSupported
    BY NamesShown DEF PeopleInv, NamesSupported
  <1> QED BY <1>2, <1>3, <1>4, PTL DEF ConversationsSpec

-----------------------------------------------------------------------------
(* 9. Lists that are read page by page.                                     *)

PageLists == {"threads", "work", "decisions"}

LEMMA PageBounds ==
    /\ Limit \in Nat /\ Limit >= 1 /\ IsFiniteSet(Rows) /\ MaxChanges \in Nat /\ Lists \subseteq PageLists
    /\ Rows \subseteq Nat /\ Ranks \subseteq Nat /\ Times \subseteq Nat /\ Kinds \subseteq Nat
    /\ created_at \in [Rows -> Times]
  <1>1. Pages!PagedAssumption
    BY KnowledgeAssumption
  <1>2. \A S : Pages!IsFiniteSet(S) <=> IsFiniteSet(S)
    BY Zenon DEF Pages!IsFiniteSet, IsFiniteSet
  <1> QED BY <1>1, <1>2 DEF Pages!PagedAssumption, PageLists

(* ORDER BY is a strict order of the rows, and the WHERE clause of a cursor *)
(* says the same.                                                           *)
OrderedRows(S) ==
    /\ \A x \in S : ~Pages!Before(x, x)
    /\ \A x, y \in S : x = y \/ Pages!Before(x, y) \/ Pages!Before(y, x)
    /\ \A x, y, z \in S : Pages!Before(x, y) /\ Pages!Before(y, z) => Pages!Before(x, z)

LEMMA ListOrder ==
    ASSUME pList \in PageLists
    PROVE  /\ OrderedRows(Pages!RowsOf(pList))
           /\ \A c, r \in Pages!RowsOf(pList) : Pages!After(c, r) <=> Pages!Before(c, r)
           /\ \A r \in Pages!RowsOf(pList) : Pages!At(r) = [state |-> "at", row |-> r]
           /\ \A r \in Pages!RowsOf(pList) : r.id \in Rows
  <1> DEFINE R == Pages!RowsOf(pList)
  <1>1. CASE pList = "threads"
    <2>1. R = [id : Rows, rank : Ranks, at : Times]
      BY <1>1 DEF Pages!RowsOf
    <2>2. /\ \A x, y : Pages!Before(x, y) <=> Pages!ThreadOrder(x, y)
          /\ \A x, y : Pages!After(x, y) <=> Pages!search_threads_page(x, y)
          /\ \A x : Pages!At(x) = [state |-> "at", row |-> Pages!ThreadSearchCursor(x)]
      BY <1>1 DEF Pages!Before, Pages!After, Pages!At
    <2>3. \A r \in R : /\ r.id \in Nat /\ r.rank \in Nat /\ r.at \in Nat /\ r.id \in Rows
                       /\ r = [rank |-> r.rank, at |-> r.at, id |-> r.id]
      BY <2>1, PageBounds
    <2> HIDE DEF R
    <2>4. \A x \in R : ~Pages!ThreadOrder(x, x)
      BY <2>3 DEF Pages!ThreadOrder
    <2>5. ASSUME NEW x \in R, NEW y \in R
          PROVE  x = y \/ Pages!ThreadOrder(x, y) \/ Pages!ThreadOrder(y, x)
      <3>1. x.id = y.id /\ x.rank = y.rank /\ x.at = y.at => x = y
        BY <2>3, Zenon
      <3> QED BY <2>3, <3>1 DEF Pages!ThreadOrder
    <2>6. \A x, y, z \in R : Pages!ThreadOrder(x, y) /\ Pages!ThreadOrder(y, z)
                               => Pages!ThreadOrder(x, z)
      BY <2>3 DEF Pages!ThreadOrder
    <2>7. \A c, r \in R : Pages!search_threads_page(c, r) <=> Pages!ThreadOrder(c, r)
      BY <2>3 DEF Pages!ThreadOrder, Pages!search_threads_page
    <2>8. \A r \in R : Pages!ThreadSearchCursor(r) = r
      BY <2>3 DEF Pages!ThreadSearchCursor
    <2> QED BY <2>2, <2>3, <2>4, <2>5, <2>6, <2>7, <2>8 DEF OrderedRows, R
  <1>2. CASE pList = "work"
    <2>1. R = [id : Rows, kind : Kinds, at : Times \cup {Pages!NULL}]
      BY <1>2 DEF Pages!RowsOf
    <2>2. /\ \A x, y : Pages!Before(x, y) <=> Pages!WorkOrder(x, y)
          /\ \A x, y : Pages!After(x, y) <=> Pages!list_pending_owner_work_page(x, y)
          /\ \A x : Pages!At(x) = [state |-> "at", row |-> Pages!PendingOwnerWorkCursor(x)]
      BY <1>2 DEF Pages!Before, Pages!After, Pages!At
    <2>3. \A r \in R : /\ r.id \in Nat /\ r.kind \in Nat /\ r.at \in Nat \cup {-1} /\ r.id \in Rows
                       /\ r = [at |-> r.at, kind |-> r.kind, id |-> r.id]
      BY <2>1, PageBounds DEF Pages!NULL
    <2> HIDE DEF R
    <2>4. \A x \in R : ~Pages!WorkOrder(x, x)
      BY <2>3 DEF Pages!WorkOrder, Pages!NULL
    <2>5. ASSUME NEW x \in R, NEW y \in R
          PROVE  x = y \/ Pages!WorkOrder(x, y) \/ Pages!WorkOrder(y, x)
      <3>1. x.id = y.id /\ x.kind = y.kind /\ x.at = y.at => x = y
        BY <2>3, Zenon
      <3> QED BY <2>3, <3>1 DEF Pages!WorkOrder, Pages!NULL
    <2>6. \A x, y, z \in R : Pages!WorkOrder(x, y) /\ Pages!WorkOrder(y, z)
                               => Pages!WorkOrder(x, z)
      BY <2>3 DEF Pages!WorkOrder, Pages!NULL
    <2>7. \A c, r \in R : Pages!list_pending_owner_work_page(c, r) <=> Pages!WorkOrder(c, r)
      BY <2>3 DEF Pages!WorkOrder, Pages!list_pending_owner_work_page, Pages!NULL
    <2>8. \A r \in R : Pages!PendingOwnerWorkCursor(r) = r
      BY <2>3 DEF Pages!PendingOwnerWorkCursor
    <2> QED BY <2>2, <2>3, <2>4, <2>5, <2>6, <2>7, <2>8 DEF OrderedRows, R
  <1>3. CASE pList = "decisions"
    <2>1. R = {[id |-> i, at |-> created_at[i]] : i \in Rows}
      BY <1>3 DEF Pages!RowsOf
    <2>2. /\ \A x, y : Pages!Before(x, y) <=> Pages!DecisionOrder(x, y)
          /\ \A x, y : Pages!After(x, y) <=> Pages!thread_decision_revisions(x, y)
          /\ \A x : Pages!At(x) = [state |-> "at", row |-> Pages!ThreadDecisionRevisionCursor(x)]
      BY <1>3 DEF Pages!Before, Pages!After, Pages!At
    <2>3. \A r \in R : /\ r.id \in Nat /\ r.at \in Nat /\ r.id \in Rows
                       /\ r = [at |-> r.at, id |-> r.id]
      BY <2>1, PageBounds
    <2> HIDE DEF R
    <2>4. \A x \in R : ~Pages!DecisionOrder(x, x)
      BY <2>3 DEF Pages!DecisionOrder
    <2>5. ASSUME NEW x \in R, NEW y \in R
          PROVE  x = y \/ Pages!DecisionOrder(x, y) \/ Pages!DecisionOrder(y, x)
      <3>1. x.id = y.id /\ x.at = y.at => x = y
        BY <2>3, Zenon
      <3> QED BY <2>3, <3>1 DEF Pages!DecisionOrder
    <2>6. \A x, y, z \in R : Pages!DecisionOrder(x, y) /\ Pages!DecisionOrder(y, z)
                               => Pages!DecisionOrder(x, z)
      BY <2>3 DEF Pages!DecisionOrder
    <2>7. \A c, r \in R : Pages!thread_decision_revisions(c, r) <=> Pages!DecisionOrder(c, r)
      BY <2>3 DEF Pages!DecisionOrder, Pages!thread_decision_revisions
    <2>8. \A r \in R : Pages!ThreadDecisionRevisionCursor(r) = r
      BY <2>3 DEF Pages!ThreadDecisionRevisionCursor
    <2> QED BY <2>2, <2>3, <2>4, <2>5, <2>6, <2>7, <2>8 DEF OrderedRows, R
  <1> QED BY <1>1, <1>2, <1>3 DEF PageLists

(* How many rows come before a row tells the order of the rows. *)
PageRank(S, r) == Cardinality({q \in S : Pages!Before(q, r)})

LEMMA PageRanks ==
    ASSUME NEW S, IsFiniteSet(S), OrderedRows(S)
    PROVE  /\ Cardinality(S) \in Nat
           /\ \A x \in S : PageRank(S, x) \in Nat /\ PageRank(S, x) < Cardinality(S)
           /\ \A x, y \in S : Pages!Before(x, y) => PageRank(S, x) < PageRank(S, y)
  <1> DEFINE Q(x) == {q \in S : Pages!Before(q, x)}
  <1>1. \A x : Q(x) \in SUBSET S
    OBVIOUS
  <1>2. Cardinality(S) \in Nat
    BY FS_CardinalityType
  <1>3. \A x : IsFiniteSet(Q(x)) /\ Cardinality(Q(x)) \in Nat /\ Cardinality(Q(x)) <= Cardinality(S)
    BY <1>1, FS_Subset, FS_CardinalityType
  <1>4. ASSUME NEW x \in S PROVE Cardinality(Q(x)) < Cardinality(S)
    <2>1. x \notin Q(x)
      BY DEF OrderedRows
    <2>2. Q(x) # S
      BY <2>1
    <2>3. Cardinality(Q(x)) # Cardinality(S)
      BY <1>1, <2>2, FS_Subset
    <2> QED BY <1>2, <1>3, <2>3
  <1>5. ASSUME NEW x \in S, NEW y \in S, Pages!Before(x, y)
        PROVE  Cardinality(Q(x)) < Cardinality(Q(y))
    <2>1. Q(x) \in SUBSET Q(y)
      BY <1>5 DEF OrderedRows
    <2>2. x \in Q(y) /\ x \notin Q(x)
      BY <1>5 DEF OrderedRows
    <2>3. Q(x) # Q(y)
      BY <2>2
    <2> HIDE DEF Q
    <2>4. Cardinality(Q(x)) <= Cardinality(Q(y)) /\ Cardinality(Q(x)) # Cardinality(Q(y))
      BY <1>3, <2>1, <2>3, FS_Subset
    <2> QED BY <1>3, <2>4
  <1> QED BY <1>2, <1>3, <1>4, <1>5 DEF PageRank

(* The first n rows: nothing is passed over, and if there are fewer than n  *)
(* they are all.                                                            *)
LEMMA FirstRows ==
    ASSUME NEW S, IsFiniteSet(S), OrderedRows(S), NEW n \in Nat
    PROVE  /\ Pages!First(S, n) \subseteq S
           /\ IsFiniteSet(Pages!First(S, n)) /\ OrderedRows(Pages!First(S, n))
           /\ \A x \in S, y \in Pages!First(S, n) : Pages!Before(x, y) => x \in Pages!First(S, n)
           /\ Cardinality(Pages!First(S, n)) < n => Pages!First(S, n) = S
           /\ Cardinality(S) <= n => Pages!First(S, n) = S
  <1> DEFINE T == Pages!First(S, n)
  <1>1. T = {r \in S : PageRank(S, r) < n}
    <2>1. \A A : Pages!Cardinality(A) = Cardinality(A)
      BY Zenon DEF Pages!Cardinality, Cardinality
    <2> QED BY <2>1 DEF Pages!First, PageRank
  <1> HIDE DEF T
  <1>2. T \in SUBSET S /\ IsFiniteSet(T)
    BY <1>1, FS_Subset
  <1>3. OrderedRows(T)
    BY <1>2 DEF OrderedRows
  <1>4. /\ Cardinality(S) \in Nat
        /\ \A x \in S : PageRank(S, x) \in Nat /\ PageRank(S, x) < Cardinality(S)
        /\ \A x, y \in S : Pages!Before(x, y) => PageRank(S, x) < PageRank(S, y)
    BY PageRanks
  <1>5. ASSUME NEW x \in S, NEW y \in T, Pages!Before(x, y) PROVE x \in T
    <2>1. y \in S /\ PageRank(S, y) < n
      BY <1>1
    <2>2. PageRank(S, x) < PageRank(S, y) /\ PageRank(S, x) \in Nat /\ PageRank(S, y) \in Nat
      BY <1>4, <1>5, <2>1
    <2>3. PageRank(S, x) < n
      BY ONLY <2>1, <2>2, n \in Nat
    <2> QED BY <1>1, <2>3
  <1>6. ASSUME Cardinality(S) <= n PROVE T = S
    <2>1. \A x \in S : PageRank(S, x) < n
      BY <1>4, <1>6
    <2> QED BY <1>1, <2>1
  <1>7. ASSUME Cardinality(T) < n PROVE T = S
    <2> SUFFICES ASSUME T # S PROVE FALSE
      OBVIOUS
    <2> DEFINE left == S \ T
               ranks == {PageRank(S, r) : r \in left}
    <2>1. left # {} /\ left \subseteq S
      BY <1>2
    <2>2. ranks # {} /\ ranks \in SUBSET Nat
      BY <1>4, <2>1
    <2>3. PICK k \in ranks : \A j \in ranks : k <= j
      <3> HIDE DEF ranks
      <3> QED BY <2>2, Smallest
    <2>4. PICK r \in left : \A q \in left : PageRank(S, r) <= PageRank(S, q)
      BY <2>3
    <2>5. \A q \in S : Pages!Before(q, r) => q \in T
      <3> SUFFICES ASSUME NEW q \in S, Pages!Before(q, r), q \notin T PROVE FALSE
        OBVIOUS
      <3>1. PageRank(S, q) < PageRank(S, r) /\ PageRank(S, q) \in Nat /\ PageRank(S, r) \in Nat
        BY <1>4, <2>1
      <3>2. PageRank(S, r) <= PageRank(S, q)
        BY <2>4
      <3> QED BY <3>1, <3>2
    <2> DEFINE Q == {q \in S : Pages!Before(q, r)}
    <2>6. Q \in SUBSET T
      BY <2>5
    <2>7. PageRank(S, r) = Cardinality(Q) /\ r \in S /\ r \notin T
      BY <2>1 DEF PageRank
    <2> HIDE DEF Q
    <2>8. Cardinality(Q) <= Cardinality(T)
      BY <1>2, <2>6, FS_Subset
    <2>9. Cardinality(T) \in Nat
      BY <1>2, FS_CardinalityType
    <2>10. PageRank(S, r) \in Nat
      BY <1>4, <2>7
    <2>11. PageRank(S, r) < n
      BY <1>7, <2>7, <2>8, <2>9, <2>10
    <2> QED BY <1>1, <2>7, <2>11
  <1> QED BY <1>2, <1>3, <1>5, <1>6, <1>7 DEF T

LEMMA LastRow ==
    ASSUME NEW S, IsFiniteSet(S), OrderedRows(S), S # {}
    PROVE  /\ Pages!Last(S) \in S
           /\ \A q \in S : q = Pages!Last(S) \/ Pages!Before(q, Pages!Last(S))
  <1> DEFINE ranks == {PageRank(S, r) : r \in S}
             n == Cardinality(S)
  <1>1. /\ n \in Nat
        /\ \A x \in S : PageRank(S, x) \in Nat /\ PageRank(S, x) < n
        /\ \A x, y \in S : Pages!Before(x, y) => PageRank(S, x) < PageRank(S, y)
    BY PageRanks
  <1>2. ranks # {} /\ ranks \in SUBSET (0..n)
    <2> HIDE DEF n
    <2>1. \A x \in S : PageRank(S, x) \in 0..n
      BY <1>1
    <2> QED BY <2>1
  <1>3. PICK k \in ranks : \A j \in ranks : k >= j
    <2> HIDE DEF ranks, n
    <2> QED BY <1>1, <1>2, Largest
  <1>4. PICK r \in S : \A q \in S : PageRank(S, r) >= PageRank(S, q)
    BY <1>3
  <1>5. ASSUME NEW q \in S PROVE q = r \/ Pages!Before(q, r)
    <2>1. ~Pages!Before(r, q)
      <3> SUFFICES ASSUME Pages!Before(r, q) PROVE FALSE
        OBVIOUS
      <3>1. PageRank(S, r) < PageRank(S, q) /\ PageRank(S, q) \in Nat /\ PageRank(S, r) \in Nat
        BY <1>1
      <3>2. PageRank(S, r) >= PageRank(S, q)
        BY <1>4
      <3> QED BY ONLY <3>1, <3>2
    <2> QED BY <2>1 DEF OrderedRows
  <1> QED BY <1>5 DEF Pages!Last

(* There are finitely many rows: one of an id. *)
LEMMA RowsFinite ==
    ASSUME Pages!TypeOK
    PROVE  /\ pList \in PageLists /\ pRows \subseteq Pages!RowsOf(pList) /\ IsFiniteSet(pRows)
           /\ \A r \in pRows : r.id \in Rows
           /\ \A S \in SUBSET Pages!RowsOf(pList) : OrderedRows(S)
  <1>1. /\ pList \in PageLists /\ pRows \subseteq Pages!RowsOf(pList)
        /\ \A x, y \in pRows : x.id = y.id => x = y
    BY PageBounds DEF Pages!TypeOK
  <1>2. \A r \in pRows : r.id \in Rows
    BY <1>1, ListOrder
  <1>3. \A S \in SUBSET Pages!RowsOf(pList) : OrderedRows(S)
    BY <1>1, ListOrder DEF OrderedRows
  <1>4. IsFiniteSet(pRows)
    <2> DEFINE D == {r.id : r \in pRows}
               f == [i \in D |-> CHOOSE r \in pRows : r.id = i]
    <2>1. D \in SUBSET Rows
      BY <1>2
    <2>2. ASSUME NEW r \in pRows PROVE r.id \in D /\ f[r.id] = r
      <3>1. r.id \in D
        OBVIOUS
      <3>2. (CHOOSE q \in pRows : q.id = r.id) \in pRows
            /\ (CHOOSE q \in pRows : q.id = r.id).id = r.id
        OBVIOUS
      <3> QED BY <1>1, <3>1, <3>2
    <2>3. f \in [D -> pRows]
      OBVIOUS
    <2> HIDE DEF D, f
    <2>4. f \in Surjection(D, pRows)
      BY <2>2, <2>3 DEF Surjection
    <2>5. IsFiniteSet(D)
      BY <2>1, PageBounds, FS_Subset
    <2> QED BY <2>4, <2>5, FS_Surjection
  <1> QED BY <1>1, <1>2, <1>3, <1>4

(* The rows after a cursor, a page of them, and what is left of them.       *)
LEMMA PageOfRows ==
    ASSUME NEW S, IsFiniteSet(S), OrderedRows(S)
    PROVE  LET fetched == Pages!First(S, Limit + 1)
               page == Pages!First(fetched, Limit)
           IN  /\ page \subseteq S
               /\ \/ page = S /\ Pages!NextCursor(fetched, page) = Pages!End
                  \/ \E r \in page :
                        /\ Pages!NextCursor(fetched, page) = Pages!At(r)
                        /\ \A q \in page : q = r \/ Pages!Before(q, r)
                        /\ \A q \in S \ page : Pages!Before(r, q)
  <1> DEFINE fetched == Pages!First(S, Limit + 1)
             page == Pages!First(fetched, Limit)
  <1>0. Limit \in Nat /\ Limit >= 1 /\ Limit + 1 \in Nat
    BY PageBounds
  <1>1. /\ fetched \subseteq S /\ IsFiniteSet(fetched) /\ OrderedRows(fetched)
        /\ \A x \in S, y \in fetched : Pages!Before(x, y) => x \in fetched
        /\ Cardinality(fetched) < Limit + 1 => fetched = S
    BY <1>0, FirstRows
  <1> HIDE DEF fetched
  <1>2. /\ page \subseteq fetched /\ IsFiniteSet(page) /\ OrderedRows(page)
        /\ \A x \in fetched, y \in page : Pages!Before(x, y) => x \in page
        /\ Cardinality(page) < Limit => page = fetched
        /\ Cardinality(fetched) <= Limit => page = fetched
    BY <1>0, <1>1, FirstRows
  <1>3. Cardinality(fetched) \in Nat
    BY <1>1, FS_CardinalityType
  <1> HIDE DEF page
  <1>4. Pages!NextCursor(fetched, page) =
           IF Cardinality(fetched) > Limit THEN Pages!At(Pages!Last(page)) ELSE Pages!End
    <2>1. Pages!Cardinality(fetched) = Cardinality(fetched)
      BY Zenon DEF Pages!Cardinality, Cardinality
    <2> QED BY <2>1 DEF Pages!NextCursor
  <1>5. CASE ~(Cardinality(fetched) > Limit)
    <2>1. Cardinality(fetched) <= Limit /\ Cardinality(fetched) < Limit + 1
      BY <1>0, <1>3, <1>5
    <2>2. page = S
      BY <1>1, <1>2, <2>1
    <2> QED BY <1>4, <1>5, <2>2 DEF fetched, page
  <1>6. CASE Cardinality(fetched) > Limit
    <2>1. page # {}
      <3> SUFFICES ASSUME page = {} PROVE FALSE
        OBVIOUS
      <3>1. Cardinality(page) = 0
        BY FS_EmptySet
      <3>2. fetched = {}
        BY <1>0, <1>2, <3>1
      <3>3. Cardinality(fetched) = 0
        BY <3>2, FS_EmptySet
      <3> QED BY <1>0, <1>6, <3>3
    <2> DEFINE r == Pages!Last(page)
    <2>2. r \in page /\ \A q \in page : q = r \/ Pages!Before(q, r)
      BY <1>2, <2>1, LastRow
    <2>3. Pages!NextCursor(fetched, page) = Pages!At(r)
      BY <1>4, <1>6
    <2> HIDE DEF r
    <2>4. ASSUME NEW q \in S \ page PROVE Pages!Before(r, q)
      <3>1. r \in fetched /\ r \in S /\ r # q
        BY <1>1, <1>2, <2>2
      <3>2. ~Pages!Before(q, r)
        <4> SUFFICES ASSUME Pages!Before(q, r) PROVE FALSE
          OBVIOUS
        <4>1. q \in fetched
          BY <1>1, <3>1
        <4> QED BY <1>2, <2>2, <4>1
      <3> QED BY <3>1, <3>2 DEF OrderedRows
    <2>5. page \subseteq S
      BY <1>1, <1>2
    <2> QED BY <2>2, <2>3, <2>4, <2>5 DEF fetched, page
  <1> QED BY <1>5, <1>6

(* A page: what is stable is returned when the cursor passes it.            *)
LEMMA PagesRead ==
    ASSUME Pages!PagesInv, Pages!NextPage
    PROVE  Pages!PagesInv'
  <1> DEFINE S == Pages!Candidates
             fetched == Pages!First(S, Limit + 1)
             page == Pages!First(fetched, Limit)
  <1>1. /\ pCursor # Pages!End /\ UNCHANGED <<pList, pRows, stable, changes>>
        /\ pages' = [i \in Rows |-> IF \E r \in page : r.id = i THEN pages[i] + 1 ELSE pages[i]]
        /\ pCursor' = Pages!NextCursor(fetched, page)
    BY DEF Pages!NextPage
  <1>2. /\ pList \in PageLists /\ pRows \subseteq Pages!RowsOf(pList) /\ IsFiniteSet(pRows)
        /\ \A r \in pRows : r.id \in Rows
        /\ \A A \in SUBSET Pages!RowsOf(pList) : OrderedRows(A)
    BY RowsFinite DEF Pages!PagesInv
  <1>3. /\ stable \subseteq pRows /\ pages \in [Rows -> Nat] /\ pList \in Lists
        /\ \A x, y \in pRows : x.id = y.id => x = y
        /\ pCursor \in {Pages!Start, Pages!End}
                         \cup {[state |-> "at", row |-> r] : r \in Pages!RowsOf(pList)}
    BY DEF Pages!PagesInv, Pages!TypeOK
  <1>4. S \in SUBSET pRows
    BY DEF Pages!Candidates
  <1>5. IsFiniteSet(S) /\ OrderedRows(S)
    BY <1>2, <1>4, FS_Subset
  <1> HIDE DEF S
  <1>6. /\ page \subseteq S
        /\ \/ page = S /\ pCursor' = Pages!End
           \/ \E r \in page : /\ pCursor' = Pages!At(r)
                              /\ \A q \in page : q = r \/ Pages!Before(q, r)
                              /\ \A q \in S \ page : Pages!Before(r, q)
    BY <1>1, <1>5, PageOfRows
  <1> HIDE DEF page
  <1>7. pages' \in [Rows -> Nat]
    BY <1>1, <1>3
  <1>8. \A r \in pRows : pages'[r.id] = IF r \in page THEN pages[r.id] + 1 ELSE pages[r.id]
    BY <1>1, <1>2, <1>3, <1>4, <1>6
  (* Where a row stands with regard to the page. *)
  <1>9. \A r \in stable : IF r \in S THEN pages[r.id] = 0 ELSE pages[r.id] = 1
    <2>1. CASE pCursor = Pages!Start
      BY <1>2, <1>3, <2>1 DEF S, Pages!Candidates, Pages!PagesInv
    <2>2. CASE pCursor # Pages!Start
      <3>1. pCursor.row \in Pages!RowsOf(pList)
        BY <1>1, <1>3, <2>2
      <3>2. S = {r \in pRows : Pages!Before(pCursor.row, r)}
        BY <1>2, <2>2, <3>1, ListOrder DEF S, Pages!Candidates
      <3>3. \A r \in stable : pages[r.id] = IF Pages!Before(pCursor.row, r) THEN 0 ELSE 1
        BY <1>1, <2>2 DEF Pages!PagesInv
      <3> QED BY <1>3, <3>2, <3>3
    <2> QED BY <2>1, <2>2
  <1>10. ASSUME NEW r \in stable
         PROVE  /\ r \in page => pages'[r.id] = 1
                /\ r \in S \ page => pages'[r.id] = 0
                /\ r \notin S => pages'[r.id] = 1 /\ r \notin page
    BY <1>3, <1>6, <1>8, <1>9
  <1>11. ASSUME pList = "decisions"
         PROVE  /\ \A i \in Rows : pages'[i] <= 1
                /\ \A q \in Pages!RowsOf(pList) :
                     q \notin page /\ (pCursor = Pages!Start \/ Pages!Before(pCursor.row, q))
                        => pages'[q.id] = 0
    <2>1. Pages!RowsOf(pList) = {[id |-> i, at |-> created_at[i]] : i \in Rows}
      BY <1>11 DEF Pages!RowsOf
    <2>2. \A x, y \in Pages!RowsOf(pList) : x.id = y.id => x = y
      BY <2>1
    <2>3. \A r \in page : r \in pRows /\ r \in Pages!RowsOf(pList)
      BY <1>2, <1>4, <1>6
    <2>4. \A q \in Pages!RowsOf(pList) :
             pCursor = Pages!Start \/ Pages!Before(pCursor.row, q) => pages[q.id] = 0
      <3>1. \A q \in Pages!RowsOf(pList) : q.id \in Rows
        BY <2>1
      <3> QED BY <1>1, <1>11, <3>1 DEF Pages!PagesInv
    <2>5. \A r \in page : pCursor = Pages!Start \/ Pages!Before(pCursor.row, r)
      <3>1. pCursor # Pages!Start => pCursor.row \in Pages!RowsOf(pList)
        BY <1>1, <1>3
      <3> QED BY <1>2, <1>6, <2>3, <3>1, ListOrder DEF S, Pages!Candidates
    <2>6. \A r \in page : pages[r.id] = 0
      BY <2>3, <2>4, <2>5
    <2>7. \A i \in Rows : pages[i] \in Nat /\ pages[i] <= 1
      BY <1>3, <1>11 DEF Pages!PagesInv, Pages!NoRevisionTwice
    <2>8. ASSUME NEW i \in Rows PROVE pages'[i] <= 1
      <3>1. (\E r \in page : r.id = i) => pages[i] = 0
        BY <2>6
      <3> QED BY <1>1, <2>7, <3>1
    <2>9. ASSUME NEW q \in Pages!RowsOf(pList), q \notin page,
                 pCursor = Pages!Start \/ Pages!Before(pCursor.row, q)
          PROVE  pages'[q.id] = 0
      <3>1. q.id \in Rows
        BY <2>1
      <3>2. ~\E r \in page : r.id = q.id
        BY <2>2, <2>3, <2>9
      <3>3. pages[q.id] = 0
        BY <2>4, <2>9
      <3> QED BY <1>1, <3>1, <3>2, <3>3
    <2> QED BY <2>8, <2>9
  <1> DEFINE Kept == /\ pList' \in Lists /\ pRows' \subseteq Pages!RowsOf(pList)' /\ stable' \subseteq pRows'
                     /\ (\A x, y \in pRows : x.id = y.id => x = y)'
                     /\ pages' \in [Rows -> Nat] /\ changes' \in 0..MaxChanges
  <1>12. Pages!RowsOf(pList)' = Pages!RowsOf(pList)
    BY <1>1 DEF Pages!RowsOf
  <1>13. Kept
    BY <1>1, <1>2, <1>3, <1>7, <1>12 DEF Pages!PagesInv, Pages!TypeOK
  <1>14. \A x, y : Pages!Before(x, y)' <=> Pages!Before(x, y)
    BY <1>1 DEF Pages!Before
  <1>15. (\A r \in stable : pages[r.id] <= 1)'
    BY <1>1, <1>10
  <1>16. Pages!NoRevisionTwice'
    BY <1>1, <1>11 DEF Pages!NoRevisionTwice
  <1> HIDE DEF Kept
  <1>17. CASE page = S /\ pCursor' = Pages!End
    <2>1. (\A r \in stable : pages[r.id] = 1)'
      BY <1>1, <1>10, <1>17
    <2>2. Pages!StableRowsOnce'
      BY <1>15, <2>1 DEF Pages!StableRowsOnce
    <2>3. Pages!TypeOK'
      BY <1>13, <1>17 DEF Kept, Pages!TypeOK, Pages!Start, Pages!End
    <2> QED BY <1>16, <1>17, <2>2, <2>3 DEF Pages!PagesInv, Pages!Start, Pages!End
  <1>18. ASSUME NEW r \in page, pCursor' = Pages!At(r),
                \A q \in page : q = r \/ Pages!Before(q, r),
                \A q \in S \ page : Pages!Before(r, q)
         PROVE  Pages!PagesInv'
    <2>1. r \in S /\ r \in Pages!RowsOf(pList)
      BY <1>2, <1>4, <1>6
    <2>2. Pages!At(r) = [state |-> "at", row |-> r]
      BY <1>2, <2>1, ListOrder
    <2>3. pCursor'.row = r /\ pCursor' # Pages!Start /\ pCursor' # Pages!End
      BY <1>18, <2>2 DEF Pages!Start, Pages!End
    <2>4. Pages!TypeOK'
      BY <1>12, <1>13, <1>18, <2>1, <2>2 DEF Kept, Pages!TypeOK
    <2>5. Pages!StableRowsOnce'
      BY <1>15, <2>3 DEF Pages!StableRowsOnce
    <2>6. OrderedRows(Pages!RowsOf(pList))
      BY <1>2
    (* What is after the new cursor was after the old one. *)
    <2>7. pCursor # Pages!Start => /\ pCursor.row \in Pages!RowsOf(pList)
                                   /\ \A q \in pRows : q \in S <=> Pages!Before(pCursor.row, q)
      <3>1. pCursor # Pages!Start => pCursor.row \in Pages!RowsOf(pList)
        BY <1>1, <1>3
      <3> QED BY <1>2, <3>1, ListOrder DEF S, Pages!Candidates
    <2>8. ASSUME NEW q \in Pages!RowsOf(pList), Pages!Before(r, q)
          PROVE  q \notin page /\ (pCursor = Pages!Start \/ Pages!Before(pCursor.row, q))
      <3>1. q \notin page
        BY <1>18, <2>1, <2>6, <2>8 DEF OrderedRows
      <3>2. ASSUME pCursor # Pages!Start PROVE Pages!Before(pCursor.row, q)
        <4>1. Pages!Before(pCursor.row, r)
          BY <1>4, <2>1, <2>7, <3>2
        <4> QED BY <2>1, <2>6, <2>7, <2>8, <3>2, <4>1 DEF OrderedRows
      <3> QED BY <3>1, <3>2
    <2>9. ASSUME NEW q \in stable
          PROVE  pages'[q.id] = IF Pages!Before(r, q) THEN 0 ELSE 1
      <3>1. q \in pRows /\ q \in Pages!RowsOf(pList)
        BY <1>2, <1>3
      <3>2. CASE Pages!Before(r, q)
        <4>1. q \in S \ page
          <5>1. pCursor = Pages!Start => q \in S
            BY <3>1 DEF S, Pages!Candidates
          <5> QED BY <2>7, <2>8, <3>1, <3>2, <5>1
        <4> QED BY <1>10, <3>2, <4>1
      <3>3. CASE ~Pages!Before(r, q)
        <4>1. q \notin S \ page
          BY <1>18, <3>3
        <4> QED BY <1>10, <3>3, <4>1
      <3> QED BY <3>2, <3>3
    <2>10. pList = "decisions" =>
             \A q \in Pages!RowsOf(pList) : Pages!Before(r, q) => pages'[q.id] = 0
      BY <1>11, <2>8
    <2>11. (\A q \in stable : pages[q.id] = IF Pages!Before(pCursor.row, q) THEN 0 ELSE 1)'
      BY <1>1, <1>14, <2>3, <2>9
    <2>12. (pList = "decisions" =>
              \A q \in Pages!RowsOf(pList) : Pages!Before(pCursor.row, q) => pages[q.id] = 0)'
      BY <1>1, <1>12, <1>14, <2>3, <2>10
    <2> QED BY <1>16, <2>3, <2>4, <2>5, <2>11, <2>12 DEF Pages!PagesInv
  <1> QED BY <1>6, <1>17, <1>18

(* The rows change under the reader: what is stable is still there. *)
LEMMA PagesChange ==
    ASSUME Pages!PagesInv, NEW after \in SUBSET Pages!RowsOf(pList),
           \A x, y \in after : x.id = y.id => x = y, Pages!Change(after)
    PROVE  Pages!PagesInv'
  <1>1. /\ pRows' = after /\ stable' = stable \cap after /\ changes < MaxChanges
        /\ changes' = changes + 1 /\ UNCHANGED <<pList, pCursor, pages>>
    BY DEF Pages!Change
  <1>2. Pages!RowsOf(pList)' = Pages!RowsOf(pList)
    BY <1>1 DEF Pages!RowsOf
  <1>3. \A x, y : Pages!Before(x, y)' <=> Pages!Before(x, y)
    BY <1>1 DEF Pages!Before
  <1>4. changes' \in 0..MaxChanges
    BY <1>1, PageBounds DEF Pages!PagesInv, Pages!TypeOK
  <1>5. stable' \subseteq stable /\ stable' \subseteq pRows'
    BY <1>1
  <1>6. Pages!TypeOK'
    BY <1>1, <1>2, <1>4, <1>5 DEF Pages!PagesInv, Pages!TypeOK, Pages!Start, Pages!End
  <1>7. Pages!StableRowsOnce' /\ Pages!NoRevisionTwice'
    BY <1>1, <1>5 DEF Pages!PagesInv, Pages!StableRowsOnce, Pages!NoRevisionTwice, Pages!End
  <1>8. ASSUME pCursor' \notin {Pages!Start, Pages!End}
        PROVE  /\ (\A r \in stable : pages[r.id] = IF Pages!Before(pCursor.row, r) THEN 0 ELSE 1)'
               /\ (pList = "decisions" =>
                     \A r \in Pages!RowsOf(pList) : Pages!Before(pCursor.row, r) => pages[r.id] = 0)'
    <2>1. pCursor \notin {Pages!Start, Pages!End}
      BY <1>1, <1>8
    <2>2. /\ \A r \in stable : pages[r.id] = IF Pages!Before(pCursor.row, r) THEN 0 ELSE 1
          /\ pList = "decisions" =>
               \A r \in Pages!RowsOf(pList) : Pages!Before(pCursor.row, r) => pages[r.id] = 0
      BY <2>1 DEF Pages!PagesInv
    <2> QED BY <1>1, <1>2, <1>3, <1>5, <2>2
  <1>9. (pCursor = Pages!Start)' => (\A i \in Rows : pages[i] = 0)'
    BY <1>1 DEF Pages!PagesInv, Pages!Start
  <1> QED BY <1>6, <1>7, <1>8, <1>9 DEF Pages!PagesInv, Pages!Start, Pages!End

LEMMA PagesNext ==
    ASSUME Pages!PagesInv, Pages!Next \/ UNCHANGED pageVars
    PROVE  Pages!PagesInv'
  <1>1. /\ pRows \subseteq Pages!RowsOf(pList) /\ \A x, y \in pRows : x.id = y.id => x = y
        /\ pList \in Lists /\ pages \in [Rows -> Nat] /\ changes \in 0..MaxChanges
        /\ stable \subseteq pRows
    BY DEF Pages!PagesInv, Pages!TypeOK
  <1>2. CASE UNCHANGED pageVars
    BY <1>2 DEF pageVars, Pages!PagesInv, Pages!TypeOK, Pages!StableRowsOnce, Pages!NoRevisionTwice,
                Pages!Before, Pages!RowsOf, Pages!Start, Pages!End
  <1>3. CASE Pages!NextPage
    BY <1>3, PagesRead
  <1>4. CASE Pages!Again
    <2>1. /\ pCursor' = Pages!Start /\ pages' = [i \in Rows |-> 0] /\ stable' = pRows
          /\ changes' = 0 /\ UNCHANGED <<pList, pRows>>
      BY <1>4 DEF Pages!Again
    <2>2. Pages!RowsOf(pList)' = Pages!RowsOf(pList)
      BY <2>1 DEF Pages!RowsOf
    <2>3. Pages!TypeOK'
      BY <1>1, <2>1, <2>2, PageBounds DEF Pages!TypeOK, Pages!Start, Pages!End
    <2>4. \A r \in pRows : r.id \in Rows
      BY RowsFinite DEF Pages!PagesInv
    <2>5. pCursor' # Pages!End
      BY <2>1 DEF Pages!Start, Pages!End
    <2>6. Pages!StableRowsOnce' /\ Pages!NoRevisionTwice'
      BY <2>1, <2>4, <2>5 DEF Pages!StableRowsOnce, Pages!NoRevisionTwice, Pages!End
    <2> QED BY <2>1, <2>3, <2>6 DEF Pages!PagesInv, Pages!Start
  <1>5. CASE Pages!Fill
    <2>1. /\ pCursor = Pages!End /\ pRows = {} /\ UNCHANGED <<pList, pCursor, pages, stable, changes>>
      BY <1>5 DEF Pages!Fill
    <2>2. PICK r \in [Rows -> Pages!RowsOf(pList)], S \in SUBSET Rows :
             /\ \A i \in Rows : r[i].id = i
             /\ pRows' = {r[i] : i \in S}
      BY <1>5 DEF Pages!Fill
    <2>3. pRows' \subseteq Pages!RowsOf(pList) /\ \A x, y \in pRows' : x.id = y.id => x = y
      BY <2>2
    <2>4. stable = {}
      BY <1>1, <2>1
    <2>5. Pages!RowsOf(pList)' = Pages!RowsOf(pList)
      BY <2>1 DEF Pages!RowsOf
    <2>6. Pages!TypeOK'
      BY <1>1, <2>1, <2>3, <2>4, <2>5 DEF Pages!TypeOK, Pages!Start, Pages!End
    <2>7. Pages!StableRowsOnce' /\ Pages!NoRevisionTwice'
      BY <2>1, <2>4 DEF Pages!StableRowsOnce, Pages!NoRevisionTwice, Pages!PagesInv
    <2>8. pCursor' = Pages!End /\ Pages!End # Pages!Start
      BY <2>1 DEF Pages!Start, Pages!End
    <2> QED BY <2>6, <2>7, <2>8 DEF Pages!PagesInv, Pages!Start, Pages!End
  <1>6. CASE \E r \in pRows : Pages!Remove(r)
    <2>1. PICK r \in pRows : Pages!Change(pRows \ {r})
      BY <1>6 DEF Pages!Remove
    <2> DEFINE after == pRows \ {r}
    <2>2. after \in SUBSET Pages!RowsOf(pList) /\ \A x, y \in after : x.id = y.id => x = y
      BY <1>1
    <2> HIDE DEF after
    <2>3. Pages!Change(after)
      BY <2>1 DEF after
    <2> QED BY <2>2, <2>3, PagesChange
  <1>7. CASE \E r \in Pages!RowsOf(pList) : Pages!Add(r)
    <2>1. PICK r \in Pages!RowsOf(pList) : Pages!Add(r)
      BY <1>7
    <2> DEFINE after == pRows \cup {r}
    <2>2. \A q \in pRows : q.id # r.id
      BY <2>1 DEF Pages!Add
    <2>3. after \in SUBSET Pages!RowsOf(pList) /\ \A x, y \in after : x.id = y.id => x = y
      BY <1>1, <2>2
    <2>4. Pages!Change(after)
      BY <2>1 DEF Pages!Add
    <2> HIDE DEF after
    <2> QED BY <2>3, <2>4, PagesChange
  <1>8. CASE \E r \in pRows : \E to \in Pages!RowsOf(pList) : Pages!Move(r, to)
    <2>1. PICK r \in pRows, to \in Pages!RowsOf(pList) : Pages!Move(r, to)
      BY <1>8
    <2> DEFINE after == (pRows \ {r}) \cup {to}
    <2>2. to.id = r.id
      BY <2>1 DEF Pages!Move
    <2>3. after \in SUBSET Pages!RowsOf(pList) /\ \A x, y \in after : x.id = y.id => x = y
      BY <1>1, <2>2
    <2>4. Pages!Change(after)
      BY <2>1 DEF Pages!Move
    <2> HIDE DEF after
    <2> QED BY <2>3, <2>4, PagesChange
  <1> QED BY <1>2, <1>3, <1>4, <1>5, <1>6, <1>7, <1>8 DEF Pages!Next

(* Whatever is added, removed or moved between two pages, a row that stays  *)
(* as it was is returned once, and no revision twice (mysql_retriever.rs):  *)
(* ORDER BY and the WHERE clause of the cursor agree.                       *)
THEOREM PagesAreStable == KnowledgeSpec => []PagesStable
  <1> DEFINE OfPages == topic = "pages" => Pages!PagesInv
  <1>1. KnowledgeInit => OfPages
    <2> SUFFICES ASSUME KnowledgeInit, topic = "pages" PROVE Pages!PagesInv
      OBVIOUS
    <2>1. Pages!Init
      BY DEF KnowledgeInit
    <2>2. /\ pList \in Lists /\ pRows = {} /\ pCursor = Pages!End /\ pages = [i \in Rows |-> 0]
          /\ stable = {} /\ changes = 0
      BY <2>1 DEF Pages!Init
    <2>3. Pages!TypeOK
      BY <2>2, PageBounds DEF Pages!TypeOK, Pages!Start, Pages!End
    <2> QED BY <2>2, <2>3 DEF Pages!PagesInv, Pages!StableRowsOnce, Pages!NoRevisionTwice,
                              Pages!Start, Pages!End
  <1>2. OfPages /\ [KnowledgeNext]_knowledge => OfPages'
    BY ChosenTopic, PagesNext
  <1>3. OfPages => PagesStable
    BY DEF PagesStable, Pages!PagesInv
  <1> HIDE DEF OfPages
  <1> QED BY <1>1, <1>2, <1>3, PTL DEF KnowledgeSpec
===============================================================================
