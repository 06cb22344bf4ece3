------------------------ MODULE OwnerResponses_proofs -------------------------
(***************************************************************************)
(* Proofs about OwnerResponses for any number of responses and of delivery *)
(* loops: an answer reaches the owner at most once.                        *)
(***************************************************************************)
EXTENDS OwnerResponses, TLAPS

(* How a loop on its way with a response and the response's row hang        *)
(* together.  The row is never one a claim would take, no other loop is on  *)
(* its way with the same response, and what the loop will mark is what      *)
(* happened to the POST.                                                    *)
Placed ==
    \A w \in Loops : loop[w].pc # "idle" =>
        /\ loop[w].response \in Responses
        /\ outbox[loop[w].response].status \notin {"none", "pending"}

Alone ==
    \A v, w \in Loops :
        /\ loop[v].pc # "idle" /\ loop[w].pc # "idle"
        /\ loop[v].response = loop[w].response
        => v = w

Informed ==
    \A w \in Loops :
        /\ loop[w].pc = "send" => accepted[loop[w].response] = 0
        /\ loop[w].pc = "mark" =>
              /\ loop[w].result # "none"
              /\ loop[w].result = "delivered" => accepted[loop[w].response] = 1
              /\ loop[w].result = "retryable" => accepted[loop[w].response] = 0

Inv == TypeOK /\ Placed /\ Alone /\ Informed /\ StatusTruthful /\ AtMostOneReply

-----------------------------------------------------------------------------
LEMMA Constants ==
    /\ MaxAge \in Nat /\ LeaseTime \in Nat /\ MaxBackoff \in Nat /\ MaxNow \in Nat
    /\ MaxFaults \in Nat /\ None \notin Responses /\ None \notin Loops
  BY DeliveryAssumption

LEMMA InitInv == Init => Inv
  <1> SUFFICES ASSUME Init PROVE Inv
    OBVIOUS
  <1>1. TypeOK
    BY Constants DEF Init, TypeOK, Rows, NoRow, Idle
  <1>2. Placed /\ Alone /\ Informed
    BY DEF Init, Placed, Alone, Informed, Idle
  <1>3. StatusTruthful /\ AtMostOneReply
    BY DEF Init, StatusTruthful, AtMostOneReply, NoRow
  <1> QED BY <1>1, <1>2, <1>3 DEF Inv

-----------------------------------------------------------------------------
(* What a claim does to the rows before it takes one: some that were not    *)
(* there become pending, some end.                                          *)
Swept == Unfinished(Outdated(Materialized(outbox)))

LEMMA ReleasedRow ==
    ASSUME NEW row \in Rows, NEW eligible \in Int,
           NEW st \in {"pending", "delivered", "failed", "unknown_commit"}
    PROVE  /\ Released(row, st, eligible) \in Rows
           /\ Released(row, st, eligible).status = st
           /\ Released(row, st, eligible).holder = None
  BY DEF Rows, Released

LEMMA OutdatedRows ==
    ASSUME NEW rows \in [Responses -> Rows]
    PROVE  /\ Outdated(rows) \in [Responses -> Rows]
           /\ \A r \in Responses :
                 \/ Outdated(rows)[r] = rows[r]
                 \/ /\ rows[r].status = "pending"
                    /\ Outdated(rows)[r].status = "failed" /\ Outdated(rows)[r].holder = None
  BY ReleasedRow DEF Outdated

LEMMA UnfinishedRows ==
    ASSUME NEW rows \in [Responses -> Rows]
    PROVE  /\ Unfinished(rows) \in [Responses -> Rows]
           /\ \A r \in Responses :
                 \/ Unfinished(rows)[r] = rows[r]
                 \/ /\ rows[r].status = "claimed"
                    /\ Unfinished(rows)[r].status = "unknown_commit"
                    /\ Unfinished(rows)[r].holder = None
  BY ReleasedRow DEF Unfinished

LEMMA SweptRows ==
    ASSUME Inv
    PROVE  /\ Swept \in [Responses -> Rows]
           /\ \A r \in Responses :
                 /\ (Swept[r].status = "claimed") = (Swept[r].holder # None)
                 /\ Swept[r].status = "claimed" => Swept[r].attempts >= 1
                 /\ outbox[r].status \notin {"none", "pending"} =>
                       Swept[r].status \notin {"none", "pending"}
                 /\ Swept[r].status \in {"none", "pending"} =>
                       outbox[r].status \in {"none", "pending"}
                 /\ outbox[r].status \in Ended => Swept[r] = outbox[r]
                 /\ Swept[r].status = "delivered" => outbox[r].status = "delivered"
  <1>0. TypeOK
    BY DEF Inv
  <1> DEFINE m == Materialized(outbox)
             o == Outdated(m)
  <1>1. /\ m \in [Responses -> Rows]
        /\ \A r \in Responses : \/ m[r] = outbox[r]
                                \/ outbox[r].status = "none" /\ m[r] = Pending
    <2>1. Pending \in Rows
      BY DEF Pending, NoRow, Rows
    <2>2. \A r \in Entering : r \in Responses /\ outbox[r].status = "none"
      BY <1>0 DEF Entering, TypeOK, Completed
    <2> QED BY <1>0, <2>1, <2>2 DEF Materialized, TypeOK
  <1>2. /\ o \in [Responses -> Rows]
        /\ \A r \in Responses :
              \/ o[r] = m[r]
              \/ m[r].status = "pending" /\ o[r].status = "failed" /\ o[r].holder = None
    BY <1>1, OutdatedRows
  <1>3. /\ Swept \in [Responses -> Rows]
        /\ \A r \in Responses :
              \/ Swept[r] = o[r]
              \/ /\ o[r].status = "claimed"
                 /\ Swept[r].status = "unknown_commit" /\ Swept[r].holder = None
    BY <1>2, UnfinishedRows DEF Swept
  <1>4. Pending.status = "pending" /\ Pending.holder = None
    BY DEF Pending, NoRow
  <1> HIDE DEF m, o
  <1>5. \A r \in Responses :
           /\ (outbox[r].status = "claimed") = (outbox[r].holder # None)
           /\ outbox[r].status = "claimed" => outbox[r].attempts >= 1
    BY <1>0 DEF TypeOK
  <1> SUFFICES ASSUME NEW r \in Responses
               PROVE  /\ (Swept[r].status = "claimed") = (Swept[r].holder # None)
                      /\ Swept[r].status = "claimed" => Swept[r].attempts >= 1
                      /\ outbox[r].status \notin {"none", "pending"} =>
                            Swept[r].status \notin {"none", "pending"}
                      /\ Swept[r].status \in {"none", "pending"} =>
                            outbox[r].status \in {"none", "pending"}
                      /\ outbox[r].status \in Ended => Swept[r] = outbox[r]
                      /\ Swept[r].status = "delivered" => outbox[r].status = "delivered"
    BY <1>3
  <1>a. CASE Swept[r] = outbox[r]
    BY <1>5, <1>a
  <1>b. CASE outbox[r].status = "none" /\ Swept[r] = Pending
    BY <1>4, <1>b DEF Ended
  <1>c. CASE /\ outbox[r].status \in {"none", "pending"}
             /\ Swept[r].status = "failed" /\ Swept[r].holder = None
    BY <1>c DEF Ended
  <1>d. CASE /\ outbox[r].status = "claimed"
             /\ Swept[r].status = "unknown_commit" /\ Swept[r].holder = None
    BY <1>d DEF Ended
  <1>6. \/ o[r] = outbox[r]
        \/ outbox[r].status = "none" /\ o[r] = Pending
        \/ /\ outbox[r].status \in {"none", "pending"}
           /\ o[r].status = "failed" /\ o[r].holder = None
    BY <1>1, <1>2, <1>4
  <1> QED BY <1>3, <1>4, <1>6, <1>a, <1>b, <1>c, <1>d

LEMMA BackoffType == ASSUME NEW n \in Nat, n >= 1 PROVE Backoff(n) \in Int
  <1> DEFINE k == IF n - 1 < 8 THEN n - 1 ELSE 8
  <1>1. k \in Nat
    OBVIOUS
  <1> HIDE DEF k
  <1>2. 2 ^ k \in Int
    BY <1>1
  <1>3. Backoff(n) = IF 2 ^ k < MaxBackoff THEN 2 ^ k ELSE MaxBackoff
    BY DEF Backoff, k
  <1> QED BY <1>2, <1>3, Constants

-----------------------------------------------------------------------------
LEMMA ClaimInv ==
    ASSUME Inv, NEW w \in Loops, ClaimPendingResponse(w) PROVE Inv'
  <1>0. TypeOK /\ Placed /\ Alone /\ Informed /\ StatusTruthful /\ AtMostOneReply
    BY DEF Inv
  <1>s. UNCHANGED <<now, env, accepted, faults>> /\ loop[w].pc = "idle"
    BY DEF ClaimPendingResponse
  <1>c. CASE outbox' = Swept /\ UNCHANGED loop
    <2>1. TypeOK'
      BY <1>0, <1>s, <1>c, SweptRows DEF TypeOK, env
    <2>2. Placed' /\ Alone' /\ Informed'
      BY <1>0, <1>s, <1>c, SweptRows DEF Placed, Alone, Informed, TypeOK
    <2>3. StatusTruthful' /\ AtMostOneReply'
      BY <1>0, <1>s, <1>c, SweptRows DEF StatusTruthful, AtMostOneReply, TypeOK, Ended
    <2> QED BY <2>1, <2>2, <2>3 DEF Inv
  <1>d. ASSUME NEW r \in Claimable(Swept),
               outbox' = [Swept EXCEPT ![r] =
                                [status |-> "claimed", attempts |-> @.attempts + 1,
                                 holder |-> w, expires |-> now + LeaseTime, eligible |-> 0]],
               loop' = [loop EXCEPT ![w] = [Idle EXCEPT !.pc = "send", !.response = r]]
        PROVE  Inv'
    <2>1. /\ r \in Responses /\ Swept[r].status = "pending"
          /\ outbox[r].status \in {"none", "pending"} /\ accepted[r] = 0
      BY <1>0, SweptRows DEF Claimable, Completed, TypeOK, StatusTruthful
    <2>2. /\ loop'[w].pc = "send" /\ loop'[w].response = r /\ loop'[w].result = "none"
          /\ \A v \in Loops : v # w => loop'[v] = loop[v]
      BY <1>0, <1>d DEF TypeOK, Idle
    <2>3. /\ outbox'[r].status = "claimed" /\ outbox'[r].holder = w
          /\ outbox'[r].attempts >= 1 /\ outbox'[r] \in Rows
          /\ \A q \in Responses : q # r => outbox'[q] = Swept[q]
      BY <1>0, <1>d, <2>1, SweptRows, Constants DEF TypeOK, Rows
    <2>4. outbox' \in [Responses -> Rows]
      BY <1>d, <2>1, <2>3, SweptRows
    <2>5. \A v \in Loops : loop[v].pc # "idle" => loop[v].response # r
      BY <1>0, <2>1 DEF Placed
    <2>6. TypeOK'
      <3>1. loop' \in [Loops -> [pc : {"idle", "send", "mark"}, response : Responses \cup {None},
                           result : {"none", "delivered", "retryable", "permanent",
                                     "unknown_commit"}]]
        BY <1>0, <1>d, <2>1 DEF TypeOK, Idle
      <3>2. \A q \in Responses :
               /\ (outbox'[q].status = "claimed") = (outbox'[q].holder # None)
               /\ outbox'[q].status = "claimed" => outbox'[q].attempts >= 1
        BY <2>3, SweptRows, Constants
      <3> QED BY <1>0, <1>s, <2>4, <3>1, <3>2 DEF TypeOK, env
    <2>7. Placed'
      BY <1>0, <2>1, <2>2, <2>3, SweptRows DEF Placed
    <2>8. Alone'
      BY <1>0, <1>s, <2>2, <2>5 DEF Alone
    <2>9. Informed'
      BY <1>0, <1>s, <2>1, <2>2 DEF Informed
    <2>10. StatusTruthful' /\ AtMostOneReply'
      BY <1>0, <1>s, <2>1, <2>3, SweptRows DEF StatusTruthful, AtMostOneReply
    <2> QED BY <2>6, <2>7, <2>8, <2>9, <2>10 DEF Inv
  <1> QED BY <1>c, <1>d DEF ClaimPendingResponse, Swept

(* What the client makes of an error. *)
LEMMA Classified ==
    /\ \A error \in {"transport", "protocol", "rate_limited", "rejected"} :
          classify_delivery_failure(error) \in {"retryable", "permanent", "unknown_commit"}
    /\ \A error \in {"transport", "protocol"} :
          classify_delivery_failure(error) \in {"permanent", "unknown_commit"}
  BY DEF classify_delivery_failure

LEMMA AnsweredInv ==
    ASSUME Inv, NEW w \in Loops, loop[w].pc = "send",
           NEW result \in {"delivered", "retryable", "permanent", "unknown_commit"},
           Answer(w, result), UNCHANGED <<now, env, outbox, faults>>,
           \/ UNCHANGED accepted /\ result # "delivered"
           \/ /\ accepted' = [accepted EXCEPT ![loop[w].response] = @ + 1]
              /\ result # "retryable"
    PROVE  Inv'
  <1>0. TypeOK /\ Placed /\ Alone /\ Informed /\ StatusTruthful /\ AtMostOneReply
    BY DEF Inv
  <1> DEFINE r == loop[w].response
  <1>1. /\ r \in Responses /\ accepted[r] = 0 /\ outbox[r].status \notin {"none", "pending"}
        /\ outbox[r].status # "delivered"
    BY <1>0 DEF Placed, Informed, StatusTruthful
  <1>2. /\ loop'[w] = [pc |-> "mark", response |-> r, result |-> result]
        /\ \A v \in Loops : v # w => loop'[v] = loop[v]
    <2>1. loop \in [Loops -> [pc : {"idle", "send", "mark"}, response : Responses \cup {None},
                              result : {"none", "delivered", "retryable", "permanent",
                                        "unknown_commit"}]]
      BY <1>0 DEF TypeOK
    <2>2. loop' = [loop EXCEPT ![w].pc = "mark", ![w].result = result]
      BY DEF Answer
    <2> QED BY ONLY <2>1, <2>2, w \in Loops DEF r
  <1>3. /\ accepted' \in [Responses -> Nat]
        /\ accepted'[r] \in {0, 1}
        /\ result = "delivered" => accepted'[r] = 1
        /\ result = "retryable" => accepted'[r] = 0
        /\ \A q \in Responses : q # r => accepted'[q] = accepted[q]
    BY <1>0, <1>1 DEF TypeOK
  <1>4. \A v \in Loops : v # w /\ loop[v].pc # "idle" => loop[v].response # r
    BY <1>0 DEF Alone
  <1> HIDE DEF r
  <1>5. TypeOK'
    <2> DEFINE States == [pc : {"idle", "send", "mark"}, response : Responses \cup {None},
                            result : {"none", "delivered", "retryable", "permanent",
                                      "unknown_commit"}]
    <2>0. /\ loop \in [Loops -> States]
          /\ loop' = [v \in Loops |-> loop'[v]]
      BY <1>0 DEF TypeOK, Answer
    <2>a. [pc |-> "mark", response |-> r, result |-> result] \in States
      <3>1. r \in Responses
        BY <1>1
      <3> QED BY <3>1
    <2> HIDE DEF States
    <2>b. \A v \in Loops : loop'[v] \in States
      BY <1>2, <2>0, <2>a
    <2>1. loop' \in [Loops -> States]
      BY <2>0, <2>b
    <2> USE DEF States
    <2> QED BY <1>0, <1>3, <2>1 DEF TypeOK, env
  <1>6. Placed'
    BY <1>0, <1>1, <1>2 DEF Placed
  <1>7. Alone'
    BY <1>0, <1>2, <1>4 DEF Alone
  <1>8. Informed'
    BY <1>0, <1>2, <1>3, <1>4 DEF Informed, Placed
  <1>9. StatusTruthful' /\ AtMostOneReply'
    BY <1>0, <1>1, <1>3 DEF StatusTruthful, AtMostOneReply
  <1> QED BY <1>5, <1>6, <1>7, <1>8, <1>9 DEF Inv

LEMMA SendInv ==
    ASSUME Inv, NEW w \in Loops, SendAccepted(w) \/ SendRefused(w) PROVE Inv'
  <1>1. CASE SendAccepted(w)
    <2>1. PICK result \in {"delivered", "permanent", "unknown_commit"} : Answer(w, result)
      BY <1>1, Classified DEF SendAccepted
    <2> QED BY <1>1, <2>1, AnsweredInv DEF SendAccepted
  <1>2. CASE SendRefused(w)
    <2>1. PICK result \in {"retryable", "permanent", "unknown_commit"} : Answer(w, result)
      BY <1>2, Classified DEF SendRefused
    <2> QED BY <1>2, <2>1, AnsweredInv DEF SendRefused
  <1> QED BY <1>1, <1>2

LEMMA MarkInv ==
    ASSUME Inv, NEW w \in Loops, Mark(w) PROVE Inv'
  <1>0. TypeOK /\ Placed /\ Alone /\ Informed /\ StatusTruthful /\ AtMostOneReply
    BY DEF Inv
  <1>s. UNCHANGED <<now, env, accepted, faults>> /\ loop[w].pc = "mark"
    BY DEF Mark
  <1>1. /\ loop'[w].pc = "idle"
        /\ \A v \in Loops : v # w => loop'[v] = loop[v]
        /\ loop' \in [Loops -> [pc : {"idle", "send", "mark"}, response : Responses \cup {None},
                           result : {"none", "delivered", "retryable", "permanent",
                                     "unknown_commit"}]]
    BY <1>0 DEF Mark, Idle, TypeOK
  <1> DEFINE r == loop[w].response
             result == loop[w].result
  <1>2. /\ r \in Responses
        /\ result \in {"delivered", "retryable", "permanent", "unknown_commit"}
        /\ result = "delivered" => accepted[r] = 1
        /\ result = "retryable" => accepted[r] = 0
        /\ \A v \in Loops : v # w /\ loop[v].pc # "idle" => loop[v].response # r
    BY <1>0, <1>s DEF Placed, Informed, Alone, TypeOK
  <1>3. Informed' /\ Alone' /\ AtMostOneReply'
    BY <1>0, <1>s, <1>1 DEF Informed, Alone, AtMostOneReply
  <1>4. CASE ~Fenced(w)
    <2>1. outbox' = outbox
      BY <1>4 DEF Mark
    <2> QED BY <1>0, <1>s, <1>1, <1>3, <2>1 DEF Inv, TypeOK, Placed, StatusTruthful, env
  <1>5. CASE Fenced(w)
    <2> DEFINE row == Marked(outbox[r], result)
    <2>1. /\ outbox[r] \in Rows /\ outbox[r].attempts >= 1
      BY <1>0, <1>2, <1>5 DEF TypeOK, Fenced
    <2>2. outbox' = [outbox EXCEPT ![r] = row]
      BY <1>5 DEF Mark
    <2>3. /\ row.status = CASE result = "retryable" -> "pending"
                             [] result = "permanent" -> "failed"
                             [] OTHER -> result
          /\ row.holder = None /\ row \in Rows
      <3>1. now \in Int /\ outbox[r].attempts \in Nat
        BY <1>0, <2>1 DEF TypeOK, Rows
      <3>2. now + Backoff(outbox[r].attempts) \in Int
        BY <2>1, <3>1, BackoffType
      <3> HIDE DEF r, result
      <3>3. CASE result = "retryable"
        <4>1. row = Released(outbox[r], "pending", now + Backoff(outbox[r].attempts))
          BY <3>3 DEF Marked
        <4> DEFINE later == now + Backoff(outbox[r].attempts)
        <4>2. later \in Int
          BY <3>2
        <4> HIDE DEF later, row
        <4>3. row = Released(outbox[r], "pending", later)
          BY <4>1 DEF later
        <4> QED BY <2>1, <3>3, <4>2, <4>3, ReleasedRow
      <3>4. CASE result = "permanent"
        <4>1. row = Released(outbox[r], "failed", 0)
          BY <3>4 DEF Marked
        <4> QED BY <2>1, <3>4, <4>1, ReleasedRow
      <3>5. CASE result \in {"delivered", "unknown_commit"}
        <4>1. row = Released(outbox[r], result, 0)
          BY <3>5 DEF Marked
        <4> QED BY <2>1, <3>5, <4>1, ReleasedRow
      <3> QED BY <1>2, <3>3, <3>4, <3>5
    <2> HIDE DEF row, r, result
    <2>4. /\ outbox' \in [Responses -> Rows] /\ outbox'[r] = row
          /\ \A q \in Responses : q # r => outbox'[q] = outbox[q]
      BY <1>0, <1>2, <2>2, <2>3 DEF TypeOK
    <2>5. row.status \in {"pending", "failed", "delivered", "unknown_commit"}
      BY <1>2, <2>3
    <2>6. TypeOK'
      <3>1. \A q \in Responses :
               /\ (outbox'[q].status = "claimed") = (outbox'[q].holder # None)
               /\ outbox'[q].status = "claimed" => outbox'[q].attempts >= 1
        BY <1>0, <1>2, <2>3, <2>4, <2>5 DEF TypeOK
      <3> QED BY <1>0, <1>s, <1>1, <2>4, <3>1 DEF TypeOK, env
    <2>7. Placed'
      BY <1>0, <1>1, <1>2, <2>4 DEF Placed
    <2>8. StatusTruthful'
      BY <1>0, <1>s, <1>2, <2>3, <2>4, <2>5 DEF StatusTruthful
    <2> QED BY <1>3, <2>6, <2>7, <2>8 DEF Inv
  <1> QED BY <1>4, <1>5

LEMMA DroppedInv ==
    ASSUME Inv, NEW w \in Loops, Dropped(w) PROVE Inv'
  <1>0. TypeOK /\ Placed /\ Alone /\ Informed /\ StatusTruthful /\ AtMostOneReply
    BY DEF Inv
  <1>1. /\ loop'[w].pc = "idle"
        /\ \A v \in Loops : v # w => loop'[v] = loop[v]
        /\ loop' \in [Loops -> [pc : {"idle", "send", "mark"}, response : Responses \cup {None},
                           result : {"none", "delivered", "retryable", "permanent",
                                     "unknown_commit"}]]
    BY <1>0 DEF Dropped, Idle, TypeOK
  <1>2. UNCHANGED <<now, env, outbox, accepted>> /\ faults' \in 0..MaxFaults
    BY <1>0, Constants DEF Dropped, TypeOK
  <1>3. TypeOK'
    BY <1>0, <1>1, <1>2 DEF TypeOK, env
  <1>4. Placed' /\ Alone' /\ Informed' /\ StatusTruthful' /\ AtMostOneReply'
    BY <1>0, <1>1, <1>2 DEF Placed, Alone, Informed, StatusTruthful, AtMostOneReply
  <1> QED BY <1>3, <1>4 DEF Inv

(* The steps that leave the outbox and the loops alone. *)
LEMMA AroundInv ==
    ASSUME Inv, UNCHANGED <<outbox, loop, accepted>>,
           \/ \E r \in Responses : MarkCompleted(r) \/ Restrict(r)
           \/ Rotate \/ Tick \/ UNCHANGED vars
    PROVE  Inv'
  <1>0. TypeOK /\ Placed /\ Alone /\ Informed /\ StatusTruthful /\ AtMostOneReply
    BY DEF Inv
  <1>1. Placed' /\ Alone' /\ Informed' /\ StatusTruthful' /\ AtMostOneReply'
    BY <1>0 DEF Placed, Alone, Informed, StatusTruthful, AtMostOneReply
  <1>2. /\ now' \in 0..MaxNow /\ faults' \in 0..MaxFaults
        /\ occurred' = occurred /\ created' \in Seq(Responses)
        /\ invalidated' \subseteq Responses /\ bound' \in BOOLEAN
    <2>1. CASE \E r \in Responses : MarkCompleted(r)
      BY <1>0, <2>1 DEF MarkCompleted, TypeOK
    <2>2. CASE \E r \in Responses : Restrict(r)
      BY <1>0, <2>2 DEF Restrict, TypeOK
    <2>3. CASE Rotate
      BY <1>0, <2>3, Constants DEF Rotate, TypeOK
    <2>4. CASE Tick
      BY <1>0, <2>4, Constants DEF Tick, TypeOK, env
    <2>5. CASE UNCHANGED vars
      BY <1>0, <2>5 DEF vars, TypeOK, env
    <2> QED BY <2>1, <2>2, <2>3, <2>4, <2>5
  <1>3. TypeOK'
    BY <1>0, <1>2 DEF TypeOK
  <1> QED BY <1>1, <1>3 DEF Inv

LEMMA NextInv == Inv /\ [Next]_vars => Inv'
  <1> SUFFICES ASSUME Inv, [Next]_vars PROVE Inv'
    OBVIOUS
  <1>1. ASSUME NEW w \in Loops, Deliver(w) PROVE Inv'
    BY <1>1, ClaimInv, SendInv, MarkInv DEF Deliver
  <1>2. ASSUME NEW w \in Loops, Dropped(w) PROVE Inv'
    BY <1>2, DroppedInv
  <1>3. CASE \/ \E r \in Responses : MarkCompleted(r) \/ Restrict(r)
             \/ Rotate \/ Tick \/ UNCHANGED vars
    BY <1>3, AroundInv DEF MarkCompleted, Restrict, Rotate, Tick, vars
  <1> QED BY <1>1, <1>2, <1>3 DEF Next

(* Every reachable state satisfies the inductive invariant: a row's status, *)
(* its lease and what the loop that claimed it still has to do agree        *)
(* (claim_pending_response to mark_response_failed).                        *)
THEOREM Invariant == Spec => []Inv
  BY InitInv, NextInv, PTL DEF Spec

-----------------------------------------------------------------------------
(* The rows and the loops have their types, and only a claim has a holder   *)
(* (claim_pending_response, mark_response_delivered, mark_response_failed). *)
THEOREM TypeCorrect == Spec => []TypeOK
  <1>1. Inv => TypeOK
    BY DEF Inv
  <1> QED BY <1>1, Invariant, PTL

(* However many loops and kills: the platform accepts one reply at most.    *)
THEOREM RepliedOnce == Spec => []AtMostOneReply
  <1>1. Inv => AtMostOneReply
    BY DEF Inv
  <1> QED BY <1>1, Invariant, PTL

(* The outbox knows: pending has not arrived, delivered has.                *)
THEOREM OutboxTruthful == Spec => []StatusTruthful
  <1>1. Inv => StatusTruthful
    BY DEF Inv
  <1> QED BY <1>1, Invariant, PTL

LEMMA EndedStep ==
    ASSUME Inv, [Next]_vars, NEW r \in Responses, outbox[r].status \in Ended
    PROVE  outbox'[r] = outbox[r]
  <1>0. TypeOK /\ Placed
    BY DEF Inv
  <1>1. ASSUME NEW w \in Loops, ClaimPendingResponse(w) PROVE outbox'[r] = outbox[r]
    <2>1. Swept[r] = outbox[r] /\ Swept \in [Responses -> Rows]
      BY SweptRows
    <2>2. r \notin Claimable(Swept)
      BY <2>1 DEF Claimable, Ended
    <2>3. \/ outbox' = Swept
          \/ \E q \in Claimable(Swept) : \E row : outbox' = [Swept EXCEPT ![q] = row]
      BY <1>1 DEF ClaimPendingResponse, Swept
    <2> QED BY <2>1, <2>2, <2>3
  <1>2. ASSUME NEW w \in Loops, Mark(w) PROVE outbox'[r] = outbox[r]
    <2>1. Fenced(w) => loop[w].response # r
      BY DEF Fenced, Ended
    <2> QED BY <1>0, <1>2, <2>1 DEF Mark, TypeOK
  <1>3. CASE outbox' = outbox
    BY <1>3
  <1> QED BY <1>1, <1>2, <1>3 DEF Next, Deliver, MarkCompleted, Restrict, Rotate, Tick,
             SendAccepted, SendRefused, Dropped, vars

(* No late mark changes what has ended (require_fenced_update).             *)
THEOREM EndedForGood == Spec => EndedStays
  <1>1. Inv /\ [Next]_vars =>
            [\A r \in Responses : outbox[r].status \in Ended => outbox'[r] = outbox[r]]_vars
    BY EndedStep
  <1> QED BY <1>1, Invariant, PTL DEF Spec, EndedStays
===============================================================================
