---------------------- MODULE OwnerNotifications_proofs -----------------------
(***************************************************************************)
(* Proofs about OwnerNotifications for any number of items, versions,      *)
(* policy families, evaluators and outbox loops.                           *)
(***************************************************************************)
EXTENDS OwnerNotifications, FiniteSetTheorems, SequenceTheorems, TLAPS

(* How the POST of an occurrence and its row hang together.  Only a row     *)
(* whose last POST was never made or was turned away for its rate is        *)
(* claimed again; a POST under way has a row nobody can withdraw.           *)
Sends ==
    \A o \in Occurrences :
        /\ accepted[o] = IF post[o] = "accepted" THEN 1 ELSE 0
        /\ outbox[o].status = "none" => post[o] = "none"
        /\ outbox[o].status = "pending" => post[o] \in {"none", "limited"}
        /\ post[o] = "wire" => outbox[o].status \in {"claimed", "unknown_commit"}

(* A loop that is sending has a row, decided for the owner of now. *)
SendersPlaced ==
    \A s \in Senders :
        sender[s].pc = "sending" => /\ outbox[sender[s].o].status # "none"
                                    /\ outbox[sender[s].o].to = owner

Inv == TypeOK /\ Sends /\ SendersPlaced /\ ControlWithdraws

-----------------------------------------------------------------------------
LEMMA Constants ==
    /\ MaxItems \in Nat /\ MaxWrites \in Nat /\ MaxFaults \in Nat
    /\ MaxVersion \in Nat /\ MaxVersion >= 1
    /\ Agenda \cap Controlled = {} /\ IsFiniteSet(Items)
    /\ Agenda \subseteq Items /\ Controlled \subseteq Items
    /\ FollowUps \subseteq Controlled /\ Expectations \subseteq Controlled
  BY BoundsAssumption, ItemsAssumption DEF Items, Controlled

LEMMA OccurrenceParts ==
    ASSUME NEW o \in Occurrences PROVE o[1] \in Items /\ o[2] \in Versions
  BY DEF Occurrences

LEMMA OccurrencesFinite == IsFiniteSet(Occurrences)
  <1>1. IsFiniteSet(Versions)
    BY Constants, FS_Interval DEF Versions
  <1> QED BY <1>1, Constants, FS_Product DEF Occurrences

LEMMA NoRuleInHeads == NoHeads \in Heads
  BY DEF NoHeads, Heads

LEMMA InitInv == Init => Inv
  <1> SUFFICES ASSUME Init PROVE Inv
    OBVIOUS
  <1> USE Constants
  <1>1. SourcesOK
    BY DEF Init, SourcesOK, SourceRows, Absent, Scheduled
  <1>2. RequestsOK
    BY DEF Init, RequestsOK, RequestRows, NoRequest
  <1>3. OutboxOK
    BY DEF Init, OutboxOK, OutboxRows, NoRow, NoDelivery
  <1>4. EvaluationsOK
    BY NoRuleInHeads DEF Init, EvaluationsOK, NoEvaluation
  <1>5. Sends /\ SendersPlaced
    BY DEF Init, Sends, SendersPlaced, NoRow, NoDelivery
  <1>6. ControlWithdraws
    BY DEF Init, ControlWithdraws, NoRow
  <1> QED BY <1>1, <1>2, <1>3, <1>4, <1>5, <1>6 DEF Inv, TypeOK

-----------------------------------------------------------------------------
(* What the steps are made of. *)

LEMMA SourceRowTypes ==
    ASSUME NEW r \in SourceRows, r.version \in Versions
    PROVE  /\ \A st \in {"ended", "closed"} : /\ Over(r, st) \in SourceRows
                                             /\ Over(r, st).status = st
           /\ r.version < MaxVersion => /\ Moved(r) \in SourceRows
                                        /\ Moved(r).status = r.status
                                        /\ Moved(r).version \in Versions
           /\ Moved(r).version = r.version + 1
  <1>1. r.version \in Nat /\ r.version >= 1 /\ r.version <= MaxVersion
    BY Constants DEF Versions
  <1>a. r.version + 1 \in 0..(MaxVersion + 1) /\ MaxVersion \in Nat
    BY <1>1, Constants
  <1>2. ASSUME NEW st \in {"ended", "closed"}
        PROVE  Over(r, st) \in SourceRows /\ Over(r, st).status = st
    BY <1>a DEF Over, SourceRows
  <1>3. Moved(r).version = r.version + 1 /\ Moved(r).status = r.status
    BY <1>1 DEF Moved, SourceRows
  <1>4. ASSUME r.version < MaxVersion
        PROVE  Moved(r) \in SourceRows /\ Moved(r).version \in Versions
    <2>1. Moved(r) \in SourceRows
      BY <1>a DEF Moved, SourceRows
    <2>2. r.version + 1 \in Versions
      BY <1>1, <1>4, Constants DEF Versions
    <2> QED BY <2>1, <2>2, <1>3
  <1> QED BY <1>2, <1>3, <1>4

LEMMA EnteredType ==
    ASSUME NEW due \in BOOLEAN
    PROVE  /\ Entered(due) \in SourceRows /\ Entered(due).status = "scheduled"
           /\ Entered(due).version = 1 /\ 1 \in Versions
  BY Constants DEF Entered, SourceRows, Versions

LEMMA ProduceOK ==
    ASSUME RequestsOK, NEW S, NEW sources, produce_from_locked_source(S, sources)
    PROVE  RequestsOK'
  <1> DEFINE new == {o \in Occurrences : /\ o[1] \in S /\ o[2] = sources[o[1]].version
                                         /\ cand[o] = "none"}
  <1>1. cand' \in [Occurrences -> {"none", "pending", "reminded", "suppressed", "expired",
                                   "failed_terminal"}]
    BY DEF produce_from_locked_source, RequestsOK
  <1>2. req' \in [Occurrences -> RequestRows]
    BY DEF produce_from_locked_source, RequestsOK, RequestRows, NoRequest
  <1>3. queue' \in Seq(Occurrences)
    <2>1. PICK order \in Orders(new) : queue' = queue \o order
      BY DEF produce_from_locked_source
    <2>2. IsFiniteSet(new)
      BY OccurrencesFinite, FS_Subset
    <2>3. Cardinality(new) \in Nat
      BY <2>2, FS_CardinalityType
    <2>4. order \in [1..Cardinality(new) -> new]
      BY <2>1 DEF Orders
    <2>5. order \in [1..Cardinality(new) -> Occurrences]
      BY <2>4
    <2> HIDE DEF new
    <2>6. order \in Seq(Occurrences)
      BY <2>3, <2>5, SeqDef
    <2> QED BY <2>1, <2>6 DEF RequestsOK
  <1> QED BY <1>1, <1>2, <1>3 DEF RequestsOK

(* A step that touches no row and no POST and withdraws nothing keeps what  *)
(* the rows and the loops promise.                                          *)
LEMMA Quiet ==
    ASSUME Inv, UNCHANGED <<outbox, sender, wire, owner>>,
           \A o \in Occurrences : o[1] \in Controlled /\ Withdrawn(o)' => Withdrawn(o)
    PROVE  OutboxOK' /\ Sends' /\ SendersPlaced' /\ ControlWithdraws'
  <1>1. OutboxOK' /\ Sends' /\ SendersPlaced'
    BY DEF Inv, TypeOK, OutboxOK, Sends, SendersPlaced, wire
  <1>2. ControlWithdraws'
    BY DEF Inv, ControlWithdraws, wire
  <1> QED BY <1>1, <1>2

(* Sources that enter, end without the owner or keep their version withdraw *)
(* nothing.                                                                 *)
LEMMA NotWithdrawn ==
    ASSUME Inv, NEW i \in Items, NEW r \in SourceRows,
           source'[i] = r,
           \/ r.status = "ended"
           \/ r.status = "scheduled" /\ r.version = 1
           \/ r.status = source[i].status /\ r.version = source[i].version,
           NEW o \in Occurrences, o[1] = i, Withdrawn(o)'
    PROVE  Withdrawn(o)
  BY OccurrenceParts, Constants DEF Withdrawn, SourceRows, Versions

-----------------------------------------------------------------------------
LEMMA ScannedOK ==
    ASSUME Inv, NEW S, NEW new \in SUBSET Items, NEW late \in SUBSET new,
           source' = Scanned(new, late, S)
    PROVE  /\ SourcesOK'
           /\ \A o \in Occurrences : Withdrawn(o)' => Withdrawn(o)
  <1>1. ASSUME NEW i \in Items
        PROVE  /\ source'[i] \in SourceRows
               /\ source'[i].status = "scheduled" => source'[i].version \in Versions
               /\ \/ source'[i].status = "ended"
                  \/ source'[i].status = "scheduled" /\ source'[i].version = 1
                  \/ source'[i] = source[i]
    <2>1. CASE i \in new
      <3>1. source'[i] = Entered(i \in late)
        BY <2>1 DEF Scanned
      <3>2. (i \in late) \in BOOLEAN
        OBVIOUS
      <3> QED BY <3>1, <3>2, EnteredType
    <2>2. CASE i \notin new /\ i \in S /\ Scheduled(i) /\ source[i].basis # "live"
      <3>1. source'[i] = Over(source[i], "ended")
        BY <2>2 DEF Scanned
      <3> QED BY <3>1, <2>2, SourceRowTypes DEF Inv, TypeOK, SourcesOK, Scheduled
    <2>3. CASE i \notin new /\ ~(i \in S /\ Scheduled(i) /\ source[i].basis # "live")
      BY <2>3 DEF Scanned, Inv, TypeOK, SourcesOK, Scheduled
    <2> QED BY <2>1, <2>2, <2>3
  <1>2. SourcesOK'
    <2>1. source' = [i \in Items |-> source'[i]]
      BY DEF Scanned
    <2> QED BY <1>1, <2>1 DEF SourcesOK, Scheduled
  <1>3. ASSUME NEW o \in Occurrences, Withdrawn(o)' PROVE Withdrawn(o)
    BY <1>1, <1>3, NotWithdrawn, OccurrenceParts
  <1> QED BY <1>2, <1>3

LEMMA ScanInv == ASSUME Inv, scan_commitments \/ scan_project_blockers PROVE Inv'
  <1>1. PICK new \in SUBSET Items, S \in {FollowUps, {}} :
           \E late \in SUBSET new : source' = Scanned(new, late, S)
    BY Constants DEF scan_commitments, scan_project_blockers, Entering, Items, Controlled,
                     FollowUps
  <1>2. SourcesOK' /\ \A o \in Occurrences : Withdrawn(o)' => Withdrawn(o)
    BY <1>1, ScannedOK
  <1>3. RequestsOK'
    BY ProduceOK DEF Inv, TypeOK, scan_commitments, scan_project_blockers
  <1>4. UNCHANGED <<outbox, policy, wire, jobs, faults>>
    BY DEF scan_commitments, scan_project_blockers
  <1>5. EvaluationsOK'
    BY <1>4 DEF Inv, TypeOK, EvaluationsOK, policy, jobs
  <1>6. OutboxOK' /\ Sends' /\ SendersPlaced' /\ ControlWithdraws'
    BY <1>2, <1>4, Quiet DEF policy, jobs
  <1> QED BY <1>2, <1>3, <1>5, <1>6 DEF Inv, TypeOK

(* Rows that wait are taken out, and whatever that withdraws has no row     *)
(* that is being sent or may have been.                                     *)
LEMMA Suppressing ==
    ASSUME Inv, UNCHANGED <<sender, wire, owner>>,
           NEW P \in SUBSET Occurrences,
           \A o \in P : outbox[o].status \in {"pending", "failed"},
           outbox' = [o \in Occurrences |-> IF o \in P THEN Suppressed(outbox[o])
                                                       ELSE outbox[o]],
           \A o \in Occurrences :
              o[1] \in Controlled /\ Withdrawn(o)'
                => Withdrawn(o) \/ outbox'[o].status \in {"none", "delivered", "suppressed"}
    PROVE  OutboxOK' /\ Sends' /\ SendersPlaced' /\ ControlWithdraws'
  <1>1. ASSUME NEW o \in Occurrences
        PROVE  /\ outbox'[o] \in OutboxRows
               /\ outbox'[o].to = outbox[o].to
               /\ \/ outbox'[o].status = outbox[o].status
                  \/ /\ outbox'[o].status = "suppressed"
                     /\ outbox[o].status \in {"pending", "failed"}
    <2>0. outbox[o] \in OutboxRows
      BY DEF Inv, TypeOK, OutboxOK
    <2>1. CASE o \in P
      <3>1. outbox'[o] = Suppressed(outbox[o]) /\ outbox[o].status \in {"pending", "failed"}
        BY <2>1
      <3>2. /\ Suppressed(outbox[o]) \in OutboxRows
            /\ Suppressed(outbox[o]).to = outbox[o].to
            /\ Suppressed(outbox[o]).status = "suppressed"
        BY <2>0 DEF Suppressed, OutboxRows
      <3> QED BY <3>1, <3>2
    <2>2. CASE o \notin P
      BY <2>0, <2>2
    <2> QED BY <2>1, <2>2
  <1>2. OutboxOK'
    <2>1. outbox' \in [Occurrences -> OutboxRows]
      <3>1. outbox' = [o \in Occurrences |-> outbox'[o]]
        OBVIOUS
      <3> QED BY <1>1, <3>1
    <2> QED BY <2>1 DEF Inv, TypeOK, OutboxOK, wire
  <1>3. Sends'
    BY <1>1 DEF Inv, Sends, wire
  <1>4. SendersPlaced'
    BY <1>1 DEF Inv, TypeOK, OutboxOK, SendersPlaced
  <1>5. ControlWithdraws'
    BY <1>1 DEF Inv, Sends, ControlWithdraws, wire
  <1> QED BY <1>2, <1>3, <1>4, <1>5

LEMMA ScanExpectationsInv == ASSUME Inv, scan_response_expectations PROVE Inv'
  <1>1. PICK new \in SUBSET Items :
           \E late \in SUBSET new : source' = Scanned(new, late, Expectations)
    BY Constants DEF scan_response_expectations, Entering, Items, Controlled
  <1>2. SourcesOK' /\ \A o \in Occurrences : Withdrawn(o)' => Withdrawn(o)
    BY <1>1, ScannedOK
  <1>3. RequestsOK'
    BY ProduceOK DEF Inv, TypeOK, scan_response_expectations
  <1>4. UNCHANGED <<policy, wire, jobs, faults>>
    BY DEF scan_response_expectations
  <1>5. EvaluationsOK'
    BY <1>4 DEF Inv, TypeOK, EvaluationsOK, policy, jobs
  <1>6. OutboxOK' /\ Sends' /\ SendersPlaced' /\ ControlWithdraws'
    <2> DEFINE P == {o \in Occurrences :
                       /\ o[1] \in Expectations /\ source'[o[1]].status # "scheduled"
                       /\ outbox[o].status \in {"pending", "failed"}}
    <2>1. outbox' = [o \in Occurrences |-> IF o \in P THEN Suppressed(outbox[o])
                                                       ELSE outbox[o]]
      BY DEF scan_response_expectations
    <2>2. P \in SUBSET Occurrences /\ \A o \in P : outbox[o].status \in {"pending", "failed"}
      OBVIOUS
    <2> HIDE DEF P
    <2> QED BY <1>2, <1>4, <2>1, <2>2, Suppressing DEF policy, jobs
  <1> QED BY <1>2, <1>3, <1>5, <1>6 DEF Inv, TypeOK

LEMMA ProduceDueInv == ASSUME Inv, produce_due_notification_candidates PROVE Inv'
  <1>1. UNCHANGED <<source, outbox, policy, wire, jobs, faults>>
    BY DEF produce_due_notification_candidates
  <1>2. SourcesOK' /\ EvaluationsOK'
    BY <1>1 DEF Inv, TypeOK, SourcesOK, EvaluationsOK, Scheduled, policy, jobs
  <1>3. RequestsOK'
    BY ProduceOK DEF Inv, TypeOK, produce_due_notification_candidates
  <1>4. OutboxOK' /\ Sends' /\ SendersPlaced' /\ ControlWithdraws'
    BY <1>1, Quiet DEF Withdrawn, policy, jobs
  <1> QED BY <1>2, <1>3, <1>4 DEF Inv, TypeOK

(* One source changes, nobody withdraws it: time, facts and the agenda.     *)
LEMMA OneSourceInv ==
    ASSUME Inv, NEW i \in Items, NEW r \in SourceRows,
           source' = [source EXCEPT ![i] = r],
           r.status = "scheduled" => r.version \in Versions,
           \/ i \in Agenda
           \/ r.status = source[i].status /\ r.version = source[i].version,
           UNCHANGED <<cand, req, queue, outbox, policy, wire, jobs, faults>>
    PROVE  Inv'
  <1>1. SourcesOK'
    BY DEF Inv, TypeOK, SourcesOK, Scheduled
  <1>2. RequestsOK' /\ EvaluationsOK'
    BY DEF Inv, TypeOK, RequestsOK, EvaluationsOK, policy, jobs
  <1>3. ASSUME NEW o \in Occurrences, o[1] \in Controlled, Withdrawn(o)'
        PROVE  Withdrawn(o)
    BY <1>3, OccurrenceParts, Constants DEF Withdrawn, Inv, TypeOK, SourcesOK
  <1>4. OutboxOK' /\ Sends' /\ SendersPlaced' /\ ControlWithdraws'
    BY <1>3, Quiet DEF policy, jobs
  <1> QED BY <1>1, <1>2, <1>4 DEF Inv, TypeOK

LEMMA SourceStepsInv ==
    ASSUME Inv, NEW i \in Items,
           \/ FallsDue(i) \/ \E basis \in {"settled", "gone"} : BasisLapses(i, basis)
           \/ AgendaCreate(i) \/ AgendaReschedule(i) \/ AgendaEnd(i)
    PROVE  Inv'
  <1>0. source[i] \in SourceRows /\ (Scheduled(i) => source[i].version \in Versions)
    BY DEF Inv, TypeOK, SourcesOK
  <1>1. CASE FallsDue(i)
    <2>1. [source[i] EXCEPT !.due = TRUE] \in SourceRows
      BY <1>0 DEF SourceRows
    <2>2. source' = [source EXCEPT ![i] = [source[i] EXCEPT !.due = TRUE]]
      BY <1>1 DEF FallsDue
    <2>3. /\ [source[i] EXCEPT !.due = TRUE].status = source[i].status
          /\ [source[i] EXCEPT !.due = TRUE].version = source[i].version
      BY <1>0 DEF SourceRows
    <2> QED BY <1>0, <1>1, <2>1, <2>2, <2>3, OneSourceInv DEF FallsDue, Scheduled
  <1>2. ASSUME NEW basis \in {"settled", "gone"}, BasisLapses(i, basis) PROVE Inv'
    <2>1. [source[i] EXCEPT !.basis = basis] \in SourceRows
      BY <1>0 DEF SourceRows
    <2>2. source' = [source EXCEPT ![i] = [source[i] EXCEPT !.basis = basis]]
      BY <1>2 DEF BasisLapses
    <2>3. /\ [source[i] EXCEPT !.basis = basis].status = source[i].status
          /\ [source[i] EXCEPT !.basis = basis].version = source[i].version
      BY <1>0 DEF SourceRows
    <2> QED BY <1>0, <1>2, <2>1, <2>2, <2>3, OneSourceInv DEF BasisLapses, Scheduled
  <1>3. CASE AgendaCreate(i)
    <2>1. FALSE \in BOOLEAN
      OBVIOUS
    <2> QED BY <1>3, <2>1, EnteredType, OneSourceInv DEF AgendaCreate
  <1>4. CASE AgendaReschedule(i)
    BY <1>0, <1>4, SourceRowTypes, OneSourceInv DEF AgendaReschedule
  <1>5. CASE AgendaEnd(i)
    BY <1>0, <1>5, SourceRowTypes, OneSourceInv DEF AgendaEnd
  <1> QED BY <1>1, <1>2, <1>3, <1>4, <1>5

-----------------------------------------------------------------------------
(* The owner's controls and rules. *)

(* A control moves or ends its targets, whose rows are all at rest. *)
LEMMA Controlling ==
    ASSUME Inv, NEW targets,
           source' = [i \in Items |-> source'[i]],
           \A i \in Items : /\ source'[i] \in SourceRows
                            /\ source'[i].status = "scheduled" => source'[i].version \in Versions
                            /\ i \notin targets => source'[i] = source[i],
           lock_and_check_outbox(targets), suppress_pending_outbox(targets),
           UNCHANGED <<cand, req, queue, policy, wire, jobs, faults>>
    PROVE  Inv'
  <1>1. SourcesOK'
    BY DEF SourcesOK, Scheduled
  <1>2. RequestsOK' /\ EvaluationsOK'
    BY DEF Inv, TypeOK, RequestsOK, EvaluationsOK, policy, jobs
  <1>3. OutboxOK' /\ Sends' /\ SendersPlaced' /\ ControlWithdraws'
    <2> DEFINE P == {o \in Occurrences : o[1] \in targets
                                           /\ outbox[o].status \in {"pending", "failed"}}
    <2>1. outbox' = [o \in Occurrences |-> IF o \in P THEN Suppressed(outbox[o])
                                                       ELSE outbox[o]]
      BY DEF suppress_pending_outbox
    <2>2. P \in SUBSET Occurrences /\ \A o \in P : outbox[o].status \in {"pending", "failed"}
      OBVIOUS
    <2>3. ASSUME NEW o \in Occurrences, Withdrawn(o)'
          PROVE  Withdrawn(o) \/ outbox'[o].status \in {"none", "delivered", "suppressed"}
      <3>1. CASE o[1] \notin targets
        BY <2>3, <3>1, OccurrenceParts DEF Withdrawn
      <3>2. CASE o[1] \in targets
        <4>1. outbox[o] \in OutboxRows /\ outbox[o].status \notin {"claimed", "unknown_commit"}
          BY <3>2 DEF lock_and_check_outbox, Inv, TypeOK, OutboxOK
        <4> QED BY <3>2, <4>1, <2>1 DEF Suppressed, OutboxRows
      <3> QED BY <3>1, <3>2
    <2> HIDE DEF P
    <2> QED BY <2>1, <2>2, <2>3, Suppressing DEF policy, jobs
  <1> QED BY <1>1, <1>2, <1>3 DEF Inv, TypeOK

LEMMA ControlsInv ==
    ASSUME Inv, NEW targets,
           \/ DismissFollowUps(targets) \/ SnoozeFollowUps(targets)
           \/ CompleteFollowUps(targets) \/ DismissExpectations(targets)
    PROVE  Inv'
  <1>0. ASSUME NEW i \in Items
        PROVE  source[i] \in SourceRows /\ (Scheduled(i) => source[i].version \in Versions)
    BY DEF Inv, TypeOK, SourcesOK
  <1>1. /\ \A i \in targets : Scheduled(i)
        /\ lock_and_check_outbox(targets) /\ suppress_pending_outbox(targets)
        /\ UNCHANGED <<cand, req, queue, policy, wire, jobs, faults>>
    BY DEF DismissFollowUps, SnoozeFollowUps, CompleteFollowUps, DismissExpectations, Control
  <1>2. \/ source' = [i \in Items |-> IF i \in targets THEN Over(source[i], "closed")
                                                     ELSE source[i]]
        \/ /\ source' = [i \in Items |-> IF i \in targets THEN Moved(source[i]) ELSE source[i]]
           /\ \A i \in targets : source[i].version < MaxVersion
    BY DEF DismissFollowUps, SnoozeFollowUps, CompleteFollowUps, DismissExpectations, Control,
       Closed, Postponed
  <1>3. ASSUME NEW i \in Items
        PROVE  /\ source'[i] \in SourceRows
               /\ source'[i].status = "scheduled" => source'[i].version \in Versions
               /\ i \notin targets => source'[i] = source[i]
    BY <1>0, <1>1, <1>2, SourceRowTypes DEF Scheduled
  <1>4. source' = [i \in Items |-> source'[i]]
    BY <1>2
  <1> QED BY <1>1, <1>3, <1>4, Controlling

LEMMA PolicyInv ==
    ASSUME Inv, NEW f \in Families,
           \/ \E rule \in Rules : create_or_replace(f, rule)
           \/ disable(f)
           \/ \E o \in Occurrences, important \in BOOLEAN :
                 promote_feedback_to_rule(f, o, important)
    PROVE  Inv'
  <1> DEFINE Kept == Rules \cup {NoRule} \cup
                     [outcome : {"remind", "suppress"}, bypass : {FALSE}, silent : {FALSE},
                      allow : {FALSE}]
  <1>1. PICK rule \in Kept : append_revision(f, rule)
    <2>1. ASSUME NEW important \in BOOLEAN
          PROVE  [NoRule EXCEPT !.outcome = IF important THEN "remind" ELSE "suppress"] \in Kept
      BY DEF NoRule
    <2> HIDE DEF Kept
    <2>2. NoRule \in Kept /\ Rules \subseteq Kept
      BY DEF Kept
    <2> QED BY <2>1, <2>2 DEF create_or_replace, disable, promote_feedback_to_rule
  <1>2. epoch' \in Nat /\ head' \in Heads
    <2> DEFINE HeadRows == [generation : Nat, rule : Kept]
               g == IF head[f].generation = 0 THEN 2 ELSE head[f].generation + 1
    <2>1. head \in [Families -> HeadRows] /\ epoch \in Nat
      BY DEF Inv, TypeOK, EvaluationsOK, Heads
    <2>2. [generation |-> g, rule |-> rule] \in HeadRows
      <3>1. head[f].generation \in Nat
        BY <2>1
      <3>2. g \in Nat
        BY <3>1
      <3> QED BY <3>2
    <2>3. head' = [head EXCEPT ![f] = [generation |-> g, rule |-> rule]] /\ epoch' = epoch + 1
      BY <1>1 DEF append_revision
    <2>4. Heads = [Families -> HeadRows]
      BY DEF Heads
    <2> HIDE DEF HeadRows, g
    <2> QED BY <2>1, <2>2, <2>3, <2>4
  <1>3. UNCHANGED <<tables, owner, wire, jobs, faults>>
    BY <1>1 DEF append_revision
  <1>4. EvaluationsOK'
    BY <1>2, <1>3 DEF Inv, TypeOK, EvaluationsOK, jobs
  <1>5. SourcesOK' /\ RequestsOK'
    BY <1>3 DEF Inv, TypeOK, SourcesOK, RequestsOK, Scheduled, tables
  <1>6. OutboxOK' /\ Sends' /\ SendersPlaced' /\ ControlWithdraws'
    BY <1>3, Quiet DEF Withdrawn, tables, jobs
  <1> QED BY <1>4, <1>5, <1>6 DEF Inv, TypeOK

-----------------------------------------------------------------------------
(* The policy worker. *)

(* A step of an evaluator that decides nothing. *)
LEMMA Evaluating ==
    ASSUME Inv, NEW w \in Evaluators,
           RequestsOK', EvaluationsOK',
           UNCHANGED <<source, outbox, owner, wire, sender>>
    PROVE  Inv'
  <1>1. SourcesOK'
    BY DEF Inv, TypeOK, SourcesOK, Scheduled
  <1>2. OutboxOK' /\ Sends' /\ SendersPlaced' /\ ControlWithdraws'
    BY Quiet DEF Withdrawn
  <1> QED BY <1>1, <1>2 DEF Inv, TypeOK

LEMMA NoEvaluationOK ==
    /\ NoEvaluation \in [pc : {"idle", "claimed", "read", "loaded"},
                         o : Occurrences \cup {NoOccurrence}, current : BOOLEAN,
                         epoch : Nat, owner : Owners \cup {None}, heads : Heads]
    /\ NoEvaluation.pc = "idle"
  BY NoRuleInHeads DEF NoEvaluation

LEMMA EvaluatorStepsInv ==
    ASSUME Inv, NEW w \in Evaluators,
           \/ claim_evaluation(w) \/ LoadCandidate(w) \/ LoadHeads(w)
           \/ requeue_stale_request(w) \/ EvaluationFails(w)
    PROVE  Inv'
  <1> USE DEF Inv, TypeOK
  <1>1. CASE claim_evaluation(w)
    <2>1. PICK o \in Occurrences :
            /\ req' = [req EXCEPT ![o] = [status |-> "claimed", holder |-> w, expired |-> FALSE]]
            /\ eval' = [eval EXCEPT ![w] = [NoEvaluation EXCEPT !.pc = "claimed", !.o = o]]
      BY <1>1 DEF claim_evaluation
    <2>2. RequestsOK'
      BY <1>1, <2>1 DEF claim_evaluation, RequestsOK, RequestRows
    <2>3. EvaluationsOK'
      BY <1>1, <2>1, NoEvaluationOK DEF claim_evaluation, EvaluationsOK, policy
    <2> QED BY <1>1, <2>2, <2>3, Evaluating DEF claim_evaluation, policy
  <1>2. CASE LoadCandidate(w)
    <2>1. RequestsOK'
      BY <1>2 DEF LoadCandidate, RequestsOK, tables
    <2>2. EvaluationsOK'
      <3> DEFINE current == cand[eval[w].o] = "pending"
      <3>1. current \in BOOLEAN
        OBVIOUS
      <3> DEFINE e == [pc |-> "read", o |-> eval[w].o, current |-> current,
                       epoch |-> epoch, owner |-> owner, heads |-> NoHeads]
      <3>2. eval' = [eval EXCEPT ![w] = e]
        BY <1>2 DEF LoadCandidate
      <3>u. UNCHANGED <<epoch, head, owner, faults>>
        BY <1>2 DEF LoadCandidate, policy
      <3>3. eval[w].o \in Occurrences
        BY <1>2 DEF LoadCandidate, EvaluationsOK
      <3>4. /\ e \in [pc : {"idle", "claimed", "read", "loaded"},
                      o : Occurrences \cup {NoOccurrence}, current : BOOLEAN,
                      epoch : Nat, owner : Owners \cup {None}, heads : Heads]
            /\ e.o \in Occurrences
        <4> HIDE DEF current
        <4> QED BY <3>1, <3>3, NoRuleInHeads DEF EvaluationsOK
      <3> HIDE DEF e
      <3> QED BY <3>2, <3>u, <3>4 DEF EvaluationsOK
    <2> QED BY <1>2, <2>1, <2>2, Evaluating DEF LoadCandidate, policy, tables
  <1>3. CASE LoadHeads(w)
    <2>1. RequestsOK'
      BY <1>3 DEF LoadHeads, RequestsOK, tables
    <2>2. EvaluationsOK'
      <3>1. eval' = [eval EXCEPT ![w] = [eval[w] EXCEPT !.pc = "loaded", !.heads = head]]
        BY <1>3 DEF LoadHeads, EvaluationsOK
      <3>2. eval[w].pc = "read" /\ UNCHANGED <<epoch, head, owner, faults>>
        BY <1>3 DEF LoadHeads, policy
      <3> QED BY <3>1, <3>2 DEF EvaluationsOK
    <2> QED BY <1>3, <2>1, <2>2, Evaluating DEF LoadHeads, policy, tables
  <1>4. CASE requeue_stale_request(w)
    <2>1. RequestsOK'
      BY <1>4 DEF requeue_stale_request, RequestsOK, RequestRows, NoRequest
    <2>2. EvaluationsOK'
      BY <1>4, NoEvaluationOK DEF requeue_stale_request, EvaluationsOK, policy
    <2> QED BY <1>4, <2>1, <2>2, Evaluating DEF requeue_stale_request, policy
  <1>5. CASE EvaluationFails(w)
    <2>1. RequestsOK'
      BY <1>5 DEF EvaluationFails, RequestsOK, tables
    <2>2. faults' \in 0..MaxFaults
      BY <1>5, Constants DEF EvaluationFails, EvaluationsOK
    <2>3. EvaluationsOK'
      BY <1>5, <2>2, NoEvaluationOK DEF EvaluationFails, EvaluationsOK, policy
    <2> QED BY <1>5, <2>1, <2>3, Evaluating DEF EvaluationFails, policy, tables
  <1> QED BY <1>1, <1>2, <1>3, <1>4, <1>5

(* The only step that makes a row, for a source that is not withdrawn. *)
LEMMA CommitInv ==
    ASSUME Inv, NEW w \in Evaluators, NEW hours \in Hours, commit_evaluation(w, hours)
    PROVE  Inv'
  <1> DEFINE o == eval[w].o
             row == [NoRow EXCEPT !.status = "pending", !.to = eval[w].owner]
  <1>1. /\ o \in Occurrences /\ source_is_current(o) /\ eval[w].owner = owner
        /\ eval[w].owner \in Owners
    BY DEF commit_evaluation, CanCommit, SnapshotStale, Inv, TypeOK, EvaluationsOK
  <1>2. UNCHANGED <<source, queue, policy, wire, sender, faults>>
    BY DEF commit_evaluation
  <1>3. RequestsOK'
    <2>1. CandidateStatus(Outcome(w, hours)) \in {"reminded", "suppressed", "expired",
                                                  "failed_terminal"}
      BY DEF CandidateStatus
    <2>2. cand' = [cand EXCEPT ![o] = CandidateStatus(Outcome(w, hours))]
      BY DEF commit_evaluation
    <2>3. PICK st \in {"completed", "terminal"} :
             req' = [req EXCEPT ![o] = [NoRequest EXCEPT !.status = st]]
      BY DEF commit_evaluation
    <2>4. [NoRequest EXCEPT !.status = st] \in RequestRows
      BY DEF NoRequest, RequestRows
    <2> QED BY <1>1, <1>2, <2>1, <2>2, <2>3, <2>4 DEF Inv, TypeOK, RequestsOK
  <1>4. EvaluationsOK'
    BY <1>2, NoEvaluationOK DEF commit_evaluation, Inv, TypeOK, EvaluationsOK, policy
  <1>5. \/ outbox' = outbox
        \/ outbox[o].status = "none" /\ outbox' = [outbox EXCEPT ![o] = row]
    BY DEF commit_evaluation
  <1>6. /\ row \in OutboxRows /\ row.status = "pending"
    BY <1>1 DEF NoRow, OutboxRows
  <1>7. SourcesOK'
    BY <1>2 DEF Inv, TypeOK, SourcesOK, Scheduled
  <1> HIDE DEF o, row
  <1>8. OutboxOK'
    BY <1>1, <1>2, <1>5, <1>6 DEF Inv, TypeOK, OutboxOK, wire
  <1>9. Sends'
    BY <1>1, <1>2, <1>5, <1>6 DEF Inv, TypeOK, OutboxOK, Sends, wire
  <1>10. SendersPlaced'
    <2>1. ASSUME NEW s \in Senders, sender[s].pc = "sending"
          PROVE  outbox'[sender[s].o] = outbox[sender[s].o]
      BY <2>1, <1>1, <1>5 DEF Inv, TypeOK, OutboxOK, SendersPlaced
    <2> QED BY <2>1, <1>2 DEF Inv, SendersPlaced, policy
  <1>11. ControlWithdraws'
    <2>1. ~Withdrawn(o)
      BY <1>1, OccurrenceParts, Constants DEF source_is_current, Withdrawn, Scheduled, Versions
    <2>2. ASSUME NEW x \in Occurrences, x # o PROVE outbox'[x] = outbox[x]
      BY <2>2, <1>1, <1>5 DEF Inv, TypeOK, OutboxOK
    <2>3. \A x \in Occurrences : Withdrawn(x)' <=> Withdrawn(x)
      BY <1>2 DEF Withdrawn
    <2> QED BY <2>1, <2>2, <2>3, <1>2 DEF Inv, ControlWithdraws, wire
  <1> QED BY <1>3, <1>4, <1>7, <1>8, <1>9, <1>10, <1>11 DEF Inv, TypeOK

LEMMA EvaluationExpiresInv ==
    ASSUME Inv, NEW o \in Occurrences, EvaluationLeaseExpires(o) PROVE Inv'
  <1>1. RequestsOK'
    BY DEF EvaluationLeaseExpires, Inv, TypeOK, RequestsOK, RequestRows
  <1>2. EvaluationsOK' /\ SourcesOK'
    BY DEF EvaluationLeaseExpires, Inv, TypeOK, EvaluationsOK, SourcesOK, Scheduled, policy, jobs
  <1>3. OutboxOK' /\ Sends' /\ SendersPlaced' /\ ControlWithdraws'
    BY Quiet DEF EvaluationLeaseExpires, Withdrawn, policy, jobs
  <1> QED BY <1>1, <1>2, <1>3 DEF Inv, TypeOK

-----------------------------------------------------------------------------
(* The outbox loops. *)

(* A step of the loops and the platform leaves the rest alone. *)
LEMMA Delivering ==
    ASSUME Inv, UNCHANGED <<source, cand, req, queue, policy, eval>>,
           faults' \in 0..MaxFaults,
           OutboxOK', Sends', SendersPlaced', ControlWithdraws'
    PROVE  Inv'
  <1>1. SourcesOK' /\ RequestsOK'
    BY DEF Inv, TypeOK, SourcesOK, RequestsOK, Scheduled
  <1>2. EvaluationsOK'
    BY DEF Inv, TypeOK, EvaluationsOK, policy
  <1> QED BY <1>1, <1>2 DEF Inv, TypeOK

LEMMA SweptOK ==
    ASSUME NEW r \in OutboxRows
    PROVE  /\ Swept(r) \in OutboxRows /\ Swept(r).to = r.to
           /\ \/ Swept(r) = r
              \/ r.status = "claimed" /\ Swept(r).status = "unknown_commit"
  BY DEF Swept, OutboxRows

LEMMA ClaimInv == ASSUME Inv, NEW s \in Senders, claim_due_notification(s) PROVE Inv'
  <1> DEFINE swept == [o \in Occurrences |-> Swept(outbox[o])]
  <1>0. UNCHANGED <<source, cand, req, queue, policy, accepted, eval, faults>>
    BY DEF claim_due_notification
  <1>1. ASSUME NEW x \in Occurrences
        PROVE  /\ swept[x] \in OutboxRows /\ swept[x].to = outbox[x].to
               /\ \/ swept[x] = outbox[x]
                  \/ outbox[x].status = "claimed" /\ swept[x].status = "unknown_commit"
    BY SweptOK DEF Inv, TypeOK, OutboxOK
  <1>2. swept \in [Occurrences -> OutboxRows]
    BY <1>1
  <1>w. \A x \in Occurrences : Withdrawn(x)' <=> Withdrawn(x)
    BY <1>0 DEF Withdrawn
  <1>3. \/ outbox' = swept /\ UNCHANGED <<sender, post>>
        \/ \E o \in Occurrences :
              /\ Deliverable(o)
              /\ outbox' = [swept EXCEPT ![o].status = "claimed", ![o].holder = s]
              /\ sender' = [sender EXCEPT ![s] = [pc |-> "sending", o |-> o]]
              /\ post' = [post EXCEPT ![o] = "wire"]
    BY DEF claim_due_notification
  <1> HIDE DEF swept
  <1>4. CASE outbox' = swept /\ UNCHANGED <<sender, post>>
    <2>1. OutboxOK'
      BY <1>0, <1>2, <1>4 DEF Inv, TypeOK, OutboxOK
    <2>2. Sends'
      BY <1>0, <1>1, <1>4 DEF Inv, Sends
    <2>3. SendersPlaced'
      BY <1>0, <1>1, <1>4 DEF Inv, TypeOK, OutboxOK, SendersPlaced, policy
    <2>4. ControlWithdraws'
      BY <1>0, <1>1, <1>4, <1>w DEF Inv, ControlWithdraws
    <2> QED BY <1>0, <2>1, <2>2, <2>3, <2>4, Delivering DEF Inv, TypeOK, EvaluationsOK
  <1>5. ASSUME NEW o \in Occurrences, Deliverable(o),
               outbox' = [swept EXCEPT ![o].status = "claimed", ![o].holder = s],
               sender' = [sender EXCEPT ![s] = [pc |-> "sending", o |-> o]],
               post' = [post EXCEPT ![o] = "wire"]
        PROVE  Inv'
    <2>1. /\ outbox[o].status = "pending" /\ outbox[o].to = owner /\ source_is_current(o)
          /\ swept[o] = outbox[o]
      BY <1>1, <1>5 DEF Deliverable
    <2>2. /\ outbox'[o] \in OutboxRows /\ outbox'[o].status = "claimed"
          /\ outbox'[o].to = owner
      BY <1>2, <1>5, <2>1 DEF OutboxRows
    <2>3. \A x \in Occurrences \ {o} : outbox'[x] = swept[x]
      BY <1>2, <1>5
    <2>4. OutboxOK'
      <3>1. outbox' \in [Occurrences -> OutboxRows]
        BY <1>2, <1>5, <2>1, <2>2, <2>3
      <3> QED BY <3>1, <1>0, <1>5 DEF Inv, TypeOK, OutboxOK
    <2>5. Sends'
      <3>1. ASSUME NEW x \in Occurrences \ {o}
            PROVE  post'[x] = post[x] /\ accepted'[x] = accepted[x]
        BY <1>0, <1>5 DEF Inv, TypeOK, OutboxOK
      <3>2. post[o] \in {"none", "limited"} /\ accepted[o] = 0 /\ post'[o] = "wire"
        BY <1>5, <2>1 DEF Inv, TypeOK, OutboxOK, Sends
      <3> QED BY <1>0, <1>1, <2>2, <2>3, <3>1, <3>2 DEF Inv, Sends
    <2>6. SendersPlaced'
      <3>1. ASSUME NEW t \in Senders, sender'[t].pc = "sending"
            PROVE  /\ outbox'[sender'[t].o].status # "none"
                   /\ outbox'[sender'[t].o].to = owner
        <4>1. CASE sender'[t].o = o
          BY <2>2, <4>1
        <4>2. CASE sender'[t].o # o
          <5>1. t # s /\ sender'[t] = sender[t]
            BY <1>5, <4>2 DEF Inv, TypeOK, OutboxOK
          <5>2. sender[t].o \in Occurrences \ {o}
            BY <3>1, <5>1, <4>2 DEF Inv, TypeOK, OutboxOK
          <5> QED BY <1>1, <2>3, <3>1, <5>1, <5>2 DEF Inv, SendersPlaced
        <4> QED BY <4>1, <4>2
      <3> QED BY <3>1, <1>0 DEF SendersPlaced, policy
    <2>7. ControlWithdraws'
      <3>1. ~Withdrawn(o)
        BY <2>1, OccurrenceParts, Constants DEF source_is_current, Withdrawn, Scheduled, Versions
      <3>2. \A x \in Occurrences \ {o} : post'[x] = post[x]
        BY <1>5 DEF Inv, TypeOK, OutboxOK
      <3> QED BY <1>1, <1>w, <2>3, <3>1, <3>2 DEF Inv, ControlWithdraws
    <2> QED BY <1>0, <2>4, <2>5, <2>6, <2>7, Delivering DEF Inv, TypeOK, EvaluationsOK
  <1> QED BY <1>3, <1>4, <1>5

LEMMA PlatformInv ==
    ASSUME Inv, NEW o \in Occurrences, NEW verdict \in {"accepted", "limited", "rejected"},
           Platform(o, verdict)
    PROVE  Inv'
  <1>1. UNCHANGED <<tables, policy, jobs, faults>>
    BY DEF Platform
  <1>2. OutboxOK'
    BY <1>1 DEF Platform, Inv, TypeOK, OutboxOK, tables, jobs
  <1>3. Sends'
    BY <1>1 DEF Platform, Inv, TypeOK, OutboxOK, Sends, tables
  <1>4. SendersPlaced'
    BY <1>1 DEF Inv, SendersPlaced, tables, jobs, policy
  <1>5. ControlWithdraws'
    <2>1. \A x \in Occurrences : Withdrawn(x)' <=> Withdrawn(x)
      BY <1>1 DEF Withdrawn, tables
    <2>2. \A x \in Occurrences : post'[x] = "wire" => post[x] = "wire"
      BY DEF Platform, Inv, TypeOK, OutboxOK
    <2> QED BY <1>1, <2>1, <2>2 DEF Inv, ControlWithdraws, tables
  <1> QED BY <1>1, <1>2, <1>3, <1>4, <1>5, Delivering
          DEF Inv, TypeOK, EvaluationsOK, tables, jobs

LEMMA NoDeliveryOK ==
    /\ NoDelivery \in [pc : {"idle", "sending"}, o : Occurrences \cup {NoOccurrence}]
    /\ NoDelivery.pc = "idle"
  BY DEF NoDelivery

(* An answer takes a claimed row where the POST allows it to go. *)
LEMMA RecordedInv ==
    ASSUME Inv, NEW s \in Senders, sender[s].pc = "sending", NEW unexpired \in BOOLEAN,
           NEW status \in {"delivered", "pending", "failed", "unknown_commit"},
           Recorded(s, unexpired, status),
           status \in {"delivered", "failed"} => post[sender[s].o] # "wire",
           status = "pending" => post[sender[s].o] = "limited"
    PROVE  Inv'
  <1> DEFINE o == sender[s].o
  <1>0. o \in Occurrences /\ outbox[o] \in OutboxRows
    BY DEF Inv, TypeOK, OutboxOK
  <1>1. UNCHANGED <<source, cand, req, queue, policy, wire, eval, faults>>
    BY DEF Recorded
  <1>2. \/ outbox' = outbox
        \/ /\ outbox[o].status = "claimed"
           /\ outbox' = [outbox EXCEPT ![o] = [outbox[o] EXCEPT !.status = status,
                                                 !.holder = None, !.expired = FALSE]]
    BY DEF Recorded, Inv, TypeOK, OutboxOK
  <1>3. /\ [outbox[o] EXCEPT !.status = status, !.holder = None, !.expired = FALSE] \in OutboxRows
        /\ [outbox[o] EXCEPT !.status = status, !.holder = None, !.expired = FALSE].status = status
        /\ [outbox[o] EXCEPT !.status = status, !.holder = None, !.expired = FALSE].to = outbox[o].to
    BY <1>0 DEF OutboxRows
  <1>4. ASSUME NEW x \in Occurrences
        PROVE  /\ outbox'[x].to = outbox[x].to
               /\ outbox'[x].status # outbox[x].status
                    => x = o /\ outbox[x].status = "claimed" /\ outbox'[x].status = status
    BY <1>0, <1>2, <1>3 DEF Inv, TypeOK, OutboxOK
  <1>5. sender' = [sender EXCEPT ![s] = NoDelivery]
    BY DEF Recorded
  <1>6. OutboxOK'
    <2>1. outbox' \in [Occurrences -> OutboxRows]
      BY <1>0, <1>2, <1>3 DEF Inv, TypeOK, OutboxOK
    <2> QED BY <2>1, <1>1, <1>5, NoDeliveryOK DEF Inv, TypeOK, OutboxOK, wire
  <1>7. Sends'
    BY <1>1, <1>4 DEF Inv, Sends, wire
  <1>8. SendersPlaced'
    <2>1. ASSUME NEW t \in Senders, sender'[t].pc = "sending"
          PROVE  sender'[t] = sender[t] /\ sender[t].o \in Occurrences
      BY <2>1, <1>5, NoDeliveryOK DEF Inv, TypeOK, OutboxOK
    <2> QED BY <2>1, <1>1, <1>4 DEF Inv, SendersPlaced, policy
  <1>9. ControlWithdraws'
    <2>1. \A x \in Occurrences : Withdrawn(x)' <=> Withdrawn(x)
      BY <1>1 DEF Withdrawn
    <2> QED BY <1>1, <1>4, <2>1 DEF Inv, ControlWithdraws, wire
  <1> QED BY <1>1, <1>6, <1>7, <1>8, <1>9, Delivering DEF Inv, TypeOK, EvaluationsOK

LEMMA AnswersInv == ASSUME Inv, NEW s \in Senders, Answered(s) PROVE Inv'
  <1>t. TRUE \in BOOLEAN /\ FALSE \in BOOLEAN
    OBVIOUS
  <1>1. CASE mark_notification_delivered(s)
    BY <1>1, <1>t, RecordedInv DEF mark_notification_delivered
  <1>2. ASSUME NEW kind \in {"retryable", "permanent", "unknown"},
               mark_notification_failed(s, kind)
        PROVE  Inv'
    <2>1. /\ sender[s].pc = "sending" /\ kind \in FailureKinds(post[sender[s].o])
          /\ sender[s].o \in Occurrences
      BY <1>2 DEF mark_notification_failed, Inv, TypeOK, OutboxOK
    <2>2. CASE kind = "retryable"
      <3>1. post[sender[s].o] = "limited"
        BY <2>1, <2>2 DEF FailureKinds
      <3>2. Recorded(s, TRUE, "pending")
        BY <1>2, <2>2 DEF mark_notification_failed
      <3> QED BY <1>t, <2>1, <3>1, <3>2, RecordedInv
    <2>3. CASE kind = "permanent"
      <3>1. post[sender[s].o] # "wire"
        BY <2>1, <2>3 DEF FailureKinds
      <3>2. Recorded(s, FALSE, "failed")
        BY <1>2, <2>3 DEF mark_notification_failed
      <3> QED BY <1>t, <2>1, <3>1, <3>2, RecordedInv
    <2>4. CASE kind = "unknown"
      <3>1. Recorded(s, FALSE, "unknown_commit")
        BY <1>2, <2>4 DEF mark_notification_failed
      <3> QED BY <1>t, <2>1, <3>1, RecordedInv
    <2> QED BY <2>2, <2>3, <2>4
  <1> QED BY <1>1, <1>2 DEF Answered

LEMMA DeliveryExpiresInv ==
    ASSUME Inv, NEW o \in Occurrences, DeliveryLeaseExpires(o) PROVE Inv'
  <1>0. UNCHANGED <<source, cand, req, queue, policy, wire, jobs, faults>>
    BY DEF DeliveryLeaseExpires
  <1>1. ASSUME NEW x \in Occurrences
        PROVE  outbox'[x].to = outbox[x].to /\ outbox'[x].status = outbox[x].status
    BY DEF DeliveryLeaseExpires, Inv, TypeOK, OutboxOK, OutboxRows
  <1>2. OutboxOK'
    <2>1. outbox \in [Occurrences -> OutboxRows]
      BY DEF Inv, TypeOK, OutboxOK
    <2>2. outbox' \in [Occurrences -> OutboxRows]
      BY <2>1 DEF DeliveryLeaseExpires, OutboxRows
    <2> QED BY <1>0, <2>2 DEF Inv, TypeOK, OutboxOK, wire, jobs
  <1>3. Sends'
    BY <1>0, <1>1 DEF Inv, Sends, wire
  <1>4. SendersPlaced'
    BY <1>0, <1>1 DEF Inv, TypeOK, OutboxOK, SendersPlaced, jobs, policy
  <1>5. ControlWithdraws'
    <2>1. \A x \in Occurrences : Withdrawn(x)' <=> Withdrawn(x)
      BY <1>0 DEF Withdrawn
    <2> QED BY <1>0, <1>1, <2>1 DEF Inv, ControlWithdraws, wire
  <1> QED BY <1>0, <1>2, <1>3, <1>4, <1>5, Delivering DEF Inv, TypeOK, EvaluationsOK, jobs

LEMMA ReceiptLostInv == ASSUME Inv, NEW s \in Senders, ReceiptLost(s) PROVE Inv'
  <1>0. UNCHANGED <<tables, policy, wire, eval>> /\ sender' = [sender EXCEPT ![s] = NoDelivery]
    BY DEF ReceiptLost
  <1>1. OutboxOK'
    BY <1>0, NoDeliveryOK DEF Inv, TypeOK, OutboxOK, tables, wire
  <1>2. Sends'
    BY <1>0 DEF Inv, Sends, tables, wire
  <1>3. SendersPlaced'
    BY <1>0, NoDeliveryOK DEF Inv, TypeOK, OutboxOK, SendersPlaced, tables, policy
  <1>4. ControlWithdraws'
    BY <1>0 DEF Inv, ControlWithdraws, Withdrawn, tables, wire
  <1>5. faults' \in 0..MaxFaults
    BY Constants DEF ReceiptLost, Inv, TypeOK, EvaluationsOK
  <1> QED BY <1>0, <1>1, <1>2, <1>3, <1>4, <1>5, Delivering DEF tables

LEMMA RestartInv == ASSUME Inv, NEW a \in Owners, Restart(a) PROVE Inv'
  <1>0. /\ UNCHANGED <<source, cand, queue, outbox, epoch, head, wire>> /\ owner' = a
        /\ eval' = [w \in Evaluators |-> NoEvaluation]
        /\ sender' = [s \in Senders |-> NoDelivery]
    BY DEF Restart
  <1>1. RequestsOK'
    BY DEF Restart, Inv, TypeOK, RequestsOK, RequestRows, NoRequest
  <1>2. SourcesOK'
    BY <1>0 DEF Inv, TypeOK, SourcesOK, Scheduled
  <1>3. faults' \in 0..MaxFaults
    BY Constants DEF Restart, Inv, TypeOK, EvaluationsOK
  <1>4. EvaluationsOK'
    BY <1>0, <1>3, NoEvaluationOK DEF Inv, TypeOK, EvaluationsOK
  <1>5. OutboxOK'
    BY <1>0, NoDeliveryOK DEF Inv, TypeOK, OutboxOK, wire
  <1>6. Sends' /\ ControlWithdraws'
    BY <1>0 DEF Inv, Sends, ControlWithdraws, Withdrawn, wire
  <1>7. SendersPlaced'
    BY <1>0, NoDeliveryOK DEF SendersPlaced
  <1> QED BY <1>1, <1>2, <1>4, <1>5, <1>6, <1>7 DEF Inv, TypeOK

-----------------------------------------------------------------------------
LEMMA NextInv == ASSUME Inv, [Next]_vars PROVE Inv'
  <1>1. CASE Sources
    BY <1>1, ScanInv, ScanExpectationsInv, ProduceDueInv, SourceStepsInv DEF Sources
  <1>2. CASE OwnerActs
    <2>1. ASSUME NEW i \in Agenda, AgendaCreate(i) \/ AgendaReschedule(i) \/ AgendaEnd(i)
          PROVE  Inv'
      BY <2>1, Constants, SourceStepsInv
    <2> QED BY <1>2, <2>1, ControlsInv, PolicyInv DEF OwnerActs
  <1>3. ASSUME NEW w \in Evaluators, Evaluates(w) PROVE Inv'
    BY <1>3, EvaluatorStepsInv, CommitInv DEF Evaluates
  <1>4. ASSUME NEW s \in Senders, claim_due_notification(s) \/ Answered(s) \/ ReceiptLost(s)
        PROVE  Inv'
    BY <1>4, ClaimInv, AnswersInv, ReceiptLostInv
  <1>5. ASSUME NEW o \in Occurrences,
               \/ EvaluationLeaseExpires(o) \/ DeliveryLeaseExpires(o)
               \/ \E verdict \in {"accepted", "limited", "rejected"} : Platform(o, verdict)
        PROVE  Inv'
    BY <1>5, EvaluationExpiresInv, DeliveryExpiresInv, PlatformInv
  <1>6. ASSUME NEW a \in Owners, Restart(a) PROVE Inv'
    BY <1>6, RestartInv
  <1>7. CASE UNCHANGED vars
    <2>1. UNCHANGED <<source, cand, req, queue, outbox, epoch, head, owner, post, accepted,
                      eval, sender, faults>>
      BY <1>7 DEF vars, tables, policy, wire, jobs
    <2>2. SourcesOK' /\ RequestsOK' /\ EvaluationsOK'
      BY <2>1 DEF Inv, TypeOK, SourcesOK, RequestsOK, EvaluationsOK, Scheduled
    <2>3. OutboxOK' /\ Sends' /\ SendersPlaced' /\ ControlWithdraws'
      BY <2>1, Quiet DEF Withdrawn, wire
    <2> QED BY <2>2, <2>3 DEF Inv, TypeOK
  <1> QED BY <1>1, <1>2, <1>3, <1>4, <1>5, <1>6, <1>7 DEF Next

(* The inductive invariant: in every reachable state each row agrees with   *)
(* what became of its POST and with its source.                             *)
THEOREM AlwaysInv == Spec => []Inv
  <1>1. Init => Inv
    BY InitInv
  <1>2. Inv /\ [Next]_vars => Inv'
    BY NextInv
  <1> QED BY <1>1, <1>2, PTL DEF Spec

(* Every table and every job keeps its type. *)
THEOREM TypesHold == Spec => []TypeOK
  <1>1. Inv => TypeOK
    BY DEF Inv
  <1> QED BY <1>1, AlwaysInv, PTL

(* However many loops run, restart or lose their answers, the platform      *)
(* accepts at most one message per occurrence (claim_due_notification).     *)
THEOREM SentAtMostOnce == Spec => []AtMostOneSend
  <1>1. Inv => AtMostOneSend
    BY DEF Inv, Sends, AtMostOneSend
  <1> QED BY <1>1, AlwaysInv, PTL

(* What the owner dismissed, completed or snoozed has no row left to send   *)
(* and no POST under way (lock_and_check_outbox).                           *)
THEOREM WithdrawnNotSent == Spec => []ControlWithdraws
  <1>1. Inv => ControlWithdraws
    BY DEF Inv
  <1> QED BY <1>1, AlwaysInv, PTL

(* A message on its way is for the owner the account is bound to.           *)
THEOREM OwnerOnly == Spec => []SentToOwner
  <1>1. Inv => SentToOwner
    BY DEF Inv, SendersPlaced, SentToOwner
  <1> QED BY <1>1, AlwaysInv, PTL

-----------------------------------------------------------------------------
(* Settled rows. *)

LEMMA SettledStep ==
    ASSUME Inv, [Next]_vars, NEW o \in Occurrences,
           outbox[o].status \in {"delivered", "suppressed", "unknown_commit"}
    PROVE  outbox'[o].status = outbox[o].status
  <1>0. outbox \in [Occurrences -> OutboxRows]
    BY DEF Inv, TypeOK, OutboxOK
  <1>1. CASE UNCHANGED outbox
    BY <1>1
  <1>2. CASE scan_response_expectations
    BY <1>2 DEF scan_response_expectations
  <1>3. ASSUME NEW targets, suppress_pending_outbox(targets)
        PROVE  outbox'[o].status = outbox[o].status
    BY <1>3 DEF suppress_pending_outbox
  <1>4. ASSUME NEW w \in Evaluators, NEW hours \in Hours, commit_evaluation(w, hours)
        PROVE  outbox'[o].status = outbox[o].status
    BY <1>0, <1>4 DEF commit_evaluation
  <1>5. ASSUME NEW s \in Senders, claim_due_notification(s)
        PROVE  outbox'[o].status = outbox[o].status
    <2> DEFINE swept == [x \in Occurrences |-> Swept(outbox[x])]
    <2>1. swept[o] = outbox[o]
      BY DEF Swept
    <2>2. \/ outbox' = swept
          \/ \E x \in Occurrences :
                /\ outbox[x].status = "pending"
                /\ outbox' = [swept EXCEPT ![x].status = "claimed", ![x].holder = s]
      BY <1>5 DEF claim_due_notification, Deliverable
    <2>3. CASE outbox' = swept
      BY <2>1, <2>3
    <2>4. ASSUME NEW x \in Occurrences, outbox[x].status = "pending",
                 outbox' = [swept EXCEPT ![x].status = "claimed", ![x].holder = s]
          PROVE  outbox'[o].status = outbox[o].status
      <3>1. x # o
        BY <2>4
      <3>2. outbox'[o] = swept[o]
        BY <2>4, <3>1
      <3> QED BY <3>2, <2>1
    <2> QED BY <2>2, <2>3, <2>4
  <1>6. ASSUME NEW s \in Senders, NEW unexpired, NEW status, Recorded(s, unexpired, status)
        PROVE  outbox'[o].status = outbox[o].status
    BY <1>0, <1>6 DEF Recorded
  <1>7. ASSUME NEW x \in Occurrences, DeliveryLeaseExpires(x)
        PROVE  outbox'[o].status = outbox[o].status
    BY <1>0, <1>7 DEF DeliveryLeaseExpires
  <1>8. CASE Sources
    BY <1>1, <1>2, <1>8 DEF Sources, scan_commitments, scan_project_blockers,
       produce_due_notification_candidates, FallsDue, BasisLapses
  <1>9. CASE OwnerActs
    <2>1. UNCHANGED outbox \/ \E targets : suppress_pending_outbox(targets)
      BY <1>9 DEF OwnerActs, AgendaCreate, AgendaReschedule, AgendaEnd, DismissFollowUps,
         SnoozeFollowUps, CompleteFollowUps, DismissExpectations, Control, create_or_replace,
         disable, promote_feedback_to_rule, append_revision, tables
    <2> QED BY <1>1, <1>3, <2>1
  <1>10. ASSUME NEW w \in Evaluators, Evaluates(w) PROVE outbox'[o].status = outbox[o].status
    BY <1>1, <1>4, <1>10 DEF Evaluates, claim_evaluation, LoadCandidate, LoadHeads,
       requeue_stale_request, EvaluationFails, tables
  <1>11. ASSUME NEW s \in Senders, claim_due_notification(s) \/ Answered(s) \/ ReceiptLost(s)
         PROVE  outbox'[o].status = outbox[o].status
    <2>1. CASE Answered(s)
      <3>1. \E unexpired, status : Recorded(s, unexpired, status)
        BY <2>1 DEF Answered, mark_notification_delivered, mark_notification_failed
      <3> QED BY <3>1, <1>6
    <2>2. CASE ReceiptLost(s)
      BY <2>2, <1>1 DEF ReceiptLost, tables
    <2> QED BY <1>5, <1>11, <2>1, <2>2
  <1>12. ASSUME NEW x \in Occurrences,
                \/ EvaluationLeaseExpires(x) \/ DeliveryLeaseExpires(x)
                \/ \E verdict \in {"accepted", "limited", "rejected"} : Platform(x, verdict)
         PROVE  outbox'[o].status = outbox[o].status
    BY <1>1, <1>7, <1>12 DEF EvaluationLeaseExpires, Platform, tables
  <1>13. ASSUME NEW a \in Owners, Restart(a) PROVE outbox'[o].status = outbox[o].status
    BY <1>1, <1>13 DEF Restart
  <1>14. CASE UNCHANGED vars
    BY <1>1, <1>14 DEF vars, tables
  <1> QED BY <1>8, <1>9, <1>10, <1>11, <1>12, <1>13, <1>14 DEF Next

(* A row that was delivered, withdrawn or may have been delivered stays     *)
(* that way (mark_notification_delivered, mark_notification_failed).        *)
THEOREM SettledForGood == Spec => SettledRowStays
  <1>1. Inv /\ [Next]_vars
          => [\A o \in Occurrences :
                outbox[o].status \in {"delivered", "suppressed", "unknown_commit"}
                  => outbox'[o].status = outbox[o].status]_vars
    BY SettledStep
  <1> QED BY <1>1, AlwaysInv, PTL DEF Spec, SettledRowStays

-----------------------------------------------------------------------------
(* Decisions.  The rules are read after the epoch, so rules that belong to  *)
(* an epoch that is still the account's are the rules in force; and a       *)
(* candidate that was decided when it was read is never undecided again.    *)

Snapshots ==
    /\ \A o \in Occurrences : req[o].status # "none" => cand[o] # "none"
    /\ \A w \in Evaluators :
          /\ eval[w].epoch <= epoch
          /\ eval[w].pc = "loaded" /\ eval[w].epoch = epoch => eval[w].heads = head
          /\ eval[w].pc # "idle" => cand[eval[w].o] # "none"
          /\ eval[w].pc \in {"read", "loaded"} /\ ~eval[w].current
               => cand[eval[w].o] # "pending"

(* A candidate is made once, decided once, and not touched otherwise. *)
CandidateStep(o) == \/ cand'[o] = cand[o]
                    \/ cand[o] = "none" /\ cand'[o] = "pending"
                    \/ cand[o] = "pending" /\ cand'[o] \notin {"none", "pending"}

LEMMA InitSnapshots == Init => Snapshots
  BY DEF Init, Snapshots, NoEvaluation, NoRequest

(* Steps that leave the evaluators alone. *)
LEMMA OthersSnapshots ==
    ASSUME Inv, Snapshots, UNCHANGED <<eval, epoch, head>>,
           \A o \in Occurrences : CandidateStep(o),
           \A o \in Occurrences : req'[o].status # "none" => req[o].status # "none"
                                                            \/ cand'[o] # "none"
    PROVE  Snapshots'
  BY DEF Inv, TypeOK, EvaluationsOK, Snapshots, CandidateStep

LEMMA ProduceSnapshots ==
    ASSUME Inv, Snapshots, NEW S, NEW sources, produce_from_locked_source(S, sources),
           UNCHANGED <<policy, jobs>>
    PROVE  Snapshots' /\ \A o \in Occurrences : cand'[o] = cand[o] \/ cand[o] = "none"
  <1>1. ASSUME NEW o \in Occurrences
        PROVE  \/ cand'[o] = cand[o] /\ req'[o] = req[o]
               \/ cand[o] = "none" /\ cand'[o] = "pending"
    BY DEF produce_from_locked_source
  <1> QED BY <1>1, OthersSnapshots DEF CandidateStep, policy, jobs

LEMMA SourcesSnapshots ==
    ASSUME Inv, Snapshots, Sources
    PROVE  Snapshots' /\ \A o \in Occurrences : cand'[o] = cand[o] \/ cand[o] = "none"
  <1>1. CASE UNCHANGED <<cand, req, policy, jobs>>
    BY <1>1, OthersSnapshots DEF CandidateStep, policy, jobs
  <1>2. \/ UNCHANGED <<cand, req, policy, jobs>>
        \/ /\ \E S, sources : produce_from_locked_source(S, sources)
           /\ UNCHANGED <<policy, jobs>>
    BY DEF Sources, scan_commitments, scan_response_expectations, scan_project_blockers,
           produce_due_notification_candidates, FallsDue, BasisLapses
  <1> QED BY <1>1, <1>2, ProduceSnapshots

LEMMA OwnerSnapshots ==
    ASSUME Inv, Snapshots, OwnerActs
    PROVE  Snapshots' /\ cand' = cand
  <1>1. CASE UNCHANGED <<cand, req, policy, jobs>>
    BY <1>1, OthersSnapshots DEF CandidateStep, policy, jobs
  <1>2. CASE UNCHANGED <<tables, jobs>> /\ epoch' = epoch + 1
    <2>1. UNCHANGED <<cand, req, eval>>
      BY <1>2 DEF tables, jobs
    <2>2. \A w \in Evaluators : eval[w].epoch \in Nat /\ epoch \in Nat
      BY DEF Inv, TypeOK, EvaluationsOK
    <2> QED BY <1>2, <2>1, <2>2 DEF Snapshots
  <1>3. \/ UNCHANGED <<cand, req, policy, jobs>>
        \/ UNCHANGED <<tables, jobs>> /\ epoch' = epoch + 1
    BY DEF OwnerActs, AgendaCreate, AgendaReschedule, AgendaEnd, DismissFollowUps,
       SnoozeFollowUps, CompleteFollowUps, DismissExpectations, Control, create_or_replace,
       disable, promote_feedback_to_rule, append_revision
  <1> QED BY <1>1, <1>2, <1>3

LEMMA EvaluatorSnapshots ==
    ASSUME Inv, Snapshots, NEW w \in Evaluators,
           \/ claim_evaluation(w) \/ LoadCandidate(w) \/ LoadHeads(w)
           \/ requeue_stale_request(w) \/ EvaluationFails(w)
    PROVE  Snapshots' /\ cand' = cand
  <1>0. /\ eval \in [Evaluators -> [pc : {"idle", "claimed", "read", "loaded"},
                                    o : Occurrences \cup {NoOccurrence}, current : BOOLEAN,
                                    epoch : Nat, owner : Owners \cup {None}, heads : Heads]]
        /\ epoch \in Nat /\ req \in [Occurrences -> RequestRows]
        /\ eval[w].pc # "idle" => eval[w].o \in Occurrences
    BY DEF Inv, TypeOK, EvaluationsOK, RequestsOK
  <1>1. CASE claim_evaluation(w)
    <2>1. PICK o \in Occurrences :
            /\ Claimable(o)
            /\ req' = [req EXCEPT ![o] = [status |-> "claimed", holder |-> w, expired |-> FALSE]]
            /\ eval' = [eval EXCEPT ![w] = [NoEvaluation EXCEPT !.pc = "claimed", !.o = o]]
      BY <1>1 DEF claim_evaluation, Oldest
    <2>2. UNCHANGED <<cand, epoch, head>>
      BY <1>1 DEF claim_evaluation, policy
    <2>3. cand[o] # "none"
      BY <2>1 DEF Claimable, Snapshots
    <2> QED BY <1>0, <2>1, <2>2, <2>3 DEF Snapshots, NoEvaluation
  <1>2. CASE LoadCandidate(w)
    <2>1. UNCHANGED <<cand, req, epoch, head>>
      BY <1>2 DEF LoadCandidate, tables, policy
    <2>2. ASSUME NEW v \in Evaluators
          PROVE  \/ eval'[v] = eval[v]
                 \/ /\ v = w /\ eval'[v].pc = "read" /\ eval'[v].epoch = epoch
                    /\ eval'[v].o = eval[v].o /\ eval[v].pc = "claimed"
                    /\ eval'[v].current <=> cand[eval[v].o] = "pending"
      BY <1>0, <1>2 DEF LoadCandidate
    <2> QED BY <1>0, <2>1, <2>2 DEF Snapshots
  <1>3. CASE LoadHeads(w)
    BY <1>0, <1>3 DEF LoadHeads, Snapshots, tables, policy
  <1>4. CASE requeue_stale_request(w)
    <2>1. UNCHANGED <<cand, epoch, head>>
      BY <1>4 DEF requeue_stale_request, policy
    <2>2. eval' = [eval EXCEPT ![w] = NoEvaluation]
      BY <1>4 DEF requeue_stale_request
    <2>3. \A o \in Occurrences : req'[o].status # "none" => req[o].status # "none"
      BY <1>0, <1>4 DEF requeue_stale_request, CanCommit, Holds
    <2> QED BY <1>0, <2>1, <2>2, <2>3 DEF Snapshots, NoEvaluation
  <1>5. CASE EvaluationFails(w)
    <2>1. UNCHANGED <<cand, req, epoch, head>> /\ eval' = [eval EXCEPT ![w] = NoEvaluation]
      BY <1>5 DEF EvaluationFails, tables, policy
    <2> QED BY <1>0, <2>1 DEF Snapshots, NoEvaluation
  <1> QED BY <1>1, <1>2, <1>3, <1>4, <1>5

LEMMA CommitSnapshots ==
    ASSUME Inv, Snapshots, NEW w \in Evaluators, NEW hours \in Hours, commit_evaluation(w, hours)
    PROVE  /\ Snapshots'
           /\ \A o \in Occurrences :
                 cand'[o] # cand[o]
                   => /\ cand[o] = "pending" /\ source_is_current(o)
                      /\ cand'[o] = CandidateStatus(evaluate(head, o[1], TRUE, hours))
  <1> DEFINE o == eval[w].o
  <1>0. /\ o \in Occurrences /\ source_is_current(o) /\ cand[o] = "pending"
        /\ eval[w].epoch = epoch /\ eval[w].pc = "loaded" /\ Holds(w)
        /\ eval[w].current \in BOOLEAN
    BY DEF commit_evaluation, CanCommit, SnapshotStale, Inv, TypeOK, EvaluationsOK
  <1>1. eval[w].heads = head /\ eval[w].current = TRUE
    BY <1>0 DEF Snapshots
  <1>2. Outcome(w, hours) = evaluate(head, o[1], TRUE, hours)
    BY <1>1 DEF Outcome
  <1>3. cand' = [cand EXCEPT ![o] = CandidateStatus(Outcome(w, hours))]
    BY DEF commit_evaluation
  <1>4. CandidateStatus(Outcome(w, hours)) \notin {"none", "pending"}
    BY DEF CandidateStatus
  <1>5. cand \in [Occurrences -> {"none", "pending", "reminded", "suppressed", "expired",
                                 "failed_terminal"}]
    BY DEF Inv, TypeOK, RequestsOK
  <1>6. Snapshots'
    <2>1. UNCHANGED <<epoch, head>> /\ eval' = [eval EXCEPT ![w] = NoEvaluation]
      BY DEF commit_evaluation, policy
    <2>2. \A x \in Occurrences : req'[x].status # "none" => req[x].status # "none"
      BY <1>0 DEF commit_evaluation, Holds, Inv, TypeOK, RequestsOK
    <2>3. \A x \in Occurrences : CandidateStep(x)
      BY <1>0, <1>3, <1>4, <1>5 DEF CandidateStep
    <2>4. eval \in [Evaluators -> [pc : {"idle", "claimed", "read", "loaded"},
                                   o : Occurrences \cup {NoOccurrence}, current : BOOLEAN,
                                   epoch : Nat, owner : Owners \cup {None}, heads : Heads]]
          /\ epoch \in Nat /\ \A v \in Evaluators : eval[v].pc # "idle" => eval[v].o \in Occurrences
      BY DEF Inv, TypeOK, EvaluationsOK
    <2> QED BY <2>1, <2>2, <2>3, <2>4 DEF Snapshots, CandidateStep, NoEvaluation
  <1>7. ASSUME NEW x \in Occurrences, cand'[x] # cand[x]
        PROVE  /\ cand[x] = "pending" /\ source_is_current(x)
               /\ cand'[x] = CandidateStatus(evaluate(head, x[1], TRUE, hours))
    <2>1. x = o
      BY <1>0, <1>3, <1>5, <1>7
    <2>2. cand'[o] = CandidateStatus(Outcome(w, hours))
      BY <1>0, <1>3, <1>5
    <2> HIDE DEF o
    <2> QED BY <1>0, <1>2, <2>1, <2>2
  <1> QED BY <1>6, <1>7

DecidedStep ==
    \A o \in Occurrences :
        cand'[o] # cand[o] /\ cand[o] # "none"
          => /\ cand[o] = "pending" /\ source_is_current(o)
             /\ \E hours \in Hours :
                   cand'[o] = CandidateStatus(evaluate(head, o[1], TRUE, hours))

LEMMA NextSnapshots == ASSUME Inv, Snapshots, [Next]_vars PROVE Snapshots' /\ DecidedStep
  <1>1. CASE Sources
    BY <1>1, SourcesSnapshots DEF DecidedStep
  <1>2. CASE OwnerActs
    BY <1>2, OwnerSnapshots DEF DecidedStep
  <1>3. ASSUME NEW w \in Evaluators, Evaluates(w) PROVE Snapshots' /\ DecidedStep
    <2>1. ASSUME NEW hours \in Hours, commit_evaluation(w, hours)
          PROVE  Snapshots' /\ DecidedStep
      BY <2>1, CommitSnapshots DEF DecidedStep
    <2> QED BY <1>3, <2>1, EvaluatorSnapshots DEF Evaluates, DecidedStep
  <1>4. CASE UNCHANGED <<eval, epoch, head, cand>>
             /\ \A o \in Occurrences : req'[o].status # "none" => req[o].status # "none"
    BY <1>4, OthersSnapshots DEF DecidedStep, CandidateStep
  <1>5. ASSUME NEW s \in Senders, claim_due_notification(s) \/ Answered(s) \/ ReceiptLost(s)
        PROVE  Snapshots' /\ DecidedStep
    <2>1. UNCHANGED <<eval, policy, cand, req>>
      BY <1>5 DEF claim_due_notification, Answered, ReceiptLost, mark_notification_delivered,
                  mark_notification_failed, Recorded, tables
    <2> QED BY <1>4, <2>1 DEF policy
  <1>6. ASSUME NEW o \in Occurrences,
               \/ EvaluationLeaseExpires(o) \/ DeliveryLeaseExpires(o)
               \/ \E verdict \in {"accepted", "limited", "rejected"} : Platform(o, verdict)
        PROVE  Snapshots' /\ DecidedStep
    <2>1. UNCHANGED <<eval, policy, cand>>
      BY <1>6 DEF EvaluationLeaseExpires, DeliveryLeaseExpires, Platform, tables, jobs
    <2>2. \A x \in Occurrences : req'[x].status # "none" => req[x].status # "none"
      BY <1>6 DEF EvaluationLeaseExpires, DeliveryLeaseExpires, Platform, tables,
                  Inv, TypeOK, RequestsOK, RequestRows
    <2> QED BY <1>4, <2>1, <2>2 DEF policy
  <1>7. ASSUME NEW a \in Owners, Restart(a) PROVE Snapshots' /\ DecidedStep
    <2>1. /\ UNCHANGED <<cand, epoch, head>> /\ eval' = [w \in Evaluators |-> NoEvaluation]
          /\ epoch \in Nat
      BY <1>7 DEF Restart, Inv, TypeOK, EvaluationsOK
    <2>2. \A x \in Occurrences : req'[x].status # "none" => req[x].status # "none"
      BY <1>7 DEF Restart, Inv, TypeOK, RequestsOK, RequestRows, NoRequest
    <2> QED BY <2>1, <2>2 DEF Snapshots, DecidedStep, NoEvaluation
  <1>8. CASE UNCHANGED vars
    BY <1>4, <1>8 DEF vars, tables, policy, jobs
  <1> QED BY <1>1, <1>2, <1>3, <1>5, <1>6, <1>7, <1>8 DEF Next

(* Candidates are decided under the rules in force when the decision is     *)
(* committed, for a source that is still due: the epoch and the generations *)
(* a worker carries are enough of a fence (commit_evaluation).              *)
THEOREM DecisionsCurrent == Spec => DecidedUnderCurrentPolicy
  <1>1. Init => Snapshots
    BY InitSnapshots
  <1>2. Inv /\ Snapshots /\ [Next]_vars => Snapshots'
    BY NextSnapshots
  <1>3. Inv /\ Snapshots /\ [Next]_vars
          => [\A o \in Occurrences :
                cand'[o] # cand[o] /\ cand[o] # "none"
                  => /\ cand[o] = "pending" /\ source_is_current(o)
                     /\ \E hours \in Hours :
                           cand'[o] = CandidateStatus(evaluate(head, o[1], TRUE, hours))]_vars
    BY NextSnapshots DEF DecidedStep
  <1> QED BY <1>1, <1>2, <1>3, AlwaysInv, PTL DEF Spec, DecidedUnderCurrentPolicy
===============================================================================
