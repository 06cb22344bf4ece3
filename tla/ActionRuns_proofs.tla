-------------------------- MODULE ActionRuns_proofs --------------------------
(***************************************************************************)
(* Proofs about ActionRuns, for any number of workers, runs and proposals: *)
(* what waits for the owner is done on his approval only, a suspended run  *)
(* can be resumed, an ended run stays as it is, no graph outspends its     *)
(* budget of queries.                                                      *)
(***************************************************************************)
EXTENDS ActionRuns, TLAPS

(* A query whose result is not yet an observation was within the budget.   *)
Budgeted(g) == g.receipt \in {"query", "ambiguous"} /\ ~g.observed
                   => g.rounds < MaxReplanRounds

Owned(p, r) == p \in Proposals /\ proposal[p].kind # "none" /\ proposal[p].run = r

Approved(p, r) == Owned(p, r) /\ (Waits(proposal[p].kind) => verdict[p] = "approve")

Named(p, r) == /\ p \in Proposals
               /\ checkpoint[p].status # "none" /\ checkpoint[p].run = r

Unpublished(p) == \A r \in Runs : run[r].ckpt # p

(* What a job may be doing with the record b. *)
JobOK(j, b) ==
    /\ Budgeted(b.g)
    /\ b.pc \notin {"idle", "claim"} => b.run \in Runs
    /\ b.pc \in {"plan", "replan", "build"} => ~Executes(b.g)
    /\ b.pc = "plan" => b.g.conflict \/ b.g.rounds < MaxReplanRounds
    /\ b.pc = "query" => b.g.pending = None /\ b.g.rounds < MaxReplanRounds
    /\ b.pc = "l0" /\ Executes(b.g) => Approved(b.g.pending, b.run)
    /\ b.pc = "effect" => Approved(b.g.pending, b.run)
    /\ b.pc = "save" => /\ Owned(b.g.pending, b.run) /\ Unpublished(b.g.pending)
                        /\ checkpoint[b.g.pending].status = "none"
    /\ b.pc = "suspend" => /\ Named(b.g.pending, b.run) /\ Unpublished(b.g.pending)
                           /\ checkpoint[b.g.pending].status = "active"
    /\ b.pc \in {"resume", "take"} => j = Gateway /\ Named(b.g.pending, b.run)

JobsOK == \A j \in Jobs : JobOK(j, job[j])

(* No two jobs publish the same checkpoint, none resumes an unpublished one. *)
Apart == \A j, k \in Jobs :
            /\ job[j].pc \in {"save", "suspend"}
            /\ job[k].pc \in {"save", "suspend", "resume", "take"}
            /\ j # k
            => job[j].g.pending # job[k].g.pending

(* A checkpoint belongs to its proposal, and is consumed with the answer. *)
CheckpointsOK ==
    \A p \in Proposals :
        /\ checkpoint[p].status # "none" => /\ Owned(p, checkpoint[p].run)
                                            /\ checkpoint[p].g.pending = p
        /\ Budgeted(checkpoint[p].g)
        /\ verdict[p] # "none" => checkpoint[p].status = "consumed"

(* A run names its own checkpoint, an unconsumed one while it is suspended. *)
RunsOK ==
    \A r \in Runs :
        /\ run[r].ckpt # None => Named(run[r].ckpt, r)
        /\ run[r].status = "suspended" =>
              /\ run[r].ckpt # None
              /\ checkpoint[run[r].ckpt].status = "active"
              /\ job[Gateway].pc = "take" => run[r].ckpt # job[Gateway].g.pending

(* What has been carried out had been proposed and, if need be, approved. *)
Carried == \A p \in done : Approved(p, proposal[p].run)

Inv == TypeOK /\ JobsOK /\ Apart /\ CheckpointsOK /\ RunsOK /\ Carried

LEMMA Bounds == /\ MaxRuns \in Nat /\ MaxProposals \in Nat /\ MaxSteps \in Nat
                /\ MaxFaults \in Nat /\ MaxReplanRounds \in Nat
                /\ MaxReplanRounds > 0
  BY BoundsAssumption

LEMMA FreshTypes == /\ FreshGraph \in Graphs /\ Budgeted(FreshGraph)
                    /\ Idle \in JobRecords /\ NoCheckpoint \in CheckpointRows
  <1>1. FreshGraph \in Graphs
    BY Bounds DEF FreshGraph, Graphs, Receipts, None
  <1> QED
    BY <1>1, Bounds DEF Idle, JobRecords, NoCheckpoint, CheckpointRows, Pcs, Verdicts,
                        Budgeted, FreshGraph, None

LEMMA InitInv == Init => Inv
  <1> SUFFICES ASSUME Init PROVE Inv
    OBVIOUS
  <1> USE Bounds, FreshTypes
  <1>1. TypeOK
    BY DEF Init, TypeOK, RunRows, ProposalRows, Verdicts, Jobs, None
  <1>2. JobsOK
    BY DEF Init, JobsOK, JobOK, Idle
  <1>3. Apart /\ Carried
    BY DEF Init, Apart, Idle, Carried
  <1>4. CheckpointsOK
    BY DEF Init, CheckpointsOK, NoCheckpoint
  <1>5. RunsOK
    BY DEF Init, RunsOK
  <1> QED BY <1>1, <1>2, <1>3, <1>4, <1>5 DEF Inv

-----------------------------------------------------------------------------
(* A step that leaves every checkpoint where it is and suspends no run.     *)
RunsKept == /\ run' \in [Runs -> RunRows]
            /\ \A r \in Runs : /\ run'[r].ckpt = run[r].ckpt
                               /\ run'[r].status = "suspended"
                                     => run[r].status = "suspended"

(* A job that neither publishes nor resumes a checkpoint, or resumes a      *)
(* published one.                                                           *)
Harmless(b) == /\ b.pc \notin {"save", "suspend", "take"}
               /\ b.pc = "resume" => ~Unpublished(b.g.pending)

LEMMA RunStep ==
    ASSUME Inv, NEW j \in Jobs, NEW b \in JobRecords,
           job' = [job EXCEPT ![j] = b],
           RunsKept, UNCHANGED <<proposal, checkpoint, verdict>>,
           done' \subseteq Proposals,
           \A p \in done' \ done : Approved(p, proposal[p].run),
           faults' \in 0..MaxFaults,
           JobOK(j, b), b = job[j] \/ Harmless(b)
    PROVE  Inv'
  <1> USE DEF Inv
  <1>1. TypeOK'
    BY DEF TypeOK, RunsKept
  <1>0. /\ job'[j] = b /\ \A k \in Jobs : k # j => job'[k] = job[k]
        /\ b = job[j] => job' = job
    BY DEF TypeOK
  <1>u. \A p : Unpublished(p)' <=> Unpublished(p)
    BY DEF Unpublished, RunsKept
  <1>2. JobsOK'
    <2> SUFFICES ASSUME NEW k \in Jobs PROVE JobOK(k, job[k])'
      BY DEF JobsOK
    <2>1. JobOK(k, job'[k])
      BY <1>0 DEF JobsOK
    <2> QED BY <1>u, <2>1 DEF JobOK, Owned, Approved, Named
  <1>3. Apart'
    <2> SUFFICES ASSUME NEW i \in Jobs, NEW k \in Jobs,
                        job'[i].pc \in {"save", "suspend"},
                        job'[k].pc \in {"save", "suspend", "resume", "take"}, i # k
                 PROVE  job'[i].g.pending # job'[k].g.pending
      BY DEF Apart
    <2>1. CASE b = job[j]
      BY <1>0, <2>1 DEF Apart
    <2>2. CASE Harmless(b)
      <3>1. i # j /\ job'[i] = job[i]
        BY <1>0, <2>2 DEF Harmless
      <3>2. CASE k # j
        BY <1>0, <3>1, <3>2 DEF Apart
      <3>3. CASE k = j
        <4>1. ~Unpublished(b.g.pending) /\ job'[k] = b
          BY <1>0, <2>2, <3>3 DEF Harmless
        <4>2. Unpublished(job[i].g.pending)
          BY <3>1 DEF JobsOK, JobOK
        <4> QED BY <4>1, <4>2, <3>1
      <3> QED BY <3>2, <3>3
    <2> QED BY <2>1, <2>2
  <1>4. CheckpointsOK' /\ Carried'
    BY DEF CheckpointsOK, Owned, Carried, Approved
  <1>5. RunsOK'
    <2>1. job'[Gateway].pc = "take" => job'[Gateway] = job[Gateway]
      BY <1>0 DEF Jobs, Harmless
    <2> QED BY <2>1 DEF RunsOK, Named, RunsKept
  <1> QED BY <1>1, <1>2, <1>3, <1>4, <1>5

LEMMA JobStep ==
    ASSUME Inv, NEW j \in Jobs, NEW b \in JobRecords,
           job' = [job EXCEPT ![j] = b],
           UNCHANGED <<run, proposal, checkpoint, verdict, done>>,
           faults' \in 0..MaxFaults,
           JobOK(j, b), Harmless(b)
    PROVE  Inv'
  <1>1. RunsKept /\ done' \subseteq Proposals
    BY DEF Inv, TypeOK, RunsKept
  <1> QED BY <1>1, RunStep

(* The job b moved to pc with the graph g. *)
At(b, pc, g) == [b EXCEPT !.pc = pc, !.g = g]

LEMMA AtType ==
    ASSUME NEW b \in JobRecords, NEW pc \in Pcs, NEW g \in Graphs
    PROVE  /\ At(b, pc, g) \in JobRecords
           /\ At(b, pc, g).pc = pc /\ At(b, pc, g).g = g /\ At(b, pc, g).run = b.run
           /\ At(b, pc, g).after = b.after
  BY DEF JobRecords, At

LEMMA AtFields ==
    ASSUME NEW b \in JobRecords, NEW pc, NEW g
    PROVE  At(b, pc, g).pc = pc /\ At(b, pc, g).g = g /\ At(b, pc, g).run = b.run
  BY DEF JobRecords, At

LEMMA GotoAt ==
    ASSUME TypeOK, NEW j \in Jobs, NEW pc, NEW g, Goto(j, pc, g)
    PROVE  job' = [job EXCEPT ![j] = At(job[j], pc, g)]
  BY DEF TypeOK, JobRecords, Goto, At

LEMMA GotoStep ==
    ASSUME Inv, NEW j \in Jobs, NEW g \in Graphs,
           NEW pc \in Pcs \ {"save", "suspend", "resume", "take"},
           Goto(j, pc, g),
           UNCHANGED <<run, proposal, checkpoint, verdict, done, faults>>,
           JobOK(j, At(job[j], pc, g))
    PROVE  Inv'
  <1>1. TypeOK /\ job[j] \in JobRecords
    BY DEF Inv, TypeOK
  <1>2. faults' \in 0..MaxFaults
    BY <1>1 DEF TypeOK
  <1>3. At(job[j], pc, g) \in JobRecords /\ At(job[j], pc, g).pc = pc
    BY <1>1, AtType
  <1>4. job' = [job EXCEPT ![j] = At(job[j], pc, g)]
    BY <1>1, GotoAt
  <1> QED BY <1>2, <1>3, <1>4, JobStep DEF Harmless

LEMMA SteppedOK ==
    ASSUME TypeOK, NEW j \in Jobs, job[j].g.steps < MaxSteps, Budgeted(job[j].g)
    PROVE  /\ Stepped(j) \in Graphs
           /\ Budgeted(Stepped(j))
           /\ \A f \in {"phase", "pending", "receipt", "observed", "rounds", "open",
                        "conflict", "outcome"} : Stepped(j)[f] = job[j].g[f]
  <1>1. job[j].g \in Graphs
    BY DEF TypeOK, JobRecords
  <1> QED BY <1>1, Bounds DEF Stepped, Graphs, Budgeted

(* A step that ends in an error. *)
LEMMA FailsInv ==
    ASSUME Inv, NEW j \in Jobs, Working(j), Fails(j),
           UNCHANGED <<run, proposal, checkpoint, verdict, done>>,
           faults' \in 0..MaxFaults
    PROVE  Inv'
  <1> DEFINE b == IF j = Gateway THEN Idle ELSE [job[j] EXCEPT !.pc = "failed"]
  <1>1. TypeOK /\ JobOK(j, job[j])
    BY DEF Inv, JobsOK
  <1>2. job' = [job EXCEPT ![j] = b] /\ b \in JobRecords
    BY <1>1, FreshTypes DEF Fails, TypeOK, JobRecords, Pcs
  <1>3. b.pc \in {"idle", "failed"}
    BY <1>1 DEF Idle, TypeOK, JobRecords
  <1>4. JobOK(j, b)
    BY <1>1, <1>3, FreshTypes DEF JobOK, Idle, Working, TypeOK, JobRecords
  <1> QED BY <1>2, <1>3, <1>4, JobStep DEF Harmless

LEMMA FaultInv ==
    ASSUME Inv, NEW j \in Jobs, Fail(j) \/ Drop(j)
    PROVE  Inv'
  <1>1. faults' \in 0..MaxFaults
    BY Bounds DEF Fail, Drop, Inv, TypeOK
  <1>2. CASE Fail(j)
    BY <1>1, <1>2, FailsInv DEF Fail
  <1>3. CASE Drop(j)
    BY <1>1, <1>3, JobStep, FreshTypes DEF Drop, JobOK, Idle, Harmless
  <1> QED BY <1>2, <1>3

LEMMA GraphFailsInv == ASSUME Inv, NEW j \in Jobs, GraphFails(j) PROVE Inv'
  <1>1. faults' \in 0..MaxFaults
    BY DEF GraphFails, Inv, TypeOK
  <1> QED BY <1>1, FailsInv DEF GraphFails, Working

(* A graph with a new proposal in hand, and one with a receipt. *)
Proposed(g, p) == [g EXCEPT !.phase = "execute", !.pending = p]

LEMMA ProposedOK ==
    ASSUME NEW g \in Graphs, NEW p \in 0..MaxProposals
    PROVE  /\ Proposed(g, p) \in Graphs /\ Proposed(g, p).phase = "execute"
           /\ Proposed(g, p).pending = p /\ Proposed(g, p).rounds = g.rounds
           /\ Budgeted(g) => Budgeted(Proposed(g, p))
  BY DEF Graphs, Budgeted, Proposed

LEMMA ReceiptOK ==
    ASSUME NEW g \in Graphs, NEW receipt \in Receipts,
           receipt \in {"query", "ambiguous"} => g.rounds < MaxReplanRounds
    PROVE  /\ WithReceipt(g, receipt) \in Graphs
           /\ Budgeted(WithReceipt(g, receipt))
           /\ ~Executes(WithReceipt(g, receipt))
  <1>0. None \in 0..MaxProposals
    BY Bounds DEF None
  <1>1. WithReceipt(g, receipt) \in Graphs
    BY <1>0 DEF Graphs, WithReceipt
  <1>2. /\ WithReceipt(g, receipt).phase = "other"
        /\ WithReceipt(g, receipt).receipt = receipt
        /\ WithReceipt(g, receipt).rounds = g.rounds
    BY DEF Graphs, WithReceipt
  <1> QED BY <1>1, <1>2 DEF Budgeted, Executes

LEMMA PlanNoActionInv == ASSUME Inv, NEW j \in Jobs, PlanNoAction(j) PROVE Inv'
  <1> DEFINE g == [Stepped(j) EXCEPT !.outcome = TRUE]
  <1>1. TypeOK /\ JobOK(j, job[j]) /\ job[j] \in JobRecords
    BY DEF Inv, JobsOK, TypeOK
  <1>2. job[j].pc = "plan" /\ job[j].g.steps < MaxSteps
    BY DEF PlanNoAction, AtNode
  <1>3. /\ g \in Graphs /\ Budgeted(g)
        /\ g.phase = job[j].g.phase /\ g.pending = job[j].g.pending
    BY <1>1, <1>2, SteppedOK DEF Graphs, Budgeted, JobOK
  <1>4. Goto(j, "l0", g)
    BY DEF PlanNoAction
  <1> HIDE DEF g
  <1>5. JobOK(j, At(job[j], "l0", g))
    BY <1>1, <1>2, <1>3, AtFields DEF JobOK, Executes
  <1> QED BY <1>3, <1>4, <1>5, GotoStep DEF PlanNoAction, Pcs

LEMMA PlanQueryInv == ASSUME Inv, NEW j \in Jobs, PlanQuery(j) PROVE Inv'
  <1> DEFINE g == Proposed(Stepped(j), None)
  <1>1. TypeOK /\ JobOK(j, job[j]) /\ job[j] \in JobRecords
    BY DEF Inv, JobsOK, TypeOK
  <1>2. job[j].pc = "plan" /\ job[j].g.steps < MaxSteps /\ ~job[j].g.conflict
    BY DEF PlanQuery, AtNode, MayPropose
  <1>3. Stepped(j) \in Graphs /\ Budgeted(Stepped(j)) /\ Stepped(j).rounds = job[j].g.rounds
    BY <1>1, <1>2, SteppedOK DEF JobOK
  <1>4. /\ g \in Graphs /\ Budgeted(g)
        /\ g.pending = None /\ g.rounds = job[j].g.rounds
    BY <1>3, ProposedOK, Bounds DEF None
  <1>5. Goto(j, "query", g)
    BY DEF PlanQuery, Proposed
  <1> HIDE DEF g
  <1>6. JobOK(j, At(job[j], "query", g))
    BY <1>1, <1>2, <1>4, AtFields DEF JobOK, Executes
  <1> QED BY <1>4, <1>5, <1>6, GotoStep DEF PlanQuery, Pcs

LEMMA ExecuteQueryInv == ASSUME Inv, NEW j \in Jobs, ExecuteQuery(j) PROVE Inv'
  <1>1. TypeOK /\ JobOK(j, job[j]) /\ job[j] \in JobRecords /\ faults' \in 0..MaxFaults
    BY DEF Inv, JobsOK, ExecuteQuery, TypeOK
  <1>2. CASE Fails(j)
    BY <1>1, <1>2, FailsInv DEF ExecuteQuery, Working
  <1>3. ASSUME NEW receipt \in {"query", "ambiguous", "other"},
               Goto(j, "l0", WithReceipt(job[j].g, receipt))
        PROVE  Inv'
    <2> DEFINE g == WithReceipt(job[j].g, receipt)
    <2>1. g \in Graphs /\ Budgeted(g) /\ ~Executes(g)
      BY <1>1, ReceiptOK DEF ExecuteQuery, JobOK, Receipts, JobRecords
    <2>2. Goto(j, "l0", g)
      BY <1>3
    <2> HIDE DEF g
    <2>3. JobOK(j, At(job[j], "l0", g))
      BY <1>1, <2>1, AtFields DEF JobOK, ExecuteQuery
    <2> QED BY <2>1, <2>2, <2>3, GotoStep DEF ExecuteQuery, Pcs
  <1> QED BY <1>2, <1>3 DEF ExecuteQuery

LEMMA L0ExecuteInv == ASSUME Inv, NEW j \in Jobs, L0Execute(j) PROVE Inv'
  <1> DEFINE g == Stepped(j)
             b == [job[j] EXCEPT !.pc = IF Executes(job[j].g) THEN "effect" ELSE "replan",
                                 !.after = "replan", !.g = g]
  <1>1. TypeOK /\ JobOK(j, job[j]) /\ job[j] \in JobRecords /\ faults' \in 0..MaxFaults
    BY DEF Inv, JobsOK, TypeOK, L0Execute
  <1>2. job[j].pc = "l0" /\ job[j].g.steps < MaxSteps
    BY DEF L0Execute, AtNode
  <1>3. /\ g \in Graphs /\ Budgeted(g)
        /\ g.phase = job[j].g.phase /\ g.pending = job[j].g.pending
    BY <1>1, <1>2, SteppedOK DEF JobOK
  <1> HIDE DEF g
  <1>4. /\ b \in JobRecords /\ b.g = g /\ b.run = job[j].run
        /\ b.pc = IF Executes(job[j].g) THEN "effect" ELSE "replan"
    BY <1>1, <1>3 DEF JobRecords, Pcs
  <1>5. job' = [job EXCEPT ![j] = b]
    BY <1>1 DEF L0Execute, TypeOK, JobRecords, g
  <1> HIDE DEF b
  <1>6. JobOK(j, b)
    BY <1>1, <1>2, <1>3, <1>4 DEF JobOK, Executes
  <1> QED BY <1>1, <1>4, <1>5, <1>6, JobStep DEF L0Execute, Harmless

LEMMA ObservationOK ==
    ASSUME NEW g \in Graphs, Budgeted(g)
    PROVE  /\ Observation(g) \in Graphs /\ Budgeted(Observation(g))
           /\ Observation(g).phase = g.phase /\ Observation(g).pending = g.pending
           /\ Observation(g).receipt = g.receipt /\ Observation(g).outcome = g.outcome
           /\ Observation(g).receipt = "conflict" /\ ~g.outcome => Observation(g).conflict
  <1>1. CASE g.outcome
    BY <1>1 DEF Observation
  <1>2. CASE ~g.outcome /\ g.receipt = "conflict"
    BY <1>2 DEF Observation, Graphs, Budgeted
  <1>3. CASE ~g.outcome /\ g.receipt \in {"query", "ambiguous"}
    <2> DEFINE n == IF g.observed THEN g.rounds ELSE g.rounds + 1
               o == g.open \/ g.receipt = "ambiguous"
    <2>1. n \in 0..MaxReplanRounds /\ o \in BOOLEAN
      BY <1>3, Bounds DEF Budgeted, Graphs
    <2>2. Observation(g) = [g EXCEPT !.rounds = n, !.observed = TRUE, !.open = o]
      BY <1>3 DEF Observation, Graphs
    <2> HIDE DEF n, o
    <2> QED BY <1>3, <2>1, <2>2 DEF Graphs, Budgeted
  <1>4. CASE ~g.outcome /\ g.receipt \notin {"conflict", "query", "ambiguous"}
    BY <1>4 DEF Observation
  <1> QED BY <1>1, <1>2, <1>3, <1>4 DEF Graphs

LEMMA ReplanDecisionInv == ASSUME Inv, NEW j \in Jobs, ReplanDecision(j) PROVE Inv'
  <1> DEFINE g == Observation(Stepped(j))
             pc == IF Continues(g) THEN "plan" ELSE "build"
  <1>1. TypeOK /\ JobOK(j, job[j]) /\ job[j] \in JobRecords
    BY DEF Inv, JobsOK, TypeOK
  <1>2. job[j].pc = "replan" /\ job[j].g.steps < MaxSteps
    BY DEF ReplanDecision, AtNode
  <1>3. /\ Stepped(j) \in Graphs /\ Budgeted(Stepped(j))
        /\ Stepped(j).phase = job[j].g.phase /\ Stepped(j).pending = job[j].g.pending
    BY <1>1, <1>2, SteppedOK DEF JobOK
  <1>4. /\ g \in Graphs /\ Budgeted(g) /\ g.phase = job[j].g.phase
        /\ g.pending = job[j].g.pending
        /\ g.receipt = "conflict" /\ ~g.outcome => g.conflict
    BY <1>3, ObservationOK
  <1>5. Goto(j, pc, g)
    BY DEF ReplanDecision
  <1>6. pc = "plan" => g.conflict \/ g.rounds < MaxReplanRounds
    BY <1>4 DEF Continues
  <1>7. pc \in {"plan", "build"}
    OBVIOUS
  <1> HIDE DEF g, pc
  <1>8. JobOK(j, At(job[j], pc, g))
    BY <1>1, <1>2, <1>4, <1>6, <1>7, AtFields DEF JobOK, Executes
  <1> QED BY <1>4, <1>5, <1>7, <1>8, GotoStep DEF ReplanDecision, Pcs

LEMMA BuildResponseInv == ASSUME Inv, NEW j \in Jobs, BuildResponse(j) PROVE Inv'
  <1> DEFINE g == [Stepped(j) EXCEPT !.phase = "respond", !.outcome = TRUE]
  <1>1. TypeOK /\ JobOK(j, job[j]) /\ job[j] \in JobRecords
    BY DEF Inv, JobsOK, TypeOK
  <1>2. job[j].pc = "build" /\ job[j].g.steps < MaxSteps
    BY DEF BuildResponse, AtNode
  <1>3. Stepped(j) \in Graphs /\ Budgeted(Stepped(j))
    BY <1>1, <1>2, SteppedOK DEF JobOK
  <1>4. g \in Graphs /\ Budgeted(g)
    BY <1>3 DEF Graphs, Budgeted
  <1>5. Goto(j, "complete", g)
    BY DEF BuildResponse
  <1> HIDE DEF g
  <1>6. JobOK(j, At(job[j], "complete", g))
    BY <1>1, <1>2, <1>4, AtFields DEF JobOK
  <1> QED BY <1>4, <1>5, <1>6, GotoStep DEF BuildResponse, Pcs

-----------------------------------------------------------------------------
(* Steps on the rows of the runs. *)

(* A step that leaves the jobs alone. *)
LEMMA RowsOnly ==
    ASSUME Inv, RunsKept, faults' \in 0..MaxFaults,
           UNCHANGED <<proposal, checkpoint, verdict, done, job>>
    PROVE  Inv'
  <1>1. /\ Gateway \in Jobs /\ job[Gateway] \in JobRecords
        /\ JobOK(Gateway, job[Gateway]) /\ done' \subseteq Proposals
        /\ job' = [job EXCEPT ![Gateway] = job[Gateway]]
    BY DEF Inv, TypeOK, JobsOK, Jobs
  <1> QED BY <1>1, RunStep

LEMMA EnsureActionRunInv == ASSUME Inv, NEW r \in Runs, EnsureActionRun(r) PROVE Inv'
  <1>1. RunsKept /\ faults' \in 0..MaxFaults
    BY DEF EnsureActionRun, Inv, TypeOK, RunRows, RunsKept
  <1> QED BY <1>1, RowsOnly DEF EnsureActionRun

LEMMA LeaseExpiresInv == ASSUME Inv, NEW r \in Runs, LeaseExpires(r) PROVE Inv'
  <1>1. RunsKept
    BY DEF LeaseExpires, Inv, TypeOK, RunRows, RunsKept
  <1>2. faults' \in 0..MaxFaults
    BY Bounds DEF LeaseExpires, Inv, TypeOK
  <1> QED BY <1>1, <1>2, RowsOnly DEF LeaseExpires

LEMMA ReclaimExpiredInv ==
    ASSUME Inv, NEW w \in Workers, ReclaimExpired(w) PROVE Inv'
  <1>0. TypeOK /\ w \in Jobs /\ job[w] \in JobRecords
    BY DEF Inv, TypeOK, Jobs
  <1>1. RunsKept
    <2>1. ASSUME NEW r \in Runs
          PROVE  /\ Reclaimed(run[r]) \in RunRows
                 /\ Reclaimed(run[r]).ckpt = run[r].ckpt
                 /\ Reclaimed(run[r]).status = "suspended" => run[r].status = "suspended"
      BY <1>0 DEF Reclaimed, TypeOK, RunRows
    <2> QED BY <2>1 DEF ReclaimExpired, RunsKept
  <1> DEFINE b == At(job[w], "claim", FreshGraph)
  <1>2. /\ job' = [job EXCEPT ![w] = b]
        /\ b \in JobRecords /\ b.pc = "claim" /\ b.g = FreshGraph
    <2>1. "claim" \in Pcs /\ Goto(w, "claim", FreshGraph)
      BY DEF Pcs, ReclaimExpired
    <2> QED BY <1>0, <2>1, GotoAt, AtType, FreshTypes
  <1> HIDE DEF b
  <1>3. JobOK(w, b) /\ Harmless(b)
    BY <1>2, FreshTypes DEF JobOK, Harmless
  <1>4. faults' \in 0..MaxFaults /\ done' \subseteq Proposals
    BY <1>0 DEF TypeOK, ReclaimExpired
  <1> QED BY <1>0, <1>1, <1>2, <1>3, <1>4, RunStep DEF ReclaimExpired

LEMMA ClaimPendingRunInv ==
    ASSUME Inv, NEW w \in Workers, ClaimPendingRun(w) PROVE Inv'
  <1>0. TypeOK /\ w \in Jobs /\ faults' \in 0..MaxFaults /\ done' \subseteq Proposals
    BY DEF Inv, TypeOK, Jobs, ClaimPendingRun
  <1>1. ASSUME NEW r \in Runs,
               run' = [run EXCEPT ![r].status = "running", ![r].holder = w,
                                  ![r].expired = FALSE],
               job' = [job EXCEPT ![w] = [Idle EXCEPT !.pc = "plan", !.run = r]]
        PROVE  Inv'
    <2>1. RunsKept
      BY <1>0, <1>1 DEF TypeOK, RunRows, RunsKept
    <2> DEFINE b == [Idle EXCEPT !.pc = "plan", !.run = r]
    <2>f. FreshGraph.rounds = 0 /\ FreshGraph.pending = None
      BY DEF FreshGraph
    <2>r. r \in 0..MaxRuns
      BY Bounds DEF Runs
    <2>2. b \in JobRecords /\ b.pc = "plan" /\ b.run = r /\ b.g = FreshGraph
      BY <2>r, FreshTypes DEF JobRecords, Pcs, Idle
    <2>3. job' = [job EXCEPT ![w] = b]
      BY <1>1
    <2> HIDE DEF b
    <2>4. JobOK(w, b) /\ Harmless(b)
      BY <2>2, <2>f, FreshTypes, Bounds DEF JobOK, Harmless, Executes
    <2> QED BY <1>0, <2>1, <2>2, <2>3, <2>4, RunStep DEF ClaimPendingRun
  <1>2. CASE job' = [job EXCEPT ![w] = Idle] /\ UNCHANGED run
    <2>1. JobOK(w, Idle) /\ Harmless(Idle)
      BY FreshTypes DEF JobOK, Idle, Harmless
    <2> QED BY <1>0, <1>2, <2>1, FreshTypes, JobStep DEF ClaimPendingRun
  <1> QED BY <1>1, <1>2 DEF ClaimPendingRun

(* A job that is over. *)
LEMMA EndStep ==
    ASSUME Inv, NEW j \in Jobs, job' = [job EXCEPT ![j] = Idle], RunsKept,
           UNCHANGED <<proposal, checkpoint, verdict, done, faults>>
    PROVE  Inv'
  <1>1. JobOK(j, Idle) /\ Harmless(Idle)
    BY FreshTypes DEF JobOK, Idle, Harmless
  <1>2. faults' \in 0..MaxFaults /\ done' \subseteq Proposals
    BY DEF Inv, TypeOK
  <1> QED BY <1>1, <1>2, FreshTypes, RunStep

LEMMA HandleFailureInv ==
    ASSUME Inv, NEW w \in Workers, HandleFailure(w) PROVE Inv'
  <1>0. TypeOK /\ w \in Jobs
    BY DEF Inv, Jobs
  <1>1. RunsKept
    <2>1. CASE UNCHANGED run
      BY <1>0, <2>1 DEF TypeOK, RunsKept
    <2>2. CASE run' = [run EXCEPT ![job[w].run].status = "pending"]
      BY <1>0, <2>2 DEF TypeOK, RunRows, RunsKept
    <2> QED BY <2>1, <2>2 DEF HandleFailure
  <1> QED BY <1>0, <1>1, EndStep DEF HandleFailure

LEMMA MarkCompletedInv == ASSUME Inv, NEW j \in Jobs, MarkCompleted(j) PROVE Inv'
  <1>1. CASE Fails(j) /\ UNCHANGED run
    <2>1. faults' \in 0..MaxFaults
      BY DEF Inv, TypeOK, MarkCompleted
    <2> QED BY <1>1, <2>1, FailsInv DEF MarkCompleted, Working
  <1>2. CASE /\ run' = [run EXCEPT ![job[j].run].status = "completed"]
             /\ job' = [job EXCEPT ![j] = Idle]
    <2>1. RunsKept
      BY <1>2 DEF Inv, TypeOK, RunRows, RunsKept
    <2> QED BY <1>2, <2>1, EndStep DEF MarkCompleted
  <1> QED BY <1>1, <1>2 DEF MarkCompleted

LEMMA ExecuteEffectInv == ASSUME Inv, NEW j \in Jobs, ExecuteEffect(j) PROVE Inv'
  <1>0. TypeOK /\ JobOK(j, job[j]) /\ job[j] \in JobRecords
        /\ faults' \in 0..MaxFaults
    BY DEF Inv, JobsOK, TypeOK, ExecuteEffect
  <1>1. CASE Fails(j) /\ UNCHANGED <<done, run>>
    BY <1>0, <1>1, FailsInv DEF ExecuteEffect, Working
  <1>2. ASSUME NEW receipt \in Receipts, NEW revoked \in SUBSET Revocable,
               Commits(j), Effect(j, receipt, revoked),
               done' = done \cup {job[j].g.pending},
               run' = [r \in Runs |-> IF r \in revoked
                                      THEN [run[r] EXCEPT !.status = "failed"]
                                      ELSE run[r]],
               Goto(j, job[j].after, WithReceipt(job[j].g, receipt))
        PROVE  Inv'
    <2> DEFINE g == WithReceipt(job[j].g, receipt)
               b == At(job[j], job[j].after, g)
    <2>1. RunsKept
      BY <1>0, <1>2 DEF TypeOK, RunRows, RunsKept
    <2>2. job[j].g \in Graphs /\ job[j].after \in {"l0", "replan"}
      BY <1>0 DEF JobRecords
    <2>3. receipt \notin {"query", "ambiguous"}
      BY <1>2 DEF Effect
    <2>4. g \in Graphs /\ Budgeted(g) /\ ~Executes(g)
      BY <2>2, <2>3, ReceiptOK
    <2>5. /\ job' = [job EXCEPT ![j] = b] /\ b \in JobRecords
          /\ b.pc \in {"l0", "replan"} /\ b.g = g /\ b.run = job[j].run
      <3>1. job[j].after \in Pcs
        BY <2>2 DEF Pcs
      <3> QED BY <1>0, <1>2, <2>2, <2>4, <3>1, GotoAt, AtType
    <2>6. Approved(job[j].g.pending, job[j].run) /\ job[j].run \in Runs
      BY <1>0 DEF JobOK, ExecuteEffect
    <2>7. /\ done' \subseteq Proposals
          /\ \A p \in done' \ done : Approved(p, proposal[p].run)
      BY <1>0, <1>2, <2>6 DEF Approved, Owned, TypeOK
    <2> HIDE DEF g, b
    <2>8. JobOK(j, b) /\ Harmless(b)
      BY <2>4, <2>5, <2>6 DEF JobOK, Harmless
    <2> QED BY <1>0, <2>1, <2>5, <2>7, <2>8, RunStep DEF ExecuteEffect
  <1> QED BY <1>1, <1>2 DEF ExecuteEffect

-----------------------------------------------------------------------------
(* Proposals, checkpoints and answers. *)

LEMMA OwnerDecidesInv ==
    ASSUME Inv, NEW r \in Runs, NEW answer \in {"approve", "reject"},
           OwnerDecides(r, answer)
    PROVE  Inv'
  <1> DEFINE p == run[r].ckpt
             g == [FreshGraph EXCEPT !.pending = p]
             b == [Idle EXCEPT !.pc = "resume", !.run = r, !.verdict = answer, !.g = g]
  <1>0. TypeOK /\ Gateway \in Jobs /\ faults' \in 0..MaxFaults
    BY DEF Inv, Jobs, OwnerDecides, TypeOK
  <1>1. Named(p, r) /\ ~Unpublished(p)
    BY DEF OwnerDecides, Inv, RunsOK, Unpublished
  <1>2. p \in 0..MaxProposals /\ r \in 0..MaxRuns
    BY <1>0, Bounds DEF TypeOK, RunRows, Runs
  <1>3. g \in Graphs /\ Budgeted(g) /\ g.pending = p
    BY <1>2, FreshTypes DEF Graphs, Budgeted
  <1>4. job' = [job EXCEPT ![Gateway] = b]
    BY DEF OwnerDecides
  <1> HIDE DEF p, g
  <1>5. b \in JobRecords /\ b.pc = "resume" /\ b.run = r /\ b.g = g
    BY <1>2, <1>3, FreshTypes DEF JobRecords, Pcs, Verdicts, Idle
  <1> HIDE DEF b
  <1>6. JobOK(Gateway, b) /\ Harmless(b)
    BY <1>1, <1>3, <1>5 DEF JobOK, Harmless
  <1> QED BY <1>0, <1>4, <1>5, <1>6, JobStep DEF OwnerDecides

LEMMA MarkSuspendedInv == ASSUME Inv, NEW j \in Jobs, MarkSuspended(j) PROVE Inv'
  <1> DEFINE p == job[j].g.pending
             s == job[j].run
  <1>0. TypeOK /\ JobOK(j, job[j]) /\ job[j].pc = "suspend" /\ faults' \in 0..MaxFaults
    BY DEF Inv, JobsOK, TypeOK, MarkSuspended
  <1>1. CASE Fails(j) /\ UNCHANGED run
    BY <1>0, <1>1, FailsInv DEF MarkSuspended, Working
  <1>2. CASE /\ run' = [run EXCEPT ![s].status = "suspended", ![s].ckpt = p]
             /\ job' = [job EXCEPT ![j] = Idle]
    <2> USE DEF Inv
    <2>0. /\ s \in Runs /\ p \in Proposals /\ Named(p, s) /\ Unpublished(p)
          /\ checkpoint[p].status = "active"
      BY <1>0 DEF JobOK, Named
    <2>1. UNCHANGED <<proposal, checkpoint, verdict, done>>
      BY DEF MarkSuspended
    <2>2. /\ job'[j] = Idle /\ \A k \in Jobs : k # j => job'[k] = job[k]
      BY <1>0, <1>2 DEF TypeOK
    <2>3. /\ run'[s].status = "suspended" /\ run'[s].ckpt = p
          /\ \A r \in Runs : r # s => run'[r] = run[r]
      BY <1>0, <1>2, <2>0 DEF TypeOK, RunRows
    <2>4. TypeOK'
      <3>1. p \in 0..MaxProposals
        BY <2>0, Bounds DEF Proposals
      <3> QED BY <1>0, <1>2, <2>1, <3>1, FreshTypes DEF TypeOK, RunRows
    <2> HIDE DEF p, s
    <2>5. JobsOK'
      <3> SUFFICES ASSUME NEW k \in Jobs PROVE JobOK(k, job[k])'
        BY DEF JobsOK
      <3>1. CASE k = j
        BY <2>2, <3>1, FreshTypes DEF JobOK, Idle
      <3>2. CASE k # j
        <4>1. job'[k] = job[k] /\ JobOK(k, job[k])
          BY <2>2, <3>2 DEF JobsOK
        <4>2. job[k].pc \in {"save", "suspend"} => job[k].g.pending # p
          BY <1>0, <3>2 DEF Apart, p
        <4>3. job[k].pc \in {"save", "suspend"} => Unpublished(job[k].g.pending)'
          BY <4>1, <4>2, <2>3 DEF JobOK, Unpublished
        <4> QED BY <4>1, <4>3, <2>1 DEF JobOK, Owned, Approved, Named
      <3> QED BY <3>1, <3>2
    <2>6. Apart'
      BY <2>2 DEF Apart, Idle
    <2>7. CheckpointsOK' /\ Carried'
      BY <2>1 DEF CheckpointsOK, Owned, Carried, Approved
    <2>8. RunsOK'
      <3> SUFFICES ASSUME NEW r \in Runs
                   PROVE  /\ run'[r].ckpt # None => Named(run[r].ckpt, r)'
                          /\ run'[r].status = "suspended" =>
                                /\ run'[r].ckpt # None
                                /\ checkpoint'[run'[r].ckpt].status = "active"
                                /\ job'[Gateway].pc = "take"
                                      => run'[r].ckpt # job'[Gateway].g.pending
        BY DEF RunsOK
      <3>1. job'[Gateway].pc = "take"
              => job'[Gateway] = job[Gateway] /\ job[Gateway].g.pending # p
        BY <1>0, <2>2 DEF Apart, p, Idle, Jobs
      <3>2. CASE r = s
        BY <3>1, <3>2, <2>0, <2>1, <2>3 DEF Named, Proposals, None
      <3>3. CASE r # s
        BY <3>1, <3>3, <2>1, <2>3 DEF RunsOK, Named
      <3> QED BY <3>2, <3>3
    <2> QED BY <2>4, <2>5, <2>6, <2>7, <2>8
  <1> QED BY <1>1, <1>2 DEF MarkSuspended

LEMMA ClaimSuspendedRunInv == ASSUME Inv, ClaimSuspendedRun PROVE Inv'
  <1> DEFINE s == job[Gateway].run
             p == job[Gateway].g.pending
             b == At(job[Gateway], "take", job[Gateway].g)
  <1>0. /\ TypeOK /\ Gateway \in Jobs /\ JobOK(Gateway, job[Gateway])
        /\ job[Gateway].pc = "resume" /\ faults' \in 0..MaxFaults
        /\ job[Gateway] \in JobRecords
    BY DEF Inv, JobsOK, TypeOK, ClaimSuspendedRun, Jobs
  <1>1. CASE Fails(Gateway) /\ UNCHANGED run
    BY <1>0, <1>1, FailsInv DEF ClaimSuspendedRun, Working
  <1>2. CASE /\ run[s].status = "suspended" /\ run[s].ckpt = p
             /\ run' = [run EXCEPT ![s].status = "running", ![s].holder = Gateway,
                                   ![s].expired = FALSE]
             /\ Goto(Gateway, "take", job[Gateway].g)
    <2> USE DEF Inv
    <2>0. s \in Runs /\ Named(p, s)
      BY <1>0 DEF JobOK
    <2>1. UNCHANGED <<proposal, checkpoint, verdict, done>>
      BY DEF ClaimSuspendedRun
    <2>2. /\ job' = [job EXCEPT ![Gateway] = b] /\ b \in JobRecords
          /\ b.pc = "take" /\ b.g = job[Gateway].g /\ b.run = s
      <3>1. job[Gateway].g \in Graphs /\ "take" \in Pcs
        BY <1>0 DEF JobRecords, Pcs
      <3> QED BY <1>0, <1>2, <3>1, GotoAt, AtType
    <2>3. /\ job'[Gateway] = b /\ \A k \in Jobs : k # Gateway => job'[k] = job[k]
      BY <1>0, <2>2 DEF TypeOK
    <2>4. /\ run'[s].status = "running"
          /\ \A r \in Runs : run'[r].ckpt = run[r].ckpt
          /\ \A r \in Runs : r # s => run'[r] = run[r]
      BY <1>0, <1>2, <2>0 DEF TypeOK, RunRows
    <2>5. TypeOK'
      <3>1. run' \in [Runs -> RunRows]
        <4> HIDE DEF s, p
        <4>1. run \in [Runs -> RunRows] /\ Gateway \in Jobs
          BY <1>0 DEF TypeOK
        <4>2. run' = [run EXCEPT ![s].status = "running", ![s].holder = Gateway,
                                 ![s].expired = FALSE]
          BY <1>2
        <4> QED BY <2>0, <4>1, <4>2 DEF RunRows
      <3> QED BY <1>0, <2>1, <2>2, <3>1 DEF TypeOK
    <2> HIDE DEF s, p, b
    <2>u. \A q : Unpublished(q)' <=> Unpublished(q)
      BY <2>4 DEF Unpublished
    <2>6. JobsOK'
      <3> SUFFICES ASSUME NEW k \in Jobs PROVE JobOK(k, job[k])'
        BY DEF JobsOK
      <3>1. JobOK(k, job'[k])
        BY <1>0, <2>0, <2>2, <2>3 DEF JobsOK, JobOK, p
      <3> QED BY <3>1, <2>1, <2>u DEF JobOK, Owned, Approved, Named
    <2>7. Apart'
      BY <1>0, <2>2, <2>3 DEF Apart
    <2>8. CheckpointsOK' /\ Carried'
      BY <2>1 DEF CheckpointsOK, Owned, Carried, Approved
    <2>9. RunsOK'
      <3> SUFFICES ASSUME NEW r \in Runs
                   PROVE  /\ run'[r].ckpt # None => Named(run[r].ckpt, r)'
                          /\ run'[r].status = "suspended" =>
                                /\ run'[r].ckpt # None
                                /\ checkpoint'[run'[r].ckpt].status = "active"
                                /\ run'[r].ckpt # job'[Gateway].g.pending
        BY DEF RunsOK
      <3>1. job'[Gateway].g.pending = p
        BY <2>2, <2>3 DEF p
      <3>2. run'[r].ckpt # None => Named(run[r].ckpt, r)'
        BY <2>1, <2>4 DEF RunsOK, Named
      <3>3. ASSUME run'[r].status = "suspended"
            PROVE  /\ run'[r].ckpt # None /\ checkpoint'[run'[r].ckpt].status = "active"
                   /\ run'[r].ckpt # p
        BY <3>3, <2>0, <2>1, <2>4 DEF RunsOK, Named
      <3> QED BY <3>1, <3>2, <3>3
    <2> QED BY <2>5, <2>6, <2>7, <2>8, <2>9
  <1> QED BY <1>1, <1>2 DEF ClaimSuspendedRun

LEMMA PlanProposalInv == ASSUME Inv, NEW j \in Jobs, PlanProposal(j) PROVE Inv'
  <1>0. /\ TypeOK /\ JobOK(j, job[j]) /\ job[j] \in JobRecords
        /\ job[j].pc = "plan" /\ job[j].g.steps < MaxSteps
        /\ UNCHANGED <<run, checkpoint, verdict, done, faults>>
    BY DEF Inv, JobsOK, TypeOK, PlanProposal, AtNode
  <1>1. PICK kind \in {"write", "impactful", "clarify"}, p \in Proposals :
            /\ proposal[p].kind = "none"
            /\ proposal' = [proposal EXCEPT ![p] = [kind |-> kind, run |-> job[j].run]]
            /\ job' = [job EXCEPT ![j].pc = GateTo(kind), ![j].after = "l0",
                                  ![j].g = Proposed(Stepped(j), p)]
    BY DEF PlanProposal, Proposed
  <1> DEFINE g == Proposed(Stepped(j), p)
             b == [job[j] EXCEPT !.pc = GateTo(kind), !.after = "l0", !.g = g]
  <1> USE DEF Inv
  <1>2. p \in 0..MaxProposals /\ p # None /\ job[j].run \in Runs
    BY <1>0, Bounds DEF Proposals, None, JobOK
  <1>3. g \in Graphs /\ Budgeted(g) /\ g.pending = p
    <2>1. Stepped(j) \in Graphs /\ Budgeted(Stepped(j))
      BY <1>0, SteppedOK DEF JobOK
    <2> QED BY <1>2, <2>1, ProposedOK
  <1>4. job' = [job EXCEPT ![j] = b]
    BY <1>0, <1>1 DEF TypeOK, JobRecords
  <1> HIDE DEF g
  <1>5. /\ b \in JobRecords /\ b.pc = GateTo(kind) /\ b.g = g /\ b.run = job[j].run
        /\ GateTo(kind) = IF Waits(kind) THEN "save" ELSE "effect"
    BY <1>0, <1>3 DEF JobRecords, GateTo, Pcs
  <1> HIDE DEF b
  <1>6. /\ job'[j] = b /\ \A k \in Jobs : k # j => job'[k] = job[k]
    BY <1>0, <1>4 DEF TypeOK
  <1>7. /\ proposal'[p].kind = kind /\ proposal'[p].run = job[j].run
        /\ \A q \in Proposals : q # p => proposal'[q] = proposal[q]
    BY <1>0, <1>1 DEF TypeOK
  <1>8. TypeOK'
    <2>1. job[j].run \in 0..MaxRuns
      BY <1>0 DEF JobRecords
    <2>2. proposal' \in [Proposals -> ProposalRows]
      BY <1>0, <1>1, <2>1 DEF TypeOK, ProposalRows
    <2> QED BY <1>0, <1>4, <1>5, <2>2 DEF TypeOK
  <1>9. /\ checkpoint[p].status = "none" /\ Unpublished(p)
        /\ \A q, r : Owned(q, r) => q # p /\ Owned(q, r)'
        /\ \A q, r : Approved(q, r) => q # p /\ Approved(q, r)'
        /\ \A q, r : Named(q, r) => q # p /\ Named(q, r)'
        /\ \A q : Unpublished(q) => Unpublished(q)'
    <2>1. \A q, r : Owned(q, r) => q # p /\ Owned(q, r)'
      BY <1>1, <1>7 DEF Owned
    <2>2. \A q, r : Approved(q, r) => q # p /\ Approved(q, r)'
      BY <1>0, <1>7, <2>1 DEF Approved, Owned
    <2>3. checkpoint[p].status = "none"
      BY <1>1 DEF CheckpointsOK, Owned
    <2>4. \A q, r : Named(q, r) => q # p /\ Named(q, r)'
      BY <1>0, <2>3 DEF Named
    <2>5. Unpublished(p)
      BY <1>2, <2>4 DEF Unpublished, RunsOK
    <2>6. \A q : Unpublished(q) => Unpublished(q)'
      BY <1>0 DEF Unpublished
    <2> QED BY <2>1, <2>2, <2>3, <2>4, <2>5, <2>6
  <1>10. JobOK(j, job[j])'
    <2>0. PICK r \in Runs : r = job[j].run
      BY <1>2
    <2>1. Owned(p, r)'
      BY <1>1, <1>7, <2>0 DEF Owned
    <2>2. ~Waits(kind) => Approved(p, r)'
      BY <1>7, <2>1 DEF Approved
    <2> QED BY <1>0, <1>2, <1>3, <1>5, <1>6, <1>9, <2>0, <2>1, <2>2 DEF JobOK
  <1>11. JobsOK'
    <2> SUFFICES ASSUME NEW k \in Jobs, k # j PROVE JobOK(k, job[k])'
      BY <1>10 DEF JobsOK
    <2>1. JobOK(k, job[k]) /\ job'[k] = job[k]
      BY <1>6 DEF JobsOK
    <2> QED BY <1>0, <1>9, <2>1 DEF JobOK
  <1>12. Apart'
    <2> SUFFICES ASSUME NEW i \in Jobs, NEW k \in Jobs,
                        job'[i].pc \in {"save", "suspend"},
                        job'[k].pc \in {"save", "suspend", "resume", "take"}, i # k
                 PROVE  job'[i].g.pending # job'[k].g.pending
      BY DEF Apart
    <2>1. ASSUME NEW l \in Jobs, l # j,
                 job'[l].pc \in {"save", "suspend", "resume", "take"}
          PROVE  job'[l] = job[l] /\ job'[l].g.pending # p
      <3>1. JobOK(l, job[l]) /\ job'[l] = job[l]
        BY <1>6, <2>1 DEF JobsOK
      <3> QED BY <1>9, <2>1, <3>1 DEF JobOK
    <2>2. CASE i # j /\ k # j
      BY <2>1, <2>2 DEF Apart
    <2>3. CASE i = j
      BY <1>3, <1>5, <1>6, <2>1, <2>3
    <2>4. CASE k = j
      BY <1>3, <1>5, <1>6, <2>1, <2>4
    <2> QED BY <2>2, <2>3, <2>4
  <1>13. CheckpointsOK' /\ RunsOK'
    <2>1. CheckpointsOK'
      BY <1>0, <1>9 DEF CheckpointsOK
    <2>2. job'[Gateway].pc = "take" => job'[Gateway] = job[Gateway]
      BY <1>5, <1>6 DEF Jobs
    <2> QED BY <1>0, <1>9, <2>1, <2>2 DEF RunsOK
  <1>14. Carried'
    <2> SUFFICES ASSUME NEW q \in done PROVE Approved(q, proposal[q].run)'
      BY <1>0 DEF Carried
    <2>1. PICK r : r = proposal[q].run /\ Approved(q, r)
      BY DEF Carried
    <2>2. q # p /\ q \in Proposals /\ Approved(q, r)'
      BY <1>9, <2>1 DEF Approved, Owned
    <2> QED BY <1>7, <2>1, <2>2 DEF Approved, Owned
  <1> QED BY <1>8, <1>11, <1>12, <1>13, <1>14

LEMMA SaveCheckpointInv == ASSUME Inv, NEW j \in Jobs, SaveCheckpoint(j) PROVE Inv'
  <1> DEFINE b == At(job[j], "suspend", job[j].g)
  <1>0. /\ TypeOK /\ JobOK(j, job[j]) /\ job[j] \in JobRecords /\ job[j].pc = "save"
        /\ UNCHANGED <<run, proposal, verdict, done, faults>>
    BY DEF Inv, JobsOK, TypeOK, SaveCheckpoint
  <1>1. PICK p, s : p = job[j].g.pending /\ s = job[j].run
    OBVIOUS
  <1> USE DEF Inv
  <1>2. /\ p \in Proposals /\ s \in Runs /\ Owned(p, s) /\ Unpublished(p)
        /\ checkpoint[p].status = "none" /\ verdict[p] = "none"
    <2>1. /\ Owned(p, s) /\ Unpublished(p) /\ checkpoint[p].status = "none"
          /\ s \in Runs
      BY <1>0, <1>1 DEF JobOK
    <2> QED BY <2>1 DEF CheckpointsOK, Owned
  <1>3. job[j].g \in Graphs /\ Budgeted(job[j].g) /\ "suspend" \in Pcs
    BY <1>0 DEF JobRecords, JobOK, Pcs
  <1>4. /\ job' = [job EXCEPT ![j] = b] /\ b \in JobRecords
        /\ b.pc = "suspend" /\ b.g = job[j].g /\ b.run = s
    BY <1>0, <1>1, <1>3, GotoAt, AtType DEF SaveCheckpoint
  <1> HIDE DEF b
  <1>5. /\ job'[j] = b /\ \A k \in Jobs : k # j => job'[k] = job[k]
    BY <1>0, <1>4 DEF TypeOK
  <1>6. checkpoint' = [checkpoint EXCEPT ![p] =
                          [status |-> "active", run |-> s, g |-> job[j].g]]
    BY <1>1 DEF SaveCheckpoint, Saved
  <1>7. /\ checkpoint'[p].status = "active" /\ checkpoint'[p].run = s
        /\ checkpoint'[p].g = job[j].g
        /\ \A q \in Proposals : q # p => checkpoint'[q] = checkpoint[q]
    BY <1>0, <1>2, <1>6 DEF TypeOK
  <1>8. TypeOK'
    <2>1. s \in 0..MaxRuns
      BY <1>0, <1>1 DEF JobRecords
    <2>2. checkpoint' \in [Proposals -> CheckpointRows]
      BY <1>0, <1>3, <1>6, <2>1 DEF TypeOK, CheckpointRows
    <2> QED BY <1>0, <1>4, <2>2 DEF TypeOK
  <1>9. /\ \A q, r : Owned(q, r) => Owned(q, r)'
        /\ \A q, r : Approved(q, r) => Approved(q, r)'
        /\ \A q, r : Named(q, r) => q # p /\ Named(q, r)'
        /\ \A q : Unpublished(q) => Unpublished(q)'
    <2>1. \A q, r : Owned(q, r) => Owned(q, r)'
      BY <1>0 DEF Owned
    <2>2. \A q, r : Approved(q, r) => Approved(q, r)'
      BY <1>0 DEF Owned, Approved
    <2>3. \A q, r : Named(q, r) => q # p /\ Named(q, r)'
      BY <1>2, <1>7 DEF Named
    <2>4. \A q : Unpublished(q) => Unpublished(q)'
      BY <1>0 DEF Unpublished
    <2> QED BY <2>1, <2>2, <2>3, <2>4
  <1>10. JobsOK'
    <2> SUFFICES ASSUME NEW k \in Jobs PROVE JobOK(k, job[k])'
      BY DEF JobsOK
    <2>1. CASE k = j
      <3>1. Named(p, s)' /\ Unpublished(p)'
        BY <1>2, <1>7, <1>9 DEF Named
      <3> QED BY <1>1, <1>2, <1>3, <1>4, <1>5, <1>7, <2>1, <3>1 DEF JobOK
    <2>2. CASE k # j
      <3>1. job'[k] = job[k] /\ JobOK(k, job[k])
        BY <1>5, <2>2 DEF JobsOK
      <3>2. job[k].pc \in {"save", "suspend"} => job[k].g.pending # p
        BY <1>0, <1>1, <2>2 DEF Apart
      <3>3. job[k].pc \in {"save", "suspend"} => job[k].g.pending \in Proposals
        BY <3>1 DEF JobOK, Owned, Named
      <3> QED BY <1>7, <1>9, <3>1, <3>2, <3>3 DEF JobOK
    <2> QED BY <2>1, <2>2
  <1>11. Apart'
    <2> SUFFICES ASSUME NEW i \in Jobs, NEW k \in Jobs,
                        job'[i].pc \in {"save", "suspend"},
                        job'[k].pc \in {"save", "suspend", "resume", "take"}, i # k
                 PROVE  job'[i].g.pending # job'[k].g.pending
      BY DEF Apart
    <2>1. /\ job'[i].g = job[i].g /\ job'[k].g = job[k].g
          /\ job[i].pc \in {"save", "suspend"}
          /\ job[k].pc \in {"save", "suspend", "resume", "take"}
      BY <1>0, <1>4, <1>5
    <2> QED BY <2>1 DEF Apart
  <1>12. CheckpointsOK'
    <2> SUFFICES ASSUME NEW q \in Proposals
                 PROVE  /\ checkpoint'[q].status # "none" =>
                              /\ Owned(q, checkpoint[q].run)'
                              /\ checkpoint'[q].g.pending = q
                        /\ Budgeted(checkpoint[q].g)'
                        /\ verdict'[q] # "none" => checkpoint'[q].status = "consumed"
      BY DEF CheckpointsOK
    <2>1. CASE q = p
      BY <1>0, <1>1, <1>2, <1>3, <1>7, <2>1 DEF Owned, Budgeted
    <2>2. CASE q # p
      BY <1>0, <1>7, <2>2 DEF CheckpointsOK, Owned, Budgeted
    <2> QED BY <2>1, <2>2
  <1>13. RunsOK'
    <2> SUFFICES ASSUME NEW r \in Runs
                 PROVE  /\ run'[r].ckpt # None => Named(run[r].ckpt, r)'
                        /\ run'[r].status = "suspended" =>
                              /\ run'[r].ckpt # None
                              /\ checkpoint'[run'[r].ckpt].status = "active"
                              /\ job'[Gateway].pc = "take"
                                    => run'[r].ckpt # job'[Gateway].g.pending
      BY DEF RunsOK
    <2>1. job'[Gateway].pc = "take" => job'[Gateway] = job[Gateway]
      BY <1>4, <1>5 DEF Jobs
    <2>2. run[r].ckpt # p /\ run' = run
      BY <1>0, <1>2 DEF Unpublished
    <2> QED BY <1>7, <2>1, <2>2 DEF RunsOK, Named
  <1>14. Carried'
    BY <1>0 DEF Carried, Approved, Owned
  <1> QED BY <1>8, <1>10, <1>11, <1>12, <1>13, <1>14

LEMMA ResumedOK ==
    ASSUME NEW g \in Graphs, NEW answer
    PROVE  /\ Resumed(g, answer) \in Graphs
           /\ Resumed(g, answer).pending = g.pending
           /\ Budgeted(g) => Budgeted(Resumed(g, answer))
           /\ Executes(Resumed(g, answer)) => answer = "approve"
  BY DEF Graphs, Resumed, Budgeted, Executes

LEMMA TakeCheckpointInv == ASSUME Inv, TakeCheckpoint PROVE Inv'
  <1>0. /\ TypeOK /\ Gateway \in Jobs /\ JobOK(Gateway, job[Gateway])
        /\ job[Gateway] \in JobRecords /\ job[Gateway].pc = "take"
        /\ UNCHANGED <<run, proposal, done, faults>> /\ faults' \in 0..MaxFaults
    BY DEF Inv, JobsOK, TypeOK, TakeCheckpoint, Jobs
  <1>1. PICK p, s, answer : /\ p = job[Gateway].g.pending /\ s = job[Gateway].run
                            /\ answer = job[Gateway].verdict
    OBVIOUS
  <1>2. CASE Fails(Gateway) /\ UNCHANGED <<checkpoint, verdict>>
    BY <1>0, <1>2, FailsInv DEF Working
  <1>3. CASE /\ checkpoint[p].status = "active"
             /\ checkpoint' = [checkpoint EXCEPT ![p].status = "consumed"]
             /\ verdict' = [verdict EXCEPT ![p] = answer]
             /\ Goto(Gateway, "l0", Resumed(checkpoint[p].g, answer))
    <2> DEFINE g == Resumed(checkpoint[p].g, answer)
               b == At(job[Gateway], "l0", g)
    <2> USE DEF Inv
    <2>1. /\ p \in Proposals /\ s \in Runs /\ Owned(p, s) /\ verdict[p] = "none"
          /\ checkpoint[p].run = s /\ checkpoint[p].g.pending = p
          /\ checkpoint[p].g \in Graphs /\ Budgeted(checkpoint[p].g)
      <3>1. Named(p, s) /\ s \in Runs
        BY <1>0, <1>1 DEF JobOK
      <3>2. checkpoint[p].g \in Graphs
        BY <1>0, <3>1 DEF TypeOK, CheckpointRows, Named
      <3> QED BY <1>3, <3>1, <3>2 DEF CheckpointsOK, Named
    <2>2. /\ g \in Graphs /\ Budgeted(g) /\ g.pending = p
          /\ Executes(g) => answer = "approve"
      BY <2>1, ResumedOK
    <2>3. Goto(Gateway, "l0", g) /\ "l0" \in Pcs
      BY <1>3 DEF Pcs
    <2> HIDE DEF g
    <2>4. /\ job' = [job EXCEPT ![Gateway] = b] /\ b \in JobRecords
          /\ b.pc = "l0" /\ b.g = g /\ b.run = s
      BY <1>0, <1>1, <2>2, <2>3, GotoAt, AtType
    <2> HIDE DEF b
    <2>5. /\ job'[Gateway] = b /\ \A k \in Jobs : k # Gateway => job'[k] = job[k]
      BY <1>0, <2>4 DEF TypeOK
    <2>6. /\ checkpoint'[p].status = "consumed" /\ checkpoint'[p].run = s
          /\ checkpoint'[p].g = checkpoint[p].g /\ verdict'[p] = answer
          /\ \A q \in Proposals : q # p => checkpoint'[q] = checkpoint[q]
                                          /\ verdict'[q] = verdict[q]
      BY <1>0, <1>3, <2>1 DEF TypeOK, CheckpointRows
    <2>7. TypeOK'
      <3>1. answer \in Verdicts
        BY <1>0, <1>1 DEF JobRecords
      <3>2. checkpoint' \in [Proposals -> CheckpointRows]
        BY <1>0, <1>3 DEF TypeOK, CheckpointRows
      <3>3. verdict' \in [Proposals -> Verdicts]
        BY <1>0, <1>3, <3>1 DEF TypeOK
      <3> QED BY <1>0, <2>4, <3>2, <3>3 DEF TypeOK
    <2>8. /\ \A q, r : Owned(q, r) => Owned(q, r)'
          /\ \A q, r : Approved(q, r) => Approved(q, r)'
          /\ \A q, r : Named(q, r) => Named(q, r)'
          /\ \A q : Unpublished(q) => Unpublished(q)'
      <3>1. \A q, r : Owned(q, r) => Owned(q, r)'
        BY <1>0 DEF Owned
      <3>2. \A q, r : Approved(q, r) => Approved(q, r)'
        BY <1>0, <2>1, <2>6 DEF Owned, Approved
      <3>3. \A q, r : Named(q, r) => Named(q, r)'
        BY <2>1, <2>6 DEF Named
      <3>4. \A q : Unpublished(q) => Unpublished(q)'
        BY <1>0 DEF Unpublished
      <3> QED BY <3>1, <3>2, <3>3, <3>4
    <2>9. JobsOK'
      <3> SUFFICES ASSUME NEW k \in Jobs PROVE JobOK(k, job[k])'
        BY DEF JobsOK
      <3>1. CASE k = Gateway
        <4>1. Executes(g) => Approved(p, s)'
          BY <2>1, <2>2, <2>6, <2>8 DEF Approved
        <4> QED BY <2>1, <2>2, <2>4, <2>5, <3>1, <4>1 DEF JobOK
      <3>2. CASE k # Gateway
        <4>1. job'[k] = job[k] /\ JobOK(k, job[k])
          BY <2>5, <3>2 DEF JobsOK
        <4>2. job[k].pc \in {"save", "suspend"} => job[k].g.pending # p
          BY <1>0, <1>1, <3>2 DEF Apart
        <4>3. job[k].pc \in {"save", "suspend"} => job[k].g.pending \in Proposals
          BY <4>1 DEF JobOK, Owned, Named
        <4> QED BY <2>6, <2>8, <4>1, <4>2, <4>3 DEF JobOK
      <3> QED BY <3>1, <3>2
    <2>10. Apart'
      <3>1. \A k \in Jobs : job'[k].pc # "l0" => job'[k] = job[k]
        BY <2>4, <2>5
      <3> QED BY <3>1 DEF Apart
    <2>11. CheckpointsOK'
      <3> SUFFICES ASSUME NEW q \in Proposals
                   PROVE  /\ checkpoint'[q].status # "none" =>
                                /\ Owned(q, checkpoint[q].run)'
                                /\ checkpoint'[q].g.pending = q
                          /\ Budgeted(checkpoint[q].g)'
                          /\ verdict'[q] # "none" => checkpoint'[q].status = "consumed"
        BY DEF CheckpointsOK
      <3>1. CASE q = p
        BY <1>0, <2>1, <2>6, <3>1 DEF Owned, Budgeted
      <3>2. CASE q # p
        BY <1>0, <2>6, <3>2 DEF CheckpointsOK, Owned, Budgeted
      <3> QED BY <3>1, <3>2
    <2>12. RunsOK'
      <3> SUFFICES ASSUME NEW r \in Runs
                   PROVE  /\ run'[r].ckpt # None => Named(run[r].ckpt, r)'
                          /\ run'[r].status = "suspended" =>
                                /\ run'[r].ckpt # None
                                /\ checkpoint'[run'[r].ckpt].status = "active"
        BY <2>4, <2>5 DEF RunsOK
      <3>1. run' = run /\ (run[r].status = "suspended" => run[r].ckpt # p)
        BY <1>0, <1>1 DEF RunsOK
      <3>2. run[r].ckpt # None => Named(run[r].ckpt, r)
        BY DEF RunsOK
      <3>3. run'[r].ckpt # None => Named(run[r].ckpt, r)'
        BY <2>1, <2>6, <3>1, <3>2 DEF Named
      <3> QED BY <2>6, <3>1, <3>2, <3>3 DEF RunsOK, Named
    <2>13. Carried'
      <3> SUFFICES ASSUME NEW q \in done PROVE Approved(q, proposal[q].run)'
        BY <1>0 DEF Carried
      <3>1. PICK r : r = proposal[q].run /\ Approved(q, r)
        BY DEF Carried
      <3> QED BY <1>0, <2>8, <3>1
    <2> QED BY <2>7, <2>9, <2>10, <2>11, <2>12, <2>13
  <1> QED BY <1>1, <1>2, <1>3 DEF TakeCheckpoint

-----------------------------------------------------------------------------
(* The step, action by action. *)
LEMMA NextInv == Inv /\ [Next]_vars => Inv'
  <1> SUFFICES ASSUME Inv, [Next]_vars PROVE Inv'
    OBVIOUS
  <1>1. CASE UNCHANGED vars
    <2> USE <1>1 DEF vars
    <2>1. TypeOK' /\ Apart' /\ CheckpointsOK' /\ Carried'
      BY DEF Inv, TypeOK, Apart, CheckpointsOK, Carried, Owned, Approved
    <2>2. JobsOK' /\ RunsOK'
      BY DEF Inv, JobsOK, JobOK, RunsOK, Owned, Approved, Named, Unpublished
    <2> QED BY <2>1, <2>2 DEF Inv
  <1>2. ASSUME NEW w \in Workers, Worker(w) PROVE Inv'
    <2>0. w \in Jobs
      BY DEF Jobs
    <2>1. CASE ReclaimExpired(w)
      BY <2>0, <2>1, ReclaimExpiredInv
    <2>2. CASE ClaimPendingRun(w)
      BY <2>0, <2>2, ClaimPendingRunInv
    <2>3. CASE HandleFailure(w)
      BY <2>0, <2>3, HandleFailureInv
    <2> QED BY <1>2, <2>1, <2>2, <2>3 DEF Worker
  <1>3. ASSUME NEW j \in Jobs, Graph(j) PROVE Inv'
    <2>1. CASE GraphFails(j)
      BY <2>1, GraphFailsInv
    <2>2. CASE PlanNoAction(j)
      BY <2>2, PlanNoActionInv
    <2>3. CASE PlanQuery(j)
      BY <2>3, PlanQueryInv
    <2>4. CASE PlanProposal(j)
      BY <2>4, PlanProposalInv
    <2>5. CASE ExecuteQuery(j)
      BY <2>5, ExecuteQueryInv
    <2>6. CASE ExecuteEffect(j)
      BY <2>6, ExecuteEffectInv
    <2>7. CASE L0Execute(j)
      BY <2>7, L0ExecuteInv
    <2>8. CASE ReplanDecision(j)
      BY <2>8, ReplanDecisionInv
    <2>9. CASE BuildResponse(j)
      BY <2>9, BuildResponseInv
    <2>10. CASE MarkCompleted(j)
      BY <2>10, MarkCompletedInv
    <2>11. CASE SaveCheckpoint(j)
      BY <2>11, SaveCheckpointInv
    <2>12. CASE MarkSuspended(j)
      BY <2>12, MarkSuspendedInv
    <2> QED BY <1>3, <2>1, <2>2, <2>3, <2>4, <2>5, <2>6, <2>7, <2>8, <2>9, <2>10,
               <2>11, <2>12 DEF Graph
  <1>4. ASSUME NEW j \in Jobs, Fail(j) \/ Drop(j) PROVE Inv'
    BY <1>4, FaultInv
  <1>5. CASE Resume
    BY <1>5, ClaimSuspendedRunInv, TakeCheckpointInv DEF Resume
  <1>6. ASSUME NEW r \in Runs, EnsureActionRun(r) \/ LeaseExpires(r) PROVE Inv'
    BY <1>6, EnsureActionRunInv, LeaseExpiresInv
  <1>7. ASSUME NEW r \in Runs, NEW answer \in {"approve", "reject"},
               OwnerDecides(r, answer)
        PROVE  Inv'
    BY <1>7, OwnerDecidesInv
  <1> QED BY <1>1, <1>2, <1>3, <1>4, <1>5, <1>6, <1>7 DEF Next

LEMMA AlwaysInv == Spec => []Inv
  BY InitInv, NextInv, PTL DEF Spec

(* The state of the planner keeps its types; in particular no graph of any  *)
(* claim asks more queries than MAX_REPLAN_ROUNDS, resumes included.        *)
THEOREM WithinBudget == Spec => []TypeOK
  <1>1. Inv => TypeOK
    BY DEF Inv
  <1> QED BY <1>1, AlwaysInv, PTL

(* An action that the gate makes wait for the owner is carried out only     *)
(* after a resume has consumed his approval of that proposal.               *)
THEOREM OwnerApproves == Spec => []ImpactfulApproved
  <1>1. Inv => ImpactfulApproved
    BY DEF Inv, Carried, Approved, ImpactfulApproved
  <1> QED BY <1>1, AlwaysInv, PTL

(* What mark_suspended publishes can be resumed until it is: the checkpoint *)
(* is active, its run's own, and no answer has been consumed for it.        *)
THEOREM SuspendedCanResume == Spec => []SuspendedResumable
  <1>1. ASSUME Inv PROVE SuspendedResumable
    <2> SUFFICES ASSUME NEW r \in Runs, run[r].status = "suspended"
                 PROVE  /\ run[r].ckpt # None
                        /\ checkpoint[run[r].ckpt].status = "active"
                        /\ checkpoint[run[r].ckpt].run = r
                        /\ checkpoint[run[r].ckpt].g.pending = run[r].ckpt
                        /\ verdict[run[r].ckpt] = "none"
      BY DEF SuspendedResumable
    <2>1. /\ run[r].ckpt # None /\ Named(run[r].ckpt, r)
          /\ checkpoint[run[r].ckpt].status = "active"
      BY <1>1 DEF Inv, RunsOK
    <2> QED BY <1>1, <2>1 DEF Inv, CheckpointsOK, Named
  <1> QED BY <1>1, AlwaysInv, PTL

-----------------------------------------------------------------------------
(* What a step does to an ended run. *)
Final(r) == /\ run'[r] = run[r]
            /\ \A p \in done' \ done : proposal[p].run # r

LEMMA EndedStep ==
    ASSUME Inv, Next, NEW r \in Runs, run[r].status \in {"completed", "failed"}
    PROVE  Final(r)
  <1>0. TypeOK /\ JobsOK
    BY DEF Inv
  <1>1. ASSUME NEW w \in Workers, Worker(w) PROVE Final(r)
    <2>1. CASE ReclaimExpired(w)
      BY <1>0, <2>1 DEF ReclaimExpired, Reclaimed, Final
    <2>2. CASE ClaimPendingRun(w)
      BY <1>0, <2>2 DEF ClaimPendingRun, OldestPending, Final, TypeOK
    <2>3. CASE HandleFailure(w)
      BY <1>0, <2>3 DEF HandleFailure, Owns, Final, TypeOK
    <2> QED BY <1>1, <2>1, <2>2, <2>3 DEF Worker
  <1>2. ASSUME NEW j \in Jobs, Graph(j) PROVE Final(r)
    <2>1. CASE ExecuteEffect(j)
      <3>1. CASE UNCHANGED <<done, run>>
        BY <3>1 DEF Final
      <3>2. ASSUME NEW revoked \in SUBSET Revocable, Commits(j),
                   done' = done \cup {job[j].g.pending},
                   run' = [s \in Runs |-> IF s \in revoked
                                          THEN [run[s] EXCEPT !.status = "failed"]
                                          ELSE run[s]]
            PROVE  Final(r)
        <4>1. r \notin revoked /\ run'[r] = run[r]
          BY <3>2 DEF Revocable
        <4>2. Approved(job[j].g.pending, job[j].run)
          BY <1>0, <2>1 DEF JobsOK, JobOK, ExecuteEffect
        <4>3. job[j].run # r
          BY <3>2 DEF Commits, Owns
        <4> QED BY <3>2, <4>1, <4>2, <4>3 DEF Final, Approved, Owned
      <3> QED BY <2>1, <3>1, <3>2 DEF ExecuteEffect
    <2>2. CASE MarkCompleted(j)
      BY <1>0, <2>2 DEF MarkCompleted, Owns, Final, TypeOK
    <2>3. CASE MarkSuspended(j)
      BY <1>0, <2>3 DEF MarkSuspended, Owns, Final, TypeOK
    <2>4. CASE UNCHANGED <<run, done>>
      BY <2>4 DEF Final
    <2> QED BY <1>2, <2>1, <2>2, <2>3, <2>4
            DEF Graph, GraphFails, PlanNoAction, PlanQuery, PlanProposal,
                ExecuteQuery, L0Execute, ReplanDecision, BuildResponse,
                SaveCheckpoint
  <1>3. ASSUME NEW j \in Jobs, Fail(j) \/ Drop(j) PROVE Final(r)
    BY <1>3 DEF Fail, Drop, Final
  <1>4. CASE Resume
    <2>1. CASE ClaimSuspendedRun
      BY <1>0, <2>1 DEF ClaimSuspendedRun, Final, TypeOK
    <2>2. CASE TakeCheckpoint
      BY <2>2 DEF TakeCheckpoint, Final
    <2> QED BY <1>4, <2>1, <2>2 DEF Resume
  <1>5. ASSUME NEW s \in Runs, EnsureActionRun(s) \/ LeaseExpires(s) PROVE Final(r)
    BY <1>0, <1>5 DEF EnsureActionRun, LeaseExpires, Final, TypeOK
  <1>6. ASSUME NEW s \in Runs, NEW answer \in {"approve", "reject"},
               OwnerDecides(s, answer)
        PROVE  Final(r)
    BY <1>6 DEF OwnerDecides, Final
  <1> QED BY <1>1, <1>2, <1>3, <1>4, <1>5, <1>6 DEF Next

(* An action run that is completed, or failed by a restriction of its       *)
(* conversation, never changes again, and no effect is committed for it any *)
(* more, by no job whatever it held before.                                 *)
THEOREM EndedForGood == Spec => EndedIsFinal
  <1> DEFINE E == \A r \in Runs : run[r].status \in {"completed", "failed"} =>
                     /\ run'[r] = run[r]
                     /\ \A p \in done' \ done : proposal[p].run # r
  <1>1. Inv /\ [Next]_vars => [E]_vars
    BY EndedStep DEF Final
  <1>2. EndedIsFinal <=> [][E]_vars
    BY DEF EndedIsFinal
  <1> QED BY <1>1, <1>2, AlwaysInv, PTL DEF Spec
===============================================================================
