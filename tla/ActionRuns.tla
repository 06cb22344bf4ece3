------------------------------ MODULE ActionRuns ------------------------------
(***************************************************************************)
(* An owner command becomes an action run; a planner worker claims it      *)
(* under a lease and drives the action graph                               *)
(*                                                                         *)
(*   plan -> l0_execute -> replan_decision -> plan | build_response -> end *)
(*                                                                         *)
(* Impactful actions suspend the graph in a checkpoint; the owner's answer *)
(* arrives at the QQ gateway, whose handler resumes the graph itself.      *)
(*                                                                         *)
(*   application/planner_service.rs, application/action_graph/*.rs,        *)
(*   domain/agent_runtime/{state,validation}.rs, domain/planner.rs,        *)
(*   agent-core graph/{runtime,budget}.rs, mysql_action_store/*.rs,        *)
(*   action_planner_worker.rs, adapters/qq_open_platform.rs                *)
(*                                                                         *)
(* A lease token is named by the job that drew it: a job works on one      *)
(* claim at a time.  A checkpoint is named by the proposal it waits for.   *)
(* The OwnerBinding every claim re-checks is written at start-up only and  *)
(* stays active here.                                                      *)
(***************************************************************************)
EXTENDS Integers, FiniteSets

CONSTANTS Workers,       \* planner workers
          Gateway,       \* the handler of gateway events, one at a time
          MaxRuns,       \* bound: owner commands
          MaxProposals,  \* bound: proposals that write or wait for the owner
          MaxReplanRounds,
          MaxSteps,      \* nodes a graph may run, resumes included
          MaxFaults,     \* bound: failed steps, dropped jobs, leases too short
          Poisoned       \* runs whose planning never succeeds

ASSUME BoundsAssumption ==
    /\ {MaxRuns, MaxProposals, MaxSteps, MaxFaults} \subseteq Nat
    /\ MaxReplanRounds \in Nat \ {0}
ASSUME JobsAssumption == Gateway \notin Workers

Runs == 1..MaxRuns
Proposals == 1..MaxProposals
Jobs == Workers \cup {Gateway}
None == 0

VARIABLES
    run,         \* secretary_action_runs
    proposal,    \* proposals accepted by the gate
    checkpoint,  \* secretary_action_checkpoints
    verdict,     \* the owner's answer a resume has consumed
    done,        \* proposals with a receipt in secretary_action_effect_receipts
    job,         \* what each worker and the gateway handler is doing
    faults

vars == <<run, proposal, checkpoint, verdict, done, job, faults>>

Receipts == {"none", "query", "ambiguous", "conflict", "other"}

(* SecretaryAgentState and the budget of the run, as far as control uses    *)
(* them: observed tells that the last receipt is among the observations,    *)
(* open that a reference is unresolved, conflict that a memory conflict was *)
(* read back.                                                               *)
FreshGraph == [phase |-> "other", pending |-> None, receipt |-> "none",
               observed |-> FALSE, rounds |-> 0, open |-> FALSE,
               conflict |-> FALSE, outcome |-> FALSE, steps |-> 0]
Idle == [pc |-> "idle", run |-> None, after |-> "l0", verdict |-> "none",
         g |-> FreshGraph]
NoCheckpoint == [status |-> "none", run |-> None, g |-> FreshGraph]

Init == /\ run = [r \in Runs |-> [status |-> "none", holder |-> Gateway,
                                  expired |-> FALSE, ckpt |-> None]]
        /\ proposal = [p \in Proposals |-> [kind |-> "none", run |-> None]]
        /\ checkpoint = [p \in Proposals |-> NoCheckpoint]
        /\ verdict = [p \in Proposals |-> "none"]
        /\ done = {}
        /\ job = [j \in Jobs |-> Idle]
        /\ faults = 0

(* Every commit of progress is a CAS on lease_token and status.  That the   *)
(* lease has run out is of no matter to most until a scan takes it away.    *)
Owns(j) == LET r == job[j].run
           IN r # None /\ run[r].status = "running" /\ run[r].holder = j

Goto(j, pc, g) == job' = [job EXCEPT ![j].pc = pc, ![j].g = g]

(* An error: run_once goes on to handle_failure, resume_run returns and     *)
(* leaves its lease to run out.                                             *)
Fails(j) == job' = [job EXCEPT ![j] = IF j = Gateway THEN Idle
                                      ELSE [@ EXCEPT !.pc = "failed"]]

-----------------------------------------------------------------------------
(* Runs and leases. *)

(* ensure_action_run; a command delivered again finds its run. *)
EnsureActionRun(r) ==
    /\ run[r].status = "none"
    /\ \A s \in Runs : s < r => run[s].status # "none"
    /\ run' = [run EXCEPT ![r].status = "pending"]
    /\ UNCHANGED <<proposal, checkpoint, verdict, done, job, faults>>

(* Mutant: a lease that ran out is not taken away. *)
Reclaimed_Never(row) == row

Reclaimed(row) == IF row.status = "running" /\ row.expired
                  THEN [row EXCEPT !.status = "pending", !.expired = FALSE]
                  ELSE row

(* claim_pending_run, first statement. *)
ReclaimExpired(w) ==
    /\ job[w].pc = "idle"
    /\ run' = [r \in Runs |-> Reclaimed(run[r])]
    /\ Goto(w, "claim", FreshGraph)
    /\ UNCHANGED <<proposal, checkpoint, verdict, done, faults>>

(* Oldest first.  A failed run is eligible at once: run_once passes attempt *)
(* 1, and handle_failure divides its 500 ms down to zero seconds.           *)
OldestPending(r) == /\ run[r].status = "pending"
                    /\ \A s \in Runs : s < r => run[s].status # "pending"

ClaimPendingRun(w) ==
    /\ job[w].pc = "claim"
    /\ \/ \E r \in Runs :
            /\ OldestPending(r)
            /\ run' = [run EXCEPT ![r].status = "running", ![r].holder = w,
                                  ![r].expired = FALSE]
            /\ job' = [job EXCEPT ![w] = [Idle EXCEPT !.pc = "plan", !.run = r]]
       \/ /\ \A r \in Runs : run[r].status # "pending"
          /\ job' = [job EXCEPT ![w] = Idle]
          /\ UNCHANGED run
    /\ UNCHANGED <<proposal, checkpoint, verdict, done, faults>>

(* handle_failure: mark_failed or release_lease, both back to pending. *)
HandleFailure(w) ==
    /\ job[w].pc = "failed"
    /\ run' = IF Owns(w) THEN [run EXCEPT ![job[w].run].status = "pending"] ELSE run
    /\ job' = [job EXCEPT ![w] = Idle]
    /\ UNCHANGED <<proposal, checkpoint, verdict, done, faults>>

Working(j) == job[j].pc \notin {"idle", "claim"}

(* A deadline, a database or model error, a rejected planner output, an     *)
(* effect its store refuses.                                                *)
Fail(j) ==
    /\ Working(j) /\ job[j].pc # "failed"
    /\ faults < MaxFaults
    /\ faults' = faults + 1
    /\ Fails(j)
    /\ UNCHANGED <<run, proposal, checkpoint, verdict, done>>

(* Shutdown drops the future, the process dies, or handle_failure fails. *)
Drop(j) ==
    /\ Working(j)
    /\ faults < MaxFaults
    /\ faults' = faults + 1
    /\ job' = [job EXCEPT ![j] = Idle]
    /\ UNCHANGED <<run, proposal, checkpoint, verdict, done>>

Held(r) == \E j \in Jobs : job[j].run = r /\ Owns(j)

(* Time: the lease of a lost job runs out, that of a slow one may. *)
LeaseExpires(r) ==
    /\ run[r].status = "running" /\ ~run[r].expired
    /\ IF Held(r) THEN faults < MaxFaults /\ faults' = faults + 1
                  ELSE UNCHANGED faults
    /\ run' = [run EXCEPT ![r].expired = TRUE]
    /\ UNCHANGED <<proposal, checkpoint, verdict, done, job>>

-----------------------------------------------------------------------------
(* The graph: execute_from, one node per step. *)

Stepped(j) == [job[j].g EXCEPT !.steps = @ + 1]
AtNode(j, node) == job[j].pc = node /\ job[j].g.steps < MaxSteps

(* The step budget is used up, or the planner fails on this command         *)
(* whenever it is asked.                                                    *)
GraphFails(j) ==
    /\ job[j].pc \in {"plan", "l0", "replan", "build"}
    /\ \/ job[j].g.steps >= MaxSteps
       \/ job[j].pc = "plan" /\ job[j].run \in Poisoned
    /\ Fails(j)
    /\ UNCHANGED <<run, proposal, checkpoint, verdict, done, faults>>

PlanNoAction(j) ==
    /\ AtNode(j, "plan") /\ job[j].run \notin Poisoned
    /\ Goto(j, "l0", [Stepped(j) EXCEPT !.outcome = TRUE])
    /\ UNCHANGED <<run, proposal, checkpoint, verdict, done, faults>>

(* After an unresolved reference only a clarification may follow, after a   *)
(* conflict only a clarification or a correction, which is impactful.       *)
MayPropose(g, kind) == /\ g.open => kind = "clarify"
                       /\ g.conflict => kind \in {"clarify", "impactful"}

(* An L0 tool: accepted and executed in the plan step. *)
PlanQuery(j) ==
    /\ AtNode(j, "plan") /\ job[j].run \notin Poisoned
    /\ MayPropose(job[j].g, "query")
    /\ Goto(j, "query", [Stepped(j) EXCEPT !.phase = "execute", !.pending = None])
    /\ UNCHANGED <<run, proposal, checkpoint, verdict, done, faults>>

Waits(kind) == kind \in {"impactful", "clarify"}

(* gate_secretary_action: execute in the plan step, or suspend. *)
GateTo(kind) == IF Waits(kind) THEN "save" ELSE "effect"

PlanProposal(j) ==
    \E kind \in {"write", "impactful", "clarify"}, p \in Proposals :
        /\ AtNode(j, "plan") /\ job[j].run \notin Poisoned
        /\ MayPropose(job[j].g, kind)
        /\ proposal[p].kind = "none"
        /\ \A q \in Proposals : q < p => proposal[q].kind # "none"
        /\ proposal' = [proposal EXCEPT ![p] = [kind |-> kind, run |-> job[j].run]]
        /\ job' = [job EXCEPT ![j].pc = GateTo(kind), ![j].after = "l0",
                              ![j].g = [Stepped(j) EXCEPT !.phase = "execute",
                                                          !.pending = p]]
        /\ UNCHANGED <<run, checkpoint, verdict, done, faults>>

(* ActionCompleted. *)
WithReceipt(g, receipt) ==
    [g EXCEPT !.phase = "other", !.pending = None, !.receipt = receipt,
              !.observed = FALSE]

ExecuteQuery(j) ==
    /\ job[j].pc = "query"
    /\ IF Owns(j)
       THEN \E receipt \in {"query", "ambiguous", "other"} :
                Goto(j, "l0", WithReceipt(job[j].g, receipt))
       ELSE Fails(j)
    /\ UNCHANGED <<run, proposal, checkpoint, verdict, done, faults>>

(* Mutant: the receipt is written without the lease. *)
Commits_Unfenced(j) == TRUE

Commits(j) == Owns(j)

(* What an effect does besides its receipt: nothing; meet a memory conflict *)
(* (the approval of a memory candidate); or restrict a conversation, which  *)
(* fails the other runs that quote it.  The last two are impactful, and a   *)
(* conflict round may not propose them.                                     *)
Effect(j, receipt, revoked) ==
    \/ receipt = "other" /\ revoked = {}
    \/ /\ proposal[job[j].g.pending].kind = "impactful" /\ ~job[j].g.conflict
       /\ \/ receipt = "conflict" /\ revoked = {}
          \/ receipt = "other" /\ job[j].run \notin revoked

Revocable == {r \in Runs : run[r].status \in {"pending", "running", "suspended"}}

(* SecretaryActionEffectExecutor and the transaction of its store; most     *)
(* stores, not all, refuse a lease that has run out.                        *)
ExecuteEffect(j) ==
    LET g == job[j].g
    IN /\ job[j].pc = "effect"
       /\ \/ \E receipt \in Receipts, revoked \in SUBSET Revocable :
               /\ Commits(j) /\ Effect(j, receipt, revoked)
               /\ done' = done \cup {g.pending}
               /\ run' = [r \in Runs |-> IF r \in revoked
                                         THEN [run[r] EXCEPT !.status = "failed"]
                                         ELSE run[r]]
               /\ Goto(j, job[j].after, WithReceipt(g, receipt))
          \/ /\ ~Commits(j) \/ run[job[j].run].expired
             /\ Fails(j)
             /\ UNCHANGED <<done, run>>
       /\ UNCHANGED <<proposal, checkpoint, verdict, faults>>

(* Mutant: the phase is not consulted. *)
Executes_AnyPhase(g) == g.pending # None

(* L0ExecuteNode: a resumed proposal that was approved. *)
Executes(g) == g.phase = "execute" /\ g.pending # None

L0Execute(j) ==
    /\ AtNode(j, "l0")
    /\ job' = [job EXCEPT ![j].pc = IF Executes(job[j].g) THEN "effect" ELSE "replan",
                          ![j].after = "replan", ![j].g = Stepped(j)]
    /\ UNCHANGED <<run, proposal, checkpoint, verdict, done, faults>>

(* ReplanDecisionNode. *)
Observation(g) ==
    IF g.outcome THEN g
    ELSE IF g.receipt = "conflict" THEN [g EXCEPT !.conflict = TRUE]
    ELSE IF g.receipt \in {"query", "ambiguous"}
         THEN [g EXCEPT !.rounds = IF g.observed THEN @ ELSE @ + 1,
                        !.observed = TRUE,
                        !.open = @ \/ g.receipt = "ambiguous"]
    ELSE g

(* ReplanRouter. *)
Continues(g) == /\ ~g.outcome
                /\ \/ g.receipt = "conflict"
                   \/ g.receipt \in {"query", "ambiguous"} /\ g.rounds < MaxReplanRounds

ReplanDecision(j) ==
    /\ AtNode(j, "replan")
    /\ LET g == Observation(Stepped(j))
       IN Goto(j, IF Continues(g) THEN "plan" ELSE "build", g)
    /\ UNCHANGED <<run, proposal, checkpoint, verdict, done, faults>>

BuildResponse(j) ==
    /\ AtNode(j, "build")
    /\ Goto(j, "complete", [Stepped(j) EXCEPT !.phase = "respond", !.outcome = TRUE])
    /\ UNCHANGED <<run, proposal, checkpoint, verdict, done, faults>>

MarkCompleted(j) ==
    /\ job[j].pc = "complete"
    /\ IF Owns(j)
       THEN /\ run' = [run EXCEPT ![job[j].run].status = "completed"]
            /\ job' = [job EXCEPT ![j] = Idle]
       ELSE Fails(j) /\ UNCHANGED run
    /\ UNCHANGED <<proposal, checkpoint, verdict, done, faults>>

-----------------------------------------------------------------------------
(* Suspension and resume. *)

(* Mutant: the suspension is published without its checkpoint. *)
Saved_Not(j) == checkpoint

Saved(j) == [checkpoint EXCEPT ![job[j].g.pending] =
                [status |-> "active", run |-> job[j].run, g |-> job[j].g]]

(* CheckpointStore::save carries no lease. *)
SaveCheckpoint(j) ==
    /\ job[j].pc = "save"
    /\ checkpoint' = Saved(j)
    /\ Goto(j, "suspend", job[j].g)
    /\ UNCHANGED <<run, proposal, verdict, done, faults>>

MarkSuspended(j) ==
    /\ job[j].pc = "suspend"
    /\ IF Owns(j)
       THEN /\ run' = [run EXCEPT ![job[j].run].status = "suspended",
                                  ![job[j].run].ckpt = job[j].g.pending]
            /\ job' = [job EXCEPT ![j] = Idle]
       ELSE Fails(j) /\ UNCHANGED run
    /\ UNCHANGED <<proposal, checkpoint, verdict, done, faults>>

(* try_resume_owner_approval: the answer names exactly one suspended run.   *)
(* An answer without a short id, which must find a single suspended run, is *)
(* the same step.                                                           *)
OwnerDecides(r, answer) ==
    /\ job[Gateway].pc = "idle"
    /\ run[r].status = "suspended"
    /\ job' = [job EXCEPT ![Gateway] =
                 [Idle EXCEPT !.pc = "resume", !.run = r, !.verdict = answer,
                              !.g = [FreshGraph EXCEPT !.pending = run[r].ckpt]]]
    /\ UNCHANGED <<run, proposal, checkpoint, verdict, done, faults>>

ClaimSuspendedRun ==
    LET r == job[Gateway].run
    IN /\ job[Gateway].pc = "resume"
       /\ IF run[r].status = "suspended" /\ run[r].ckpt = job[Gateway].g.pending
          THEN /\ run' = [run EXCEPT ![r].status = "running", ![r].holder = Gateway,
                                     ![r].expired = FALSE]
               /\ Goto(Gateway, "take", job[Gateway].g)
          ELSE Fails(Gateway) /\ UNCHANGED run
       /\ UNCHANGED <<proposal, checkpoint, verdict, done, faults>>

(* resume_with_context: load, ApprovalResolved, take; no lease is checked.  *)
Resumed(g, answer) ==
    [g EXCEPT !.phase = IF answer = "approve" THEN "execute" ELSE "respond"]

TakeCheckpoint ==
    LET p == job[Gateway].g.pending
    IN /\ job[Gateway].pc = "take"
       /\ IF checkpoint[p].status = "active"
          THEN /\ checkpoint' = [checkpoint EXCEPT ![p].status = "consumed"]
               /\ verdict' = [verdict EXCEPT ![p] = job[Gateway].verdict]
               /\ Goto(Gateway, "l0", Resumed(checkpoint[p].g, job[Gateway].verdict))
          ELSE Fails(Gateway) /\ UNCHANGED <<checkpoint, verdict>>
       /\ UNCHANGED <<run, proposal, done, faults>>

-----------------------------------------------------------------------------
Worker(w) == ReclaimExpired(w) \/ ClaimPendingRun(w) \/ HandleFailure(w)
Graph(j) == \/ GraphFails(j) \/ PlanNoAction(j) \/ PlanQuery(j) \/ PlanProposal(j)
            \/ ExecuteQuery(j) \/ ExecuteEffect(j) \/ L0Execute(j)
            \/ ReplanDecision(j) \/ BuildResponse(j) \/ MarkCompleted(j)
            \/ SaveCheckpoint(j) \/ MarkSuspended(j)
Resume == ClaimSuspendedRun \/ TakeCheckpoint

Next == \/ \E w \in Workers : Worker(w)
        \/ \E j \in Jobs : Graph(j) \/ Fail(j) \/ Drop(j)
        \/ Resume
        \/ \E r \in Runs : EnsureActionRun(r) \/ LeaseExpires(r)
        \/ \E r \in Runs, answer \in {"approve", "reject"} : OwnerDecides(r, answer)

Spec == Init /\ [][Next]_vars

(* Workers scan and run their graph until it ends, the gateway handler too, *)
(* and time passes.  Faults, commands and answers need not come.            *)
FairSpec ==
    /\ Spec
    /\ \A w \in Workers : WF_vars(Worker(w) \/ Graph(w))
    /\ WF_vars(Graph(Gateway) \/ Resume)
    /\ \A r \in Runs : WF_vars(~Held(r) /\ LeaseExpires(r))

-----------------------------------------------------------------------------
Pcs == {"idle", "claim", "plan", "query", "effect", "l0", "replan", "build",
        "complete", "save", "suspend", "resume", "take", "failed"}
Verdicts == {"none", "approve", "reject"}
Graphs == [phase : {"other", "execute", "respond"}, pending : 0..MaxProposals,
           receipt : Receipts, observed : BOOLEAN, rounds : 0..MaxReplanRounds,
           open : BOOLEAN, conflict : BOOLEAN, outcome : BOOLEAN,
           steps : 0..MaxSteps]

RunRows == [status : {"none", "pending", "running", "suspended", "completed",
                      "failed"},
            holder : Jobs, expired : BOOLEAN, ckpt : 0..MaxProposals]
ProposalRows == [kind : {"none", "write", "impactful", "clarify"},
                 run : 0..MaxRuns]
CheckpointRows == [status : {"none", "active", "consumed"}, run : 0..MaxRuns,
                   g : Graphs]
JobRecords == [pc : Pcs, run : 0..MaxRuns, after : {"l0", "replan"},
               verdict : Verdicts, g : Graphs]

(* Every variable keeps its type; no graph asks more queries than           *)
(* MAX_REPLAN_ROUNDS allows.                                                *)
TypeOK ==
    /\ run \in [Runs -> RunRows]
    /\ proposal \in [Proposals -> ProposalRows]
    /\ checkpoint \in [Proposals -> CheckpointRows]
    /\ verdict \in [Proposals -> Verdicts]
    /\ done \subseteq Proposals
    /\ job \in [Jobs -> JobRecords]
    /\ faults \in 0..MaxFaults

(* ImpactfulApproved: an action the gate suspends is carried out only on    *)
(* the owner's approval of that very proposal, whatever jobs were dropped,  *)
(* leases lost and graphs resumed in between.                               *)
ImpactfulApproved ==
    \A p \in done : Waits(proposal[p].kind) => verdict[p] = "approve"

(* SuspendedResumable: a suspended run can be resumed: its checkpoint is    *)
(* there, unconsumed, its own, and holds the proposal the owner was asked   *)
(* about.                                                                   *)
SuspendedResumable ==
    \A r \in Runs : run[r].status = "suspended" =>
        /\ run[r].ckpt # None
        /\ checkpoint[run[r].ckpt].status = "active"
        /\ checkpoint[run[r].ckpt].run = r
        /\ checkpoint[run[r].ckpt].g.pending = run[r].ckpt
        /\ verdict[run[r].ckpt] = "none"

(* EndedIsFinal: a run that has been answered or revoked stays so, and      *)
(* nothing is carried out for it any more, not by a job that lost its lease *)
(* earlier nor by one that works on it at that moment.                      *)
EndedIsFinal ==
    [][\A r \in Runs : run[r].status \in {"completed", "failed"} =>
          /\ run'[r] = run[r]
          /\ \A p \in done' \ done : proposal[p].run # r]_vars

(* RunsAnswered: a pending run is completed or revoked, or waits for the    *)
(* owner, in the end, whatever it takes.                                    *)
RunsAnswered ==
    \A r \in Runs : run[r].status = "pending"
                      ~> run[r].status \in {"completed", "suspended", "failed"}

(* HealthyServed: failures are backed off run by run, so a run is not kept  *)
(* waiting by another one that fails whenever it is planned.                *)
HealthyServed ==
    \A r \in Runs \ Poisoned : run[r].status = "pending"
                                 ~> run[r].status # "pending"
===============================================================================
