-------------------------- MODULE GapBackfill_proofs ---------------------------
(***************************************************************************)
(* Proofs about GapBackfill for any number of epochs, conversations, tasks *)
(* and runs, whatever the source answers and whenever leases run out.      *)
(***************************************************************************)
EXTENDS GapBackfill, TLAPS

Inv == TablesOK /\ TasksOK /\ Leases

LEMMA Bounds == /\ MaxEpochs \in Nat /\ NumConversations \in Nat
                /\ MaxRuns \in Nat /\ MaxPages \in Nat
  BY BoundsAssumption

LEMMA InitInv == Init => Inv
  <1> SUFFICES ASSUME Init PROVE Inv
    OBVIOUS
  <1> USE Bounds DEF Init, Runs, Epochs, Conversations
  <1>f. Fresh \in Progress
    BY DEF Fresh, Progress, ScopeStates, Anomalies
  <1>1. TablesOK
    BY <1>f DEF TablesOK, NoGap, UnusedRun, GapStates, RunStates, GapRows, RunRows
  <1>2. TasksOK
    BY <1>f DEF TasksOK, TaskRecords, Idle, NoRun, NoConversation
  <1>3. Leases
    BY DEF Leases, RunsInOrder, OneActiveRun, Active, TokensIssued, TokensUnique,
           TasksPlaced, EvidenceIsPersisted, UnusedRun, Idle, NoGap, NoRun
  <1> QED BY <1>1, <1>2, <1>3 DEF Inv

(* The connection loop touches gaps, never a run or a task, and never moves *)
(* a gap into or out of backfilling.                                        *)
LEMMA LinkInv == ASSUME Inv, Link PROVE Inv'
  <1> USE Bounds DEF Inv
  <1>0. /\ UNCHANGED <<runVars, task>>
        /\ known' \subseteq Conversations
    BY DEF Link, Begin, Connected, ConnectFails, Disconnect, MarkUncertain,
           Message, Signal, TablesOK, linkVars, runVars, gapVars
  <1>w. ASSUME NEW e \in Epochs
        PROVE  /\ WithGap(e) \in GapRows
               /\ WithGap(e).status = "backfilling" <=> gap[e].status = "backfilling"
    BY DEF WithGap, NoGap, TablesOK, GapStates, GapRows
  <1>1. /\ gap' \in [Epochs -> GapRows]
        /\ \A e \in Epochs : gap'[e].status = "backfilling"
                                <=> gap[e].status = "backfilling"
    <2>1. CASE Connected
      <3> DEFINE G(e) == IF gap[e].status # "none"
                         THEN [gap[e] EXCEPT !.ended = TRUE] ELSE gap[e]
      <3>1. ASSUME NEW e \in Epochs
            PROVE  /\ G(e) \in GapRows
                   /\ G(e).status = gap[e].status
        BY DEF TablesOK, GapRows
      <3>2. gap' = [e \in Epochs |-> G(e)]
        BY <2>1 DEF Connected
      <3> HIDE DEF G
      <3> QED BY <3>1, <3>2
    <2>2. CASE Disconnect \/ MarkUncertain
      BY <2>2, <1>w DEF Disconnect, MarkUncertain, TablesOK
    <2>3. ASSUME NEW c \in Conversations, Signal(c)
          PROVE <1>1!1 /\ <1>1!2
      BY <2>3, <1>w DEF Signal, TablesOK, GapRows
    <2>4. CASE UNCHANGED gap
      BY <2>4 DEF TablesOK
    <2> QED
      BY <2>1, <2>2, <2>3, <2>4 DEF Link, Begin, ConnectFails, Message, gapVars
  <1>2. TablesOK'
    BY <1>0, <1>1 DEF TablesOK, runVars
  <1>3. TasksOK'
    BY <1>0 DEF TasksOK
  <1>4. Leases'
    <2>1. OneActiveRun'
      BY <1>0, <1>1 DEF Leases, OneActiveRun, Active, runVars
    <2>2. EvidenceIsPersisted'
      BY <1>0 DEF Leases, EvidenceIsPersisted, Owns, runVars
    <2> QED
      BY <1>0, <2>1, <2>2 DEF Leases, RunsInOrder, TokensIssued, TokensUnique,
                              TasksPlaced, runVars
  <1> QED BY <1>2, <1>3, <1>4

(* A task becomes idle and nothing else changes. *)
LEMMA IdleInv ==
    ASSUME Inv, NEW w \in Tasks, task' = [task EXCEPT ![w] = Idle],
           UNCHANGED <<known, gap, runVars>>
    PROVE  Inv'
  <1> USE Bounds DEF Inv, runVars
  <1>1. TablesOK'
    BY DEF TablesOK
  <1>2. TasksOK'
    <2>1. Fresh \in Progress
      BY DEF Fresh, Progress, ScopeStates, Anomalies
    <2>2. Idle \in TaskRecords
      BY <2>1 DEF Idle, NoRun, NoConversation, TaskRecords
    <2> QED BY <2>2 DEF TasksOK
  <1>i. Idle.pc = "idle" /\ Idle.token = 0
    BY DEF Idle
  <1>n. \A v \in Tasks : task'[v] = IF v = w THEN Idle ELSE task[v]
    BY DEF TasksOK
  <1>3. RunsInOrder' /\ OneActiveRun'
    BY DEF Leases, RunsInOrder, OneActiveRun, Active
  <1>4. TokensIssued' /\ TokensUnique' /\ TasksPlaced'
    BY <1>i, <1>n DEF Leases, TokensIssued, TokensUnique, TasksPlaced, TablesOK
  <1>5. EvidenceIsPersisted'
    BY <1>i, <1>n DEF Leases, EvidenceIsPersisted, Owns
  <1> QED BY <1>1, <1>2, <1>3, <1>4, <1>5 DEF Leases

(* A fresh token cannot be that of another task. *)
LEMMA WorkingOK ==
    ASSUME Inv, NEW r \in Runs
    PROVE  /\ Working(r) \in
                TaskRecords
           /\ Working(r).pc = "load" /\ Working(r).run = r
           /\ Working(r).token = tokens + 1
  <1>1. Fresh \in Progress
    BY Bounds DEF Fresh, Progress, ScopeStates, Anomalies
  <1> QED BY <1>1, Bounds DEF Working, Inv, TablesOK, Runs, NoConversation, TaskRecords

LEMMA ClaimInv == ASSUME Inv, NEW w \in Tasks, ClaimNextGap(w) PROVE Inv'
  <1> USE Bounds DEF Inv
  <1>e. PICK e \in Epochs :
          /\ Eligible(e)
          /\ gap' = [gap EXCEPT ![e].status = "backfilling"]
          /\ run' = [run EXCEPT ![runs + 1] = NewRun(e)]
    BY DEF ClaimNextGap
  <1> DEFINE new == runs + 1
             R == NewRun(e)
  <1>0. /\ new \in Runs /\ runs' = new /\ tokens' = tokens + 1
        /\ UNCHANGED <<known>> /\ task' = [task EXCEPT ![w] = Working(new)]
        /\ task[w].pc = "idle"
    BY DEF ClaimNextGap, linkVars, TablesOK, Runs
  <1>r. /\ R \in RunRows
        /\ R.status = "backfilling" /\ R.gap = e /\ R.token = tokens + 1
    <2>1. Fresh \in Progress
      BY DEF Fresh, Progress, ScopeStates, Anomalies
    <2> QED BY <2>1 DEF NewRun, RunStates, RunRows, TablesOK, Epochs
  <1>g. /\ \A d \in Epochs : gap'[d].status = IF d = e THEN "backfilling"
                                                       ELSE gap[d].status
        /\ gap[e].status = "uncertain"
    BY <1>e DEF TablesOK, GapRows, Eligible
  <1>q. \A r \in Runs : run'[r] = IF r = new THEN R ELSE run[r]
    BY <1>e, <1>0 DEF TablesOK
  <1>n. \A v \in Tasks : task'[v] = IF v = w THEN Working(new) ELSE task[v]
    BY <1>0 DEF TasksOK
  <1>f. run[new].status = "none"
    BY <1>0 DEF Leases, RunsInOrder, TablesOK
  <1>t. tokens \in Nat /\ runs \in Nat
    BY DEF TablesOK
  <1>1. TablesOK'
    <2>1. run' \in [Runs -> RunRows]
      BY <1>e, <1>0, <1>r DEF TablesOK
    <2>2. gap' \in [Epochs -> GapRows]
      BY <1>e DEF TablesOK, GapStates, GapRows
    <2> QED BY <2>1, <2>2, <1>0, <1>t DEF TablesOK, Runs
  <1>2. TasksOK'
    BY <1>0, WorkingOK DEF TasksOK
  <1> HIDE DEF R, new
  <1>3. RunsInOrder'
    BY <1>q, <1>0, <1>t DEF Leases, RunsInOrder, new, Runs
  <1>4. OneActiveRun'
    BY <1>q, <1>g, <1>f, <1>r, <1>0 DEF Leases, OneActiveRun, Active
  <1>5. TokensIssued'
    <2>1. /\ \A s \in Runs : run[s].token \in Nat /\ run[s].token <= tokens
          /\ \A v \in Tasks : task[v].token \in Nat /\ task[v].token <= tokens
      BY DEF Leases, TokensIssued, TablesOK, TasksOK, RunRows, TaskRecords
    <2>2. \A s \in Runs : run'[s].token <= tokens + 1
      BY <2>1, <1>q, <1>r, <1>t
    <2>3. \A v \in Tasks : task'[v].token <= tokens + 1
      BY <2>1, <1>n, <1>0, <1>t, WorkingOK
    <2> QED BY <2>2, <2>3, <1>0 DEF TokensIssued
  <1>6. TokensUnique'
    BY <1>n, <1>0, <1>t, WorkingOK DEF Leases, TokensUnique, TokensIssued, TasksOK,
                                      TaskRecords
  <1>7. TasksPlaced'
    <2>1. \A r \in Runs : run[r].gap \in Epochs => run'[r].gap \in Epochs
      BY <1>q, <1>r
    <2>2. run'[new].gap \in Epochs
      BY <1>q, <1>r, <1>0
    <2> QED BY <2>1, <2>2, <1>n, <1>0, WorkingOK DEF Leases, TasksPlaced
  <1>8. EvidenceIsPersisted'
    <2> SUFFICES ASSUME NEW v \in Tasks,
                        task'[v].pc \in {"renew", "fetch", "save", "record", "finalize"},
                        Owns(v)',
                        NEW c \in task'[v].scopes \ {task'[v].scope}
                 PROVE  task'[v].evidence[c] = run'[task'[v].run].progress[c]
      BY DEF EvidenceIsPersisted
    <2>1. v # w
      BY <1>n, <1>0, WorkingOK
    <2>2. task'[v] = task[v] /\ task[v].run \in Runs
      BY <2>1, <1>n DEF Leases, TasksPlaced
    <2>3. task[v].run # new
      BY <2>2, <1>q, <1>r, <1>t DEF Owns, Leases, TokensIssued, TasksOK
    <2>4. Owns(v) /\ run'[task[v].run] = run[task[v].run]
      BY <2>2, <2>3, <1>q DEF Owns
    <2> QED BY <2>2, <2>4 DEF Leases, EvidenceIsPersisted
  <1> QED BY <1>1, <1>2, <1>3, <1>4, <1>5, <1>6, <1>7, <1>8 DEF Leases

(* A step of a task that works on a run: it keeps the run and the token,    *)
(* changes the run's progress only while it owns it, and keeps its evidence *)
(* in step with it.                                                         *)
LEMMA StepInv ==
    ASSUME Inv, NEW w \in Tasks, task[w].pc # "idle",
           NEW t \in TaskRecords, task' = [task EXCEPT ![w] = t],
           t.pc # "idle", t.run = task[w].run, t.token = task[w].token,
           t.pc \in {"renew", "fetch", "save", "record"} => t.scope \in Conversations,
           t.pc = "fetch" => t.local.pages < MaxPages,
           UNCHANGED <<known, gap, runs, tokens>>,
           run' \in [Runs -> RunRows],
           \A r \in Runs : /\ run'[r].status = run[r].status
                           /\ run'[r].gap = run[r].gap
                           /\ run'[r].token = run[r].token
                           /\ r # t.run \/ ~Owns(w)
                                => run'[r].progress = run[r].progress,
           t.pc \in {"renew", "fetch", "save", "record", "finalize"} /\ Owns(w)
              => \A c \in t.scopes \ {t.scope} :
                     t.evidence[c] = run'[t.run].progress[c]
    PROVE  Inv'
  <1> USE Bounds DEF Inv
  <1>1. TablesOK' /\ TasksOK'
    BY DEF TablesOK, TasksOK
  <1>n. \A v \in Tasks : task'[v] = IF v = w THEN t ELSE task[v]
    BY DEF TasksOK
  <1>2. RunsInOrder' /\ OneActiveRun'
    BY DEF Leases, RunsInOrder, OneActiveRun, Active
  <1>3. TokensIssued' /\ TokensUnique'
    BY <1>n DEF Leases, TokensIssued, TokensUnique
  <1>4. TasksPlaced'
    BY <1>n DEF Leases, TasksPlaced
  <1>5. EvidenceIsPersisted'
    <2> SUFFICES ASSUME NEW v \in Tasks,
                        task'[v].pc \in {"renew", "fetch", "save", "record", "finalize"},
                        Owns(v)',
                        NEW c \in task'[v].scopes \ {task'[v].scope}
                 PROVE  task'[v].evidence[c] = run'[task'[v].run].progress[c]
      BY DEF EvidenceIsPersisted
    <2>0. task'[v].run \in Runs /\ task[v].run = task'[v].run
      BY <1>n DEF Leases, TasksPlaced
    <2>1. Owns(v)
      BY <1>n, <2>0 DEF Owns
    <2>2. CASE v = w
      BY <2>2, <2>1, <1>n
    <2>3. CASE v # w
      <3>1. task'[v] = task[v]
        BY <2>3, <1>n
      <3>2. task[v].run # t.run \/ ~Owns(w)
        BY <2>1, <2>3, <3>1 DEF Owns, Leases, TokensUnique
      <3>3. run'[task[v].run].progress = run[task[v].run].progress
        BY <3>2, <2>0
      <3> QED BY <3>1, <3>3, <2>1 DEF Leases, EvidenceIsPersisted
    <2> QED BY <2>2, <2>3
  <1> QED BY <1>1, <1>2, <1>3, <1>4, <1>5 DEF Leases

LEMMA ReclaimInv == ASSUME Inv, NEW w \in Tasks, ReclaimExpired(w) PROVE Inv'
  <1> USE Bounds DEF Inv
  <1>e. PICK r \in Runs :
          /\ Expired(r)
          /\ run' = [run EXCEPT ![r] = Leased(run[r], tokens + 1)]
          /\ task' = [task EXCEPT ![w] = Working(r)]
    BY DEF ReclaimExpired
  <1>0. /\ tokens' = tokens + 1 /\ tokens \in Nat
        /\ UNCHANGED <<known, gap, runs>> /\ task[w].pc = "idle"
    BY DEF ReclaimExpired, linkVars, gapVars, TablesOK
  <1>q. /\ run' \in [Runs -> RunRows]
        /\ \A s \in Runs : /\ run'[s].status = run[s].status
                           /\ run'[s].gap = run[s].gap
                           /\ run'[s].progress = run[s].progress
                           /\ run'[s].token = IF s = r THEN tokens + 1
                                                       ELSE run[s].token
    <2> DEFINE R == Leased(run[r], tokens + 1)
    <2>1. /\ R \in RunRows
          /\ R.status = run[r].status /\ R.gap = run[r].gap
          /\ R.progress = run[r].progress /\ R.token = tokens + 1
      BY <1>0 DEF TablesOK, RunRows, Leased
    <2>2. run' = [run EXCEPT ![r] = R]
      BY <1>e
    <2> HIDE DEF R
    <2>3. \A s \in Runs : run'[s] = IF s = r THEN R ELSE run[s]
      BY <2>2 DEF TablesOK
    <2>4. run' \in [Runs -> RunRows]
      BY <2>1, <2>2 DEF TablesOK
    <2> QED BY <2>1, <2>3, <2>4
  <1>n. \A v \in Tasks : task'[v] = IF v = w THEN Working(r) ELSE task[v]
    BY <1>e DEF TasksOK
  <1>1. TablesOK' /\ TasksOK'
    <2>1. TablesOK'
      BY <1>0, <1>q DEF TablesOK
    <2> QED BY <2>1, <1>e, WorkingOK DEF TasksOK
  <1>2. RunsInOrder' /\ OneActiveRun'
    BY <1>0, <1>q DEF Leases, RunsInOrder, OneActiveRun, Active
  <1>3. TokensIssued'
    <2>1. /\ \A s \in Runs : run[s].token \in Nat /\ run[s].token <= tokens
          /\ \A v \in Tasks : task[v].token \in Nat /\ task[v].token <= tokens
      BY DEF Leases, TokensIssued, TablesOK, TasksOK, RunRows, TaskRecords
    <2>2. \A s \in Runs : run'[s].token <= tokens + 1
      BY <2>1, <1>q, <1>0
    <2>3. \A v \in Tasks : task'[v].token <= tokens + 1
      BY <2>1, <1>n, <1>0, WorkingOK
    <2> QED BY <2>2, <2>3, <1>0 DEF TokensIssued
  <1>4. TokensUnique'
    BY <1>n, <1>0, WorkingOK DEF Leases, TokensUnique, TokensIssued, TasksOK,
                                 TaskRecords
  <1>5. TasksPlaced'
    <2>1. run'[r].gap \in Epochs
      BY <1>e, <1>q DEF Leases, OneActiveRun, Active, Expired
    <2> QED BY <2>1, <1>q, <1>n, WorkingOK DEF Leases, TasksPlaced
  <1>6. EvidenceIsPersisted'
    <2> SUFFICES ASSUME NEW v \in Tasks,
                        task'[v].pc \in {"renew", "fetch", "save", "record", "finalize"},
                        Owns(v)',
                        NEW c \in task'[v].scopes \ {task'[v].scope}
                 PROVE  task'[v].evidence[c] = run'[task'[v].run].progress[c]
      BY DEF EvidenceIsPersisted
    <2>1. v # w
      BY <1>n, WorkingOK
    <2>2. task'[v] = task[v] /\ task[v].run \in Runs
      BY <2>1, <1>n DEF Leases, TasksPlaced
    <2>3. task[v].token \in Nat /\ task[v].token <= tokens
      BY DEF TasksOK, TaskRecords, Leases, TokensIssued
    <2>4. Owns(v)
      BY <2>2, <2>3, <1>q, <1>0 DEF Owns
    <2> QED BY <2>2, <2>4, <1>q DEF Leases, EvidenceIsPersisted
  <1> QED BY <1>1, <1>2, <1>3, <1>4, <1>5, <1>6 DEF Leases

LEMMA TimeInv ==
    ASSUME Inv,
           \/ \E r \in Runs : LeaseExpires(r)
           \/ \E e \in Epochs : BackoffEnds(e)
    PROVE  Inv'
  <1> USE Bounds DEF Inv
  <1>1. ASSUME NEW r \in Runs, LeaseExpires(r) PROVE Inv'
    <2>0. UNCHANGED <<known, gap, runs, tokens, task>>
      BY <1>1 DEF LeaseExpires, linkVars, gapVars
    <2>q. /\ run' \in [Runs -> RunRows]
          /\ \A s \in Runs : /\ run'[s].status = run[s].status
                             /\ run'[s].gap = run[s].gap
                             /\ run'[s].token = run[s].token
                             /\ run'[s].progress = run[s].progress
      BY <1>1 DEF LeaseExpires, TablesOK, RunRows
    <2>1. TablesOK' /\ TasksOK'
      BY <2>0, <2>q DEF TablesOK, TasksOK
    <2>2. RunsInOrder' /\ OneActiveRun' /\ TokensIssued' /\ TokensUnique'
      BY <2>0, <2>q DEF Leases, RunsInOrder, OneActiveRun, Active, TokensIssued,
                        TokensUnique
    <2>3. TasksPlaced' /\ EvidenceIsPersisted'
      BY <2>0, <2>q DEF Leases, TasksPlaced, EvidenceIsPersisted, Owns
    <2> QED BY <2>1, <2>2, <2>3 DEF Leases
  <1>2. ASSUME NEW e \in Epochs, BackoffEnds(e) PROVE Inv'
    <2>0. UNCHANGED <<known, run, runs, tokens, task>>
      BY <1>2 DEF BackoffEnds, linkVars, runVars
    <2>g. /\ gap' \in [Epochs -> GapRows]
          /\ \A d \in Epochs : gap'[d].status = gap[d].status
      BY <1>2 DEF BackoffEnds, TablesOK, GapRows
    <2>1. TablesOK' /\ TasksOK'
      BY <2>0, <2>g DEF TablesOK, TasksOK
    <2>2. RunsInOrder' /\ OneActiveRun' /\ TokensIssued' /\ TokensUnique'
      BY <2>0, <2>g DEF Leases, RunsInOrder, OneActiveRun, Active, TokensIssued,
                        TokensUnique
    <2>3. TasksPlaced' /\ EvidenceIsPersisted'
      BY <2>0 DEF Leases, TasksPlaced, EvidenceIsPersisted, Owns
    <2> QED BY <2>1, <2>2, <2>3 DEF Leases
  <1> QED BY <1>1, <1>2

(* What Read and At build. *)
LEMMA ReadOK ==
    ASSUME NEW p \in Progress, NEW n \in 0..MaxPages, NEW b \in BOOLEAN,
           NEW found \in SUBSET Anomalies
    PROVE  /\ Read(p, n, b, found) \in Progress
           /\ Read(p, n, b, found).pages = n
  BY DEF Read, Progress

WithinScope == {"renew", "fetch", "save", "record"}

LEMMA AtOK ==
    ASSUME NEW t \in TaskRecords, NEW p \in Progress, NEW pc \in WithinScope
    PROVE  /\ At(t, pc, p) \in TaskRecords
           /\ At(t, pc, p).pc = pc /\ At(t, pc, p).local = p
           /\ At(t, pc, p).run = t.run /\ At(t, pc, p).token = t.token
           /\ At(t, pc, p).scope = t.scope /\ At(t, pc, p).scopes = t.scopes
           /\ At(t, pc, p).evidence = t.evidence
  BY DEF At, TaskRecords, WithinScope

(* A step within a scope that writes nothing. *)
LEMMA LocalInv ==
    ASSUME Inv, NEW w \in Tasks, task[w].pc \in {"renew", "fetch"},
           NEW p \in Progress, NEW pc \in {"save", "record"},
           task' = [task EXCEPT ![w] = At(task[w], pc, p)],
           UNCHANGED <<known, gap, runVars>>
    PROVE  Inv'
  <1>1. task[w] \in TaskRecords /\ run \in [Runs -> RunRows]
    BY DEF Inv, TasksOK, TablesOK
  <1>2. task[w].scope \in Conversations
    BY DEF Inv, Leases, TasksPlaced
  <1>3. Owns(w) => \A c \in task[w].scopes \ {task[w].scope} :
                      task[w].evidence[c] = run[task[w].run].progress[c]
    BY DEF Inv, Leases, EvidenceIsPersisted
  <1> DEFINE t == At(task[w], pc, p)
  <1>c. pc \in WithinScope
    BY DEF WithinScope
  <1>4. /\ t \in TaskRecords /\ t.pc = pc /\ t.run = task[w].run
        /\ t.token = task[w].token /\ t.scope = task[w].scope
        /\ t.scopes = task[w].scopes /\ t.evidence = task[w].evidence
    BY ONLY <1>1, <1>c, p \in Progress, AtOK
  <1>5. UNCHANGED <<known, gap, runs, tokens>> /\ run' = run
    BY DEF runVars
  <1>6. task' = [task EXCEPT ![w] = t]
    OBVIOUS
  <1> HIDE DEF t
  <1>7. /\ task[w].pc # "idle" /\ t.pc # "idle" /\ t.pc # "fetch"
        /\ t.scope \in Conversations /\ run' \in [Runs -> RunRows]
        /\ \A r \in Runs : /\ run'[r].status = run[r].status
                           /\ run'[r].gap = run[r].gap
                           /\ run'[r].token = run[r].token
                           /\ run'[r].progress = run[r].progress
    BY <1>1, <1>2, <1>4, <1>5
  <1>8. Owns(w) => \A c \in t.scopes \ {t.scope} :
                      t.evidence[c] = run'[t.run].progress[c]
    BY <1>3, <1>4, <1>5
  <1> QED BY <1>4, <1>5, <1>6, <1>7, <1>8, StepInv

LEMMA ReadingInv ==
    ASSUME Inv, NEW w \in Tasks,
           \/ PageBudgetSpent(w) \/ ReadPage(w)
           \/ \E answer \in Answers : EndsScope(w, answer)
    PROVE  Inv'
  <1> USE Bounds
  <1>t. /\ task[w].local \in Progress
        /\ task[w].local.pages \in 0..MaxPages /\ task[w].local.reached \in BOOLEAN
        /\ task[w].pc = "fetch" => task[w].local.pages + 1 \in 0..MaxPages
    BY DEF Inv, TasksOK, TaskRecords, Progress, Leases, TasksPlaced
  <1>1. CASE PageBudgetSpent(w)
    <2> DEFINE p == Read(task[w].local, task[w].local.pages, task[w].local.reached,
                         {"budget"})
    <2>1. p \in Progress
      BY <1>t, ReadOK DEF Anomalies
    <2> HIDE DEF p
    <2>2. /\ task[w].pc \in {"renew", "fetch"} /\ UNCHANGED <<known, gap, runVars>>
          /\ task' = [task EXCEPT ![w] = At(task[w], "record", p)]
      BY <1>1 DEF PageBudgetSpent, linkVars, gapVars, p
    <2> QED BY <2>1, <2>2, LocalInv
  <1>2. CASE ReadPage(w)
    <2> DEFINE p == Read(task[w].local, task[w].local.pages + 1,
                         task[w].local.reached, IF Proven THEN {} ELSE {"untrusted"})
    <2>0. task[w].pc = "fetch"
      BY <1>2 DEF ReadPage
    <2>1. p \in Progress
      BY <1>t, <2>0, ReadOK DEF Anomalies
    <2> HIDE DEF p
    <2>2. /\ UNCHANGED <<known, gap, runVars>>
          /\ task' = [task EXCEPT ![w] = At(task[w], "save", p)]
      BY <1>2 DEF ReadPage, linkVars, gapVars, p
    <2> QED BY <2>0, <2>1, <2>2, LocalInv
  <1>3. ASSUME NEW answer \in Answers, EndsScope(w, answer) PROVE Inv'
    <2> DEFINE failed == answer \in {"denied", "protocol"}
               untrusted == IF Proven \/ failed \/ answer = "stop" THEN {}
                            ELSE {"untrusted"}
               found == IF answer = "boundary" THEN {} ELSE {answer}
               n == IF failed THEN task[w].local.pages ELSE task[w].local.pages + 1
               b == task[w].local.reached \/ answer = "boundary"
               p == Read(task[w].local, n, b, found \cup untrusted)
    <2>0. task[w].pc = "fetch"
      BY <1>3 DEF EndsScope
    <2>1. n \in 0..MaxPages /\ b \in BOOLEAN
      BY <1>t, <2>0
    <2>2. found \cup untrusted \in SUBSET Anomalies
      BY SourceAssumption DEF Anomalies
    <2>4. /\ UNCHANGED <<known, gap, runVars>>
          /\ task' = [task EXCEPT ![w] = At(task[w], "record", p)]
      BY <1>3 DEF EndsScope, linkVars, gapVars
    <2> HIDE DEF n, b, found, untrusted
    <2>3. p \in Progress
      BY <1>t, <2>1, <2>2, ReadOK
    <2> HIDE DEF p
    <2> QED BY <2>0, <2>3, <2>4, LocalInv
  <1> QED BY <1>1, <1>2, <1>3

(* A record of progress under a lease that is owned: of the run's row only  *)
(* the lease time and the progress of one scope change.                     *)
Records(r, c, p) == run' = [run EXCEPT ![r] = Recorded(run[r], c, p)]
OneScopeChanged(r, c, p) ==
    /\ run' \in [Runs -> RunRows]
    /\ \A s \in Runs : /\ run'[s].status = run[s].status
                       /\ run'[s].gap = run[s].gap
                       /\ run'[s].token = run[s].token
                       /\ s # r => run'[s].progress = run[s].progress
    /\ \A d \in Conversations : run'[r].progress[d] =
                                  IF d = c THEN p ELSE run[r].progress[d]

LEMMA RecordedOK ==
    ASSUME Inv, NEW r \in Runs, NEW c \in Conversations, NEW p \in Progress,
           Records(r, c, p)
    PROVE  OneScopeChanged(r, c, p)
  <1> DEFINE x == Recorded(run[r], c, p)
  <1>0. run \in [Runs -> RunRows]
    BY DEF Inv, TablesOK
  <1>1. /\ x \in RunRows /\ x.status = run[r].status /\ x.gap = run[r].gap
        /\ x.token = run[r].token
        /\ \A d \in Conversations : x.progress[d] =
                                 IF d = c THEN p ELSE run[r].progress[d]
    BY <1>0 DEF Recorded, RunRows
  <1>2. run' = [run EXCEPT ![r] = x]
    BY DEF Records
  <1> HIDE DEF x
  <1>3. run' \in [Runs -> RunRows]
    BY <1>0, <1>1, <1>2
  <1>4. \A s \in Runs : run'[s] = IF s = r THEN x ELSE run[s]
    BY <1>0, <1>2
  <1> QED BY <1>1, <1>3, <1>4 DEF OneScopeChanged

LEMMA RenewInv ==
    ASSUME Inv, NEW w \in Tasks, RenewLease(w) \/ SaveProgress(w) PROVE Inv'
  <1>p. PICK pc \in {"fetch", "renew"} :
          /\ task' = [task EXCEPT ![w] = At(task[w], pc, task[w].local)]
          /\ pc = "fetch" => task[w].local.pages < MaxPages
    BY DEF RenewLease, SaveProgress
  <1> DEFINE t == At(task[w], pc, task[w].local)
  <1>1. /\ task[w].pc \in {"renew", "save"} /\ Owns(w)
        /\ run' = [run EXCEPT ![task[w].run] =
                     Recorded(run[task[w].run], task[w].scope, task[w].local)]
        /\ task' = [task EXCEPT ![w] = t]
        /\ UNCHANGED <<known, gap, runs, tokens>>
    BY <1>p DEF RenewLease, SaveProgress, linkVars, gapVars
  <1>2. /\ task[w] \in TaskRecords /\ task[w].local \in Progress
        /\ task[w].scope \in Conversations /\ task[w].run \in Runs
    BY <1>1 DEF Inv, TasksOK, TaskRecords, Leases, TasksPlaced
  <1>s. task[w].scopes \subseteq Conversations
    BY <1>2 DEF TaskRecords
  <1>c. pc \in WithinScope
    BY DEF WithinScope
  <1>3. /\ t \in TaskRecords /\ t.pc = pc /\ t.run = task[w].run
        /\ t.token = task[w].token /\ t.scope = task[w].scope
        /\ t.scopes = task[w].scopes /\ t.evidence = task[w].evidence
        /\ t.local = task[w].local
    BY ONLY <1>2, <1>c, AtOK
  <1> HIDE DEF t
  <1>4. OneScopeChanged(task[w].run, task[w].scope, task[w].local)
    <2>1. Records(task[w].run, task[w].scope, task[w].local)
      BY <1>1 DEF Records
    <2> QED BY <2>1, <1>2, RecordedOK
  <1>5. \A c \in task[w].scopes \ {task[w].scope} :
            task[w].evidence[c] = run[task[w].run].progress[c]
    BY <1>1 DEF Inv, Leases, EvidenceIsPersisted
  <1>6. \A c \in t.scopes \ {t.scope} : t.evidence[c] = run'[t.run].progress[c]
    BY <1>3, <1>4, <1>5, <1>s DEF OneScopeChanged
  <1>7. /\ run' \in [Runs -> RunRows]
        /\ \A r \in Runs : /\ run'[r].status = run[r].status
                           /\ run'[r].gap = run[r].gap
                           /\ run'[r].token = run[r].token
                           /\ r # t.run \/ ~Owns(w)
                                => run'[r].progress = run[r].progress
    BY <1>1, <1>3, <1>4 DEF OneScopeChanged
  <1>8. /\ task[w].pc # "idle" /\ t.pc # "idle"
        /\ t.scope \in Conversations
        /\ t.pc = "fetch" => t.local.pages < MaxPages
        /\ UNCHANGED <<known, gap, runs, tokens>>
        /\ task' = [task EXCEPT ![w] = t]
    BY <1>p, <1>1, <1>2, <1>3
  <1> QED BY ONLY Inv, w \in Tasks, <1>3, <1>6, <1>7, <1>8, StepInv

(* Continue keeps the task on its run with the evidence it was given. *)
LEMMA ContinueOK ==
    ASSUME Inv, NEW w \in Tasks, task[w].pc # "idle",
           NEW scopes \in SUBSET Conversations, NEW todo \in SUBSET Conversations,
           NEW evidence \in [Conversations -> Progress],
           Continue(w, scopes, todo, evidence)
    PROVE  \E t \in TaskRecords :
              /\ task' = [task EXCEPT ![w] = t]
              /\ t.pc \in {"renew", "finalize"}
              /\ t.run = task[w].run /\ t.token = task[w].token
              /\ t.pc = "renew" => t.scope \in Conversations
              /\ t.pc = "finalize" => t.scope = NoConversation
              /\ t.scopes = scopes /\ t.evidence = evidence
  <1> USE Bounds DEF Conversations
  <1>0. task[w].run \in 0..MaxRuns /\ task[w].token \in Nat
    BY DEF Inv, TasksOK, TaskRecords
  <1>1. CASE todo = {}
    <2> DEFINE t == [pc |-> "finalize", run |-> task[w].run,
                     token |-> task[w].token, scopes |-> scopes, todo |-> {},
                     scope |-> NoConversation, local |-> Fresh,
                     evidence |-> evidence]
    <2>1. Fresh \in Progress
      BY DEF Fresh, Progress, ScopeStates, Anomalies
    <2>2. t \in TaskRecords
      BY <2>1, <1>0 DEF TaskRecords, NoConversation
    <2>3. task' = [task EXCEPT ![w] = t]
      BY <1>1 DEF Continue
    <2> QED BY <2>2, <2>3
  <1>2. CASE todo # {}
    <2>1. PICK c \in todo :
            task' = [task EXCEPT ![w] =
              [pc |-> "renew", run |-> task[w].run, token |-> task[w].token,
               scopes |-> scopes, todo |-> todo \ {c}, scope |-> c,
               local |-> [evidence[c] EXCEPT !.status = "backfilling"],
               evidence |-> evidence]]
      BY <1>2 DEF Continue
    <2> DEFINE p == [evidence[c] EXCEPT !.status = "backfilling"]
               t == [pc |-> "renew", run |-> task[w].run,
                     token |-> task[w].token, scopes |-> scopes,
                     todo |-> todo \ {c}, scope |-> c, local |-> p,
                     evidence |-> evidence]
    <2>2. p \in Progress
      BY DEF Progress, ScopeStates
    <2>5. task' = [task EXCEPT ![w] = t]
      BY <2>1
    <2> HIDE DEF p
    <2>3. t \in TaskRecords
      BY <2>2, <1>0 DEF TaskRecords
    <2>4. t.scope \in Conversations /\ t.pc = "renew" /\ t.run = task[w].run
          /\ t.token = task[w].token /\ t.scopes = scopes /\ t.evidence = evidence
      OBVIOUS
    <2> HIDE DEF t
    <2> QED BY <2>3, <2>4, <2>5
  <1> QED BY <1>1, <1>2

LEMMA LoadInv == ASSUME Inv, NEW w \in Tasks, LoadScopes(w) PROVE Inv'
  <1> DEFINE scopes == KnownScopes(run[task[w].run].gap)
             saved == run[task[w].run].progress
             todo == {c \in scopes : saved[c].status # "verified_complete"}
  <1>1. /\ task[w].pc = "load" /\ Continue(w, scopes, todo, saved)
        /\ UNCHANGED <<known, gap, runVars>>
    BY DEF LoadScopes, linkVars, gapVars
  <1>2. task[w].run \in Runs
    BY <1>1 DEF Inv, Leases, TasksPlaced
  <1>3. saved \in [Conversations -> Progress]
    BY <1>2 DEF Inv, TablesOK, RunRows
  <1>x. run[task[w].run].gap \in Epochs
    BY <1>1 DEF Inv, Leases, TasksPlaced
  <1>4. scopes \in SUBSET Conversations
    BY <1>x DEF KnownScopes, Inv, TablesOK, GapRows
  <1>5. todo \in SUBSET Conversations
    BY <1>4
  <1> HIDE DEF scopes, todo
  <1>6. PICK t \in TaskRecords :
            /\ task' = [task EXCEPT ![w] = t]
            /\ t.pc \in {"renew", "finalize"}
            /\ t.run = task[w].run /\ t.token = task[w].token
            /\ t.pc = "renew" => t.scope \in Conversations
            /\ t.scopes = scopes /\ t.evidence = saved
    BY <1>1, <1>3, <1>4, <1>5, ContinueOK
  <1>7. /\ task[w].pc # "idle" /\ t.pc # "idle" /\ t.pc # "fetch"
        /\ t.pc \in {"renew", "fetch", "save", "record"} => t.scope \in Conversations
        /\ UNCHANGED <<known, gap, runs, tokens>> /\ run' \in [Runs -> RunRows]
        /\ \A r \in Runs : /\ run'[r].status = run[r].status
                           /\ run'[r].gap = run[r].gap
                           /\ run'[r].token = run[r].token
                           /\ run'[r].progress = run[r].progress
        /\ \A c \in t.scopes \ {t.scope} :
               t.evidence[c] = run'[t.run].progress[c]
    BY <1>1, <1>6 DEF runVars, Inv, TablesOK
  <1> QED BY <1>6, <1>7, StepInv

LEMMA RecordInv == ASSUME Inv, NEW w \in Tasks, RecordScope(w) PROVE Inv'
  <1> DEFINE p == [task[w].local EXCEPT !.status = ScopeTerminalStatus(task[w].local)]
             evidence == [task[w].evidence EXCEPT ![task[w].scope] = p]
  <1>1. /\ task[w].pc = "record" /\ Owns(w)
        /\ Records(task[w].run, task[w].scope, p)
        /\ Continue(w, task[w].scopes, task[w].todo, evidence)
        /\ UNCHANGED <<known, gap, runs, tokens>>
    BY DEF RecordScope, Records, linkVars, gapVars
  <1>2. /\ task[w] \in TaskRecords /\ task[w].local \in Progress
        /\ task[w].scope \in Conversations /\ task[w].run \in Runs
    BY <1>1 DEF Inv, TasksOK, TaskRecords, Leases, TasksPlaced
  <1>3. /\ task[w].scopes \in SUBSET Conversations
        /\ task[w].todo \in SUBSET Conversations
        /\ task[w].evidence \in [Conversations -> Progress]
    BY <1>2 DEF TaskRecords
  <1>4. p \in Progress
    BY <1>2 DEF Progress, ScopeStates, ScopeTerminalStatus
  <1> HIDE DEF p
  <1>5. /\ evidence \in [Conversations -> Progress]
        /\ \A c \in Conversations : evidence[c] =
              IF c = task[w].scope THEN p ELSE task[w].evidence[c]
    BY <1>2, <1>3, <1>4
  <1> HIDE DEF evidence
  <1>6. OneScopeChanged(task[w].run, task[w].scope, p)
    BY <1>1, <1>2, <1>4, RecordedOK
  <1>7. PICK t \in TaskRecords :
            /\ task' = [task EXCEPT ![w] = t]
            /\ t.pc \in {"renew", "finalize"}
            /\ t.run = task[w].run /\ t.token = task[w].token
            /\ t.pc = "renew" => t.scope \in Conversations
            /\ t.scopes = task[w].scopes /\ t.evidence = evidence
    BY <1>1, <1>3, <1>5, ContinueOK
  <1>8. \A c \in task[w].scopes \ {task[w].scope} :
            task[w].evidence[c] = run[task[w].run].progress[c]
    BY <1>1 DEF Inv, Leases, EvidenceIsPersisted
  <1>9. \A c \in t.scopes \ {t.scope} : t.evidence[c] = run'[t.run].progress[c]
    BY <1>3, <1>5, <1>6, <1>7, <1>8 DEF OneScopeChanged
  <1>10. /\ run' \in [Runs -> RunRows]
         /\ \A r \in Runs : /\ run'[r].status = run[r].status
                            /\ run'[r].gap = run[r].gap
                            /\ run'[r].token = run[r].token
                            /\ r # t.run \/ ~Owns(w)
                                 => run'[r].progress = run[r].progress
    BY <1>1, <1>6, <1>7 DEF OneScopeChanged
  <1>11. /\ task[w].pc # "idle" /\ t.pc # "idle" /\ t.pc # "fetch"
         /\ t.pc \in {"renew", "fetch", "save", "record"} => t.scope \in Conversations
         /\ t.run = task[w].run /\ t.token = task[w].token
         /\ UNCHANGED <<known, gap, runs, tokens>>
         /\ task' = [task EXCEPT ![w] = t]
    BY <1>1, <1>7
  <1> QED BY ONLY Inv, w \in Tasks, t \in TaskRecords, <1>9, <1>10, <1>11, StepInv

(* Settling a gap ends its only active run with it. *)
LEMMA FinalizeInv == ASSUME Inv, NEW w \in Tasks, Finalize(w) PROVE Inv'
  <1> USE Bounds DEF Inv
  <1> DEFINE r == task[w].run
             e == run[r].gap
             verdict == Completeness(task[w].scopes, task[w].evidence)
             g == Settled(gap[e], GapTargetStatus(verdict),
                          ReclaimPolicy(task[w].scopes, task[w].evidence, verdict))
  <1>1. /\ task[w].pc = "finalize" /\ Owns(w)
        /\ gap' = [gap EXCEPT ![e] = g]
        /\ run' = [run EXCEPT ![r].status = RunStatus(verdict)]
        /\ task' = [task EXCEPT ![w] = Idle]
        /\ UNCHANGED <<known, runs, tokens>>
    BY DEF Finalize, linkVars
  <1>2. r \in Runs /\ Active(r) /\ e \in Epochs
    BY <1>1 DEF Leases, TasksPlaced, Owns, Active
  <1>g. g \in GapRows /\ g.status # "backfilling"
    BY <1>2 DEF Settled, GapTargetStatus, ReclaimPolicy, TablesOK, GapRows, GapStates
  <1>s. RunStatus(verdict) \in RunStates /\ RunStatus(verdict) # "backfilling"
    BY DEF RunStatus, RunStates
  <1> HIDE DEF g, verdict
  <1>3. /\ gap' \in [Epochs -> GapRows]
        /\ \A d \in Epochs : gap'[d] = IF d = e THEN g ELSE gap[d]
    BY <1>1, <1>2, <1>g DEF TablesOK
  <1>4. /\ run' \in [Runs -> RunRows]
        /\ \A s \in Runs : /\ run'[s].status = IF s = r THEN RunStatus(verdict)
                                                 ELSE run[s].status
                           /\ run'[s].gap = run[s].gap
                           /\ run'[s].token = run[s].token
                           /\ run'[s].progress = run[s].progress
    BY <1>1, <1>2, <1>s DEF TablesOK, RunRows
  <1>n. \A v \in Tasks : task'[v] = IF v = w THEN Idle ELSE task[v]
    BY <1>1 DEF TasksOK
  <1>i. Idle.pc = "idle" /\ Idle.token = 0
    BY DEF Idle
  <1>5. TablesOK'
    BY <1>1, <1>3, <1>4 DEF TablesOK
  <1>6. TasksOK'
    <2>1. Fresh \in Progress
      BY DEF Fresh, Progress, ScopeStates, Anomalies
    <2>2. Idle \in TaskRecords
      BY <2>1 DEF Idle, NoRun, NoConversation, TaskRecords
    <2> QED BY <2>2, <1>1 DEF TasksOK
  <1>7. RunsInOrder'
    BY <1>1, <1>2, <1>4 DEF Leases, RunsInOrder, Active
  <1>8. OneActiveRun'
    <2>1. ASSUME NEW s \in Runs, Active(s)'
          PROVE  s # r /\ Active(s) /\ run[s].gap # e
      BY <2>1, <1>2, <1>4, <1>s DEF Leases, OneActiveRun, Active
    <2>2. ASSUME NEW d \in Epochs, gap'[d].status = "backfilling"
          PROVE  \E s \in Runs : Active(s)' /\ run'[s].gap = d
      <3>1. d # e /\ gap[d].status = "backfilling"
        BY <2>2, <1>3, <1>g
      <3>2. PICK s \in Runs : Active(s) /\ run[s].gap = d
        BY <3>1 DEF Leases, OneActiveRun
      <3>3. s # r
        BY <3>1, <3>2
      <3> QED BY <3>2, <3>3, <1>4 DEF Active
    <2>3. \A s \in Runs : Active(s)' => /\ run'[s].gap \in Epochs
                                       /\ gap'[run'[s].gap].status = "backfilling"
      BY <2>1, <1>3, <1>4 DEF Leases, OneActiveRun
    <2>4. \A s, u \in Runs : Active(s)' /\ Active(u)' /\ run'[s].gap = run'[u].gap
                                => s = u
      BY <2>1, <1>4 DEF Leases, OneActiveRun
    <2> QED BY <2>2, <2>3, <2>4 DEF OneActiveRun
  <1>9. TokensIssued' /\ TokensUnique' /\ TasksPlaced'
    BY <1>1, <1>4, <1>i, <1>n DEF Leases, TokensIssued, TokensUnique, TasksPlaced,
                                  TablesOK
  <1>10. EvidenceIsPersisted'
    <2> SUFFICES ASSUME NEW v \in Tasks,
                        task'[v].pc \in {"renew", "fetch", "save", "record", "finalize"},
                        Owns(v)',
                        NEW c \in task'[v].scopes \ {task'[v].scope}
                 PROVE  task'[v].evidence[c] = run'[task'[v].run].progress[c]
      BY DEF EvidenceIsPersisted
    <2>1. task'[v] = task[v] /\ task[v].run \in Runs
      BY <1>n, <1>i DEF Leases, TasksPlaced
    <2>2. Owns(v)
      BY <2>1, <1>4, <1>s DEF Owns
    <2> QED BY <2>1, <2>2, <1>4 DEF Leases, EvidenceIsPersisted
  <1> QED BY <1>5, <1>6, <1>7, <1>8, <1>9, <1>10 DEF Leases

LEMMA NextInv == ASSUME Inv, [Next]_vars PROVE Inv'
  <1>1. CASE Link
    BY <1>1, LinkInv
  <1>2. ASSUME NEW w \in Tasks, ClaimNextGap(w) \/ ReclaimExpired(w) PROVE Inv'
    BY <1>2, ClaimInv, ReclaimInv
  <1>3. ASSUME NEW w \in Tasks, Abort(w) \/ LeaseLost(w) PROVE Inv'
    <2>1. /\ task' = [task EXCEPT ![w] = Idle]
          /\ UNCHANGED <<known, gap, runVars>>
      BY <1>3 DEF Abort, LeaseLost, linkVars, gapVars
    <2> QED BY <2>1, IdleInv
  <1>4. ASSUME NEW w \in Tasks, Step(w) PROVE Inv'
    BY <1>3, <1>4, LoadInv, ReadingInv, RenewInv, RecordInv, FinalizeInv DEF Step
  <1>5. CASE (\E r \in Runs : LeaseExpires(r)) \/ \E e \in Epochs : BackoffEnds(e)
    BY <1>5, TimeInv
  <1>6. CASE UNCHANGED vars
    <2>1. UNCHANGED <<known, gap, run, runs, tokens, task>>
      BY <1>6 DEF vars, linkVars, gapVars, runVars
    <2> QED
      BY <2>1 DEF Inv, TablesOK, TasksOK, Leases, RunsInOrder, OneActiveRun,
                  Active, TokensIssued, TokensUnique, TasksPlaced,
                  EvidenceIsPersisted, Owns
  <1> QED BY <1>1, <1>2, <1>3, <1>4, <1>5, <1>6 DEF Next

(* Leases: claims, takeovers and settlements keep exactly one active run    *)
(* behind every gap in backfilling, and a token is never shared.            *)
THEOREM AlwaysLeases == Spec => [](TablesOK /\ TasksOK /\ Leases)
  <1>1. Spec => []Inv
    BY InitInv, NextInv, PTL DEF Spec
  <1>2. Inv => TablesOK /\ TasksOK /\ Leases
    BY DEF Inv
  <1> QED BY <1>1, <1>2, PTL

(* OneActiveRun, for any number of tasks, runs and epochs. *)
THEOREM GapsHaveOneRun == Spec => []OneActiveRun
  <1>1. TablesOK /\ TasksOK /\ Leases => OneActiveRun
    BY DEF Leases
  <1> QED BY <1>1, AlwaysLeases, PTL

(* EvidenceIsPersisted: a task that settles a gap does so on evidence the   *)
(* database holds, whoever held the lease before it.                        *)
THEOREM SettledOnPersistedEvidence == Spec => []EvidenceIsPersisted
  <1>1. TablesOK /\ TasksOK /\ Leases => EvidenceIsPersisted
    BY DEF Leases
  <1> QED BY <1>1, AlwaysLeases, PTL

(* The actions that write the table of gaps. *)
LEMMA GapWriters ==
    ASSUME [Next]_vars
    PROVE  \/ UNCHANGED gap \/ Connected \/ Disconnect \/ MarkUncertain
           \/ \E c \in Conversations : Signal(c)
           \/ \E w \in Tasks : ClaimNextGap(w) \/ Finalize(w)
           \/ \E d \in Epochs : BackoffEnds(d)
  BY DEF Next, Link, Step, Begin, ConnectFails, Message, ReclaimExpired, Abort,
         LoadScopes, PageBudgetSpent, RenewLease, SaveProgress, ReadPage, EndsScope,
         RecordScope, LeaseLost, LeaseExpires, vars, gapVars

(* SettledStays: no step of the connection loop, of a worker or of time     *)
(* opens a settled gap again or moves its frozen boundaries.                *)
LEMMA SettledStep ==
    ASSUME Inv, [Next]_vars, NEW e \in Epochs
    PROVE  /\ gap[e].status \in {"verified_complete", "unrecoverable"}
                => gap'[e].status = gap[e].status
           /\ gap[e].status # "none"
                => gap'[e].boundaries \ gap[e].boundaries \subseteq gap'[e].signals
  <1> DEFINE Kept == /\ gap'[e].status = gap[e].status
                     /\ gap'[e].boundaries = gap[e].boundaries
  <1>t. gap \in [Epochs -> GapRows]
    BY DEF Inv, TablesOK
  <1>1. CASE UNCHANGED gap
    BY <1>1
  <1>2. CASE Connected
    <2>1. gap'[e] = IF gap[e].status # "none" THEN [gap[e] EXCEPT !.ended = TRUE]
                                              ELSE gap[e]
      BY <1>2 DEF Connected
    <2>2. Kept
      BY <2>1, <1>t DEF GapRows
    <2> QED BY <2>2
  <1>3. CASE Disconnect \/ MarkUncertain
    <2>1. gap'[e] = gap[e] \/ gap[e].status = "none"
      BY <1>3, <1>t DEF Disconnect, MarkUncertain, WithGap
    <2> QED BY <2>1
  <1>4. ASSUME NEW c \in Conversations, Signal(c)
        PROVE  gap'[e] = gap[e] \/ gap[e].status = "none"
                 \/ /\ gap'[e].status = gap[e].status
                    /\ gap'[e].boundaries = gap[e].boundaries \cup {c}
                    /\ c \in gap'[e].signals
    BY <1>4, <1>t DEF Signal, WithGap, GapRows
  <1>5. ASSUME NEW w \in Tasks, ClaimNextGap(w)
        PROVE  gap'[e] = gap[e]
                 \/ /\ gap[e].status = "uncertain"
                    /\ gap'[e].boundaries = gap[e].boundaries
    BY <1>5, <1>t DEF ClaimNextGap, Eligible, GapRows
  <1>6. ASSUME NEW w \in Tasks, Finalize(w)
        PROVE  gap'[e] = gap[e]
                 \/ /\ gap[e].status = "backfilling"
                    /\ gap'[e].boundaries = gap[e].boundaries
    <2>1. /\ Owns(w) /\ task[w].pc = "finalize"
          /\ \E s, p : gap' = [gap EXCEPT ![run[task[w].run].gap] =
                               Settled(gap[run[task[w].run].gap], s, p)]
      BY <1>6 DEF Finalize
    <2>2. /\ task[w].run \in Runs
          /\ gap[run[task[w].run].gap].status = "backfilling"
      BY <2>1 DEF Inv, Leases, TasksPlaced, OneActiveRun, Active, Owns
    <2> QED BY <2>1, <2>2, <1>t DEF Settled, GapRows
  <1>7. ASSUME NEW d \in Epochs, BackoffEnds(d) PROVE Kept
    BY <1>7, <1>t DEF BackoffEnds, GapRows
  <1>8. \/ UNCHANGED gap \/ Connected \/ Disconnect \/ MarkUncertain
        \/ \E c \in Conversations : Signal(c)
        \/ \E w \in Tasks : ClaimNextGap(w) \/ Finalize(w)
        \/ \E d \in Epochs : BackoffEnds(d)
    BY GapWriters
  <1> QED BY <1>1, <1>2, <1>3, <1>4, <1>5, <1>6, <1>7, <1>8

THEOREM SettledForGood == Spec => SettledStays
  <1>1. Inv /\ [Next]_vars =>
          [\A e \in Epochs :
             /\ gap[e].status \in {"verified_complete", "unrecoverable"}
                   => gap'[e].status = gap[e].status
             /\ gap[e].status # "none"
                   => gap'[e].boundaries \ gap[e].boundaries
                         \subseteq gap'[e].signals]_vars
    BY SettledStep
  <1> QED BY <1>1, InitInv, NextInv, PTL DEF Spec, SettledStays

-----------------------------------------------------------------------------
(* VerifiedMeansRead.  One lemma for what a step does to a gap, one for the *)
(* runs, one for the tasks that hold a lease.                               *)

Later == {"renew", "fetch", "save", "record", "finalize"}
Reading == ScopesFrozen /\ VerifiedMeansRead

LEMMA GapStep ==
    ASSUME Inv, [Next]_vars, NEW e \in Epochs
    PROVE  /\ gap[e].status # "none" /\ gap'[e].signals = {}
                 => /\ gap[e].signals = {}
                    /\ gap'[e].boundaries = gap[e].boundaries
           /\ gap[e].status # "none" /\ gap[e].ended => gap'[e].ended
           /\ gap'[e].status = "backfilling"
                 => /\ gap[e].status # "none"
                    /\ gap[e].status = "backfilling" \/ gap[e].ended \/ gap[e].signals # {}
           /\ gap'[e].status = "verified_complete"
                 => \/ gap[e].status = "verified_complete"
                    \/ \E w \in Tasks : Finalize(w) /\ run[task[w].run].gap = e
  <1> DEFINE Kept == /\ gap'[e].status = gap[e].status
                     /\ gap'[e].boundaries = gap[e].boundaries
                     /\ gap'[e].signals = gap[e].signals
                     /\ gap[e].ended => gap'[e].ended
  <1>t. gap \in [Epochs -> GapRows]
    BY DEF Inv, TablesOK
  <1>1. CASE UNCHANGED gap
    BY <1>1
  <1>2. CASE Connected
    <2>1. gap'[e] = IF gap[e].status # "none" THEN [gap[e] EXCEPT !.ended = TRUE]
                                              ELSE gap[e]
      BY <1>2 DEF Connected
    <2>2. Kept
      BY <2>1, <1>t DEF GapRows
    <2> QED BY <2>2
  <1>n. gap[e].status = "none" => /\ WithGap(e).status = "uncertain"
    BY DEF WithGap, NoGap
  <1>3. CASE Disconnect \/ MarkUncertain
    <2>1. gap'[e] = gap[e] \/ (gap'[e] = WithGap(e) /\ gap[e].status = "none")
      BY <1>3, <1>t DEF Disconnect, MarkUncertain, WithGap
    <2>2. CASE gap'[e] = WithGap(e) /\ gap[e].status = "none"
      BY <2>2, <1>n DEF WithGap, NoGap
    <2> QED BY <2>1, <2>2
  <1>4. ASSUME NEW c \in Conversations, Signal(c)
        PROVE  \/ gap'[e] = gap[e]
               \/ /\ gap[e].status = "none" /\ gap'[e].status = "uncertain"
               \/ /\ gap'[e].status = gap[e].status /\ gap'[e].ended = gap[e].ended
                  /\ c \in gap'[e].signals
    <2>1. gap'[e] = gap[e]
            \/ gap'[e] = [WithGap(e) EXCEPT !.boundaries = @ \cup {c},
                                            !.signals = @ \cup {c}]
      BY <1>4, <1>t DEF Signal
    <2>2. WithGap(e) \in GapRows
      BY <1>t DEF WithGap, NoGap, GapRows, GapStates, Inv, TablesOK
    <2>3. \/ WithGap(e) = gap[e]
          \/ WithGap(e).status = "uncertain" /\ gap[e].status = "none"
      BY DEF WithGap, NoGap
    <2> DEFINE row == WithGap(e)
    <2>4. row \in GapRows /\ (gap'[e] = gap[e]
            \/ gap'[e] = [row EXCEPT !.boundaries = @ \cup {c}, !.signals = @ \cup {c}])
      BY <2>1, <2>2
    <2>5. row = gap[e] \/ (row.status = "uncertain" /\ gap[e].status = "none")
      BY <2>3
    <2> HIDE DEF row
    <2>6. CASE gap'[e] # gap[e]
      <3>1. gap'[e].status = row.status /\ gap'[e].ended = row.ended /\ c \in gap'[e].signals
        BY <2>4, <2>6 DEF GapRows
      <3> QED BY <2>5, <3>1
    <2> QED BY <2>6
  <1>5. ASSUME NEW w \in Tasks, ClaimNextGap(w)
        PROVE  gap'[e] = gap[e]
                 \/ /\ gap[e].ended \/ gap[e].signals # {}
                    /\ gap'[e].status = "backfilling" /\ gap[e].status # "none"
                    /\ gap'[e].boundaries = gap[e].boundaries
                    /\ gap'[e].signals = gap[e].signals
                    /\ gap'[e].ended = gap[e].ended
    BY <1>5, <1>t DEF ClaimNextGap, Eligible, GapRows
  <1>6. ASSUME NEW w \in Tasks, Finalize(w)
        PROVE  gap'[e] = gap[e]
                 \/ /\ gap'[e].boundaries = gap[e].boundaries
                    /\ gap'[e].signals = gap[e].signals
                    /\ gap'[e].ended = gap[e].ended
                    /\ run[task[w].run].gap = e
                    /\ gap[e].status = "backfilling"
    <2>1. /\ Owns(w) /\ task[w].pc = "finalize"
          /\ \E s, p : gap' = [gap EXCEPT ![run[task[w].run].gap] =
                               Settled(gap[run[task[w].run].gap], s, p)]
      BY <1>6 DEF Finalize
    <2>2. /\ task[w].run \in Runs
          /\ gap[run[task[w].run].gap].status = "backfilling"
      BY <2>1 DEF Inv, Leases, TasksPlaced, OneActiveRun, Active, Owns
    <2> QED BY <2>1, <2>2, <1>t DEF Settled, GapRows
  <1>7. ASSUME NEW d \in Epochs, BackoffEnds(d) PROVE Kept
    BY <1>7, <1>t DEF BackoffEnds, GapRows
  <1>8. \/ UNCHANGED gap \/ Connected \/ Disconnect \/ MarkUncertain
        \/ \E c \in Conversations : Signal(c)
        \/ \E w \in Tasks : ClaimNextGap(w) \/ Finalize(w)
        \/ \E d \in Epochs : BackoffEnds(d)
    BY GapWriters
  <1> QED BY <1>1, <1>2, <1>3, <1>4, <1>5, <1>6, <1>7, <1>8

(* A run that has ended is not written again; a run that is active under a  *)
(* token issued before the step was active under it before.                 *)
LEMMA RunStep ==
    ASSUME Inv, [Next]_vars, NEW r \in Runs
    PROVE  /\ run[r].status \notin {"none", "backfilling"} => run'[r] = run[r]
           /\ run'[r].status = "backfilling" /\ run'[r].token # tokens + 1
                 => /\ run[r].status = "backfilling" /\ run'[r].token = run[r].token
                    /\ run'[r].gap = run[r].gap
  <1> DEFINE Goal == /\ run[r].status \notin {"none", "backfilling"} => run'[r] = run[r]
                     /\ run'[r].status = "backfilling" /\ run'[r].token # tokens + 1
                           => /\ run[r].status = "backfilling"
                              /\ run'[r].token = run[r].token /\ run'[r].gap = run[r].gap
  <1> SUFFICES Goal
    OBVIOUS
  <1>t. run \in [Runs -> RunRows]
    BY DEF Inv, TablesOK
  <1>1. CASE UNCHANGED run
    BY <1>1
  <1>2. ASSUME NEW w \in Tasks, ClaimNextGap(w) PROVE Goal
    <2>1. PICK e \in Epochs : run' = [run EXCEPT ![runs + 1] = NewRun(e)]
      BY <1>2 DEF ClaimNextGap
    <2>2. run[runs + 1].status = "none" \/ runs + 1 \notin Runs
      BY DEF Inv, Leases, RunsInOrder, TablesOK
    <2>3. NewRun(e).token = tokens + 1
      BY DEF NewRun
    <2> QED BY <1>t, <2>1, <2>2, <2>3
  <1>3. ASSUME NEW w \in Tasks, ReclaimExpired(w) PROVE Goal
    <2>1. PICK s \in Runs : Expired(s) /\ run' = [run EXCEPT ![s] = Leased(run[s], tokens + 1)]
      BY <1>3 DEF ReclaimExpired
    <2>2. Leased(run[s], tokens + 1).token = tokens + 1
      BY DEF Leased
    <2> QED BY <1>t, <2>1, <2>2 DEF Expired
  <1>4. ASSUME NEW w \in Tasks, RenewLease(w) \/ SaveProgress(w) \/ RecordScope(w) PROVE Goal
    <2>1. PICK p : /\ Owns(w)
                   /\ run' = [run EXCEPT ![task[w].run] =
                                Recorded(run[task[w].run], task[w].scope, p)]
      BY <1>4 DEF RenewLease, SaveProgress, RecordScope
    <2>2. run'[r] = run[r]
            \/ /\ r = task[w].run
               /\ run'[r] = Recorded(run[r], task[w].scope, p)
      BY <1>t, <2>1
    <2>3. run'[r] = run[r]
            \/ /\ run[r].status = "backfilling"
               /\ run'[r].token = run[r].token /\ run'[r].gap = run[r].gap
      BY <2>1, <2>2 DEF Recorded, Owns
    <2> QED BY <2>3
  <1>5. ASSUME NEW w \in Tasks, Finalize(w) PROVE Goal
    <2>1. \E st \in {"verified_complete", "unrecoverable", "unprovable"} :
             Owns(w) /\ run' = [run EXCEPT ![task[w].run].status = st]
      BY <1>5 DEF Finalize, RunStatus
    <2>2. run'[r] = run[r] \/ (run[r].status = "backfilling" /\ run'[r].status # "backfilling")
      BY <1>t, <2>1 DEF Owns, RunRows
    <2> QED BY <2>2
  <1>6. ASSUME NEW s \in Runs, LeaseExpires(s) PROVE Goal
    <2>1. run[s].status = "backfilling" /\ run' = [run EXCEPT ![s].expired = TRUE]
      BY <1>6 DEF LeaseExpires
    <2>2. run'[r] = run[r]
            \/ /\ run[r].status = "backfilling"
               /\ run'[r].token = run[r].token /\ run'[r].gap = run[r].gap
      BY <1>t, <2>1 DEF RunRows
    <2> QED BY <2>2
  <1>7. \/ UNCHANGED run
        \/ \E w \in Tasks : \/ ClaimNextGap(w) \/ ReclaimExpired(w) \/ RenewLease(w)
                            \/ SaveProgress(w) \/ RecordScope(w) \/ Finalize(w)
        \/ \E s \in Runs : LeaseExpires(s)
    BY DEF Next, Link, Step, Begin, Connected, ConnectFails, Message, Disconnect,
           MarkUncertain, Signal, Abort, LoadScopes, PageBudgetSpent, ReadPage, EndsScope,
           LeaseLost, BackoffEnds, vars, runVars
  <1> HIDE DEF Goal
  <1> QED BY <1>1, <1>2, <1>3, <1>4, <1>5, <1>6, <1>7

(* A task keeps the scopes it loaded, and it loaded those of its gap. *)
LEMMA ScopesStep ==
    ASSUME Inv, [Next]_vars, NEW w \in Tasks, task'[w].pc \in Later, task'[w] # task[w]
    PROVE  /\ task'[w].run = task[w].run /\ task'[w].token = task[w].token
           /\ task'[w].pc = "finalize" => task'[w].scope = NoConversation
           /\ \/ task[w].pc \in Later /\ task'[w].scopes = task[w].scopes
              \/ /\ task[w].pc = "load" /\ UNCHANGED <<gap, run>>
                 /\ task'[w].scopes = KnownScopes(run[task[w].run].gap)
  <1> DEFINE Goal == /\ task'[w].run = task[w].run /\ task'[w].token = task[w].token
                     /\ task'[w].pc = "finalize" => task'[w].scope = NoConversation
                     /\ \/ task[w].pc \in Later /\ task'[w].scopes = task[w].scopes
                        \/ /\ task[w].pc = "load" /\ UNCHANGED <<gap, run>>
                           /\ task'[w].scopes = KnownScopes(run[task[w].run].gap)
  <1> SUFFICES Goal
    OBVIOUS
  <1>t. task \in [Tasks -> TaskRecords] /\ task[w] \in TaskRecords
    BY DEF Inv, TasksOK
  <1>1. ASSUME NEW v \in Tasks, NEW t, task' = [task EXCEPT ![v] = t]
        PROVE  v = w /\ task'[w] = t
    BY <1>1, <1>t
  <1>2. ASSUME NEW v \in Tasks, ClaimNextGap(v) \/ ReclaimExpired(v) PROVE FALSE
    <2>1. PICK r : task' = [task EXCEPT ![v] = Working(r)]
      BY <1>2 DEF ClaimNextGap, ReclaimExpired
    <2> QED BY <2>1, <1>1 DEF Working, Later
  <1>3. ASSUME NEW v \in Tasks, Abort(v) \/ LeaseLost(v) \/ Finalize(v) PROVE FALSE
    BY <1>3, <1>1 DEF Abort, LeaseLost, Finalize, Idle, Later
  <1>4. ASSUME NEW v \in Tasks,
               \/ PageBudgetSpent(v) \/ ReadPage(v) \/ RenewLease(v) \/ SaveProgress(v)
               \/ \E answer \in Answers : EndsScope(v, answer)
        PROVE  Goal
    <2>1. /\ task[v].pc \in Later
          /\ \E pc \in WithinScope : \E p : task' = [task EXCEPT ![v] = At(task[v], pc, p)]
      BY <1>4 DEF PageBudgetSpent, ReadPage, RenewLease, SaveProgress, EndsScope, Later,
                  WithinScope
    <2>2. PICK pc \in WithinScope : \E p : v = w /\ task'[w] = At(task[w], pc, p)
      BY <2>1, <1>1
    <2>3. /\ task'[w].pc = pc /\ task'[w].run = task[w].run
          /\ task'[w].token = task[w].token /\ task'[w].scopes = task[w].scopes
      BY <2>2 DEF At
    <2>4. pc # "finalize"
      BY DEF WithinScope
    <2> QED BY <2>1, <2>2, <2>3, <2>4
  <1>c. ASSUME NEW v \in Tasks, NEW scopes, NEW todo, NEW evidence,
               Continue(v, scopes, todo, evidence)
        PROVE  /\ v = w /\ task'[w].run = task[w].run /\ task'[w].token = task[w].token
               /\ task'[w].pc = "finalize" => task'[w].scope = NoConversation
               /\ task'[w].scopes = scopes
    <2> DEFINE To(pc, rest, c, local) ==
                 [pc |-> pc, run |-> task[v].run, token |-> task[v].token,
                  scopes |-> scopes, todo |-> rest, scope |-> c, local |-> local,
                  evidence |-> evidence]
    <2>1. \/ task' = [task EXCEPT ![v] = To("finalize", {}, NoConversation, Fresh)]
          \/ \E rest, c, local : task' = [task EXCEPT ![v] = To("renew", rest, c, local)]
      BY <1>c DEF Continue
    <2>2. CASE task' = [task EXCEPT ![v] = To("finalize", {}, NoConversation, Fresh)]
      BY <2>2, <1>1
    <2>3. CASE \E rest, c, local : task' = [task EXCEPT ![v] = To("renew", rest, c, local)]
      <3>1. PICK rest, c, local : task' = [task EXCEPT ![v] = To("renew", rest, c, local)]
        BY <2>3
      <3> QED BY <3>1, <1>1
    <2> QED BY <2>1, <2>2, <2>3
  <1>5. ASSUME NEW v \in Tasks, LoadScopes(v) PROVE Goal
    <2>1. /\ \E todo, saved : Continue(v, KnownScopes(run[task[v].run].gap), todo, saved)
          /\ UNCHANGED <<gap, run>> /\ task[v].pc = "load"
      BY <1>5 DEF LoadScopes, gapVars, runVars
    <2> QED BY <2>1, <1>c
  <1>6. ASSUME NEW v \in Tasks, RecordScope(v) PROVE Goal
    <2>1. /\ \E evidence : Continue(v, task[v].scopes, task[v].todo, evidence)
          /\ task[v].pc = "record"
      BY <1>6 DEF RecordScope
    <2> QED BY <2>1, <1>c DEF Later
  <1>7. \E v \in Tasks :
           \/ ClaimNextGap(v) \/ ReclaimExpired(v) \/ Abort(v) \/ LeaseLost(v) \/ Finalize(v)
           \/ PageBudgetSpent(v) \/ ReadPage(v) \/ RenewLease(v) \/ SaveProgress(v)
           \/ (\E answer \in Answers : EndsScope(v, answer))
           \/ LoadScopes(v) \/ RecordScope(v)
    <2>1. task' # task
      OBVIOUS
    <2> QED BY <2>1 DEF Next, Link, Step, Begin, Connected, ConnectFails, Message,
                        Disconnect, MarkUncertain, Signal, LeaseExpires, BackoffEnds, vars
  <1> HIDE DEF Goal
  <1> QED BY <1>2, <1>3, <1>4, <1>5, <1>6, <1>7

(* A task that holds its lease after a step held it before, on the same gap. *)
LEMMA HeldBefore ==
    ASSUME Inv, [Next]_vars, NEW w \in Tasks, task'[w].pc \in Later, Owns(w)'
    PROVE  /\ Owns(w) /\ task'[w].run = task[w].run /\ task[w].run \in Runs
           /\ run'[task[w].run].gap = run[task[w].run].gap
           /\ run[task[w].run].gap \in Epochs
           /\ gap[run[task[w].run].gap].status = "backfilling"
  <1>1. task'[w].run = task[w].run /\ task'[w].token = task[w].token /\ task[w].pc # "idle"
    BY ScopesStep DEF Later
  <1>2. task[w].run \in Runs
    BY <1>1 DEF Inv, Leases, TasksPlaced
  <1>3. task[w].token # tokens + 1
    BY DEF Inv, TasksOK, TaskRecords, TablesOK, Leases, TokensIssued
  <1>4. /\ run'[task[w].run].status = "backfilling"
        /\ run'[task[w].run].token = task[w].token
    BY <1>1 DEF Owns
  <1>5. /\ run[task[w].run].status = "backfilling" /\ run[task[w].run].token = task[w].token
        /\ run'[task[w].run].gap = run[task[w].run].gap
    BY <1>2, <1>3, <1>4, RunStep
  <1> QED BY <1>1, <1>2, <1>5 DEF Owns, Inv, Leases, OneActiveRun, Active

LEMMA FrozenStep == ASSUME Inv, ScopesFrozen, [Next]_vars PROVE ScopesFrozen'
  <1>1. ASSUME NEW e \in Epochs, gap'[e].status = "backfilling", gap'[e].signals = {}
        PROVE  gap'[e].ended
    BY <1>1, GapStep DEF ScopesFrozen
  <1>2. ASSUME NEW w \in Tasks, task'[w].pc \in Later, Owns(w)'
        PROVE  /\ gap'[run'[task'[w].run].gap].signals = {}
                     => task'[w].scopes = gap'[run'[task'[w].run].gap].boundaries
               /\ task'[w].pc = "finalize" => task'[w].scope = NoConversation
    <2> DEFINE e == run[task[w].run].gap
    <2>1. /\ Owns(w) /\ run'[task'[w].run].gap = e /\ e \in Epochs
          /\ gap[e].status = "backfilling"
      BY <1>2, HeldBefore
    <2> HIDE DEF e
    <2>2. gap'[e].signals = {} => /\ gap[e].signals = {} /\ gap[e].ended
                                  /\ gap'[e].boundaries = gap[e].boundaries
      BY <2>1, GapStep DEF ScopesFrozen
    <2>3. CASE task[w].pc \in Later /\ task'[w].scopes = task[w].scopes
      <3>1. gap[e].signals = {} => task[w].scopes = gap[e].boundaries
        BY <2>1, <2>3 DEF ScopesFrozen, Later, e
      <3>2. task'[w].pc = "finalize" => task'[w].scope = NoConversation
        <4>1. CASE task'[w] = task[w]
          BY <4>1, <2>1 DEF ScopesFrozen, Later
        <4>2. CASE task'[w] # task[w]
          BY <4>2, <1>2, ScopesStep
        <4> QED BY <4>1, <4>2
      <3> QED BY <2>1, <2>2, <2>3, <3>1, <3>2
    <2>4. CASE /\ task[w].pc = "load" /\ task'[w] # task[w]
               /\ task'[w].scopes = KnownScopes(run[task[w].run].gap)
      BY <1>2, <2>1, <2>2, <2>4, ScopesStep DEF KnownScopes, e
    <2> QED BY <1>2, <2>3, <2>4, ScopesStep
  <1> QED BY <1>1, <1>2 DEF ScopesFrozen, Later

(* The run that settles a gap as verified has read all of it. *)
LEMMA FinalizeReads ==
    ASSUME Inv, ScopesFrozen, NEW w \in Tasks, Finalize(w), NEW e \in Epochs,
           run[task[w].run].gap = e, gap'[e].status = "verified_complete", gap[e].signals = {}
    PROVE  \E r \in Runs :
              /\ run'[r].gap = e /\ run'[r].status = "verified_complete"
              /\ \A c \in gap[e].boundaries : IsComplete(run'[r].progress[c])
  <1> DEFINE r == task[w].run
             verdict == Completeness(task[w].scopes, task[w].evidence)
  <1>1. /\ task[w].pc = "finalize" /\ Owns(w)
        /\ gap' = [gap EXCEPT ![e] =
                     Settled(gap[e], GapTargetStatus(verdict),
                             ReclaimPolicy(task[w].scopes, task[w].evidence, verdict))]
        /\ run' = [run EXCEPT ![r].status = RunStatus(verdict)]
    BY DEF Finalize
  <1>2. r \in Runs /\ task[w].scopes \subseteq Conversations
    BY <1>1 DEF Inv, Leases, TasksPlaced, TasksOK, TaskRecords
  <1>3. gap'[e].status = GapTargetStatus(verdict)
    <2>1. gap \in [Epochs -> GapRows]
      BY DEF Inv, TablesOK
    <2>2. gap'[e] = Settled(gap[e], GapTargetStatus(verdict),
                            ReclaimPolicy(task[w].scopes, task[w].evidence, verdict))
      BY <1>1, <2>1
    <2> QED BY <2>2 DEF Settled
  <1>4. verdict = "proven_complete"
    <2> HIDE DEF verdict
    <2> QED BY <1>3 DEF GapTargetStatus
  <1>5. \A c \in task[w].scopes : IsComplete(task[w].evidence[c])
    BY <1>4 DEF Completeness
  <1>6. /\ task[w].scopes = gap[e].boundaries /\ task[w].scope = NoConversation
        /\ \A c \in task[w].scopes \ {task[w].scope} :
              task[w].evidence[c] = run[r].progress[c]
    BY <1>1 DEF ScopesFrozen, Inv, Leases, EvidenceIsPersisted
  <1>7. NoConversation \notin task[w].scopes
    BY <1>2, Bounds DEF Conversations, NoConversation
  <1>8. run'[r].status = RunStatus(verdict) /\ run'[r].gap = run[r].gap
        /\ run'[r].progress = run[r].progress
    <2>1. run \in [Runs -> RunRows]
      BY DEF Inv, TablesOK
    <2> HIDE DEF verdict
    <2> QED BY <1>1, <1>2, <2>1 DEF RunRows
  <1>9. run'[r].status = "verified_complete"
    BY <1>4, <1>8 DEF RunStatus
  <1>10. \A c \in gap[e].boundaries : IsComplete(run'[r].progress[c])
    <2>1. \A c \in task[w].scopes : run'[r].progress[c] = task[w].evidence[c]
      BY <1>6, <1>7, <1>8
    <2> QED BY <1>5, <1>6, <2>1 DEF IsComplete
  <1> QED BY <1>2, <1>8, <1>9, <1>10

LEMMA VerifiedStep ==
    ASSUME Inv, ScopesFrozen, VerifiedMeansRead, [Next]_vars PROVE VerifiedMeansRead'
  <1> SUFFICES ASSUME NEW e \in Epochs, gap'[e].status = "verified_complete",
                      gap'[e].signals = {}
               PROVE  \E r \in Runs :
                         /\ run'[r].gap = e /\ run'[r].status = "verified_complete"
                         /\ \A c \in gap'[e].boundaries : IsComplete(run'[r].progress[c])
    BY DEF VerifiedMeansRead, IsComplete
  <1>1. CASE gap[e].status = "verified_complete"
    <2>1. gap[e].signals = {} /\ gap'[e].boundaries = gap[e].boundaries
      BY <1>1, GapStep
    <2>2. PICK r \in Runs :
             /\ run[r].gap = e /\ run[r].status = "verified_complete"
             /\ \A c \in gap[e].boundaries : IsComplete(run[r].progress[c])
      BY <1>1, <2>1 DEF VerifiedMeansRead
    <2>3. run'[r] = run[r]
      BY <2>2, RunStep
    <2> QED BY <2>1, <2>2, <2>3 DEF IsComplete
  <1>2. CASE gap[e].status # "verified_complete"
    <2>1. PICK w \in Tasks : Finalize(w) /\ run[task[w].run].gap = e
      BY <1>2, GapStep
    <2>2. gap[e].status = "backfilling"
      BY <2>1 DEF Finalize, Owns, Inv, Leases, TasksPlaced, OneActiveRun, Active
    <2>3. gap[e].signals = {} /\ gap'[e].boundaries = gap[e].boundaries
      BY <2>2, GapStep
    <2> QED BY <2>1, <2>3, FinalizeReads
  <1> QED BY <1>1, <1>2

(* VerifiedMeansRead, for any number of tasks, runs, conversations and      *)
(* pages: a gap nobody signalled is called complete only by a run that read *)
(* every frozen conversation down to its boundary, over however many        *)
(* takeovers, and that run's evidence is still there.                       *)
THEOREM VerifiedWasRead == Spec => []VerifiedMeansRead
  <1>1. Init => Reading
    BY DEF Init, Reading, ScopesFrozen, VerifiedMeansRead, NoGap, Idle
  <1>2. Inv /\ Reading /\ [Next]_vars => Reading'
    BY FrozenStep, VerifiedStep DEF Reading
  <1>3. Reading => VerifiedMeansRead
    BY DEF Reading
  <1> QED BY <1>1, <1>2, <1>3, InitInv, NextInv, PTL DEF Spec
===============================================================================
