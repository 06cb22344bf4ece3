----------------------------- MODULE GapBackfill ------------------------------
(***************************************************************************)
(* The life of an ingestion gap: the connection loop opens it, backfill    *)
(* tasks claim it under a lease, read the history of its conversations     *)
(* page by page, and settle it, while connections come and go and leases   *)
(* run out.                                                                *)
(*                                                                         *)
(*   repo/mysql_continuity.rs, repo/mysql_backfill.rs,                     *)
(*   application/backfill_service.rs, domain/backfill.rs,                  *)
(*   backfill/worker.rs, adapters/napcat_history_source.rs                 *)
(*                                                                         *)
(* One account.  A gap is named by the epoch it belongs to (unique key on  *)
(* connection_epoch_id).  What a page holds is left to the choice of the   *)
(* source's answer: what matters here is which anomaly or evidence it      *)
(* leaves in the progress of its conversation.                             *)
(***************************************************************************)
EXTENDS Integers, Sequences, FiniteSets

CONSTANTS MaxEpochs,      \* bound: connection epochs begun
          NumConversations,
          Tasks,          \* slots of the workers' JoinSets, of all processes
          MaxRuns,        \* bound: backfill runs created
          MaxPages,       \* backfill.max_pages_per_scope
          MaxAborts,      \* bound: tasks ended by shutdown, panic or crash
          MaxExpiries,    \* bound: leases that run out under a live task
          Proven,         \* a deterministic source; FALSE for NapCat
          Answers         \* the answers with which the source may end a scope

ASSUME BoundsAssumption ==
    {MaxEpochs, NumConversations, MaxRuns, MaxPages, MaxAborts, MaxExpiries}
        \subseteq Nat
ASSUME SourceAssumption ==
    /\ Proven \in BOOLEAN
    /\ Answers \subseteq {"boundary", "denied", "protocol", "cutoff", "budget",
                          "stop"}

Epochs == 1..MaxEpochs
Conversations == 1..NumConversations
Runs == 1..MaxRuns
NoRun == 0
NoConversation == 0

VARIABLES
    link,      \* state of the connection: "down", "connecting", "connected"
    cur,       \* the last epoch begun
    known,     \* conversations with an ingestion cursor
    gap,       \* secretary_ingestion_gaps, boundaries, signals and schedule
    byAge,     \* epochs with a gap, by updated_at, oldest first
    run,       \* secretary_backfill_runs, leases and scopes
    runs,      \* runs created
    tokens,    \* lease tokens issued
    task,      \* the tasks that work on a claim
    aborts, expiries

linkVars == <<link, cur, known>>
gapVars == <<gap, byAge>>
runVars == <<run, runs, tokens>>
bounds == <<aborts, expiries>>
vars == <<linkVars, gapVars, runVars, task, bounds>>

Anomalies == {"denied", "protocol", "cutoff", "budget", "untrusted", "stop"}
ScopeStates == {"pending", "backfilling", "verified_complete", "unprovable",
                "unrecoverable"}
Progress == [status : ScopeStates, pages : 0..MaxPages, reached : BOOLEAN,
             anomalies : SUBSET Anomalies]
Fresh == [status |-> "pending", pages |-> 0, reached |-> FALSE, anomalies |-> {}]

NoGap == [status |-> "none", ended |-> FALSE, boundaries |-> {}, signals |-> {},
          schedule |-> "now"]
UnusedRun == [status |-> "none", gap |-> 0, token |-> 0, expired |-> FALSE,
              progress |-> [c \in Conversations |-> Fresh]]
Idle == [pc |-> "idle", run |-> NoRun, token |-> 0, scopes |-> {}, todo |-> {},
         scope |-> NoConversation, local |-> Fresh,
         evidence |-> [c \in Conversations |-> Fresh]]

Init == /\ link = "down" /\ cur = 0 /\ known = {}
        /\ gap = [e \in Epochs |-> NoGap] /\ byAge = <<>>
        /\ run = [r \in Runs |-> UnusedRun] /\ runs = 0 /\ tokens = 0
        /\ task = [w \in Tasks |-> Idle]
        /\ aborts = 0 /\ expiries = 0

-----------------------------------------------------------------------------
(* Connections. *)

Touched(e) == Append(SelectSeq(byAge, LAMBDA x : x # e), e)

Begin == /\ link = "down" /\ cur < MaxEpochs
         /\ cur' = cur + 1 /\ link' = "connecting"
         /\ UNCHANGED <<known, gapVars, runVars, task, bounds>>

(* mark_connection_connected: every open window of the account ends now. *)
Connected ==
    /\ link = "connecting"
    /\ link' = "connected"
    /\ gap' = [e \in Epochs |->
                 IF gap[e].status # "none" THEN [gap[e] EXCEPT !.ended = TRUE]
                                           ELSE gap[e]]
    /\ byAge' = SelectSeq(byAge, LAMBDA e : gap[e].ended)
                  \o SelectSeq(byAge, LAMBDA e : ~gap[e].ended)
    /\ UNCHANGED <<cur, known, runVars, task, bounds>>

ConnectFails == /\ link = "connecting"
                /\ link' = "down"
                /\ UNCHANGED <<cur, known, gapVars, runVars, task, bounds>>

(* The first message of a conversation gives it a cursor. *)
Message(c) == /\ link = "connected" /\ c \notin known
              /\ known' = known \cup {c}
              /\ UNCHANGED <<link, cur, gapVars, runVars, task, bounds>>

(* insert_gap_if_absent, and snapshot_gap_boundaries when it created one.   *)
WithGap(e) == IF gap[e].status = "none"
              THEN [NoGap EXCEPT !.status = "uncertain", !.boundaries = known]
              ELSE gap[e]
AgeWith(e) == IF gap[e].status = "none" THEN Append(byAge, e) ELSE byAge

Disconnect == /\ link = "connected"
              /\ link' = "down"
              /\ gap' = [gap EXCEPT ![cur] = WithGap(cur)]
              /\ byAge' = AgeWith(cur)
              /\ UNCHANGED <<cur, known, runVars, task, bounds>>

(* mark_connection_uncertain, for instance when the queue overflowed. *)
MarkUncertain == /\ link = "connected"
                 /\ gap[cur].status = "none"
                 /\ gap' = [gap EXCEPT ![cur] = WithGap(cur)]
                 /\ byAge' = AgeWith(cur)
                 /\ UNCHANGED <<linkVars, runVars, task, bounds>>

(* mark_connection_uncertain_for_conversation: a group_upload notice. *)
Signal(c) ==
    /\ link = "connected"
    /\ c \notin gap[cur].signals
    /\ gap' = [gap EXCEPT ![cur] =
                 [WithGap(cur) EXCEPT !.boundaries = @ \cup {c},
                                      !.signals = @ \cup {c}]]
    /\ byAge' = AgeWith(cur)
    /\ UNCHANGED <<linkVars, runVars, task, bounds>>

-----------------------------------------------------------------------------
(* Claims and leases. *)

(* Mutant: a gap is taken whatever its status. *)
Eligible_AnyStatus(e) == /\ gap[e].status \in {"uncertain", "backfilling"}
                         /\ gap[e].ended \/ gap[e].signals # {}
                         /\ gap[e].schedule = "now"

Eligible(e) == /\ gap[e].status = "uncertain"
               /\ gap[e].ended \/ gap[e].signals # {}
               /\ gap[e].schedule = "now"

(* ORDER BY updated_at LIMIT 1. *)
Oldest(e) == \E i \in 1..Len(byAge) :
                /\ byAge[i] = e
                /\ \A j \in 1..i - 1 : ~Eligible(byAge[j])

NewRun(e) == [status |-> "backfilling", gap |-> e, token |-> tokens + 1,
              expired |-> FALSE, progress |-> [c \in Conversations |-> Fresh]]
Working(r) == [pc |-> "load", run |-> r, token |-> tokens + 1, scopes |-> {},
               todo |-> {}, scope |-> NoConversation, local |-> Fresh,
               evidence |-> [c \in Conversations |-> Fresh]]

ClaimNextGap(w) ==
    /\ task[w].pc = "idle" /\ runs < MaxRuns
    /\ \E e \in Epochs :
          /\ Eligible(e) /\ Oldest(e)
          /\ gap' = [gap EXCEPT ![e].status = "backfilling"]
          /\ byAge' = Touched(e)
          /\ run' = [run EXCEPT ![runs + 1] = NewRun(e)]
    /\ runs' = runs + 1 /\ tokens' = tokens + 1
    /\ task' = [task EXCEPT ![w] = Working(runs + 1)]
    /\ UNCHANGED <<linkVars, bounds>>

Leased(x, token) == [status |-> x.status, gap |-> x.gap, token |-> token,
                     expired |-> FALSE, progress |-> x.progress]

(* Mutant: only a run that never had a lease is taken over. *)
Expired_NullOnly(r) == run[r].status = "backfilling" /\ run[r].token = 0

Expired(r) == run[r].status = "backfilling" /\ run[r].expired

(* A run keeps its progress; the token is rotated. *)
ReclaimExpired(w) ==
    /\ task[w].pc = "idle"
    /\ \E r \in Runs :
          /\ Expired(r)
          /\ run' = [run EXCEPT ![r] = Leased(run[r], tokens + 1)]
          /\ task' = [task EXCEPT ![w] = Working(r)]
    /\ tokens' = tokens + 1
    /\ UNCHANGED <<linkVars, gapVars, runs, bounds>>

Holder(r) == {w \in Tasks : task[w].pc # "idle" /\ task[w].run = r
                              /\ task[w].token = run[r].token}

(* Time passes.  A run nobody works on loses its lease for certain, one     *)
(* with a slow task may.                                                    *)
LeaseExpires(r) == /\ run[r].status = "backfilling" /\ ~run[r].expired
                   /\ run' = [run EXCEPT ![r].expired = TRUE]
                   /\ IF Holder(r) = {}
                      THEN UNCHANGED expiries
                      ELSE expiries < MaxExpiries /\ expiries' = expiries + 1
                   /\ UNCHANGED <<linkVars, gapVars, runs, tokens, task, aborts>>

(* The 30 seconds of ReclaimPolicy::Backoff are over. *)
BackoffEnds(e) == /\ gap[e].schedule = "backoff"
                  /\ gap' = [gap EXCEPT ![e].schedule = "now"]
                  /\ UNCHANGED <<linkVars, byAge, runVars, task, bounds>>

(* Shutdown aborts the JoinSet, the process dies, a database call fails. *)
Abort(w) == /\ task[w].pc # "idle" /\ aborts < MaxAborts
            /\ task' = [task EXCEPT ![w] = Idle]
            /\ aborts' = aborts + 1
            /\ UNCHANGED <<linkVars, gapVars, runVars, expiries>>

-----------------------------------------------------------------------------
(* One run: process_claimed and process_scope. *)

(* Mutant: the run's status is enough, the token is not compared. *)
Owns_AnyToken(w) == run[task[w].run].status = "backfilling"

(* lock_active_lease: the run is still running under this task's token.     *)
Owns(w) == /\ run[task[w].run].status = "backfilling"
           /\ run[task[w].run].token = task[w].token

(* known_scopes_for_gap: while the window is open only the conversations    *)
(* that were signalled.                                                     *)
KnownScopes(e) == IF gap[e].ended THEN gap[e].boundaries ELSE gap[e].signals

At(t, pc, local) ==
    [pc |-> pc, run |-> t.run, token |-> t.token, scopes |-> t.scopes,
     todo |-> t.todo, scope |-> t.scope, local |-> local, evidence |-> t.evidence]

(* The task goes on with the next of the scopes in todo, in the order of    *)
(* the query, or to the end of the run.                                     *)
Continue(w, scopes, todo, evidence) ==
    LET To(pc, rest, c, local) ==
          [pc |-> pc, run |-> task[w].run, token |-> task[w].token,
           scopes |-> scopes, todo |-> rest, scope |-> c, local |-> local,
           evidence |-> evidence]
    IN IF todo = {}
       THEN task' = [task EXCEPT ![w] = To("finalize", {}, NoConversation, Fresh)]
       ELSE \E c \in todo :
               /\ \A d \in todo : c <= d
               /\ task' = [task EXCEPT ![w] =
                    To("renew", todo \ {c}, c,
                       [evidence[c] EXCEPT !.status = "backfilling"])]

(* A scope an earlier holder of the run completed is adopted as it is. *)
LoadScopes(w) ==
    LET scopes == KnownScopes(run[task[w].run].gap)
        saved == run[task[w].run].progress
    IN /\ task[w].pc = "load"
       /\ Continue(w, scopes,
                   {c \in scopes : saved[c].status # "verified_complete"}, saved)
       /\ UNCHANGED <<linkVars, gapVars, runVars, bounds>>

Read(p, pages, reached, found) ==
    [status |-> p.status, pages |-> pages, reached |-> reached,
     anomalies |-> p.anomalies \cup found]

PageBudgetSpent(w) ==
    LET t == task[w]
        p == Read(t.local, t.local.pages, t.local.reached, {"budget"})
    IN /\ t.pc = "renew" /\ t.local.pages = MaxPages
       /\ task' = [task EXCEPT ![w] = At(t, "record", p)]
       /\ UNCHANGED <<linkVars, gapVars, runVars, bounds>>

(* record_scope_progress, which also renews the lease. *)
Recorded(x, c, p) ==
    [status |-> x.status, gap |-> x.gap, token |-> x.token, expired |-> FALSE,
     progress |-> [x.progress EXCEPT ![c] = p]]

RenewLease(w) ==
    LET t == task[w]
    IN /\ t.pc = "renew" /\ t.local.pages < MaxPages
       /\ Owns(w)
       /\ run' = [run EXCEPT ![t.run] = Recorded(run[t.run], t.scope, t.local)]
       /\ task' = [task EXCEPT ![w] = At(t, "fetch", t.local)]
       /\ UNCHANGED <<linkVars, gapVars, runs, tokens, bounds>>

(* fetch_page answered with a page that neither ends the scope nor breaks   *)
(* the chain of anchors.                                                    *)
ReadPage(w) ==
    LET t == task[w]
        untrusted == IF Proven THEN {} ELSE {"untrusted"}
        p == Read(t.local, t.local.pages + 1, t.local.reached, untrusted)
    IN /\ t.pc = "fetch"
       /\ task' = [task EXCEPT ![w] = At(t, "save", p)]
       /\ UNCHANGED <<linkVars, gapVars, runVars, bounds>>

(* The progress is stored after a page as well as before the next one. *)
SaveProgress(w) ==
    LET t == task[w]
    IN /\ t.pc = "save"
       /\ Owns(w)
       /\ run' = [run EXCEPT ![t.run] = Recorded(run[t.run], t.scope, t.local)]
       /\ task' = [task EXCEPT ![w] = At(t, "renew", t.local)]
       /\ UNCHANGED <<linkVars, gapVars, runs, tokens, bounds>>

(* The answer that ends the scope: the frozen boundary (found again as a    *)
(* duplicate, and only where the order of a page is proven), or an anomaly. *)
EndsScope(w, answer) ==
    LET t == task[w]
        failed == answer \in {"denied", "protocol"}
        untrusted == IF Proven \/ failed \/ answer = "stop" THEN {}
                     ELSE {"untrusted"}
        found == IF answer = "boundary" THEN {} ELSE {answer}
        p == Read(t.local,
                  IF failed THEN t.local.pages ELSE t.local.pages + 1,
                  t.local.reached \/ answer = "boundary", found \cup untrusted)
    IN /\ t.pc = "fetch"
       /\ answer = "boundary" => Proven
       /\ task' = [task EXCEPT ![w] = At(t, "record", p)]
       /\ UNCHANGED <<linkVars, gapVars, runVars, bounds>>

IsComplete(p) == p.pages > 0 /\ p.reached /\ p.anomalies = {}

ScopeTerminalStatus(p) == IF IsComplete(p) THEN "verified_complete"
                          ELSE IF "denied" \in p.anomalies THEN "unrecoverable"
                          ELSE "unprovable"

RecordScope(w) ==
    LET t == task[w]
        p == [t.local EXCEPT !.status = ScopeTerminalStatus(t.local)]
    IN /\ t.pc = "record"
       /\ Owns(w)
       /\ run' = [run EXCEPT ![t.run] = Recorded(run[t.run], t.scope, p)]
       /\ Continue(w, t.scopes, t.todo, [t.evidence EXCEPT ![t.scope] = p])
       /\ UNCHANGED <<linkVars, gapVars, runs, tokens, bounds>>

(* LeaseLost: the task ends with an error and leaves everything as it is.   *)
LeaseLost(w) ==
    /\ \/ task[w].pc = "renew" /\ task[w].local.pages < MaxPages
       \/ task[w].pc \in {"save", "record", "finalize"}
    /\ ~Owns(w)
    /\ task' = [task EXCEPT ![w] = Idle]
    /\ UNCHANGED <<linkVars, gapVars, runVars, bounds>>

-----------------------------------------------------------------------------
(* HistoryCompleteness::from_evidence, gap_target_status, reclaim_policy.   *)

(* Mutant: one complete scope stands for all of them. *)
Completeness_AnyScope(scopes, ev) ==
    IF \E c \in scopes : "denied" \in ev[c].anomalies THEN "unrecoverable"
    ELSE IF \A c \in scopes : ~IsComplete(ev[c]) THEN "unprovable"
    ELSE IF Proven THEN "proven_complete" ELSE "known_scopes_complete"

Completeness(scopes, ev) ==
    IF \E c \in scopes : "denied" \in ev[c].anomalies THEN "unrecoverable"
    ELSE IF scopes = {} \/ \E c \in scopes : ~IsComplete(ev[c]) THEN "unprovable"
    ELSE IF Proven THEN "proven_complete" ELSE "known_scopes_complete"

GapTargetStatus(completeness) ==
    CASE completeness = "proven_complete" -> "verified_complete"
      [] completeness = "unrecoverable"   -> "unrecoverable"
      [] OTHER                            -> "uncertain"

RunStatus(completeness) ==
    CASE completeness = "proven_complete" -> "verified_complete"
      [] completeness = "unrecoverable"   -> "unrecoverable"
      [] OTHER                            -> "unprovable"

ReclaimPolicy(scopes, ev, completeness) ==
    IF \/ \E c \in scopes : "cutoff" \in ev[c].anomalies
       \/ completeness = "known_scopes_complete"
    THEN "suspended"
    ELSE IF completeness = "unprovable" THEN "backoff"
    ELSE "now"

Settled(g, status, schedule) ==
    [status |-> status, ended |-> g.ended, boundaries |-> g.boundaries,
     signals |-> g.signals, schedule |-> schedule]

Finalize(w) ==
    LET t == task[w]
        e == run[t.run].gap
        completeness == Completeness(t.scopes, t.evidence)
    IN /\ t.pc = "finalize"
       /\ Owns(w)
       /\ gap[e].status \in {"backfilling", GapTargetStatus(completeness)}
       /\ gap' = [gap EXCEPT ![e] =
                    Settled(@, GapTargetStatus(completeness),
                            ReclaimPolicy(t.scopes, t.evidence, completeness))]
       /\ byAge' = Touched(e)
       /\ run' = [run EXCEPT ![t.run].status = RunStatus(completeness)]
       /\ task' = [task EXCEPT ![w] = Idle]
       /\ UNCHANGED <<linkVars, runs, tokens, bounds>>

-----------------------------------------------------------------------------
Link == \/ Begin \/ Connected \/ ConnectFails \/ Disconnect \/ MarkUncertain
        \/ \E c \in Conversations : Message(c) \/ Signal(c)

Step(w) == \/ LoadScopes(w) \/ PageBudgetSpent(w) \/ RenewLease(w)
           \/ ReadPage(w) \/ SaveProgress(w) \/ (\E answer \in Answers : EndsScope(w, answer))
           \/ RecordScope(w) \/ LeaseLost(w) \/ Finalize(w)

Next == \/ Link
        \/ \E w \in Tasks : ClaimNextGap(w) \/ ReclaimExpired(w) \/ Abort(w)
                              \/ Step(w)
        \/ \E r \in Runs : LeaseExpires(r)
        \/ \E e \in Epochs : BackoffEnds(e)

Spec == Init /\ [][Next]_vars

(* A live task is scheduled; the worker scans every 30 seconds, so an       *)
(* expired run is reclaimed; time passes.                                   *)
Fairness == /\ \A w \in Tasks : WF_vars(Step(w)) /\ WF_vars(ReclaimExpired(w))
            /\ \A r \in Runs : WF_vars(Holder(r) = {} /\ LeaseExpires(r))

FairSpec == Spec /\ Fairness

-----------------------------------------------------------------------------
GapStates == {"none", "uncertain", "backfilling", "verified_complete",
              "unrecoverable"}
RunStates == {"none", "backfilling", "verified_complete", "unprovable",
              "unrecoverable"}
GapRows == [status : GapStates, ended : BOOLEAN,
            boundaries : SUBSET Conversations, signals : SUBSET Conversations,
            schedule : {"now", "backoff", "suspended"}]
RunRows == [status : RunStates, gap : 0..MaxEpochs, token : Nat,
            expired : BOOLEAN, progress : [Conversations -> Progress]]
TaskRecords ==
    [pc : {"idle", "load", "renew", "fetch", "save", "record", "finalize"},
     run : 0..MaxRuns, token : Nat, scopes : SUBSET Conversations,
     todo : SUBSET Conversations, scope : 0..NumConversations,
     local : Progress, evidence : [Conversations -> Progress]]

TablesOK == /\ known \subseteq Conversations
            /\ gap \in [Epochs -> GapRows]
            /\ run \in [Runs -> RunRows]
            /\ runs \in 0..MaxRuns /\ tokens \in Nat
TasksOK == task \in [Tasks -> TaskRecords]
TypeOK == /\ TablesOK /\ TasksOK
          /\ link \in {"down", "connecting", "connected"}
          /\ cur \in 0..MaxEpochs /\ byAge \in Seq(Epochs)
          /\ aborts \in Nat /\ expiries \in Nat

Active(r) == run[r].status = "backfilling"

(* A gap is being backfilled exactly while one run works on it: a claim     *)
(* never starts a second run beside a live or an expired one, and a run     *)
(* never ends and leaves its gap behind in backfilling, where no query      *)
(* would find it again.                                                     *)
OneActiveRun ==
    /\ \A r \in Runs : Active(r) => /\ run[r].gap \in Epochs
                                    /\ gap[run[r].gap].status = "backfilling"
    /\ \A e \in Epochs : gap[e].status = "backfilling"
                            => \E r \in Runs : Active(r) /\ run[r].gap = e
    /\ \A r, s \in Runs : Active(r) /\ Active(s) /\ run[r].gap = run[s].gap
                            => r = s

(* The evidence a task settles its gap with is what the database holds for  *)
(* its run: a task that lost its lease and came back has neither overwritten *)
(* the progress of the task that took over nor carried on with its own.     *)
EvidenceIsPersisted ==
    \A w \in Tasks :
        LET t == task[w]
        IN t.pc \in {"renew", "fetch", "save", "record", "finalize"} /\ Owns(w)
              => \A c \in t.scopes \ {t.scope} :
                     t.evidence[c] = run[t.run].progress[c]

(* What makes the two invariants above inductive: runs are used in order,   *)
(* a token is issued once, to one task, and a task between two steps of a   *)
(* scope has one and is within its page budget.                             *)
RunsInOrder == \A r \in Runs : r > runs => run[r].status = "none"
TokensIssued == /\ \A r \in Runs : run[r].token <= tokens
                /\ \A w \in Tasks : task[w].token <= tokens
TokensUnique == \A v, w \in Tasks :
                   /\ task[v].pc # "idle" /\ task[w].pc # "idle"
                   /\ task[v].token = task[w].token
                   => v = w
TasksPlaced ==
    \A w \in Tasks :
        /\ task[w].pc # "idle" => /\ task[w].run \in Runs
                                  /\ run[task[w].run].gap \in Epochs
        /\ task[w].pc \in {"renew", "fetch", "save", "record"}
              => task[w].scope \in Conversations
        /\ task[w].pc = "fetch" => task[w].local.pages < MaxPages
Leases == /\ RunsInOrder /\ OneActiveRun /\ TokensIssued /\ TokensUnique
          /\ TasksPlaced /\ EvidenceIsPersisted

(* A gap without signalled conversations is verified only when one run read *)
(* every conversation frozen with it down to its boundary with no anomaly,  *)
(* over however many takeovers and restarts.                                *)
VerifiedMeansRead ==
    \A e \in Epochs :
        gap[e].status = "verified_complete" /\ gap[e].signals = {}
          => \E r \in Runs :
                /\ run[r].gap = e /\ run[r].status = "verified_complete"
                /\ \A c \in gap[e].boundaries : IsComplete(run[r].progress[c])

(* What makes VerifiedMeansRead inductive: a gap in backfilling that nobody *)
(* signalled is over, and a task that holds the lease on it reads all the   *)
(* conversations frozen with it.                                            *)
ScopesFrozen ==
    /\ \A e \in Epochs : gap[e].status = "backfilling" /\ gap[e].signals = {}
                            => gap[e].ended
    /\ \A w \in Tasks :
          task[w].pc \in {"renew", "fetch", "save", "record", "finalize"} /\ Owns(w)
            => LET g == gap[run[task[w].run].gap]
               IN /\ g.signals = {} => task[w].scopes = g.boundaries
                  /\ task[w].pc = "finalize" => task[w].scope = NoConversation

(* A gap that was verified or given up is never opened again, and its       *)
(* boundaries are frozen from the moment it exists but for the              *)
(* conversations signalled later.                                           *)
SettledStays ==
    [][\A e \in Epochs :
          /\ gap[e].status \in {"verified_complete", "unrecoverable"}
                => gap'[e].status = gap[e].status
          /\ gap[e].status # "none"
                => gap'[e].boundaries \ gap[e].boundaries \subseteq gap'[e].signals
      ]_vars

(* No gap stays in backfilling: whoever dies with the lease, the run is     *)
(* taken over and settled.                                                  *)
RunsSettle ==
    \A e \in Epochs :
        gap[e].status = "backfilling" ~> gap[e].status # "backfilling"

(* The end of a connection leaves a gap that will be backfilled:            *)
(* connection_loop.rs says it produces a new uncertain gap and wakes the    *)
(* worker to process it soon.                                               *)
DisconnectScheduled ==
    [][link = "connected" /\ link' = "down"
          => /\ gap'[cur].status \in {"uncertain", "backfilling"}
             /\ gap'[cur].schedule # "suspended"]_vars
===============================================================================
