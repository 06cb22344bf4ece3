# Verification of the ServerRS personal secretary

ServerRS listens to one QQ account through NapCat, keeps every message it is pushed,
recovers the ones it may have missed, and runs a secretary on top of them: it plans
actions on the owner's commands, asks for approval, follows up, reminds, notifies.
This directory holds TLA+ models of the parts whose correctness depends on
interleavings, crashes, leases and retries, the TLC runs that check them on small
instances, and TLAPS proofs for every value of the constants.

## 1. The system

All state that matters is in MySQL, in two files (the message spool) and in the
memory of one process; workers talk through tables they poll. Nearly every worker
follows one discipline: claim a row under a lease with a random token, work, commit
with a compare-and-set on the token, and let a later scan take over a lease that has
run out. The hard behaviours are the same everywhere: a holder slower than its lease,
a process that dies between two commits, an external call whose outcome is unknown, a
row another component settles in the meantime.

| Part | Code | State | Operations | What makes it correct |
|---|---|---|---|---|
| Message spool | `infrastructure/realtime_spool.rs` | WAL file, checkpoint file | open, append, recover_pending, advance_checkpoint, compact | a receipted record that no torn bytes precede survives until its replay has converged; the checkpoint skips nothing |
| Spool runtime | `runtime/realtime_spool_runtime.rs`, `mysql_realtime_spool.rs` | admission queue, writer thread, recovery leases | admit, write, claim legacy epochs, replay, close | effects before checkpoint; legacy epochs settled before a new connection |
| Connection loop | `runtime/connection_loop.rs`, `mysql_continuity.rs` | connection epochs, gaps | begin, connected, drain, finish, uncertain | no message is lost without an open epoch or a gap |
| Ingestion worker | `application/ingestion_worker.rs` | bounded queue, batch, overflow marker | enqueue, insert, bisect, hooks, checkpoint | a rejected message takes no good one with it; an overflow leaves a gap that reaches back to what was dropped |
| NapCat link | `qqbot/src/napcat/listener/`, `heartbeat.rs` | socket, heartbeat life cycle, back-off | read, dispatch, time out, reconnect | a silent peer is left by the deadline, a live one is not |
| Inbound store, artifacts | `mysql_inbound.rs`, `mysql_artifact*.rs` | messages, tombstones, cursors, artifacts, derivation jobs | insert, recall, derive, expire, reprocess | a recall reaches its message in either order; the cursor is the newest live message |
| History backfill | `backfill_service.rs`, `mysql_backfill.rs`, `backfill/worker.rs` | runs, leases, per-conversation progress | claim, reclaim, fetch, record, finalize | one run per gap; a gap is settled on evidence that is persisted and covers every conversation |
| Action runs | `planner_service.rs`, `mysql_action_store/`, `action_planner_worker.rs` | runs, checkpoints, effect receipts | ensure, claim, suspend, resume, complete, fail | impactful actions on approval only; a suspended run can be resumed; an ended run is final; every run is answered |
| Action graph | `action_graph/*.rs`, `agent-core/src/graph/` | agent state, budget | plan, gate, execute, replan, respond | bounded replanning; effects fenced by the lease |
| Owner gateway | `adapters/qq_open_platform.rs`, `qq-open-platform/` | session and sequence, bindings | persist command, resume on an answer | an answer reaches the run it is meant for |
| Recalls | `infrastructure/recall.rs`, `mysql_recall.rs` | recall spool, leased inbox rows | append, drain, claim, record, retry | an acknowledged notice is in the file or the inbox until it is recorded or given up |
| Notification policy | `mysql_notification_policy.rs`, `notification_policy_service.rs` | policies, candidates, digests | evaluate, defer, batch | each candidate is decided once under one policy version |
| Follow-ups, outbox, agenda | `mysql_follow_up.rs`, `mysql_agenda.rs` | due items, outbox rows | claim due, send, unknown commit, retry, cancel | nothing is sent twice on a known commit; what is cancelled is not sent later |
| Owner responses | `mysql_owner_response_delivery.rs` | response outbox | materialise, claim, post, mark | a reply is accepted at most once and its row says what happened |
| Replies, expectations | `mysql_reconcile.rs`, `mysql_response_expectation_control.rs` | queue of unresolved replies, expectations | claim, resolve, dismiss | a reply settles what waited for it |
| Threads | `mysql_thread*.rs` | membership, claims, links, mutations | project, merge, split, scan | effective membership is a partition; a stale scan commits nothing |
| Memory | `mysql_memory*.rs` | facts, candidates, modes | propose, approve, supersede, restrict | one current fact per key; a restriction reaches everything derived |
| Participants | `mysql_inbound.rs`, `mysql_retriever.rs` | profiles, observations | observe, restrict, show | a name is shown only while a message that carries it may be used; an old one was carried by a message |
| Directory | `directory_service.rs`, `mysql_directory.rs` | snapshots, freezes | download, aggregate, freeze | complete means that nothing the lists named is missing, as far as they were not cut; a gap keeps the directory it was created with |
| Retriever | `mysql_retriever.rs`, `domain/retriever.rs` | none of its own | views, references, pages | what is hidden throughout a call is not shown; paging loses and repeats nothing |
| Graph builder | `agent-core/src/graph/` | nodes, transitions, mounted fragments | build, mount, connect, compile, run | what compiles has an end in reach and a target for every route |
| LLM, config, health, admin | `llm.rs`, `config/` | none of their own | call, parse | not state machines |

`PROJECT.json` lists the same parts file by file with what is modelled, and every
hazard at the line where it bites.

## 2. Modules

| Module | Models | Used by |
|---|---|---|
| `DurableLog` | abstract: a log that holds a receipted record until it is settled | `RealtimeSpool`, `SpoolPipeline` and `RecallSpool` refine it |
| `RealtimeSpool` | the spool's file adapter, one file-system step per action | `RealtimeSpool_proofs` |
| `SpoolPipeline` | composition: reader, admission queue, writer, ingestion worker, connection loop, recovery, MySQL | `Ingest`, `MCProgress`, `Ingest_proofs` |
| `GapBackfill` | epochs, gaps, backfill runs, leases and tasks | `GapBackfill_proofs` |
| `ActionRuns` | action runs, graph, checkpoints, the gateway's resume | `ActionRuns_proofs` |
| `OwnerNotifications` | reminders: due items, candidates, policy worker, owner controls, outbox loop | `OwnerNotifications_proofs` |
| `OwnerResponses` | replies to owner commands: outbox, two delivery loops, clock | `OwnerResponses_proofs` |
| `AgentGraph` | building, mounting, compiling and running a graph | `AgentGraph_proofs` |
| `RecallSpool` | recall notices: file of frames, inbox, worker | `Ingest`, `MCProgress`, `Ingest_proofs` |
| `InboundStore` | tombstones, artifacts, derivation jobs, cursors of stored messages | `Ingest`, `MCProgress`, `Ingest_proofs` |
| `MemoryQueue` | ingestion without the spool: queue, overflow marker, gap | `Ingest`, `MCProgress`, `Ingest_proofs` |
| `NapCatLink` | WebSocket, heartbeat deadline, back-off | `Ingest`, `MCProgress`, `Ingest_proofs` |
| `Directory` | sync of the three lists, snapshots, freezes | `Ingest`, `MCProgress`, `Ingest_proofs` |
| `OwnerGateway` | gateway session, dispatches, commands and approvals | `Conversations`, `MCProgress`, `Secretary_proofs` |
| `ReplyThreads` | unresolved replies and the projection into threads | `Conversations`, `Secretary_proofs` |
| `ThreadOverlay` | merges, splits and links of threads | `Conversations`, `MCProgress`, `Secretary_proofs` |
| `ThreadSemantics` | claims, decisions, questions and status derived from a thread | `Conversations`, `MCProgress`, `Secretary_proofs` |
| `Participants` | names, cards and aliases of a person | `Conversations`, `Secretary_proofs` |
| `Memory` | memory candidates, facts, modes, the scan of the account | `Knowledge`, `MCProgress`, `Secretary_proofs` |
| `Retrieval` | views made of several statements | `Knowledge`, `Secretary_proofs` |
| `PagedQueries` | the three lists that are read page by page | `Knowledge`, `Secretary_proofs` |
| `Ingest`, `Conversations`, `Knowledge` | unions of components, over all their constants | `MC*` and the two proof modules |
| `MC*` | instances for TLC: symmetry sets and constants a `.cfg` cannot write; `MCProgress` is a union of its own | |

`Ingest`, `Conversations`, `Knowledge` and `MCProgress` are unions: each holds several
components side by side. `part` (in `Knowledge`: `topic`) is chosen by the initial state
and never changes; a step is one of that component, and the variables of the others
stay at their initial values. A union therefore explores exactly the behaviours of its
components one after the other, and a property of a component is stated as
`part = "..." => ...`. The first three leave every constant open, so that the proofs
are about any values of them; `MCIngest`, `MCConversations` and `MCKnowledge` extend them
with the small values TLC takes. A component that is wanted with more than one set of
bounds is an instance with parameters (`Named(chats, events)`, `Remembered(b)`,
`Viewed(b, local)`), and a theorem about it holds for each of its instances.
The components of a union do not interact in it: where they
meet in the code, the module itself has the other side in a coarse form (the recall in
`InboundStore`, the late parent in `ThreadOverlay`, the writers in `Retrieval`), and
its header says so.

Every definition that models code has its lines in `PROJECT.json` under "map".
Definitions with a suffix after an underscore (`Saved_Not`, `Commits_Unfenced`, ...)
are mutants: a plausible mistake in the definition below them, which the property
named in `PROJECT.json` must detect.

### RealtimeSpool

Operations run under `operation_lock`, so at most one is in progress (`op`); a kill, a
power loss or a failed call may fall between any two file-system steps. The spool is one
object for the whole process: a failed append ends the writer and a failed checkpoint the
worker of one connection, and `Connect` starts others on the files as they are. An append
does not look at what is in the file. `wal.torn` says whether nothing, part of a frame
(`tail`), or such a part with more behind it (`inside`) follows the complete frames, and
`blind` which receipts were issued for frames written there: no reader finds those again,
and the next open cuts them off or refuses the file. Two images of
each file are kept: what a reader sees, and what a power loss would bring back
(`walAlt`, `ckptAlt`, `stable`). Record UUIDs are drawn in order. Assumed: a rename is
atomic, renames reach the disk in order, `sync_all` commits the renames before it, a
complete frame is not altered. Frame encoding and encryption are abstracted to
complete or torn.

### SpoolPipeline

The spool file is taken at the level the previous module establishes. A message is a
number; MySQL is the set of stored messages, because inserts and hooks are idempotent.
One action per await point: what the reader drops, what the writer thread and the
ingestion worker do, which arm of the `select!` ends the connection, both drains, the
closing transaction, and at start the claim of open epochs, the replay and the closing
of recovered epochs. `Exit` drops everything in memory.

### GapBackfill

A gap is named by its epoch (the unique key of the table). A run has a token counter
in place of a random lease token. A task goes load, renew, fetch, save, record,
finalize; each is one transaction or one call to the source, and any number of others'
steps may come in between. What a page holds is abstracted to the evidence or anomaly
it leaves.

### ActionRuns

`run`, `checkpoint`, `done` are tables; `proposal` and `verdict` record which
proposals the gate accepted and which answer a resume consumed. `job` is the call in
progress in each worker and in the gateway's handler: `pc` is the await it stands at,
`g` what control uses of `SecretaryAgentState` and of the budget. A lease token is
named by the job that drew it. An action is a node of the graph up to its next commit:
`PlanProposal` then `ExecuteEffect` or `SaveCheckpoint` then `MarkSuspended`, so that a
crash, an expiry or another job fits between plan and effect, and between saving and
publishing a suspension. The proposals are queries (L0), writes (L1), impactful ones
and clarifications; the planner's choice is nondeterministic within what
`PlanNode` accepts. A run fails when an approved restriction of a conversation revokes
it. The stores differ in whether they refuse an expired lease that nobody has taken
over, so `ExecuteEffect` may do either. A failed run is eligible at once, because
`handle_failure` divides its 500 ms to zero seconds.

### OwnerNotifications

The key of everything is an occurrence, an item and its version: a candidate, its
evaluation request and its outbox row carry it, and moving or completing an item makes
the next version. `source` is the item's row, whichever of the four tables it lives
in; `basis` says whether what it rests on (a message, a commitment, an expectation)
still stands. The scans, the owner's controls and the policy writes are one
transaction and one action each. Two workers are not: the policy worker claims a
request, reads the epoch, reads the rules and commits, and an outbox loop claims a row,
posts it and records the receipt, so that everything else may come in between. A lease
token is named by its holder; two loops stand for an old and a new process that
overlap. `accepted` counts what the platform took, whether or not the answer came back.
Quiet hours are a choice of the moment. Not modelled: rows of the legacy outbox, the
LIMIT of a scan, rules for automatic replies, the clean-up when a conversation is
restricted.

### OwnerResponses

`outbox` is the table, `loop` what each delivery loop holds, `now` the clock that
process and database share. Materialising, expiring and claiming are one transaction
(`ClaimPendingResponse`), the POST has three outcomes (accepted with a receipt, accepted
and lost, refused), the mark is fenced by the claim. A claim that ends without a mark
becomes `unknown_commit` and is not tried again. Two loops are an old and a new process.

### AgentGraph

Every call of the builder that succeeds is an action: `add_node`, `set_transition`,
`mount`, `connect_exit`, `compile`, then the steps of a run. A dotted name is the
sequence of its parts, so that two namespaces can collide. The searches of `compile`
are recursive functions over the finite graph.

### RecallSpool

`wal` is the file of frames with at most one torn frame in front of a kill, `inbox` the
table. The worker copies a snapshot of the file, cuts the prefix it copied, claims rows
and records them; a notice may be appended at any point. Refines `DurableLog` in the
same way as the message spool.

### InboundStore

One action per transaction: insert with the tombstone looked up, recall, the artifact
hook, the claim, the derivation and the status of the job, expiry, the owner's retry,
the cursors. The derivation is two transactions, so a recall fits between.

### MemoryQueue

Messages of one conversation are numbered as they arrive. `drop` is the three-step
update of the overflow flags in the callback, interleaved with the worker that reads
them, writes a gap and stores a batch by bisection. A gap is the boundary it was
created with; writing it may fail, after which the worker goes on, and `unrecorded` names
the messages that were lost by then. The end of a connection drains or runs out of time.

### NapCatLink

Time is counted from the last heartbeat that was read. It passes only when no frame is
there and no timer is over, so timers are as exact as the select! makes them; a handler
takes time while frames wait behind it. `steady` says that the peer has kept its word,
`LivePeerKept` is about such a peer only.

### Directory

A sync reads the three lists in three steps, joins them and saves; a gap is created and
a caller of `freeze_for_gap` reads, inserts and loads in separate steps. With a snapshot
the model keeps what the lists named (`members`, `contacts`) and whether one of them was
longer than what `max_entries` left it (`cut`), to compare the scopes with.

### OwnerGateway

The platform (external) numbers the dispatches of a session and sends them again from
the number a client resumes with. The client handles one dispatch at a time: insert,
raw event, instruction (a run for a command, a resume for an approval), sequence, save.
The connection may end between any two, and what was not saved is forgotten.

### ReplyThreads, ThreadOverlay, ThreadSemantics

Three layers over the same messages. `ReplyThreads`: a reply stored before its parent is
queued, resolved by the parent's transaction, the healing after the commit or the reconcile
worker, and taken out of its thread; a projector plans under claims and commits later. A
transaction reads a snapshot and writes what is there: those that hold the row of the
account take it with that lock (`ensure_account_ref`, `snapshot`), the reconcile worker,
which holds only the row of the queue, when it has locked that (`lock_claim`, `fence`), and
a projection may commit in between. `Noticed` are the threads such a transaction sees
itself empty, `missed` those it emptied without seeing it. `ThreadOverlay`: the effective
thread of a message follows from the raw projection, an alias and an override, each of
which can be reverted; link candidates come of hints scanned under a lease.
`ThreadSemantics`: one thread, whose rows the worker derives beyond its cursor under a
lease while the owner confirms, revokes, reopens, and restricts conversations. An
invalidation hides rows; a re-confirmation shows them again.

### Participants

Events are numbered by their insert. The profile keeps bounded lists of sources and
aliases; an observation keeps one event per group. A name or card is shown when the rows
of its source still allow it, the old names when those of the listed sources do.

### Memory

`state` is the cursor and the lease of the scan, `deferred` the notes of messages a remote
model may not read. Messages are numbered by `received_at`, which is taken before a writer
waits for its locks, and `Store` commits them in any order; `behind` are those that were
not there when the worker looked past them. Candidates are proposed by a batch, approved or
rejected by the owner, swept when a source goes stale; facts are appended, revised, limited
and deleted. `MaxCommands` bounds the owner.

### Retrieval and PagedQueries

`Retrieval` makes a call a process whose steps are its SELECT statements, each on its
own snapshot, with arrivals, recalls, merges and restrictions in between; what it shows is
the set of messages whose words or sender it gives away. A message may be recalled before
it is stored; a reply is linked when its parent is stored (`reply_to_event_id`). `Reader`
says for whom a statement filters: the searches for the model may read `local_only` where
it is local, the readers of facts take a command of the owner as a source wherever it was
given, everybody else reads normal conversations only. `PagedQueries` writes ORDER BY and the
condition of the cursor down separately, as the code does, and changes rows between two
pages.

## 3. Runs

| Run | Expect | Shows |
|---|---|---|
| `spool` | pass | 4 records, 3 faults, power loss, any number of connections: no receipted record is lost that torn bytes do not precede (`DurableReceipt`), the files implement `DurableLog` (`ImplementsDurableLog`) |
| `gap_takeover` | pass | two tasks, two conversations, a lease that runs out under a live task: settled on persisted evidence (`EvidenceIsPersisted`), verified only when every frozen conversation was read (`VerifiedMeansRead`) |
| `gap_live` | pass | two runs, all answers, a task that dies: one active run per gap, no gap stays in backfilling (`RunsSettle`) |
| `actions` | pass | two commands, two proposals, two faults anywhere: `ImpactfulApproved`, `SuspendedResumable`, `EndedIsFinal`, and a run is answered, suspended or revoked (`RunsAnswered`) |
| `notify` | pass | an item of each kind, two versions, rules and quiet hours, two outbox loops, two owners, one fault: `AtMostOneSend`, `ControlWithdraws`, `SentToOwner`, `DecidedUnderCurrentPolicy` |
| `responses` | pass | two replies (one blank), two loops, one fault, a clock: `AtMostOneReply`, `StatusTruthful`, and every reply ends (`RepliesSettled`) |
| `graph` | pass | every graph of two host nodes and a fragment of two nodes, the refused ones included: `NeverLost`, `NoTrap` |
| `ingest` | pass | spool pipeline (3 messages, one refused by MySQL, 3 epochs, a crash and a fault of each kind), recall spool, inbound store, memory queue, link, directory: effects before checkpoint, and the whole path implements `DurableLog` (`FramesKept`), whatever was delivered is stored, pending or covered (`NoSilentLoss`, `QueueLossCovered`), notices are kept and their file implements `DurableLog` (`NoticesKept`), recalls reach their message (`StoreSound`), the directory is what it says as far as no list was cut (`CompleteHoldsAll`, `FreezersAgree`), a live peer is kept and a silent one noticed (`LinkWatched`) |
| `conversations` | pass | owner gateway: nothing is skipped over a RESUME (`NothingSkipped`), a command's run is not set back by a redelivery (`CommandRunsOnce`); threads, overlay, links, semantics and participants: `ThreadsConsistent`, `OverlayConsistent`, `VerdictsStand`, `SemanticsConsistent`, `NamesSupported` |
| `knowledge` | pass | facts and candidates (`FactsConsistent`), the scan of the account over what it can see (`ScanSkipsNothing`), views under concurrent arrivals and recalls (`NothingHiddenShown`), pages under change (`PagesStable`) |
| `progress` | pass | liveness of ten components under their own fairness: `DurableWorkDone`, `WorkersCatchUp` |
| `pipeline_stranded` | violation | `PendingFramesClaimable`: a spool fault during the drains is never read, the epoch ends with a pending frame, and every later start refuses it |

The violation run is a disagreement between the code and what its documents say;
`PROJECT.json` quotes both under "findings". Section 5 lists the others that were met.

**Bounds.** Two of everything that can collide (tasks, runs, epochs, conversations,
loops, proposals) is enough for the hazards here: each involves one stale holder and one
successor. Three messages with a batch size of two give a full batch, a partial one and
a bisection; six messages over a queue of two make a burst that is dropped in its
middle. A capacity of one or two makes a full queue, source list or page reachable.
`MaxFaults` and `MaxCrashes` bound the number of bad events, not where they fall.
`MaxSteps = 6` in `actions` stands to its other bounds as the code's 16 does: no run
needs that many nodes before its first suspension, and one that is resumed and meets a
conflict runs out of them. `notify` takes one item at a time of any of the four kinds:
items meet only in the queue and in the batches of a scan or of a control, and the
proofs hold for any number of them. `graph` enumerates all fragments of two nodes with
two routes, which has every defect `compile` looks for. In `ingest` one write of the gap
may fail (`MaxGapFaults = 1`), a friend is listed twice, contacts have the numbers of a
friend and of a group, and with two groups the contacts exceed `max_entries`. In
`conversations` a profile keeps `MaxSources = 2` messages, so the third of a private chat
pushes one out. In `knowledge` no reference has more matches than its limit (section 5,
`mysql_retriever.rs:628`).
`MCProgress` uses smaller instances still, because liveness is checked on the graph of
all of them.

**Deadlock** is disabled: the bounds let every model stop (all messages delivered, all
commands answered). That nothing is stuck before is what the temporal properties say.

**Fairness.** `SpoolPipeline`: the supervisor restarts the process, tokio polls its
tasks, a drain has a deadline, a lease nobody renews runs out; a new connection is not
assumed. `GapBackfill`: a live task is scheduled, the worker scans every 30 seconds.
`ActionRuns`: workers scan and drive their graph, the gateway handler drives its own.
`OwnerResponses`: the clock moves and the loop scans every 250 ms. `InboundStore`,
`MemoryQueue`, `Directory`, `OwnerGateway`: the worker loop runs until the shutdown.
These are weak. Strong fairness is assumed in five places, each time because a row
comes and goes: a recall row that keeps coming due is claimed (the scan takes the oldest
first), a commit of the link, semantics or memory worker is not delayed past its lease
for ever (the lease is several times the time-out of the model), and time passes for the
link although frames keep coming. Faults, commands, answers and new messages never need
to come.

## 4. Proofs

For every value of the constants, from the named ASSUMEs (bounds are naturals, flags
Boolean, the gateway is no worker, `None` is no member of the sets, a fragment is finite):

* `RealtimeSpool_proofs`: `AlwaysConsistent`, `ReceiptsAreDurable`,
  `CheckpointSkipsNothing`, `CheckpointAdvances`, `FilesImplementLog`. The inductive
  invariant `Consistent` says that identities grow along both images of the WAL, that the
  synced prefix and both checkpoints lie where the operation in progress put them, and that
  every unsettled record whose receipt is not `blind` is a stable frame of each image a
  crash may leave. Behind torn bytes nothing is claimed, for the code loses it (section 5,
  `realtime_spool.rs:420`). The weaker properties are not inductive: what an append may
  rely on is where the last rename left the other image. In the simulation of `DurableLog`
  a receipt is a hold (no record is receipted twice, `Unreceipted`), a compaction a
  release: what it lets go lies below the checkpoint, so it is settled (`Kept`).
* `GapBackfill_proofs`: `AlwaysLeases`, `GapsHaveOneRun`, `SettledOnPersistedEvidence`,
  `SettledForGood`, `VerifiedWasRead`. `Leases` ties a task's token to its run: as long as
  the tokens agree the run is active, its gap is in backfilling and the task's evidence is
  what the tables hold. A stale task has a smaller token, so no commit of its passes the
  fence. `VerifiedWasRead` adds that the conversations of a run are frozen before the first
  is read (`ScopesFrozen`), so the list a successor reads on with is the one a verification
  counts.
* `ActionRuns_proofs`: `WithinBudget`, `OwnerApproves`, `SuspendedCanResume`,
  `EndedForGood`. The checkpoint store checks no lease, so the argument cannot rest
  on leases. It rests on names: a checkpoint that is being saved or published is named
  by no run (`Unpublished`) and by no other job (`Apart`), a run names a checkpoint of
  its own (`RunsOK`), only the one gateway handler takes one, and a verdict exists for
  consumed checkpoints only (`CheckpointsOK`). `JobOK` says per program counter what a
  job may carry; a job about to execute has an approved proposal of its run.
* `OwnerNotifications_proofs`: `TypesHold`, `SentAtMostOnce`, `WithdrawnNotSent`,
  `OwnerOnly`, `SettledForGood`, `DecisionsCurrent`. `Sends` relates what became of the
  last post to the row; `SendersPlaced` says that a loop that is sending has a row
  decided for the owner of now. `ControlWithdraws` is part of the induction, because a
  withdrawn item must not have a row a loop could still claim. Decisions rest on
  `Snapshots`: the worker reads the epoch before the rules and every write moves the
  epoch, so an epoch that is unchanged at commit means that the rules read are the ones
  in force.
* `OwnerResponses_proofs`: `TypeCorrect`, `RepliedOnce`, `OutboxTruthful`,
  `EndedForGood`. `Placed` says which row a busy loop may have, `Alone` that no two loops
  are busy with one reply, `Informed` that a loop before its POST has a reply the
  platform has not seen and one before its mark knows what the mark will say.
* `AgentGraph_proofs`: `TypeCorrect`, `CompiledRunsOn`, `NothingReplaced`, `NoPartIsATrap`.
  What `compile` has checked still holds while the graph runs (`Checked`), and a run is at
  a node of it (`Running`), so a route always leads somewhere; no later call replaces a
  transition. `NoPartIsATrap`: a closed set of nodes that holds a node found backwards
  holds the nodes found one round earlier, down to one that ends; one that holds the entry
  holds what each round adds. The rounds are a recursive function, whose existence is
  proved first (`Rounds`); that they are as many as the nodes needs the nodes to be finite.
* `Ingest_proofs`, about six components that are checked in one run:
  * directory, `CallersAgree`, `FreezesLast`: a call that is past its write has found or
    left something frozen (`CallsOK`), and the first freeze of a gap stays.
    `CompleteIsComplete`: the first entry of each number survives the joining of the
    lists, and one that is named again takes no room, so of lists that fit the members are
    all there. A contact may be there under another kind only, and lists that do not fit
    are cut; the snapshot is called complete all the same (section 5,
    `directory_service.rs:329`).
  * spool pipeline, `PipelineInvariant`, `FramesAreKept`, `LossLeavesTrace`. That effects
    come before the checkpoint needs to know what the worker and the recovery hold:
    positions they are about to checkpoint are stored and hooked (`WorkerSound`,
    `RecoverySound`), and they stay the same frames because tasks end with their connection
    (`TasksOnlyAlive`), before the next open may cut an unsynced tail. Loss rests on
    `ArrivalsCovered`: the epoch of every arrival is connected, and leaves that state only
    with a gap. That the path implements `DurableLog` needs besides that the frames of the
    log and the messages of the channel ascend (`LogAscends`), so the frames a checkpoint
    passes are the oldest held. Held are the frames ahead of torn bytes: one behind them
    may be cut off although it has a receipt, which `DurableLog` does not allow and the
    mapping does not claim (`pipeline_stranded` shows how it comes about).
  * inbound store, `StoreIsSound`: a deriver that has read no recall claimed its job
    before the recall (`DeriverSound`), and the recall takes back what comes of it.
  * recall spool, `NoticesAreKept`: acknowledged frames precede whatever is torn
    (`FileOrdered`, `AckedKept`), so every way a recovery may cut the file keeps them; the
    prefix a drain removes is copied (`DrainOK`). A notice's append is a hold of the
    abstract log, `enqueue_recall` settles it, `remove_snapshot_prefix` releases.
  * memory queue, `OrderKept`, `QueueLossIsCovered`. Halves still to be tried, batch and
    queue follow each other in the order of arrival (`Sequenced`) and the counter lags
    behind the drops by the one in progress (`DropsCounted`). While the epoch has no gap,
    all that is stored lies below all that is absent and not `unrecorded`, and the check
    before each batch has seen every drop below its last message (`GapInv`). A write of
    the gap that fails gives up what was lost by then and nothing that is lost later: the
    next check asks again (section 5, `ingestion_worker.rs:1156`).
  * link, `LinkIsWatched`. That a silent peer is noticed rests on the time the handler
    still takes being counted to the age of the last heartbeat (`LinkInv`). That a peer in
    time is kept rests on where its next heartbeat is (`TimelyInv`): due within its period,
    or in the socket with at most `MaxFrames` messages before it, each of which moves it
    on by one place for the time of one handler. Hypothesis: the start-up grace is longer
    than a period and those handlers (`GraceCoversMessages`). The configuration checks no
    such bound; a handler only queues what it is given (`handlers.rs:86`), so the default
    of 300 seconds is far above it.
* `Secretary_proofs`, about the components of `Conversations` and `Knowledge`:
  * owner gateway, `TypeCorrect`, `AcknowledgedStored`, `RunsNotSetBack`. `Place` says where
    the client stands between the platform's count and its own: they differ by the one
    event that is being handled, so a saved sequence covers stored events only (`RowOK`).
  * what is derived of a thread, `SemanticsInvariant`, `SemanticsAreConsistent`: every
    visible row was read from a message behind the cursor that may be kept, and a batch
    whose claim still stands holds nothing that was withdrawn since, because each
    restriction takes the claim away.
  * verdicts and patches, `VerdictsAreKept`: a step property; only the proposing step
    writes a candidate that is not reviewed, and a patch that resolves reads the questions
    in the transaction that commits it.
  * merges and splits, `OverlayIsConsistent`: every row of the alias and override tables is
    that of a proposal that was applied, and in force until it is reverted; a thread that
    is not open has no messages of its own (`OverlayInv`).
  * replies and threads, `ThreadsInvariant`, `ThreadsAreConsistent`: an event under claim is
    in no thread, so a projection planned before moves nothing, and the plan names each
    event of its batch once (`PlanOK`). Whoever empties a thread clears it if its snapshot
    shows the members as they are; if not, the thread is `missed` until a projection fills
    it again, and the theorem says nothing of it.
  * memory, `MemoryInvariant`, `FactsAreConsistent`, `ScanReadsAll`: facts are numbered
    without gaps and one that was revised never holds again, so a chain has one end; a
    batch whose claim stands was not restricted since (`ClaimMayBeKept`), and holds what is
    unread up to where the cursor will move (`ClaimSkipsNothing`), except what was
    committed `behind` that claim (section 5, `mysql_memory_candidate.rs:356`).
  * views, `ViewsHideWhatIsHidden`: what a call may not show was out of its reach in every
    state since it began, each statement filters for itself, and the one that does not
    names only the parent that was read (`ViewInv`), or the parent of a reply that was not
    linked when the call began (`LinkedSince`; section 5, `mysql_retriever.rs:1306`).
  * participants, `NamesAreSupported`: a name, a card and an old name are stored with the
    number of a message that carries them, and messages are never removed (`NamesInv`); the
    bounded list of sources holds the last ones, so a source is in it or was pushed out by
    as many later ones (`SourcesInv`). The code looks at that list and not at the source of
    an old name, which may therefore be one that is hidden (section 5,
    `mysql_retriever.rs:152`).
  * pages, `PagesAreStable`: the condition of the cursor is the strict order of the query,
    so of the rows that stay just those up to the cursor have been returned (`PagesInv`);
    that the first page after the cursor has an end is an argument on finite sets.

Each invariant was checked by TLC before it was proved. `AlwaysConsistent`,
`CheckpointAdvances`, `SettledForGood`, `EndedForGood` (responses), `NothingReplaced`,
`FreezesLast` and the type invariants are proved and no longer part of a run.

Where a proof needs an induction (the rounds of a search, the first heartbeat in a
queue, the oldest unread message), it takes the least counterexample instead, from the
well-foundedness of the natural numbers (`LeastOf`, `LeastIndex`, `Smallest`, `Largest`):
the library's induction theorems have operators as parameters, which the provers here
cannot instantiate.

With that every invariant and action property of the runs that is expected to hold is a
theorem. Only model-checked are the liveness properties (`RunsSettle`, `RunsAnswered`,
`RepliesSettled`, `DurableWorkDone`, `WorkersCatchUp`), for fairness and ENABLED are
beyond the prover. One theorem has a hypothesis beyond the assumptions of its module,
with the reason above: `LinkIsWatched`. Where the code breaks a promise in a case that the
model has, the property names the case by a history variable or a definition of its own
(`blind`, `unrecorded`, `cut`, `missed`, `behind`, `LinkedSince`, `PushedOut`), and the
promise without the exception is an expectation of section 5.

## 5. What the code does not do

Besides the finding of `pipeline_stranded`, these statements of the repository do not
hold of the models. The definition in the last column states the expectation; TLC
refutes it on instances of the size of the runs, with the constants given there, or else
with those of the runs. They are not kept as runs.

| Source | What the code does | What is said | Definition |
|---|---|---|---|
| `realtime_spool.rs:420`, `connection_loop.rs:195` | the fatal of a torn append loses the select!, the next connection appends behind the torn bytes and gives receipts; the next open cuts these frames off with the bytes, or refuses the file | only the last, incomplete frame is cut (gap-007 decision, line 138); a receipt is for a frame that is durable (line 56) | `RealtimeSpool!EveryReceiptDurable` |
| `mysql_realtime_spool.rs:67` | a restart within the recovery lease takes an empty claim for nothing left | no connection before legacy epochs are settled (gap-007, line 207) | `SpoolPipeline!LegacySettledBeforeConnect` with `MaxCrashes = 2` |
| `mysql_continuity.rs:151` | a gap settled while online takes the place of the later disconnect's gap | a disconnect makes a new gap (`connection_loop.rs:316`) | `GapBackfill!DisconnectScheduled` |
| `planner_service.rs:722` | the back-off is always 500 ms divided to zero seconds; a failing run keeps the head of the queue | per-run back-off (`planner_service.rs:312`) | `ActionRuns!HealthyServed` with `Poisoned = {1}` |
| `recall.rs:887` | a torn frame makes every drain of the process fail until a restart | the transfer is retried (same line) | `RecallSpool!FailedDrainIsRetried` |
| `mysql_artifact_derivation_helpers.inc.rs:78` | the artifact is inserted with the flag the claim has read | no available artifact of an applied tombstone (`mysql_inbound.rs:1049`) | `InboundStore!NoAvailableArtifactOfRecalled` |
| `mysql_retriever.rs:152` | an alias is shown whatever became of its own source | each alias checks its source (history/2026-08.md:1190) | `Participants!AliasShownIsSupported` with two conversations and `MaxEvents = 3` |
| `mysql_inbound.rs:713` | a redelivered parent takes all its replies out of their threads | only what this call resolved (`mysql_inbound.rs:649`) | `ReplyThreads!ResolvedUnaffected` with `ThreadEvents = {1, 2, 3}`, `Recalls = {}`, `Parent = <<0, 1, 1>>`, `Legacy = {1, 2}` |
| `mysql_reconcile.rs:166` | the reconcile transaction selects the old threads in a snapshot it took before (`mysql_inbound.rs:712`) and deletes the members there are now (`:736`): a thread it empties without seeing it stays open, and what is derived of it active | either order leaves nothing active on the old thread (`mysql_inbound.rs:845`) | `ReplyThreads!NothingLeftOnEmpty` |
| `mysql_inbound.rs:273` | a redelivered reply is queued on what its snapshot says, after the resolution has removed it | no path leaves a resolved candidate (`mysql_inbound.rs:693`) | `ReplyThreads!NoResolvedCandidate` |
| `mysql_inbound.rs:782` | a reply to a reply of a late parent keeps the old thread and loses its relation | no wrong thread for ever (`mysql_inbound.rs:635`) | temporal, by hand |
| `mysql_thread_mutations.rs:1000` | messages of a split do not follow a merge of its thread | a merge returns the canonical thread only (history/2026-08.md:632) | `ThreadOverlay!MergedThreadIsGone` |
| `mysql_inbound.rs:829` | a canonical thread is closed with merged messages in it | closed when empty (`mysql_inbound.rs:656`) | `ThreadOverlay!ClosedWhenEmpty` |
| `mysql_thread_mutations.rs:1072` | a split may take the last members that are left | a split is a proper subset (history/2026-07.md:454) | `ThreadOverlay!SplitLeavesMembers` |
| `mysql_memory_candidate.rs:833` | a candidate of a `local_only` conversation is invalidated by the next scan | `local_only` is no reason listed (lines 804-805) | `Memory!GivenUpWhenStale` |
| `mysql_memory_candidate.rs:356`, `:743` | a message that commits late is behind the cursor for good | the cursor moves over a contiguous prefix that was processed (TODO.md:147) | `Memory!PrefixRead` |
| `mysql_retriever.rs:1306` | the sender of a recalled parent is named when its reply is linked after the first statement, because `replies_to` is dropped only for a reply that was already set | parents of replies are filtered like other sources (TODO.md:513) | `Retrieval!ParentsFiltered` |
| `mysql_retriever.rs:628` | the ten newest matches decide whether a reference is unique | never guess among several (`retriever.rs:1331`) | `Retrieval!UniqueInScope` with `CandidateLimit = 1` |
| `mysql_retriever.rs:3217`, `:3601`, `:694` | facts are decoded, filtered and dated by paths a stored fact does not have | comments at lines 1314, 686, TODO.md:294 | `Retrieval!CausalContextAnswers`, `PersonMemoryShown`, `CommitmentsListed` with `DerivedKinds` commitment or person |
| `qq_open_platform.rs:720` | the creation of the run may fail; the sequence moves on all the same | a double write must not lose the command (line 721) | `OwnerGateway!CommandsPlanned` |
| `qq_open_platform.rs:574` | a redelivered bare approval may match a run suspended meanwhile | ambiguous answers choose nothing (same line) | `OwnerGateway!OneProposalPerAnswer` with two commands |
| `directory_service.rs:329`, `:340`, `:351`, `:355` | a list is cut at `max_entries`, a contact dropped whose number is that of another kind, and the snapshot called complete | the known conversations are enumerated completely (`directory.rs:97`) | `Directory!CompleteNamesAll` |
| `ingestion_worker.rs:1156` | the batch after a gap that was not written moves the boundary past the dropped message | the earliest break (`mysql_continuity.rs:335`) | `MemoryQueue!EveryLossCovered` |
| `connection_loop.rs:287` | after a drain that ran out of time no gap is made | relies on the gap (history/2026-07.md:175) | `MemoryQueue!AbortCovered` |
| `ingestion_worker.rs:1148` | a drop between two updates of the flags leaves the alarm on | repaired (history/2026-08.md:2148) | `MemoryQueue!AlarmHasCause` |
| `heartbeat.rs:263` | the deadline is the larger of interval * multiplier and the start-up grace | interval * multiplier (`heartbeat.rs:249`) | `NapCatLink!DeadlineIsMultiple` |

## 6. Plan

1. Agreements between components that are each modelled alone so far: the epochs and
   gaps `SpoolPipeline` leaves are what `GapBackfill` starts from, and the messages
   `Ingest` stores are what `Knowledge` scans.
2. `HistoryScan`: the items of a backfill page, boundary and overlap detection, checked
   against a reference definition.
3. Progress of evaluation requests in `OwnerNotifications`; the restriction of a
   conversation, the reconciliation of legacy rows and automatic replies there.
4. Liveness of `ReplyThreads` (a reply whose parent is stored is resolved, an event
   taken out of a thread comes back into one), which is too slow for a run so far.

Not modelled, and not planned: language model calls (nondeterministic answers), prompt
and text formatting, relevance of searches, JSON and HTTP adapters, configuration
parsing, health counters, the admin page, SQL schema text. Most of what the map leaves
out is of these kinds, or tests beside the code.
