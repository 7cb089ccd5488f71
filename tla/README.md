# LlamaFarm in TLA+

Specifications of the concurrent core of LlamaFarm, the self-hosted agent runtime
in this repository, with TLC configurations and proofs checked by TLAPS. Paths
below are relative to `src/src/` unless they start with `src/`.

Contents

1. The system: components, state, operations, interactions
2. What is hard about it, and what makes it correct
3. The modules and how they correspond to the code
4. The runs: what each asks, its bounds, what it shows
5. Fairness
6. Proofs
7. Where the program and its documentation disagree
8. Model-checked only, and not modelled
9. Plan

## 1. The system

LlamaFarm is one Rust binary. A daemon supervises an HTTP gateway, chat channels,
a cron scheduler and a heartbeat; all of them start *agent turns*, in which a
language model calls *tools*. Tools delegate: to local sub-agents, to worker nodes
on the LAN ("federation"), or to operators through approvals and standard
operating procedures. Everything runs on one tokio runtime, so "concurrent" below
means tasks that interleave at `await`s and at locks.

| component | source | state it keeps | operations | status |
|---|---|---|---|---|
| coordination bus | `coordination/mod.rs` | inboxes with counts by correlation, shared context with three recency indexes, dead letters with an index, dedupe window, statistics; one mutex | register, unregister, publish, drain; paged queries | modelled: `CoordinationBus` |
| background sub-agents | `tools/subagent_registry.rs`, `subagent_spawn.rs`, `subagent_manage.rs` | sessions with status, result and join handle; one rwlock | spawn (three lock holds), complete, fail, kill, list with cleanup | partly: `SubAgents` |
| remote delegation | `federation/remote_subagent.rs` | per call: future, oneshot signal, forwarder task, the turn's token | `execute_delegate`, stop, dropped future, cancel requests | modelled: `RemoteDelegation`, `DelegatedTask` |
| federation tasks (worker node) | `federation/remote_subagent.rs`, `gateway/api.rs` | event log (256), broadcast channel (128), running handle | create, publish, stream, cancel | modelled: `FederationTasks`, `DelegatedTask` |
| standard operating procedures | `sop/engine.rs`, `dispatch.rs`, `audit.rs`, `tools/sop_*.rs` | definitions, active and finished runs; run records in a memory backend | start, advance, approve, cancel, timeouts, reload; audit writes | partly: `SopEngine` |
| channel dispatch and histories | `channels/mod.rs` | semaphore of permits, the in-flight worker of each chat with its token and completion, conversation histories | dispatch a message, interrupt and wait for the turn before, append, compact and roll back turns | partly: `ChannelDispatch`, `ChannelHistory` |
| tool approvals on channels | `approval/mod.rs`, `agent/loop_.rs:475`, `channels/mod.rs` | pending requests, resolutions, one-time tokens, two runtime lists, the same lists in the configuration file and its applied stamp; a lock each | create, wait, confirm, deny, expire, grant, revoke, reload | partly: `Approvals`, `ApprovalPolicy` |
| cron scheduler | `cron/*.rs`, `tools/cron_run.rs`, `gateway/api.rs` | jobs and run records in SQLite; polled rows | add, update, pause, remove, poll, run with retry, run now, record, reschedule | partly: `CronScheduler` |
| run ledger, task plan | `agent/run_ledger.rs`, `tools/task_plan.rs`, `agent/autonomous.rs`, `gateway/ws.rs` | plan, evidence and status of a run behind a mutex, its JSON file, the registry of live runs; the tool's list of tasks | open, mirror a plan, record, verify, retry, finalize, save | partly: `RunLedger` |
| SOP conditions, gates, metrics | `sop/condition.rs`, `gates.rs`, `metrics.rs` | outcome windows | record, decide | planned |
| agents IPC | `tools/agents_ipc.rs` | agents, messages, shared state in SQLite, shared by processes | send, inbox, state get/set, heartbeat | planned |
| reliable provider | `providers/reliable.rs` | key index, fallback chains | call with retry and fallback | planned |
| daemon | `daemon/mod.rs`, `health/mod.rs` | supervisors, health map, state file | restart with backoff, shutdown grace | planned |
| peer registry | `federation/peer_registry.rs` | peers, roles, hints | announce, expire, assign | planned |
| delegation tracing | `tools/delegate.rs` | trace messages on the bus | start and finish a trace | planned, with the bus |
| agent loop, gateway, providers, tools, security, memory, auth, config, runtimes, hardware, skills, observability | the other directories | mostly one call's worth | I/O, formats, policy over text | not modelled, see 8 |

Interactions. A turn owns a cancellation token; the tool loop
(`agent/loop_/execution.rs:97`) drops a tool's future when the token fires, which is
what `RemoteDelegation` is about. `delegate` and `subagent_spawn` both use
`start_remote_task` and `consume_remote_task` against another node's
`/federation/tasks`, whose far side is `FederationTasks`; `DelegatedTask` is both ends at
once. `delegate` traces its
work on the coordination bus. The SOP engine is called by tools of a turn and by
`dispatch_sop_event` for MQTT, webhooks, cron and peripherals, and writes its
records to a memory backend after it has released its lock. Chat messages come
through one queue to `run_message_dispatch_loop`, which starts a worker for each; the
worker runs `process_channel_message`: it applies a changed configuration file,
handles a command, or appends the question to the conversation's history and runs the
tool loop, whose approval hook creates requests that later messages of the same chat
answer. The scheduler polls a table that the gateway and the tools also write. The
turns of the web chat and the autonomous loop run the tool loop under a run ledger: what
it records of `task_plan` and of other calls decides whether a run may call itself done.

## 2. What is hard, and what makes it correct

`PROJECT.json` lists the hazards at their lines, those of planned parts included.
Left out there for their size: an evicted context key that starts again at version 0
(`coordination/mod.rs:1139`, part of `VersionedStore` all the same), the task map that
never forgets a finished task (`federation/remote_subagent.rs:541`), names matched
before a reload and started after it (`sop/dispatch.rs:72`, in `StartRuns`), the two and
five locks of a grant and a policy replacement (`approval/mod.rs:335`), and the
staleness of agents in `tools/agents_ipc.rs:116`. In short:

- *Several lock holds for one operation.* Spawn inserts, spawns and sets the handle
  in three steps; a kill fits between them. SOP callers release the engine before
  they write the record. Correct means: slots are held for a reason, results are
  true and final, records claim nothing that did not happen.
- *Three watchers of one token.* The tool loop, the delegate call and its forwarder
  all watch a stop; any may run first, and a dropped future runs no code. Correct
  means: a stop strands a remote task only if something failed, and nobody cancels
  the work of an undisturbed call.
- *Two ends of a network.* A call makes its result of what a stream of bounded memory
  passes on, while its task concludes, is cancelled late, or has no handle yet. Correct
  means: the result is what the task came to, and each end is to the other what it is
  taken for.
- *Bounded queues that forget.* Inboxes, dead letters, context entries, message ids,
  event logs, broadcast channels, finished runs. Correct means: what is left is a
  contiguous newest part, what was dropped is accounted for, and indexes kept beside
  a queue agree with it after every eviction.
- *Readers that switch sources.* A federation stream replays a log and goes on with a
  channel. Correct means: one uninterrupted piece of the task's events.
- *Definitions that change under running procedures*, and rows that change under
  running jobs: what was read before is written or run after. Correct means: a
  result belongs to a step that was reached, a next run to the job's schedule, and
  what was switched off stops.
- *Turns of one chat.* A new message cancels the turn before it and waits for it;
  several may wait in line. Correct means: one turn at a time, each asked its own
  question, and a history in which every question is closed or explained.
- *An answer that passes through several locks.* A request is removed, a resolution
  recorded, a list changed and a file saved one after the other, while the waiting
  call looks, expires or is cancelled. Correct means: a yes runs one call of its own
  chat, and a revocation stays.
- *A database without transactions.* Poll, run, record, reschedule and update are
  statements of their own, and the process may die between them. Correct means: an
  occurrence is started once and not dropped, except for named reasons.
- *Claims and evidence.* The model says what it has done; the ledger must not. Plans
  change while they are worked on, the ledger copies them from the arguments of calls,
  and files are written in three system calls. Correct means: nothing is verified
  unproved, what was recorded stays on file, and the plan that is checked is the plan
  the model sees.
- *Waiting.* A waiting run, a stream, a session, a message must end by something the
  code really does.

## 3. The modules

All modules are written from the source. Each component module has its state as
VARIABLES, one action per operation or step, a type invariant, and its safety and
liveness properties. Definitions marked `A bug:` are changed copies of the
definition that follows them, as a slip in the code would change it; each breaks the
property it is paired with in `PROJECT.json`, and none is used by a specification.

### `CoordinationBus`, `OrderedMailboxes`, `VersionedStore`

The bus has one mutex, so a method is an action. `publish` is split by outcome
(`PublishInvalid`, `PublishDuplicate`, `PublishConflict`, `PublishUnknownTarget`,
`PublishDirect`, `PublishBroadcast`); each outcome carries everything the code does
before it returns: remembering the id, applying the patch, evicting, indexing,
consuming a sequence number, burying. The operators `Bury`, `PushInbox`, `ApplyPatch`
are the private helpers of the same purpose. Paged queries (`PeekCorrelation`,
`ContextRecent`, `DelegateContextRecent`, ...) read the indexes as the code does.
A payload is its kind; a key is a model value that may name a correlation, as
`delegate/<correlation>/...` keys do. Limits pass through `AtLeastOne`
(`with_limits` clamps them). `Matching` is the filter of the queries. `last_received`,
`consumed` and `accepted_at` are history.

`OrderedMailboxes` is what agents are promised about delivery: numbered messages, in
order, a bounded mailbox that loses its oldest. `VersionedStore` is what the context
promises: compare-and-set per key, versions that rise until the key is evicted, a
bounded number of keys. Both are refined by the bus (`ImplementsMailboxes`,
`ImplementsStore`).

### `SubAgents`

A session runs through `spawner` (the spawning call: inserted, spawned, returned,
failed), `task` (the tokio task), `status` and `handle` (the registry's fields),
`worker` and `cancels` (a remote session's far side). The registry's methods are
`TryInsert`, `SetHandle`, `RecordResult` (`complete` and `fail`), `Kill`, `List`.
A task in `succeeding` or `failing` is past its last await: an abort no longer stops
it. `TokenRequired` says whether the worker node asks for the federation token, which
the cancel of a kill does not carry.

### `RemoteDelegation`

Calls of one turn. `caller` is where the `execute_delegate` future is, `signal` its
oneshot channel, `forwarder` the task at line 288. `DropCall` is the tool loop's
`select!` or the end of the whole turn. `mishap` is history: the calls that met a
failed start, a broken stream, a lost cancel, or a drop before their forwarder
existed. `at_stop` is history: tasks that ran for a pending call when Stop came. `RDInit`,
`RDNext`, `RDSpec` and the like carry the module's initials, so that one module can extend
both ends of a delegation.

### `FederationTasks`

One task of the worker node's manager, since tasks share only a lock. `published` is
every event so far; the channel keeps the last `Capacity` of it, the log (`events`)
the last `HistoryLimit`. A reader is the state of the handler's `unfold`: what is
left of the replayed log, the next event its receiver reads, and whether a terminal
event has passed.

### `DelegatedTask`

Both ends of one delegation: `RemoteDelegation` for all calls of a turn, `FederationTasks`
for the task of one of them (`theCall`), and what crosses the network between them. The
node accepts the start request (`AcceptTask`), perhaps after its sender has given up, and
answers once the handle is set (`AnswerArrives`); the call opens its stream (`own`) when
it consumes, and others may open theirs; a cancel request in flight is taken by the
node's handler (`TakeCancel`), whose 404 the caller ignores. `Returns` is
`consume_remote_task` behind a stream that ended: `ResultOf` lets any failure win over
the answer. `worker[theCall]` is what the call can know of the task (`TaskState`) and
follows it in every step of the node. Of the other calls only the tokens matter, so their
tasks stay as abstract as `RemoteDelegation` has them. `conclusion` is history: what the
tool loop on the node came to. `ImplementsDelegation` is the refinement of
`RemoteDelegation`: the variables are its own, and the steps of the real task must be
steps of the abstract worker.

### `SopEngine`

`active`, `finished`, `run_counter`, `sops` are the engine's fields. `StartRuns` is
one lock hold of `sop_execute` (one name) or of `dispatch_sop_event` (the matched
names, possibly of definitions that a reload has replaced since). `AdvanceStep`,
`ApproveStep`, `CancelRun`, `CheckApprovalTimeouts` and `Reload` are the methods with
their callers. `writes` are the audit writes callers still have to make, `stored` the
run records. Time is what the engine asks of it: `cooling` lists finished runs whose
cooldown has not elapsed, `waiting` says whether a wait is longer than the approval
timeout. An index out of bounds is `Panic`: the release profile aborts
(`src/Cargo.toml:245`). `reload`, `cancel_run` and `check_approval_timeouts` are
public and tested but have no production caller at this commit; they are modelled
because the engine is written for them, and `TimeoutPoller` says whether the last is
called at all.

### `ChatTurns`, `ChannelDispatch`, `ChannelHistory`

`ChatTurns` is what the dispatch promises to the code behind it: messages wait, are
processed and end; in an interrupting chat one at a time; a waiting message may have
earlier ones cancelled. `ChannelDispatch` is how that is done: a permit of the
semaphore for each message (`Dispatch`), the entry of the chat replaced under its lock
(`Register`), the replaced worker's token cancelled, and `InFlightTaskCompletion::wait`
and `mark_done` in two steps each, because between the flag and the notification the
other side may move. `ImplementsTurns` is the refinement; `earlier` is history, which
the proof needs. `interrupt_on_new_message` exists for Telegram only, hence
`Interrupting`. `permits` is fixed at the start, as `compute_max_in_flight_messages`
(`channels/mod.rs:2883`) fixes it by the number of channels, and `Permits` are the numbers
it may be.

`ChannelHistory` adds what a turn does to the history of its conversation, which
several chats may share: the question appended and the prompt read back in two lock
holds, and then one of the ways `process_channel_message` ends (`Answered`,
`Cancelled`, `Suppressed`, `Overflowed`, `RolledBack`, or before the question by
`EndEarly` and `ClearHistory`). `Normalized` and `Compacted` are translated as what they
do to roles and questions.

### `ApprovalPolicy`, `Approvals`

`ApprovalPolicy` extends `ChatTurns` with the two runtime lists and the two lists of
the configuration file. `update` says in which step of a grant, a revocation or a
reload a worker is and what it had read from the file by then. `collided` is history:
two updates overlapped; nothing in the code forbids it, and then a revocation may be
undone by a file that was read before it.

`Approvals` is the tool call: `work` is what a message's processing is doing, through
`needs_approval` (two lock holds), the shared or new request, the wait of
`await_non_cli_approval_decision` (`Look`, `Peek`, `GiveUp`, `RejectOwn`, `Discard`),
and the commands that answer, grant and revoke, each step one lock hold. A turn makes
one call. `decided` and `ran` are history. That the very answer cancels the turn that
waits for it comes from `ChatTurns`, not from an assumption.

### `CronScheduler`

`jobs` and `records` are the two tables; `batch` the polled rows whose execution has not
begun, `run` a slot of the scheduler or a caller of "run now" with its copy of the row,
`edit` an `update_job` between its read and its write. `Poll` is guarded by an idle
scheduler, as the loop waits for its batch. A schedule is a time, a period or the set of
times that a cron expression stands for; `NextRun` is the first of them to come, and
`HasNext` says that there is one: `next_run_for_schedule` fails for an expression that
has run out (`cron/schedule.rs:18`), so that nobody can add such a job, and a job whose
expression runs out is not rescheduled. An execution and the record of it are one step
(`RecordRun`), for nothing in the database changes before it. `StaysDue` are the rows
that no run takes off their time: kept one-shots and schedules that have run out. `Crash`
keeps the tables only, `StoreFails` is a statement whose error is logged or ignored.
`Occurrence` is what a job was started for: its schedule and the time it fell due.
`stale` and `excused` are history: rows written from a row that was out of date, and jobs
whose run met a fault, or that were resumed, no longer kept, or given back a time they
had been started for.

### `RunLedger`

A run is an opening of a ledger: `at` is where it is in a turn or in the autonomous loop,
`data` the fields of `RunLedgerData`, `save` and `writes` how far its save is and which
file the opened descriptor stands for. A save's truncation, write and rename are `Saves`
(with the mutation it ends) or `Truncate`, `Fill` and `Rename`; two writers of one file
may leave `Torn`. `Mirrored`, `WithEvent`, `Verified` and `Blocked` are
`mirror_task_plan`, `record_tool_event`, `verify_steps` and `unverified_plan_summary`;
`Tasks` and `NextId` are the handlers of the `task_plan` tool, whose list all turns
share. An `Entry` of a call, a `TaskItem` of the list and a `PlanStep` of a ledger are
records of their own, as in the code, and so are the ways to them: `Task` and `Cleaned`
drop a dependency on 0, trim the expected patterns and drop the blank ones, as the
parsers of the tool do (`tools/task_plan.rs:78`), `NewStep` and the mirror of a change
take both as they are (`agent/run_ledger.rs:841`). `PlanMirrorsList` therefore compares
the list with the plan as the tool would read it (`TasksOf`). Calls of a batch are
executed one after the other and recorded afterwards, unless the batch is cancelled. A
file is a chat session's, which many turns open, or an autonomous run's own. `proved`,
`kept`, `contested` and `owner` are history: steps with a successful call, events whose
recording was not cut off, files two runs had open together, and the file whose runs
alone have changed the list since they replaced it.

### MC modules and proofs

`MCCoordinationBus`, `MCSubAgents`, `MCSopEngine`, `MCDelegatedTask`,
`MCFederationTasks`, `MCChannelHistory`, `MCApprovals`, `MCCronScheduler` and
`MCRunLedger` give the constants their small values. `CoordinationBusProofs`,
`SubAgentsProofs`, `SopEngineProofs`, `FederationProofs` (both ends of a remote
delegation, and the two together), `ChannelHistoryProofs`, `ApprovalsProofs`,
`CronSchedulerProofs` and `RunLedgerProofs` have the theorems.

## 4. The runs

| run | question | bounds | states |
|---|---|---|---|
| `bus_delivery` | is every delivery in order and accounted for; is no id accepted twice within the window; refinement of mailboxes | 2 agents, 3 ids, inbox 2, dead letters 2, dedupe window 2, 5 publishes | 334,611 |
| `bus_context` | do counts, indexes and all paged queries agree with a full scan; refinement of the bounded store | 4 keys in a context of 2, 2 correlations, 5 publishes | 208,708 |
| `subagents` | limit, slots, truth and finality of results; sessions end | 2 local and 1 remote session, 2 slots | 168,698 |
| `sop_runs` | results follow steps and records are true, with definitions that change | 2 SOPs, 3 catalogues, 2 runs, 1 active, 1 finished kept | 183,891 |
| `sop_cooldown` | starts in batches against limits and cooldown, with runs that are forgotten and definitions that change | 2 SOPs, 2 catalogues (limits 2 and 1 or 1 and 2, both or one with a cooldown), 3 runs, 2 active, 1 finished kept | 693,676 |
| `delegation` | stranded tasks, stray cancels, the result against what the task came to, work that nobody can cancel; refinement of the delegation protocol; stops are forwarded | 2 parallel calls, the task of one of them in full: 1 stream, log 3, channel 3, 2 status events | 932,496 |
| `federation` | the switch from log to channel, lag; streams end | 2 streams, log 3, channel 3, 3 status events (5 events in all) | 40,468 |
| `channels` | one turn at a time, refinement of `ChatTurns`; own question last, histories closed and in order; messages end | 3 messages, an interrupting and another chat, their conversations apart, 2 or 3 permits, history 3, 2 kept | 436,829 |
| `approvals` | one call per answer, revocations, interrupting chats; turns end | 3 messages, 2 chats, 1 tool, to be asked for at first | 271,075 |
| `cron` | next runs, starts after off, once per occurrence, nothing dropped; due jobs start | 2 jobs, a time, a period and a cron expression with a single time, 1 slot, 1 caller, 1 editor, poll limit 1, 3 requests, clock to 2, 1 fault | 1,354,984 |
| `ledger` | nothing verified or complete unproved, the file keeps the record, the plan follows the list | 2 runs, a session's file (with a plan, or a finished one, from before) and an autonomous run's, 2 calls of 12 kinds, 6 events, 2 attempts, 1 crash | 2,360,633 |

`approval_lost` shows a disagreement of section 7.

Why the bounds are enough. The limits of 1 or 2 are exceeded in every run: two messages
too many for an inbox, an id that leaves the dedupe window and returns, two keys too many
for the context, a session more than slots, a finished run more than kept, a message more
than permits, an event more than log and channel hold, a turn more than a history keeps,
a due job more than a poll takes. Each component's interactions are pairwise (a spawn
with a kill, a stop with a completion, a writer with a reader, a run with an update);
three sessions or two calls, streams and agents have all pairs, and a third party for the
limit. Three messages are a turn, one that interrupts it and one that interrupts the
wait; for approvals they are a call, its answer and a third that calls, answers or
changes the lists. Two runs are an earlier and a later turn, two turns of one session at
a time, or a turn beside an autonomous run; a plan from before makes two calls enough to
redo a step, to close a circle or to prove a plan. `MaxPublishes`, `MaxRuns`,
`MaxEvents`, `MaxMessages`, `MaxTime`, `MaxRequests`, `MaxFaults`, `MaxCalls` and
`MaxCrashes` only bound counters. Symmetry is used in the bus runs, whose ids are
interchangeable, and for the ledger's runs, and never with a liveness property. Deadlock
is not checked: bounded publishes, runs, messages and requests are used up, a session's
id is used once, and a task ends.

`sop_cooldown` keeps one finished run of three, so that the engine forgets a run that
cools down (the default is 200), and its reloads move the limits below what is running and
above, and take a cooldown away from a procedure that cools down and give it back. The
permits are 8 to 64 in the code (4 for each channel): with 2, three messages fill the
semaphore and the third waits; with 3, all three are in progress at once. The cron
expression runs out before the clock does. `federation`
has a log and a channel that cannot forget the last terminal event: a cancelled task may
publish a few more events before it is dropped, and the real limits of 256 and 128 leave
room for them, as 3 does for at most 3. `sop_runs` sets `TimeoutPoller` so that
`check_approval_timeouts` is part of what its safety properties are checked against.

Excuses. Some properties say what may go wrong as part of their statement, because the
code does let it go wrong; each excuse is a named operator or a history variable with one
cause: `MissedWakeUp` (a subscription after the notification), `collided` (two overlapping
updates of the lists), `Forgotten` (a cooling run that later ones pushed out of memory),
`stale`, `excused`, `StaysDue` and `Starved` of the scheduler, `mishap` of the
delegation, `contested` and `owner` of the ledger. Without the excuse TLC finds the
property violated; with it, everything else is covered.

## 5. Fairness

- `SubAgents`: the spawning call runs on (the start request has a 10 s client
  timeout), the task's own timeout makes it answer (`SPAWN_TIMEOUT_SECS`, or the
  client timeout of the relay), and the runtime drops an aborted task. Users, workers
  and the network owe nothing.
- `SopEngine` (`LiveSpec`, used by no run): time passes, and `check_approval_timeouts`
  is called again and again if something polls it. Nobody has to advance or approve.
- `RemoteDelegation`: the runtime runs the forwarder's spawned task, and a request in
  flight arrives or is lost. The call itself owes nothing: its future may never be
  polled again.
- `DelegatedTask`: the same as in `RemoteDelegation`, with the node's cancel handler in
  place of the abstract delivery. The task, its streams and its call owe nothing.
- `FederationTasks`: streams are polled, and an aborted task is dropped. The task
  itself may work forever, and the property speaks of its end only.
- `ChannelHistory`: the loop dispatches, the workers run on, and a turn ends, by the
  timeout around its tool loop (`channels/mod.rs:3322`) at the latest. Nobody has to
  send a message.
- `Approvals`: a worker runs on. `GiveUp` has strong fairness: each time the waiting
  call looks, the timeout may not be over yet, but it does not last forever. Nobody has
  to answer, and an expired request need not be pruned.
- `CronScheduler`: the scheduler's task takes a step as long as it has one
  (`SchedulerStep`): it polls, starts and finishes what it runs, for a shell job has a
  timeout and an agent job a limit of iterations. The clock, callers, editors and users
  owe nothing.

All fairness but that of `GiveUp` is weak.

## 6. Proofs

Checked by `tlapm` for every value of the constants that meets the named assumptions
(`BusAssumption`, `SessionsAssumption`, `SopAssumption`, `DispatchAssumption`,
`HistoryAssumption`, `ChatAssumption`, `PolicyAssumption`, `ToolAssumption`,
`TasksAssumption`, `DelegatedAssumption`, `CronAssumption`, `LedgerAssumption`,
`EarlierAssumption`). TLC evaluates the assumptions in every run. They say that the
distinguished values are no names, that limits are numbers, what the code's tables
guarantee, that the calls of a model have the fields their handlers read, and that
earlier turns left what this code leaves; none bounds a set or a limit, but that agents
and sessions are finitely many. No theorem has a hypothesis of its own.

A recursive function of the models (burying dropped messages, draining, matching, a batch
of starts, normalising a history, the verifier, keeping titled entries) is shown to exist
by building it on `0..n`, and a fact about each of its values by induction over a set of
positions (`SetInduction`, `SeqInduction`): the library's induction theorems take an
operator and cannot be used. For the same reason the queries of the bus filter with
`Matching`, a recursive function, where one would write `SelectSeq`, whose definition
the provers cannot expand.

- `CoordinationBusProofs`. `TypeCorrect`: the type invariant is inductive; the work is
  in one lemma per helper. `OrderedDeliveryHolds`: every inbox is strictly increasing,
  all below `next_sequence`, and above everything drained. `MailboxesImplemented`: under
  the mapping of inboxes and sequence number each action is a step of `OrderedMailboxes`
  or leaves the mapped state alone.
  `NoReacceptance`: the ids of the window are those of its order, each at the place that
  `accepted_at` gives it (`WindowInv`), so that an id outside is at least a window old.
  `NothingIsLostUncounted`: a broadcast adds one delivery for each inbox and drops one
  entry for each full one; the lemmas are about sums over a finite function and how they
  change where it changes.
  `StoreImplemented`: the order of the context lists each stored key once (`Lists`), so
  that an eviction takes one key away, and only if the key written is new.
  `QueriesAgreeWithScans`: the counter of a correlation is the number of its entries in
  the inbox (`Counted`), each index of the context is the part of the write order that it
  stands for, a key that is not stored has no correlation and a stored delegate key its
  own (`ContextIndexed`), and the index of the dead letters is the part of each
  correlation (`DeadIndexed`). `QueryInv` joins them. The index of delegate keys is the
  one that needs `PatchApplies`: a rewritten delegate key cannot move between lists. The
  theorem says more than the run: it is about pages of every size and offset.
- `SubAgentsProofs`. The properties are not inductive: `RecordResult` must know that a
  task about to report success saw its worker finish (`SuccessSeen`), that nothing is
  recorded before the task's last step (`ResultsEndTasks`), that a task exists exactly
  once its call spawned it (`CallsAndTasks`), and that handles and aborts come only
  after the call returned (`HandlesAndAborts`). `SessionInv` joins them; the limit
  needs two facts about cardinalities. From it `TypeCorrect`, `LimitHolds`,
  `SlotsHeldForAReason`, `CompletionIsReal` and, for steps, `ResultsStay`.
- `FederationProofs`, of `RemoteDelegation` (whose definitions carry `RD`, so that both
  ends can be extended). `DelegationInv` adds that the signal follows the call (open
  while it consumes, sent only on its return), that the parts of a call that are done
  stay done, and that a call consumes or cancels only an accepted task. It gives
  `DelegationTypeCorrect`, `NoStrayCancels` and `StrandedOnlyByFault`.
- `FederationProofs`, of `FederationTasks`. That a stream follows the task says nothing
  of where its receiver stands. `TasksInv` adds that events are numbered without gaps
  (`Numbered`), that the log is the tail of what was published (`LogIsTheTail`), and for
  each stream (`StreamInv`) that what it passed on and what is left of its log are
  published events in order, consecutive unless it lagged, with the receiver right
  behind them (`Follows`), and that it is done only if it has passed a terminal event on
  (`KnowsTheEnd`). Subscribing takes the tail and the end of what was published in one
  step; receiving appends at the receiver's place, and lag moves that place forward
  only. It gives `TypeCorrect`, `StreamsFollow` and `StreamsSawTheEnd`.
- `FederationProofs`, of `DelegatedTask`. First both ends are shown to be what they were
  alone: every step does to the task only what the node's manager does
  (`TaskIsOneOfTheNode`), and is to the calls a step of the delegation protocol or a
  stutter (`DelegationIsImplemented`), so all that is proved of either end holds of both
  together. The second is not free: that a call returns only when its worker has ended or
  was cancelled needs that a stream ends only behind a terminal event and that terminal
  events are published only by such a task (`FinalEventsEndTasks`). `DelegatedInv` joins
  the two invariants with what one end knows of the other: the call sees the task as it
  is (`SeenAsItIs`), knows of it only when its handle is set (`KnownWithHandle`), and an
  answer is published only by a task that came to it, a failure by one that failed or was
  cancelled (`Concluded`). `StreamsFollow` then turns what was passed on into what was
  published. It gives `ResultsAreTheTasks` and `WorkIsNotOrphaned`.
- `SopEngineProofs`. A batch of starts is a recursive function; `StartedFrom` is what its
  steps keep: runs there were are untouched, the new ones are numbered in order, and each
  was let in by `can_start` as the batch stood then. `TypeInv` is the typing. `ResultsInv`
  says that an active run has a good result for each step before its own, and that a
  finished one ended on its last step, on a failed one, or cancelled in between; it does
  not mention the catalogue, so reloads cannot hurt (`ResultsAreInOrder`). `OutcomesInv`
  says that an end that is stored or on its way is that of a run which is over and ended
  so; numbers are never reused (`RunsOnlyEnd`), hence no order of the audit writes makes a
  record claim an end that did not happen (`OutcomesAreTrue`). `LimitsHoldForBatches`: the
  limits hold after a whole batch, for any number of kept runs. The cooldown is asked of
  the newest finished run in memory only. `CoolsNewest` says that nothing of an SOP cools
  behind a newer finished run of it that is still in memory, and `NothingLost` and `Full`
  that a finished run is either in memory or pushed out of a full one by later runs
  (`Forgotten`); what is kept of a list is its tail (`KeptTail`, `KeptCoolsNewest`). So
  `StartsWaitForCooldowns` holds for every limit and through every reload.
- `ChannelHistoryProofs`. One turn at a time is not inductive, and "the registered
  worker is the latest" is not enough. The argument is by order of registration: the
  workers of an interrupting chat stand in a line (`LineInv`, by the history variable
  `earlier`); the entry of the chat is the last active one (`EntryInv`); a waiting
  worker waits for the last active one before it (`WaitInv`), so that when that one
  finishes nobody active is left before the waiting one; hence whoever is past the
  waiting has nobody active before it (`TurnInv`). `DispatchInv` gives `OneTurnAtATime`
  and, step by step, `TurnsImplemented`. The histories come on top: trimming, compacting,
  normalising and rolling back each map the old places to new ones in order, and merge a
  turn with its neighbours or drop it (`Places`, `Shrinks`). `HistoryInv` adds that turns
  run inside workers, what a history may hold of a message at each point of its turn
  (`Placed`), and that an asked question is still last while nobody else can append
  (`AskedIsLast`, which needs `OneTurnAtATime`). It gives `TypeCorrect`,
  `OwnQuestionsAreAsked`, `ClosedTurnsStayClosed`, `QuestionsLeaveOldestFirst` and
  `HistoriesKeepTurns`.
- `ApprovalsProofs`. Three invariants. `TurnsInv`, of `ChatTurns` alone, says that an
  interrupting chat has one message in progress. `PolicyInv` says that an update which
  overlapped no other read what the file still says (`LoneUpdate`). `RequestInv` says
  where an answer is: with who gives it, in the resolution, or with the call that ran,
  never in two places (`AnswerInv`), and that a call of an interrupting chat waits for a
  request nobody has answered (`WaitsInv`). Most steps answer nothing and are dealt with
  together (`Quiet`); asking, answering, recording and running have a lemma each. They
  give `TypeCorrect`, `RevocationsAreKept`, `AnswersServeOneCall` and
  `InterruptingNeverAllows`.
- `CronSchedulerProofs`. `CronInv` adds to the properties what an update is about to
  write (`EditsFit`: the times it read, or one that its schedule gave at some time, which
  the clock does not take back: `FollowsLater`), that a batch holds each job once, and
  that a job started while off is in no batch and still off (`StartedOffStaysOff`). It
  gives `TypeCorrect`, `RemovalLeavesNoRecords`, `SchedulesAreFollowed` and
  `OffJobsStop`. `StartsAreOnce` needs `OnceInv`: a job that could be started again for
  the time it was last started for is still run by a slot (`StillRuns`), so the next
  poll, which waits for the slots, sees a row that has moved on; and a batch holds no
  such time (`BatchIsNew`). That rescheduling moves a row on is `NextRunLater`: what a
  schedule gives is ahead, unless it is a time or has run out, and a schedule that has
  run out stays so (`RunOutStays`). The attempt to prove it showed two cases that the
  excuses of the property had missed: a kept one-shot that an update lets go after its
  run, and a job that an update gives back the time it was started for. `DueJobsStayDue`
  is about single steps, from `CronInv`.
- `RunLedgerProofs`. `LedgerInv` has three parts, each of them needed by the next.
  `DataInv`: every ledger, in memory, in a file or in a temporary file, is sound. That it
  is honest is not inductive, for the verifier looks at evidence and not at `proved`; what
  it needs is that successful evidence is of a proved step (`Grounded`), which a replaced
  plan keeps because its steps have no evidence, and a renumbered one because numbers grow
  (`NextIdOfGrowing`) and are not given again. `Verification` is what the recursive
  verifier returns, `Mirroring` what the mirror of any call does to a plan. An autonomous
  run that is about to close as completed is not blocked (`EndInv`), and an unblocked plan
  is done once it is verified again. It gives `TypeCorrect` and `ProofIsEarned`.
  `RecordInv`: a file that was never contested has at most one run, abandoned ones
  included, whose save is on its way through the temporary file (`InStep`), so that only
  what it wrote is renamed; with no run it holds what was recorded. Most steps stay in step
  (`StaysInStep`); opening, closing and a crash have lemmas of their own. It gives
  `RecordIsKept`.
  `MirrorInv`: the list numbers its tasks by their places, and a ledger is on its way to it
  (`Follows`): recording the executed calls, one after the other, ends in the tasks of the
  list. Executing a call adds one to the way, recording takes the first one off, and a
  cancelled batch leaves the list to nobody if it holds a call that was mirrored. That the
  mirror of a call, read as the tool reads its steps, is what the tool makes of the same
  call is `MirrorAgrees`: cleaning a step changed by raw arguments is changing the cleaned
  step by cleaned ones. It gives
  `PlanIsTheList`.

The types of all components, `OrderedDelivery`, `OneTurnPerChat` and
`NoRecordsOfRemovedJobs` are proved for every size. They are therefore in no run, but for
the types of the SOP engine, which also say that a run waits exactly while its status says
so, and that a run that is over is not active. Every safety and action property that a run
checks has a theorem.

## 7. Where the program and its documentation disagree

One has a run that ends in a counterexample, `approval_lost`: the chat is told
"Approved pending request ... for this invocation" (`channels/mod.rs:2121`), and the
request is removed before the yes is recorded; a call that looks in between is denied.

Five are stated as properties that no run checks. To see each fail, add it as a
PROPERTY to the configuration named:

| property | configuration | what the text says | what the code does |
|---|---|---|---|
| `KilledStaysKilled` (`SubAgents`) | `MCSubAgents.cfg` | kill aborts the session's task (`subagent_registry.rs:141`) | before `set_handle` there is no handle; the task's result later replaces Killed |
| `RecordedOutcomesStay` (`SopEngine`) | `MCSopRuns.cfg` | created on start, updated on complete (`sop/audit.rs:14`) | a late start record overwrites the completion |
| `ConfirmedStepsWereApproved` (`SopEngine`, an invariant) | `MCSopRuns.cfg` with `FixedCatalog` | `requires_confirmation` enforces approval (`src/docs/sop/syntax.md:61`) | a waiting step can be advanced (`sop/engine.rs:181`) |
| `HighPriorityWaitsEnd` (`SopEngine`) | `MCSopRuns.cfg` with `LiveSpec` and `TimeoutPoller = FALSE` | timeout polling in the scheduler (`sop/dispatch.rs:158`) | nothing polls |
| `AcceptedTasksAreCancelled` (`RemoteDelegation`) | `MCDelegation.cfg` | accepted tasks receive a cancel (`src/README.md:148`) | not between acceptance and answer |

Others were met while modelling; the models show them where a line is named in them:

- `InFlightTaskCompletion::wait` looks at the flag and subscribes afterwards
  (`channels/mod.rs:286`): a worker that sets the flag and notifies in between leaves the
  next turn of the chat waiting for ever with its permit. `MessagesEnd` names this
  (`MissedWakeUp`) and fails without it.
- Two overlapping updates of the approval lists may bring a revoked tool back
  (`channels/mod.rs:1411`, `:1144`): `RevocationsHold` without `collided` fails.
- A job whose cron expression has no time to come stays due for ever:
  `next_run_for_schedule` fails (`cron/schedule.rs:18`), so `reschedule_after_run`
  (`cron/store.rs:285`) leaves the row as it is and the scheduler only logs it
  (`cron/scheduler.rs:281`). Every poll runs it again and it takes up the poll limit.
  `DueJobsStart` and `StartedOncePerOccurrence` fail if `StaysDue` does not name it.
- A one-shot with `delete_after_run = false` keeps its time and stays enabled, so every
  poll runs it again (`cron/store.rs:285`), while the `schedule` tool lists it as
  "[one-shot]" (`tools/schedule.rs:187`); enough of them starve the others (`Starved`).
- `max_tasks` is documented as the number of persisted tasks (`config/schema.rs:3420`)
  and is the LIMIT of a poll; `max_concurrent` as the tasks executed per polling cycle
  (`:3423`) and is the number of slots: a cycle executes all that were polled.
- A session killed before `set_handle` frees its slot while its task works on, so more
  sub-agents than the documented maximum may be at work (`subagent_spawn.rs:28`).
- The cancel a kill posts carries no federation token (`subagent_registry.rs:157`), so a
  node that requires it refuses the request (`TokenRequired` in `DeliverCancel`).
- The cooldown is read from the last finished run in memory (`sop/engine.rs:371`): a run
  that later ones pushed out no longer holds back the next. `StartsWithinLimits` fails
  without `Forgotten`.
- `max_concurrent_total = 0` is documented as unlimited (`config/schema.rs:3665`) and
  refuses every start (`sop/engine.rs:102`).
- "Every mutation persists atomically" (`agent/run_ledger.rs:208`). Two openings of one
  session's file (two connections, or a run that goes on after a disconnect) share one
  temporary file and save all of their own data: the file may lose the other's events or
  be torn, a torn one is replaced by fresh data (`:238`), and the first to finish
  unregisters the other. `FileKeepsTheRecord` fails without `contested`.
- The ledger numbers the entries of a plan before it drops those without a title
  (`agent/run_ledger.rs:405`), the tool afterwards (`tools/task_plan.rs:444`), and a call
  whose action the tool infers is not mirrored (`agent/run_ledger.rs:390`). The verifier
  then checks other steps than the model updates.
- The tool drops a dependency on 0, trims expected evidence and drops what is blank
  (`tools/task_plan.rs:78`, with a test at `:721`), the ledger keeps all of it
  (`agent/run_ledger.rs:841`, `:872`): a step whose call named the dependency 0 is never
  verified, for no step has that number, and the list shows no reason.
- An error of the tool loop leaves the autonomous loop by `?` (`agent/autonomous.rs:326`):
  its run stays registered as live and Running until the process ends.
- A chat turn is finalized Completed whatever its plan (`gateway/ws.rs:2728`), and
  `playbook_summary` returns `None` "when any step is unverified"
  (`agent/run_ledger.rs:603`) but lets a completed, unverified step pass (`:611`).
- A completed task's handle is still held, so its cancel succeeds and publishes an error
  after the answer (`federation/remote_subagent.rs:605`), against the "Unknown or
  completed" of `gateway/api.rs:2674`. A call that still reads the stream then reports a
  failure of a task that had its answer: `ResultIsTheTasks` excuses it by `stopped`.

## 8. Model-checked only, and not modelled

Liveness and ENABLED are outside the proof system and stay with TLC: sessions, streams,
messages and turns end, stops are forwarded, due jobs start.

Abstracted inside the modelled components:

- everywhere: texts, timestamps, ids (unique by construction, random in the code) and
  error wording; the model's answers (success or failure);
- bus: a payload is its kind, a context value its version;
- SOPs: a reload turns a cooldown on or off and does not change its length; trigger
  matching (any list of names), step contexts, the records of single steps
  and approvals; federation: SSE framing and keep-alive, several tasks of one manager;
- `SubAgentRegistry::insert`, which skips the limit and is used by tests only;
- channels: routes, drafts, hooks, memory and prompts; two messages with equal texts,
  which `rollback_orphan_user_turn` cannot tell apart; the summary that compaction may
  shorten to;
- approvals: one tool call per turn, who may approve, natural-language modes, the limit
  of 1024 stored resolutions, a reload that fails or only changes the provider, a
  reader that sees a file half written;
- ledger: of a call's texts, which expected patterns it shows; a title stands for itself
  and the space around it, which the ledger keeps when a task is added; a `title` that is
  not a text, behind which the two parsers look for other names differently; lists of
  tools, dependencies and patterns are sets, so that duplicates, which only the ledger
  keeps and which verify alike, do not show; of routing records their
  number; listing runs, retention, the rate limit of `task_plan`, its read-only action; a
  changed configuration, which gives later turns a new list. `AutonomousLoop` has no
  production caller at this commit;
- cron: an execution with its retries and the record of it is one step, the columns of
  the last run, how a cron expression gives its times, a period so long that the date
  overflows, the pruning of records by age.

Not modelled, and planned where section 9 says so: the tracing of the delegate tool, which
leaves a failed delegation queued on the bus; agents IPC, the reliable provider, the
daemon, the peer registry, SOP gates and metrics, background processes. Channel adapters,
providers, most tools, memory backends, onboarding, runtimes, hardware and observability
are adapters to external systems whose difficulty is formats and I/O; web interface,
firmware, robot kit and Python tools are separate programs. `cost/tracker.rs` has a check
and a record that would race, and no caller. The agent loop's decisions are a language
model's. The map therefore covers a small share of the implementation's lines: the parts
with state that several actors share.

## 9. Plan

In order:

1. `DelegationTrace`: `tools/delegate.rs` composed with the bus; the delegate keys of
   the context as its state.
2. `AgentsIpc`, `PeerRegistry`: processes sharing one database, staleness.
3. `ReliableProvider`, `Supervisor`, SOP metrics and gates.
