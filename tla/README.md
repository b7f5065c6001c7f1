# A TLA+ model of KodoCode

KodoCode is a desktop and web front end for coding agents. Its server
(`src/apps/server`) keeps an event-sourced record of projects, threads and
turns in SQLite, drives the agents through provider adapters, captures the
workspace in git refs, and serves web clients (`src/apps/web`) over a
websocket. This directory models the parts of it that decide whether that
record can be trusted: the orchestration engine and its store, the projection
tables, the checkpoints of a turn, the provider sessions that run a thread's
turns, the delivery of events to a client, the gate and the bootstrap a
client's command passes, and the terminals with their histories.

`PROJECT.json` lists components, runs, mutants, the map from definitions to
source lines, findings, hazards and theorems. Names are the source's where TLA+
allows it.

    tlc -workers 2 -config MCOrchestration.cfg MCOrchestration       # one run
    tlc -workers 2 -config MCEventDelivery.cfg OrchestrationRecovery # another
    tlapm Orchestration_proofs.tla                 # one of the *_proofs modules

A definition whose comment begins with `\* Mutant:` is not part of the model. It
is the definition below it with a plausible mistake put in; substituting one
for the other must make TLC report the property named in `PROJECT.json`.

## 1. Inventory

Paths are relative to `src/apps/server/src` unless they begin with `web/`
(`src/apps/web/src`) or `shared/` (`src/packages/shared/src`).

| part | state | operations | talks to |
|---|---|---|---|
| engine (`orchestration/Layers/OrchestrationEngine.ts`) | in-memory read model, command queue, PubSub | `dispatch`, the worker's `processEnvelope`, reconciliation, boot | decider, projector, event store, receipts, pipeline, every subscriber |
| decider, projector (`orchestration/decider.ts`, `commandInvariants.ts`, `projector.ts`) | none | a command to events; an event to the next read model | called by the engine |
| event store, receipts (`persistence/Layers/OrchestrationEventStore.ts`, `...CommandReceipts.ts`) | tables `orchestration_events`, `orchestration_command_receipts` | append, read by pages, lookup, upsert | engine, pipeline, websocket API |
| projection pipeline (`orchestration/Layers/ProjectionPipeline.ts`) | nine projections, a cursor each in `projection_state` | `bootstrap`, `projectEvent` | event store; called by the engine |
| snapshot query (`ProjectionSnapshotQuery.ts`) | none | read model and its sequence from the tables | engine at boot, clients |
| checkpoint reactor (`CheckpointReactor.ts`) | a worker's queue; git refs | baseline, capture on completion and on a placeholder, revert | provider events, domain events, git, engine |
| runtime ingestion (`ProviderRuntimeIngestion.ts`) | a worker's queue, text buffers | session lifecycle, placeholders, messages, activities | provider events, engine |
| command reactor (`ProviderCommandReactor.ts`) | a worker's queue | start turns, interrupts, approvals, session starts | domain events, provider service |
| websocket API (`ws.ts`) | per subscription: a reorder buffer | dispatch, snapshot, replay, subscriptions, thread bootstrap | engine, startup gate, clients |
| startup (`serverRuntimeStartup.ts`) | readiness, command queue | `enqueueCommand`, `signalCommandReady`, `failCommandReady` | websocket API |
| client recovery (`web/orchestrationRecovery.ts`, `web/routes/__root.tsx`) | sequences, phase, retry tracker, pending batch | classify, snapshot, replay, retry, resubscribe | transport, client store |
| workers (`shared/KeyedCoalescingWorker.ts`, `shared/DrainableWorker.ts`) | transactional queue and key sets | `enqueue`, `drainKey`, `drain` | terminals, reactors |
| provider service, sessions (`provider/Layers/ProviderService.ts`, `...SessionDirectory.ts`) | a persisted binding per thread | start, send, call, stop, rollback, recover | adapters; called by both reactors |
| provider adapters (`provider/Layers/ClaudeAdapter.ts`, `CodexAdapter.ts`, `codexAppServerManager.ts`) | a registry of sessions, turns and approvals per session | start, send, interrupt, respond, stop | external agents; runtime events |
| terminals (`terminal/Layers/Manager.ts`) | sessions, shells, pending callbacks, histories, pollers | open, write, resize, clear, restart, close | PTYs, coalescing worker |
| authentication (`auth/`) | grants, sessions, connection counts | pair, verify, revoke | websocket server |
| git, workspace, settings, telemetry, desktop shell, contracts | caches, files, child process | commands, watchers, restarts | see `PROJECT.json` |

**How they interact.** A client's command passes the startup gate, waits in the
engine's queue, is decided against the in-memory read model, and becomes events,
table rows and a receipt in one transaction. After the commit the events are
published, one by one, to the reactors and to every websocket subscription. The
command reactor turns some of them into provider calls. The provider's runtime
events come back to two workers, the ingestion and the checkpoint reactor, which
dispatch commands of their own. A web client puts snapshot, replay and live
events together into its own store.

**What is hard.**

* *Partial failure*: any statement of the engine's transaction may fail; the
  engine then compares memory with the store and repairs the difference.
* *Crash and restart*: everything but the SQLite file and git is lost, at any
  point; the tables may be behind the log when an update adds a projector.
* *Retry and duplication*: a client sends a command again, not knowing what
  became of the first.
* *Stale reads*: the ingestion and the reactors read the read model, do something
  slow, and dispatch; others may have dispatched in between. The provider service
  reads a binding and a registry, awaits, and writes them.
* *Ordering*: the reactor's two subscriptions, the handler's replay and its
  PubSub, and the client's replay, snapshot and live events are each merged in
  an order nobody controls; a shell's callbacks, the fiber that drains them and
  the client's calls meet in one session object.
* *Limits*: reads stop at 1,000 events, retries at a count.
* *Liveness*: one worker serves all commands; deferreds must be completed.

**What makes each part correct.**

* engine: a command is decided once, whole or not at all, and answered alike
  however often it is sent; memory and tables agree on projects and threads, and
  with log, receipts and publication.
* decider: the log is a legal life of every project, thread and plan.
* pipeline: every event applied once, in order, by every projector; none left
  behind after startup.
* checkpoints: a capture stands until it is reverted, has its ref unless a revert
  failed half-way, survives a restart, and holds what the agent left; a
  placeholder is never forgotten.
* sessions: a thread shows a turn only while somebody works on it or will close
  it, turns reach the agent once and in order, and a stop is final.
* event stream and client: in order, no repetition, no gap; a reconnection makes
  up for what was lost.
* bootstrap: whole or undone, and never another's thread.
* terminals: no shell without an owner but one that cannot be killed, no exit
  missed, the file is the history.
* workers and gate: a drain tells the truth, no value is stranded, nothing runs
  before the server is ready and no caller waits for ever.

## 2. Modules

| module | models | role |
|---|---|---|
| `OrchestrationEngine` | `OrchestrationEngine.ts`, with the store as it uses it | parameterised by the decider and both projections of the log |
| `OrchestrationDecider` | `decider.ts`, `commandInvariants.ts`, `projector.ts`; the projects, threads and plans of `ProjectionPipeline.ts` and of the snapshot loaded at boot | the real parameters, as operators |
| `Orchestration` | the two together | properties about memory and tables, threads, turns and plans |
| `CommandLedger` | the promise of `dispatch()` | the abstract specification the engine implements |
| `OrchestrationEngine_proofs` | - | theorems about the engine: types, the refinement, publication, receipts, replay and serial execution of the log |
| `Orchestration_proofs` | - | extends it: theorems about the real decider's log, and memory and tables |
| `ProjectionPipeline` | `ProjectionPipeline.ts`, paging of the event store | projectors reduced to what they applied |
| `ThreadProjections` | the messages and turns projectors, `projector.ts` for the same events, the read model loaded at boot | composes them with `ProjectionPipeline` |
| `ThreadProjections_proofs` | - | theorems about the pipeline and the thread's rows |
| `TurnCheckpoints` | `CheckpointReactor.ts`, the ingestion's share, both projectors' share | three processes meeting in the engine |
| `TurnCheckpoints_proofs` | - | theorems about the checkpoints |
| `ProviderAdapter` | the session registries of `codexAppServerManager.ts` and `ClaudeAdapter.ts`, for one thread | the agent is external |
| `ProviderSessions` | `ProviderCommandReactor.ts`, `ProviderService.ts`, the directory, the ingestion's thread lifecycle | extends `ProviderAdapter` |
| `ProviderSessions_proofs` | - | theorems about sessions and turns |
| `DomainEventStream` | the subscription handler of `ws.ts` beside the engine's worker | |
| `OrchestrationRecovery` | `orchestrationRecovery.ts`, the router of `__root.tsx`, resubscription | extends `DomainEventStream`: the client on top of the handler |
| `OrchestrationRecovery_proofs` | - | theorems about the stream and the client |
| `CommandGate` | the gate of `serverRuntimeStartup.ts`, for effects of any number of steps | |
| `ThreadBootstrap` | `dispatchNormalizedCommand` and `dispatchBootstrapTurnStart` of `ws.ts` | extends `CommandGate`: what the gate lets run |
| `ThreadBootstrap_proofs` | - | theorems about gate and bootstrap |
| `KeyedCoalescingWorker` | the module of that name in `shared` | |
| `TerminalManager` | `terminal/Layers/Manager.ts` | extends `KeyedCoalescingWorker`: the writer of its histories |
| `TerminalManager_proofs` | - | theorems about worker and terminals |
| `MC*` | - | instances for TLC |

### OrchestrationEngine

`log`, `receipts`, `db` and `dbSeq` are the durable tables; `queue`,
`readModel`, `snapSeq`, the worker's `pc`, its envelope `cur`, its open
transaction `tx`, `outgoing` and `verdict` die with the process. `published`,
`bootSeq` and `answer` record what subscribers and callers got.

The worker's path is `Take`, then `ReplayReceipt` when the command has a receipt,
else `DecideRejects` or `DecideAccepts`; `WriteEvent` once per event (append,
project in memory, project to the tables), `Commit` (with the receipt), `Install`
(the in-memory model), `PublishOne`, `PublishDone`, `Reply`. Each of them can be
followed by `Crash`, and each statement can fail: `LookupFails`, `TxFails`
(which leaves in the store what `RollBack` says), `ReconcileFails`, and the
second disjunct of `RejectReceipt`. After a failure `ReconcileRead` and
`ReconcileDone` apply and publish whatever the store holds beyond the sequence
the dispatch started from. `Dispatch` and `Abandon` are the callers, `BootCatchUp`
and `BootDone` startup.

`Atomic = TRUE` is the SQL store. `Atomic = FALSE` is a store that keeps what a
failed transaction wrote, as the engine's own tests build with an event store
outside the transaction; it is what the reconciliation exists for.

Commands other than `thread.turn.start` produce one event. Bodies hold a type,
a project, a thread, a set of plans and the plan a turn implements: what the
preconditions read. A read model holds per project and thread whether it exists,
is deleted or archived, its project and its plans.

Memory and tables are projected by different code and have an operator each:
`Apply` for `projector.ts`, `Project` for `ProjectionPipeline.ts`, and `Load` for the
snapshot a boot reads (in `OrchestrationDecider`: `ApplyEvent`, `ProjectEvent`,
`LoadModel`). `ReplayTo(boot, events)` is what both hold after each event in a process
that booted after event `boot`. They agree on the rows of projects and threads and part
on a thread's plans: memory keeps the newest 200 (`PlanCap`), the tables keep all; the
tables give a plan id that is written again to the other thread; and a revert drops the
plans of the turns whose checkpoints, or turn rows, it drops. What checkpoints and turn
rows say is abstracted to two sets of plans in the event, `plans` for memory and `rows`
for the tables, so a revert may drop different ones from each.

### ProjectionPipeline

`rows[p]` is the sequence of events projector `p` has applied, `cursor[p]` its
row in `projection_state`. `Boot`, `BootApply` and `BootNext` replay one projector
after the other, one transaction per event, in pages of `PageSize` out of at
most `ReadLimit` events; `Live` is `projectEvent` inside the engine's transaction.
`Init` is a store of an earlier version in which the tables of some projectors
are still to be built. `Crash` may come at any point.

### ThreadProjections

The same pipeline with rows for one thread: every action is an action of
`ProjectionPipeline` conjoined with what it does to `events` (the thread's part of
the store), `tables` (messages, turns, the pending turn start) and `memory` (the
engine's read model). `ApplyMessages`, `ApplyTurns` and `ApplyPending` are the two
projectors, which `ThreadBootApply` runs one at a time and `ThreadLive` all at
once; `ApplyEvent` is the in-memory projector and `LoadModel` the read model that
boot builds from the tables. After a revert both sides keep the messages they
know to belong to kept turns and let the earliest other user messages stand in
for the rest (`Retain`, `StandIns`); they differ in what they know:
`KnownToTables` has the message that started each turn, `KnownToMemory` has not.
Messages are a set: the code sorts stand-ins by time of creation and id, and the
numbers of the user messages follow that order (`Rank`). The tables of a store some
earlier version wrote are those the projectors make of its events (`Rebuilt`).
Message texts, system messages (which every revert keeps), messages of no turn
other than a user's, and the caps of 2,000 messages and 500 checkpoints are left
out. `Offered` is what clients, ingestion and reactor may dispatch: turns in the
order they were asked for, some never started, replies and checkpoints late or
missing, a checkpoint number used twice.

### TurnCheckpoints

One thread. `provider` and `content` are the agent and the workspace (an edit
increments the version); runtime events go to `toIngest` and `runtimeSub`,
domain events to `domainSub`. The ingestion reads the read model in `IngestDiff`
and dispatches in `DispatchPlaceholder`; the reactor decides in `TakeTurnStart`,
`TakeTurnCompleted`, `TakePlaceholder` or `TakeRevert` and acts in `CaptureBaseline`,
`Capture`, `Report`, `Rollback`, `DeleteStale` and `CompleteRevert`. `memory` and
`table` are the two projections of the same events, which differ in code: the
in-memory projector keeps a real checkpoint (`Keep`), the turns projector takes
the last write (`Write`). `failed` holds the turns for which the reactor appended
a `checkpoint.capture.failed` activity. Captures, the rollback, each git call of
`DeleteStale` and the dispatch in `CompleteRevert` may fail; `lost` holds the counts
whose refs were deleted by a revert that then failed, until a capture makes them
again.

### ProviderAdapter and ProviderSessions

One thread, bound to one of the two providers. A `context` is a session object
with its process or stream: `starting` (Codex, until the handshake), `open` or
`closed`, with the turns it runs; for Claude that is the one `turnState`, with the number
of `prompts` its agent has not answered. `registered` is the entry of the adapter's
`sessions` map, which `Register` overwrites and any exit deletes
(`EntryAfterExit`), so that a living context may be in no registry. Lifecycle
events wait in `runtimeEvents`, up to `MaxBacklog`.

`job` has one call each of the two fibers that use the provider service: the
command reactor's worker and the checkpoint reactor's rollback. The worker's steps
are `Begin` (it reads the thread), `Ensure`, `Start`, `Handshake`, `Upsert` (the
binding), `Bind` (`thread.session.set`), `Route`, `Deliver`/`DeliverTurn` and then, for
Codex, `TurnStarts` or `TurnRequestFails`, for Claude, `TurnBegins` and `SendPrompt` or
`SendFails`: its `sendTurn` closes the open turn, awaits the model and the permission
mode, starts its turn in whatever has become of the context, and then builds the
message, which may fail. For a stop they are `Stop`, `StopAdapter`,
`Unbind`, `SetStopped`. `Route` finds no session and starts one from the binding:
the recovery. Each may fail. `IngestRead` and `IngestDispatch` are the ingestion,
which decides on the thread it read. `SessionExits`, `TurnEnds`,
`CodexError`, `BackgroundTurn` (a message of Claude's agent that finds no turn starts
one), `Result` (which ends the turn the context is at by then) and `Restart` are the
agent and the server's end. `stranded` holds the turns no session will name again:
those started in a context that was stopped during the send, and background turns
another send wrote over.

A turn keeps its number from request to end: the provider's turn ids and the
orchestration's are not told apart. Interrupts and responses are one kind of
call, as they leave the registry alone.

### DomainEventStream and OrchestrationRecovery

The first is the server's end: the handler reads `snapshotSequence`
(`ReadSnapshot`), then the store (`ReadReplay`), then subscribes (`Attach`), while
the engine commits, installs and publishes; `Merge` is the reorder buffer. The
second is the browser on top of it: `Deliver` is `classifyDomainEvent` and what the
router does with its verdict, `Flush` the microtask that applies a batch, `Serve`
the moment the server answers a request and `SnapshotArrives`/`ReplayArrives` the
moment the client meets the answer. `Drop` loses the connection and all the
handler held; the transport's loop then calls the resubscription hook
(`Resubscribe`, only if the subscription ever delivered something) and subscribes
(`Subscribe`). `owed` remembers what the hook's replay has to bring.

### CommandGate and ThreadBootstrap

`ReadReadiness` and `Offer`/`RunDirectly` are two steps because the state may
change between them; so are `EndStartup` and `CompleteDeferred`. `effect` is how
far the effect of a call has come: the gate says who may take a step of it
(`Runs`), the bootstrap what the step is. A bootstrap is `CreateThread`,
`PrepareWorktree`, `UpdateThread`, `RunSetup`, `StartTurn`, each of which may fail,
and `PrepareWorktree`, `UpdateThread`, `RunSetup`, `StartTurn`, each of which may fail,
and `CleanUp`; plain turns, deletions and updates of the same thread (`MoveThread`:
its user picks the project's checkout or another worktree) are the other calls.
The engine is what `CommandLedger` promises of it: one step per dispatch.

### KeyedCoalescingWorker and TerminalManager

Every `Effect.tx` of the worker is one step; a value is the set of items merged
into it, so that one can say which items a processed value stands for. The terminal
manager is its user: an item is a history to write. `session` holds session
objects, which outlive their entry in the map (`sessions`); `process` the shells;
`fiber` the fibers of `drainProcessEvents`, which remember the shell they were
forked for. The calls of a thread hold its lock from `Begin` to `Return`, and wait
for the file (`ReadHistory`, `Persisted`), the deletion (`DeleteHistory`) and the
shell (`Spawned`, `SpawnFails`). `Evict` removes the oldest sessions that do not
run, beyond the number retained, as one set. `Kill` and `KillTimer` are the two
signals of the escalation; the system may refuse either, which is only logged: the shell
is then `escaped`, alive with no handle left. A step ends only where the code may be
interrupted: between two `Effect.sync` with no await the code is one step. `lossy`
and `stray` mark the sessions whose waiting events were dropped and those evicted
before they had a shell (section 5).

## 3. Runs

States are distinct states; the time is for two workers.

| run | instance | states | what it shows |
|---|---|---|---|
| `engine` | 4 calls, 3 commands (one sent twice), two-event turn starts, 2 plans and room for 1 in memory, all seven faults, crashes and departures anywhere | 87,457; 20 s | see below |
| `lifecycle` | 5 commands over 3 threads, 2 projects, 1 plan; a store that keeps half a transaction | 981,918; 40 s | thread lives are legal and implemented plans stand, as reconciliation repairs the model |
| `pipeline` | 4 projectors, 3 turns, up to 9 events of which up to 7 before the first boot, pages of 2, limit above the backlog | 2.3 million; 35 s | see below |
| `pipeline_backlog` | the pipeline alone, limit 3, backlog 4 | violation | section 5 |
| `checkpoints` | 2 turns, 1 edit each, 1 revert; captures, the rollback, deletions and the completion may fail | 5.8 million; 60 s | captures stand, their refs exist but after a failed revert, placeholders are due |
| `checkpoint_store` | 1 turn, 1 edit | violation | section 5 |
| `delivery` | 3 events in batches of 1 or 2, 1 lost connection, 1 failed request, failing reads, replays of 2, 1 retry | 772,034; 135 s | see below |
| `stream_gap` | 3 events | violation | section 5 |
| `terminals` | 2 terminals of 2 threads, one of them running, 3 sessions and shells, 2 fibers, 2 calls, 1 output, 1 session retained, failing writes and signals | 1.0 million; 110 s | see below |
| `gate` | 3 callers in the combinations of `MCKinds`, every step may fail | 346,880; 60 s | see below |
| `provider` | 2 sessions, 2 turns, 1 turn the agent starts by itself, 2 modes, 3 requests or errors, 1 restart, 3 events behind, either provider | 9.1 million; 145 s | see below |
| `provider_stop` | the same with 4 requests and no restart | violation | section 5 |

**engine.** `ReadModelIsReplay`: whenever the worker is settled, the read model is the
replay of the whole log since the boot. `MemoryMatchesStore`: it and the tables have
then taken in the same events and agree on every project and thread; their plans
may differ, and do in this run, where a turn is accepted or refused according to when
the process booted.
`LogIsSerialExecution`: an accepted command has exactly its events in the log,
contiguous, as decided against everything before; any other has none - so a retry
never runs twice and a failure leaves nothing. `AcceptedIsVisible`: a caller told
"accepted at n" finds the event, the read model and the publication there.
`PublishedInOrder`: subscribers get the log, in order. `ImplementsLedger`: the engine refines
`CommandLedger` with receipts for verdicts. `EveryCallSettles`,
`CommittedIsPublished`: no failure stops the worker.

**pipeline.** `AppliedInOrder`: no projector repeats or skips an event, whatever
crashes interrupt a bootstrap. `BootstrapCatchesUp`: none is left behind when the
server comes up. `TurnsKeepTheirMessages`: after any reverts, late replies and
restarts every turn still has the user message that started it and every reply
its turn. `ViewsStayEqual`: a step that finds the read model and the tables equal
leaves them equal, provided the checkpoints number the user messages (`Numbered`);
without that proviso it fails, see section 5.

**delivery.** `SentInOrder`: what a connection sends is the log from its snapshot
on, without hole or repetition. `StoreIsPrefix`: neither live events, replays,
snapshots nor reconnections skip, repeat or take back an event of the client's
store. `GapIsRemembered`: while the client is behind what it has seen, something
is under way that will tell. `ObservedIsApplied`: what it has seen it shows, unless
a failed snapshot leaves it waiting for a welcome. `ReconnectCatchesUp`: what the
server had when the resubscription hook ran is shown, as far as one replay
reaches - so a reconnection closes the gap of `stream_gap`.

**gate.** `NothingRunsUnready`, `QueuedInOrder`, `EveryCallSettles`: the gate, around
effects that take several steps and fail. `CleanupUndoesOwnThread`: a bootstrap
that failed leaves no turn and no thread of its own (but for a failed deletion),
and deletes no thread another call made, whichever of two is first.
`TurnRunsInWorktree`: the turn of a bootstrap that asked for a worktree starts in the
worktree of the thread's last update, its own or a later one, and without a worktree
only if a client's own `thread.meta.update` took it away (section 5).

**terminals.** `DrainIsHonest`: a drain returns only when nothing enqueued before it
is left. `FileFollowsHistory`: when the writer has nothing of a terminal, its file
is its history. `NoShellIsLost`: a living shell belongs to the session the map has
for its terminal, is being killed, or refused the signal. `ExitIsNoticed`: a session
that says running while its shell is dead has the exit waiting, and a fiber that will
take it. `EveryCallReturns`: once the shells fall silent, no call keeps the thread's
lock for ever, although it waits for a writer other terminals share and whose writes
fail. The bound on output is a condition here, not a convenience (section 5).

**provider.** `NoGhostTurn`: the turn a thread shows as active is one the agent of a
living session works on, or the event that closes it is on its way; or a living
session holds it after it was reported as failed, or was started by the agent itself,
until the next send or the session's end closes it. Turns that nothing closes are
named: those from before a restart (`lost`) and those no session will name again
(`stranded`). `SentInOrder`: turns reach a provider in the user's order and at most
once, through replaced, lost and recovered sessions. `OnlyItsEndCloses`: a late end of
another turn never closes the active one. An exit of any session of the thread does, a
replaced one's too, and an error that names no turn (section 5).

**Why the bounds are enough.** Every step of the engine concerns one command and
the state before it; what distinguishes commands is whether they were sent
before, how many events they produce, and whether they are accepted, and the
instance has each combination in each order with each fault. The pipeline's
instance has a projector ahead, behind and in step, backlogs of no, one, several
and part pages; its three turns allow a turn without a checkpoint, one numbered in
its place and one asked for after a revert. Two turns are what it takes for a
late event of one to meet the next one's, and for two counts to collide; one
revert meets every stage of both. Three events with replays of two make a replay
that is cut off and a gap of one or two; one lost connection and one failed
request meet every stage of a recovery, a failed replay's fallback among them.
Three callers are one that runs, one behind it and one that came too late for the
queue; two of them bootstrap the same thread. Two sessions are one and the one
that replaces or recovers it; the third request is the one that meets both, and a
background turn one the next send finds. One plan too many for memory is what the
cap of 200 does. Three
session objects let two terminals be opened and one be evicted; three shells are
one before, one after a restart and another terminal's; two fibers are an old
shell's and its successor's.

**Deadlock** is checked in `engine`, `pipeline` and `pipeline_backlog`, where a
process may always crash and restart. Elsewhere a run ends when its bounded
inputs are used up (`CHECK_DEADLOCK FALSE`).

## 4. Fairness

`WF(Boot)`, `WF(Worker)` of the engine: the worker fiber is forked for the
server's lifetime and its loop catches every failure of an envelope
(OrchestrationEngine.ts:275). Nobody owes a dispatch, a restart or a crash.
`WF(Serve)`, `WF(Client)`, `WF(Connection)` of the delivery: requests are answered
or fail, browser callbacks run, the transport's retry loop reconnects. Its
`Welcome` is fair only until the first failure: the server owes one welcome per
connection, and none is owed later. The properties of `delivery` need no fairness
of the server's stream. `WF(MergeReplay)`, `WF(MergeLive)`, `WF(Handler)` and
`WF(Install \/ Publish)` in `stream_gap`: a merge pulls both sources, the handler
returns and the engine publishes, so that only the gap can withhold an event.
`WF` of the gate's fibers and of each effect's steps: startup's phases, git and the
script runner are assumed to answer; a failure is as fair as a success. `WF` of the
history writer and of each call's steps in the terminals: the worker's fiber is
always rescheduled, files and spawns answer or fail; nobody owes output, an exit,
a callback's fiber, a kill or that a shell falls silent: the number of outputs is
bounded.

## 5. Where the code and its documentation differ

Each is a run expected to end in a violation.

* `pipeline_backlog` - startup reads at most 1,000 events per projector
  (`readFromSequence` has that default limit and `bootstrapProjector` passes none).
  A projector further behind, such as one an update adds to a long history, comes
  up behind, and the next live event moves its cursor past what it never applied.
* `checkpoint_store` - a placeholder decided on a stale read model overwrites the
  captured checkpoint in the turns table, though not in memory: it is gone after a
  restart.
* `stream_gap` - an event published between the handler's read of the store and its
  subscription is in neither, and the reorder buffer holds all later ones behind
  it. The client notices only when it reconnects.
* `provider_stop` - "An explicit user stop must be terminal"
  (ProviderService.ts:585), but a rollback that read the binding before the stop
  removed it recovers the session afterwards, and binds it again. A session that
  was replaced before (its entry overwritten, codexAppServerManager.ts:539,
  ClaudeAdapter.ts:2816) is not stopped at all.

Met while modelling, in the model's behaviours but with no run of their own:

* a projector that is rebuilt applies `thread.reverted` against a turns table at
  another position than live (ProjectionPipeline.ts:681, 1314): tables rebuilt from
  nothing past a revert keep no replies. The histories in front of a boot in
  `pipeline` hold no revert for this reason;
* when a turn got no checkpoint, the next one's count is lower than the number of
  its user message. A revert then keeps the first user messages by number in the
  running server (projector.ts:97-112), and those of the kept turns in the tables
  (ProjectionPipeline.ts:121-123): the conversation changes at the next restart.
  `Numbered` in `ViewsStayEqual` excludes these states, and shared counts (below);
* ingestion and reactor number checkpoints each from its own snapshot, so two
  turns can get one count and one git ref (ProviderRuntimeIngestion.ts:1192,
  CheckpointReactor.ts:370);
* a placeholder is captured when the reactor gets to it, usually in the middle of
  its turn, and the capture counts as the turn's: the one at its end is skipped,
  and later edits are in no checkpoint of it (CheckpointReactor.ts:344);
* a turn whose checkpoint is "missing" is shown as interrupted by the running
  server and the client, and as completed once the tables are read again;
* after a failed snapshot "a later replay attempt" (`__root.tsx:636`) does not
  help: `beginReplayRecovery` refuses while the client is not bootstrapped, so only
  a welcome does. `ObservedIsApplied` says so (`Waits`);
* an event committed between the answer to the resubscription hook's replay and
  the new subscription's snapshot is shown only with the next event: the hook runs
  before the handler reads its snapshot (wsTransport.ts:316). The `owed` of
  `ReconnectCatchesUp` stops short of it;
* an old session's exit deletes the thread's entry in the registry, its
  successor's by then (codexAppServerManager.ts:1036, ClaudeAdapter.ts:2366), and
  shows the thread as stopped while the successor lives;
* that exit, late or not, also clears the turn the successor runs: the ingestion applies
  every `session.exited` (ProviderRuntimeIngestion.ts:895, 932). `OnlyItsEndCloses`
  allows it;
* a late result of Claude's agent, for a turn the next send has closed, ends the new
  turn (ClaudeAdapter.ts:1936-1943 completes whatever turn the context is at);
* Claude's `sendTurn` announces its turn before it reads the attachments: when that
  fails (ClaudeAdapter.ts:2989), the turn is reported as failed and shown as running, with
  no prompt for the agent, until the next send or the session's end;
* between the look-up of the session and `turn.started` it awaits and does not ask again
  whether the session was stopped: a turn announced by a stopped context is never
  closed, and a background turn begun in the meantime is written over
  (ClaudeAdapter.ts:2917-2969);
* a turn that was running when the server stopped is shown as running after the
  restart until the thread's next request (`lost` in `NoGhostTurn`);
* a revert whose `thread.revert.complete` is refused, or one of whose deletions cannot
  run, has restored the files, rolled the provider back and deleted refs, and only
  appends an activity (CheckpointReactor.ts:680-707): the read model keeps checkpoints
  whose refs are gone (`lost` in `RefsBackCheckpoints`), and the next turn's
  baseline takes the reverted workspace under the number of the latest of them;
* what memory keeps of a thread's plans is not what a restart loads: a plan beyond the
  newest 200 (projector.ts:511), or one a revert drops from memory alone, can be
  implemented again after a restart, and one dropped from the tables alone no longer;
* a client's `thread.meta.update` that takes the worktree away (BranchToolbar.tsx:73-80)
  may be decided between a bootstrap's update and its turn (ws.ts:358-370), which awaits
  the setup script's launch in between: the agent then edits the project's checkout;
* a SIGTERM or SIGKILL the system refuses is logged and not tried again
  (Manager.ts:787-829), and the handle is gone: the shell lives on unseen (`escaped`);
* a shell that prints within every debounce of its history keeps the one writer at its
  key (KeyedCoalescingWorker.ts:36-55): the drains of other terminals, and a close of
  its own that holds the thread's lock, wait as long as it prints;
* the clean-up of a bootstrap leaves the git worktree, and is skipped when the
  caller's fiber is interrupted (ws.ts:376); a bootstrap that is sent again after a
  lost answer is refused, since its thread.create has a fresh command id each time
  (ws.ts:336);
* `clear` forgets an exit that waits (Manager.ts:1731), and a fiber whose shell was
  replaced empties what waits for the new one (Manager.ts:1113): the session then
  says running for a dead shell. `ExitIsNoticed` excludes these (`lossy`);
* a session may be evicted between its creation and its spawn when more than 128
  do not run (Manager.ts:1080); its shell is then in no session of the map.
  `NoShellIsLost` and `FileFollowsHistory` exclude it (`stray`).

## 6. Plan

Done in this order, most important first: engine with ledger and decider;
pipeline; checkpoints; client recovery; event stream; coalescing worker; gate;
the engine's first theorems; provider sessions; terminals over the coalescing
worker; the client's recovery over the stream; bootstraps over the gate. Next:

1. Approvals and questions of a provider: the adapter's pending maps, the request
   events, the client's responses and what a stop does to them.
2. `TurnCheckpoints` with crashes between a revert's steps, and `DrainableWorker`'s
   `drain`.
3. Rows of the threads, activities, plans and approvals projectors, and the
   attachment files.
4. Assistant text buffering of the ingestion; subprocess polling and shutdown of the
   terminals; pairing grants and session counts; the git status broadcaster.

Theorems to prove next: the quiescent part of the liveness properties (what is left
when nothing is pending), and the modules the four items above add.

## 7. Proofs

`OrchestrationEngine_proofs`, for every decider, projector, history, set of calls
and commands, and set of faults that meets the engine's named assumptions (the
projections yield models and tables, an accepted command yields at least one event,
events of the history carry no command):

* `TypeCorrect`: `Spec => []TypeOK`. `TypeOK` alone is not inductive: `Cmd`
  is `CommandOf[cur]`, which has a value only while the worker holds an envelope.
  `TypeInv` adds `EnvelopeHeld`.
* `EngineImplementsLedger`: `Atomic => (Spec => ImplementsLedger)`. `LedgerInv`
  ties the verdict the worker carries to the receipt of its command: none while a
  transaction or a rejection is still to be written, the committed one after it.
  Each engine step is then one ledger step (`Commit` accepts, `RejectReceipt`
  rejects, `Reply` tells, `Abandon` and `Crash` lose) or a stutter.

The theorems about the log rest on facts about the recursive function `ReplayTo`,
proved from a least counterexample, that is a minimum of a set of naturals, since an
induction theorem takes an operator:

* `PublishedOnce`: `PublishedInOrder`, if `Heals`: the store is atomic or no
  reconciliation fails. A reconciliation that fails leaves memory behind a store
  that kept half a transaction; the next dispatch then starts its numbers from a
  log it never published. `PublishInv` counts: what was published, what is
  `outgoing` and what is still in the transaction continue the log from `bootSeq`.
* `AcceptedStands`: `AcceptedIsVisible`, if `Heals`. `VisibleInv` adds that a receipt
  names the last event of its command and that the worker's verdict agrees with it.
* `DecidesOnReplay`: `ReadModelIsReplay`, if `Recovers`: the store is atomic, or
  neither reconciliations fail nor the server crashes. Without it the tables may
  be wrong, which only a restart reads. `ReplayInv` says of which prefix of the log,
  since which boot, the read model, the tables and the transaction's two copies are
  the replay; `SyncInv`, how far memory and tables are at each position of the worker.
* `ExecutesSerially`: `LogIsSerialExecution`, for an atomic store. `DecidedInv` says
  that, inside a transaction, the events done and still to do are what the command
  was decided to be; the rest is that appending another command's events changes no
  replay of an earlier prefix (`LogGrows`, `ExecutedStays`).

The lemmas are one per obligation (initial state, step), with a step per action.
Run `engine` checks these with an atomic store, run `lifecycle` the engine with the other.

`Orchestration_proofs`, of the engine with the real decider and projections, for any
projects, threads, plans, cap and commands, on a store that `Recovers`.
`DeciderAssumption` says that the engine's parameters are the decider's operators,
`LegalHistoryAssumption` that the events of earlier boots were decided too; TLC
evaluates both in runs `engine` and `lifecycle`. `lifecycle` has the store that is not
atomic and no failing reconciliation, which `Recovers` allows.

* `MemoryFollowsStore`: `MemoryMatchesStore`, for an atomic store. `InStep`: from the
  boot on, each event leaves memory and tables in agreement if they were before
  (`AgreeStep`: one case per event, comparing the code of `ApplyEvent` with that of
  `ProjectEvent`; it needs that no row of an absent thread holds anything,
  `TidyMemory`, `TidyTables`), and `LoadModel` starts them in agreement.
* `LogStaysLegal` (a lemma): each event of the log met what the decider requires,
  judged by the replay of the events before it, since some boot (`LegalLog`). It follows from
  `ReplayInv` and `DecidedInv`: the decision was taken on the replay of the whole
  log, and the other events of the same command take nothing from it.
* `LogDescribes`, `LogDescribesPlans` (lemmas): the rows of a legal log's replay say what
  its events say: a thread that is there was made once, it is archived exactly if its
  last such event archived it, each of its plans was upserted and not removed since,
  from the tables before the boot and from memory after it.
* `LifecycleStaysLegal`, `ImplementedPlansStand`: `LifecycleIsLegal` and
  `PlanOfTurnStands`, the two lemmas together.

`ThreadBootstrap_proofs`, for any number of clients of any kind, with every failure
and interruption the model has:

* `NothingUnready`: `Spec => []NothingRunsUnready`. `GateInv` says that a call that
  runs, or has begun, found or is behind an open gate, and that `commandReady` is
  still pending or agrees with `readiness`: the worker passes the deferred only
  after the state was set.
* `FailedBootstrapIsUndone` and `TurnHasWorktree`: `CleanupUndoesOwnThread` and
  `TurnRunsInWorktree`. `BootstrapInv` is about a whole bootstrap: `created`
  is set exactly for the maker of the thread (`MadeByOne`, so only the maker cleans
  up), a call past its update has it in the log, and a turn in the log is its call's
  last step (`TurnsAreLast`). `UpdatesStand`: after any update the thread has the
  worktree of the last one, which only a client's can have cleared.
* `QueueKeepsOrder`: `QueuedInOrder`. `QueueInv`: the queue is the end of
  the arrivals, no call arrives twice, all before the one the worker holds have
  results, and none behind it, or not yet routed, has begun.

`ThreadProjections_proofs`, for any projectors, history and page size, on the
condition `ReadLimit >= MaxLog` that one read of the store covers the log:

* `AppliedOnce`: `AppliedInOrder`, and `BootCatchesUp`: `BootstrapCatchesUp`.
  `RowsInv`: the rows end at the cursor and the page begins right after it.
  `ReachesHead`: cursor, page and what may still be read reach the head, an empty
  page means the cursor is there, and the projectors before the one at work are
  done. The two need each other: a live event keeps the rows in order only because
  startup left nothing behind. Run `pipeline_backlog` shows that the condition
  is needed; the code does not establish it.
* `ThreadImplementsPipeline`: `ThreadSpec => Spec`, so both hold of the thread's rows.
* `MessagesAreKept`: `TurnsKeepTheirMessages`, for any number of turns and any
  history without a revert (`HistoryAssumption`). `ThreadInv` says what the tables
  are while projectors replay apart: each has noted exactly what it has met, so that
  rows may name messages the other table does not have yet, or not any more; no two
  turns have one message, and the pending message is nobody's. Once both projectors
  are at the head, messages and turns belong together (`Together`), and every live
  event, reverts included, keeps that. `Rebuilt` is a recursive function; what it
  builds is proved from a least counterexample.
* `ViewsAgree`: `ViewsStayEqual`. Tables and memory retain the same in a revert
  (`SameRetained`): the messages known to the tables have a rank up to the count
  reverted to, so taking them out of the count of stand-ins leaves the same messages
  (`RankAmongOthers`), by counting in finite sets. A checkpoint takes no other's
  number (`NumbersDiffer`), since messages of one rank are one and no two turns have it.

`TurnCheckpoints_proofs`, for any number of turns, edits and reverts, with all four
failures:

* `CheckpointTypes`, `RefsBack` (`RefsBackCheckpoints`) and `PlaceholdersAreDue`
  (`PlaceholderIsDue`), from one invariant. `QueueInv` types the three queues; `JobInv`
  says what the reactor's decision still promises when it acts on it: the ref of a
  capture to report exists, a revert deletes only refs above its count, and only
  after the count was decided. A placeholder is due because the event announcing
  it waits, or the reactor is at it, or its capture was reported as failed;
  a ref is deleted under a checkpoint only by a revert, which removes the stale refs
  and then the checkpoints by the same count, and whose failure in between makes them
  `lost`.
* `CapturedTurnsStand`: `CapturesStand`, from the same invariant: only the last step
  of a revert changes a captured turn in memory.

`ProviderSessions_proofs`, for any number of sessions, turns, requests and restarts
of either provider:

* `ProviderTypes`; `TurnsAreSentInOrder`: `SentInOrder`. `OrderInv` puts the turns sent,
  the turn the reactor holds, unless it only awaits the answer, and the turns
  requested in one ascending line.
* `NoGhostTurnStays`: `NoGhostTurn`. `GhostInv` says of every event that opens a turn,
  waiting or in the ingestion's hands, that its turn runs (or is stranded) or that an
  end of it follows in the queue, and bounds the ingestion's stale read: the thread shows
  the turn that was read, or none, since only the ingestion opens one. A Claude
  context that runs a turn has a prompt to answer or is about to get one, unless the
  turn is in `failed` or the agent's own.
  `AdapterStep` is what every action of `ProviderAdapter` does to that: it appends
  events that keep it.
* `OnlyEndsClose`: `OnlyItsEndCloses`.

`OrchestrationRecovery_proofs`, for any number of events, lost connections and failed
requests, where a replay brings at least one event and is tried at least once
(both are constants of the source):

* `StreamSendsInOrder`: `SentInOrder` of the stream's specification, and
  `ClientIsSentInOrder` of the whole. `StreamInv`: what is pending lies beyond `next`
  and was committed, and what was sent ends right before it.
* `DeliveryTypes`, `StoreFollowsLog` (`StoreIsPrefix`) and `GapsAreRemembered`
  (`GapIsRemembered`), from `DeliveryInv`. `BatchInv`: a batch is what continues the
  store, perhaps after events it has by now; `AnswerInv`: an answer met later than
  the events that overtook it still fits, because a snapshot is only begun where no
  batch can pass it and a replay starts no later than the store ends; `GapInv` names
  what will tell of a gap: a timer, a request or a deferred replay.

`TerminalManager_proofs`, for any finite set of terminals, any numbers of sessions,
shells, fibers and calls, and an initial opened set that fits the sessions:

* `DrainsAreHonest`: `DrainIsHonest` of the coalescing worker. `QueueInv`: a key is in
  the queue at most once, and is taken by the worker only after it left it;
  `ItemInv`: an item is done, waits for its key, or is being processed.
* `ShellsAreNotLost`: `NoShellIsLost`, and `ExitsAreNoticed`: `ExitIsNoticed`.
  `ProcessInv`: a shell and its session name each other until an exit or a kill
  parts them, and a kill ends in death or in `escaped`. `FiberInv`: where events wait,
  a fiber of the same shell serves them.
* `FilesFollowHistories`: `FileFollowsHistory`. `FileInv`: what a terminal shows is the
  text last enqueued for it, or else the one being written, or else its file,
  unless a write failed. `CallInv` is why no call spoils it: what it found under
  its thread's lock is so when it goes on after an await.
* `TerminalTypes`: `TypeOK`, of all that.

Only model-checked: what needs fairness or is a liveness property
(`EveryCallSettles`, `CommittedIsPublished`, `ObservedIsApplied`,
`ReconnectCatchesUp`, `EveryCallReturns`), which is beyond TLAPS. Every invariant and
every action property of a passing run is also proved. The refinement for
`Atomic = FALSE` does not hold and is not claimed.

## 8. Not modelled

SQLite's own atomicity and durability, Effect's fibers and PubSub, git, the
agents, PTYs, the browser's event loop and the transport are taken as what the code
uses of them. A step of a model ends at an await; that Effect's scheduler may also
yield between two synchronous effects is left out. Texts, attachments, timestamps,
metrics and the content of the client's store are abstracted, and so are, in the engine's
model, the checkpoints and turn rows by which a revert chooses plans (two sets of plans
in the event; `ThreadProjections` has the rows themselves).

Of modelled components: the other projectors' rows and attachment files; the
activities of reactors and ingestion, buffered assistant text, titles and branch
names; several threads of one provider, approvals, usage and the wire protocols;
a server that stops between a revert's steps, and the silent return of a capture without
a workspace (CheckpointReactor.ts:437-439); a caller interrupted within `stopProcess`;
writes, resizes, subprocess polling, control sequences, thread-wide close, legacy
histories and the shutdown finalizer of the terminals; the remaining methods of the
websocket API.

Components with status `not_modelled` in `PROJECT.json` are planned above, hold no
state between calls, or are I/O around an external program; the note of each says
which.
