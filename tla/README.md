# Formal models of pican

pican serves coding-agent sessions (Pi, Codex, Claude, OpenCode) to a browser.
A Go server owns agent processes, durable queues and event streams, and most of
its difficult behaviour is concurrency inside that one process and what SQLite
and the agents remember across a restart. This directory holds TLA+ models of
that behaviour, TLC configurations that check them on small instances, and
theorems that TLAPS proves for every instance.

Source paths below are relative to the repository root.

## The system

| Component | State it keeps | Operations | What makes it correct |
| --- | --- | --- | --- |
| `workers.Manager` (`internal/workers/manager.go`) | workers, creations in flight, reservations, cancel functions, closed | `Send`, `SetModel`, `SetThinkingLevel`, `EnsureWorker`, `AbortExisting`, `Status`, reaper, `Close` | one worker per session, nothing leaked, an accepted message keeps its worker, shutdown is complete |
| Pi RPC worker (`internal/rpc`) | status, pending RPC calls, previews, process | `Prompt`, `Abort`, `SetModel`, line handling, extension questions, exit | a finished run is not shown as running, each call is answered once, no delta is lost |
| `chatqueue.Store` (`internal/chatqueue`) | rows, next position, paused (SQLite) | `Add`, `Remove`, `PopHead`, `SetPaused` | positions never reused, one claimant per row |
| Queue handlers and drainer (`internal/server/chat_queue*.go`) | kick channel, one goroutine, goroutines in `Send` | POST/PATCH/DELETE, kick, tick, drain | in order, at most once, eventually, not while paused |
| `sessioncreate.Store` and hosted creation (`internal/sessioncreate`, `new_session.go`) | one row per idempotency key (SQLite) | claim, mark, wait, begin dispatch, recover | one native thread and one initial prompt per key |
| SSE hub (`server.go`, `events.go`) | clients, mailboxes | `broadcast`, `send`, `resolveToken`, `flushPending`, add, remove | keyed events delayed, never lost |
| Running status (`status*.go`) | `lastKnown` | recompute, sweep, watch | deltas balance, a session that stopped is found |
| File watchers (`watcher.go`, tasks, workflows) | modification times, debounce timers | scan, debounce, record, stop | the last change is announced, nothing runs after a stop |
| `projections.Store` | JSONL projections, identity locks | replace, append, remove | one projection per native session, local changes survive |
| Codex, Claude, OpenCode workers and client | calls, turns, threads read back, snapshots under way | prompt, steer, interrupt, notifications, refresh, failure | newest state wins, calls end, a failed worker stays failed |
| OpenCode supervisor | child, restart budget, subscriptions | start, launch, wait, publish, close | no child outlives it, `Start` is answered |
| Catalogs of Codex, Claude, OpenCode | fingerprints, pending events and timers | sync, refresh, prune, lifecycle calls | projections catch up, nothing that exists is pruned |
| Session files, titles, cache (`internal/sessions`, `auto_title.go`) | lines, parsed files, claims on titles | fold, fork, extend a parse, invalidate, title | answers are exact, a name the user gave stands |
| Pins, archives, projects (`pins.go`, `archives.go`, `projects.go`) | SQLite tables | pin, archive, choose, reap, sync | never pinned and archived, choices stand |
| App, updater (`internal/app`, `internal/updater`) | cleanup stack; release, binary | run, tear down; check, install, restart | users end before what they use; only later releases |
| Settings, peers, push, registry, workspace, auth, files, git | single rows and files, wiring, I/O | - | - |
| Browser frontend (`web/src`) | queue and live stores | claim a queued row, reconnect | never dispatches a row it did not claim |

How they meet: HTTP handlers call the store and kick the drainer; the drainer
asks `Manager.Status` and calls `Manager.Send` in a goroutine of its own, as
`handleChat` does; the manager calls the worker factory and the worker's
`Prompt`; workers report status through callbacks that end in
`Server.broadcast`; a running-to-idle transition kicks the drainer again. Codex,
Claude and OpenCode keep sessions of their own: catalogs copy them into JSONL
projections, which the watcher, the cache and the titles read like Pi's files.
Shared state is behind `Manager.mu`, `clientsMu` and each client's `mu`,
`lastKnownMu`, or the single SQLite connection.

What is hard: calls that overlap between two locked sections, status read
before it is acted on, goroutines that have not reached the code that announces
them, events at a full mailbox, acknowledgements that come late or never, a
restart between an external effect and the row that records it, snapshots read
while newer events arrive, lists out of date by the time they are used to prune,
and timers that fire when they are reset. `PROJECT.json`
lists these hazards, each at its line.

## Modules

| Module | Models |
| --- | --- |
| `WorkerManager` | `workers.Manager`, one action per section run under `m.mu` |
| `WorkerManagerProofs` | its invariants, proved |
| `ChatQueue` | `chatqueue.Store` as steps on the two tables |
| `QueueDrainer` | handlers, drainer, sending goroutines, a tab's "send now", crash; extends `ChatQueue` |
| `QueueDrainerProofs` | its invariants and the refinement of `MessageDelivery`, proved |
| `MessageDelivery` | abstract: what the queue promises of one message |
| `SessionCreate` | idempotent creation, one action per SQL statement or external call |
| `SessionCreateProofs` | its invariants and its action property, proved |
| `SseHub` | event hub and connection handler |
| `SseHubProofs` | its safety properties, proved |
| `PiWorker` | a Pi worker against `pi --mode rpc` |
| `CodexClient` | the JSON-RPC client of `codex app-server` |
| `CodexWorker` | a Codex worker over that client |
| `ClaudeWorker` | a Claude worker against the `claude` process |
| `OpenCodeWorker` | an OpenCode worker against the shared server |
| `AgentWorkers` | the five above as one session's worker, and what all of them promise |
| `AgentWorkersProofs` | what workers never do, the types, answers, ends of turns and what is shown, proved |
| `ProjectionStore` | `projections.Store`: replace, append, remove, identity locks, crash |
| `OpenCodeSupervisor` | the supervisor of the OpenCode child |
| `OpenCodeCatalog`, `ClaudeCatalog`, `CodexCatalog` | how projections follow the native sessions |
| `SessionLines` | what is read out of a session file; fork and clone |
| `SessionCache` | the cache of parsed files, with incremental parsing |
| `SessionTitles` | automatic titles against renames and messages |
| `SessionWatch` | the sessions watcher: events, debounce timers, poller, stop |
| `StatusBoard` | running status: three sources, `lastKnown`, sweeper |
| `Curation` | pins, archives, project preferences |
| `Updater` | version check, install, restart |
| `AppRun` | what `app.Run` starts and takes down |
| `ServerRecords` | the thirteen parts from `ProjectionStore` on, and what the server relies on |
| `CatalogProofs` | the invariants of the runtimes' sessions: projections, the OpenCode child, the three catalogs |
| `RecordFilesProofs` | the invariants of the server's own: titles, curation, updater, watchers, running status, cache and files |
| `ServerRecordsProofs` | the invariant of the process, and all parts together: what `ServerRecords` promises, proved |
| `MC*` | the symmetry sets, views and sample data the configurations use |

The modules of the two compositions prefix their names (`Pi`, `Cx`, `Os`, `Ca`, ...)
because they are extended together. Each is a specification of its own, with a
`...Spec`; `AgentWorkers` and `ServerRecords` choose one of their parts in the
initial state (`runtime`, `part`) and leave the others at rest. The parts share
no state, so interleaving them would multiply the states and show nothing more;
where one depends on another, the other's moves are steps of its environment
(a catalog sees the server go and come back, a status source changes on its
own). Processes, servers and files the code talks to are marked external in
`PROJECT.json`.

### WorkerManager

A call (goroutine) has a program counter `pc`, the method `op`, its session and
the worker in its local variable (`held`). Each locked section is one action:
`Send` reserves and registers the cancel function; `CheckReserved` and
`CheckHeld` are the two `sendCtx.Err()` tests; `LookupClosed` to `LookupCreate`
are the branches of `workerFor`, and `Publish*` its second locked section.
`PublishWorker` and `PublishFailed` move the callers waiting on `call.done` in
the same step, since the result cannot change between the close of the channel
and their wake-up. Closing a worker is always an action of its own, after the
unlock, except where the code closes it under the lock (`PublishWorker` with a
healthy worker already there). A worker is what the manager sees of it: the
state in `Status()` and whether `Close` was called. That state changes by
itself: runs end, output streams, processes exit. `SetModel` and `Abort` may
leave it idle whatever it was, as `internal/rpc/worker.go` does.

`dropped` is a history variable: it is set when an abort deletes the count of
Sends in flight and reset when the last of them has returned. It says where the
precise form of `ReservationsAccounted` and `ReservedWorkerSpared` stops
holding; the first finding below is about exactly that interval.

### ChatQueue, QueueDrainer, MessageDelivery

The store has one connection, so each method is one step. `nextPos` is
`chat_queue_state.next_position`; a message is its position. `QueueDrainer`
follows each position and possible sender through `send`: asked, claimed,
spawned, reserved, landed, lost. `StatusPending` and `StatusWorker` are the two
halves of `Manager.Status`, which asks the worker after releasing the lock; the
checks between `Status` and `PopHead` are `ready`, which changes at any time.
A handler and its kick are one step, because a kick only wakes the drainer and
a tick can do that at any moment. A tab sends a row only when its DELETE said
`removed`. `Crash` keeps the tables and what tabs have claimed, loses the rest
and starts the drainer again with its initial scan. The manager is reduced to
what `Status` depends on: a reservation or a running agent.

`MessageDelivery` is the promise: queued once, claimed by one sender, delivered
at most once, possibly lost once claimed, never queued again. `DeliverySpec`
in `QueueDrainer` is this specification under a refinement mapping, checked as
a property.

### SessionCreate

A row of `hosted_session_creates` is `fingerprint`, `createState`,
`promptState`; `threads` and `prompts` count what codex really did. A request
follows `handleIdempotentCodexCreate` from `Get` to the answer with the copy of
the row it last read (`rc`, `rp`). `StartThread` and `DeliverPrompt` are the
effects inside codex; `StartFails` and `SendFails` may follow them, which is the
ambiguity the design is about. `StatementFails` ends a request at any statement
(database error, or the request's context), `Restart` kills everything and runs
`RecoverInterrupted`.

### SseHub

Each client has the mailbox `ch`, `pending` and `signaled`, as in `sseClient`.
A broadcast holds `clientsMu` for reading while it visits the clients in any
order; adding and removing a client needs it for writing (`Exclusive`), and the
channel is closed after that. `flushPending` holds `c.mu` but keyless sends do
not take it, so its loop is one action per key, and keyed sends wait for it.
Payloads are numbered so that the newest of a key can be told from older ones.
The connection handler is `conn`: greeting, select, the two locked sections of
`resolveToken`, the write, and leaving.

### Agent workers

*PiWorker.* A call registers its channel, writes its line and waits; `PiBoot` is
the `switch_session` every worker begins with. pi's output is a queue of lines
the reader handles in order; a response carries the id of its call, everything
else is an event of the run. Reader and waiter both fail what is pending. The
text of a message is the number of its deltas: `piSaid` is what pi has said,
`piShown` what was broadcast, so a delta the throttle dropped would show.

*CodexClient.* The life of a pending call: registered, taken by the reader, by
`fail` or by its own caller's context. Notifications go through an unbounded
queue and a wake-up channel of one to a dispatcher, whose handler may call back.

*CodexWorker.* The thread is a set of turns and items, with a revision.
Answers overtake notifications (`svQueue`), reads of the thread may lag
(`SvReadsThread`), snapshots on their way to the projection are jobs that carry
the revision they were made at. `cxDoubt` remembers what the code leaves open:
an answer to a steer, or a start, that comes when another turn is active
(`worker.go:186` checks nothing), a steer or interrupt that failed and left
"running", and a turn that ended in an error, whose worker the manager evicts.
`CxSettles` and `CxLiveTurnKept` speak of the behaviours without these.

*ClaudeWorker.* `writeMu` orders frames on standard input; `Abort` registers
under `w.mu` and writes after it. A result starts a goroutine that waits for the
transcript to converge and then ends the turn, if it is still the turn.

*OpenCodeWorker.* One goroutine receives events and availability; a refresh is
repeated when an event came while it ran. A full channel drops an event
(`ocDropped`), and the properties about the newest state speak of workers to
which that has not happened.

### Server records

*ProjectionStore.* One identity with several paths. `Replace` reads all of them,
writes its target and removes the others one by one; a crash keeps the files
only. *OpenCodeSupervisor* numbers children and publications; `run`, `Start`,
`Close`, `SubscribeAvailability` and the child move on their own. *OpenCodeCatalog,
ClaudeCatalog, CodexCatalog*: a native session is a version that grows, a
projection the version read; a sync is a list, a read per session and a prune,
and everything else happens in between. History variables (`caExcused`,
`cgExcused`, `cdOlder`) name the sessions whose refresh failed or whose
projection was written by a call with an older copy: for these the code promises
nothing before their next change. *SessionCache*: one session that may move;
a file is a sequence of lines and every change moves its time. `ScKinds` tells
Pi's files, which only grow, from projections, which are replaced.
*SessionLines*: the files are all those of at most four lines that the writers
can produce; `ParseSummary` and `ParseFile` are both folds over them.
*SessionTitles*, *SessionWatch*, *StatusBoard*: the two looks of a title pass at
the file with a model run between them; timers numbered, so that `Reset` of one
that has fired shows; a recompute in five steps over three sources.
*Curation*: transactions work on a copy and commit; a request may fail at any
statement. *Updater*: a release is published asset by asset while checks and
installs read it. *AppRun*: the cleanup stack, with `arRequests` the requests
that `Serve` leaves running.

## Runs

| Run | Instance | Shows |
| --- | --- | --- |
| `manager_safety` | 1 session, 3 overlapping calls, 2 workers, symmetric | `TypeOK`, `ReservationsAccounted`, `ReservedWorkerSpared`, `OneWorkerPerSession`, `NoWorkerLeaked`, `CloseLeavesNothing` |
| `manager_liveness` | 1 session, 2 calls, 1 worker | `CallsReturn`, `CloseTerminates` |
| `manager_abort_dip` | 1 session, 3 calls, 2 workers | `NoIdleDipMidSend` is violated |
| `queue_safety` | 1 session, 3 messages, 1 tab, 1 kick slot, 1 crash | `TypeOK`, `ClaimedOnce`, `DrainedInOrder`, `PauseHolds`, `DeliverySpec` |
| `queue_liveness` | 2 sessions, 1 message each, 1 kick slot, 1 crash, 1 other run | `QueueDrains` |
| `queue_double_dispatch` | 1 session, 2 messages | `OneDispatchAtATime` is violated |
| `session_create` | 1 key, 2 payloads, 3 requests, 2 faults, 1 crash | `TypeOK`, `AtMostOnce`, `RowTruthful`, `AnswersTruthful`, `RowMovesForward`, `RowSettles` |
| `sse_hub` | 1 connection, 2 broadcasters, 2 keys, 2 slots, 4 events | `TypeOK`, `OneTokenPerKey`, `NoStuckKey`, `NewestKept`, `NoSendOnClosed`, `KeyedDelivered` |
| `agent_workers` | 2 calls, an abort or a nested call, 2 turns, 2 lines or events, 1 further notification | `WorkersTypeOK`, `CallsAnswered`, `TurnsSettle`, `ShownIsNewest`, `ClInterruptAfterPrompt`, `NeverBack`, `CxLiveTurnKept` |
| `server_records` | 2 overlapping calls, 1 or 2 sessions or paths, budgets of 2 to 4 changes | `RecordsTypeOK`, `CaughtUp`, `RecordsExact`, `WatchersTell`, `NothingLeftBehind`, `UpgradesForward`, `LossesAreMeant` |
| `claude_recovery` | 2 transcripts, 3 changes | `CgRecovered` is violated |
| `session_cache_rewrite` | 1 path, 2 calls, 3 lines, 3 changes | `ScExtendsOnlyAppends` is violated |

The properties of the two compositions are conjunctions of one property of each
part, defined in the part's module with its own statement:

| Property | Parts and what each says |
| --- | --- |
| `CallsAnswered` | Pi, Codex client, Claude: at most one answer per call; none waits on a worker that ended |
| `TurnsSettle` | Pi, Codex, Claude, OpenCode: a turn that is over and handled leaves the worker not running |
| `ShownIsNewest` | Pi previews, Codex notifications and status, OpenCode projections: the last one arrives |
| `ClInterruptAfterPrompt` | Claude: an interrupt is never written before the prompt of its turn |
| `NeverBack` | Claude, OpenCode: failure is final; Codex: the projection's revision never falls |
| `CxLiveTurnKept` | Codex: the read after a turn loses no item of that turn or of the active one |
| `CaughtUp` | catalogs: at rest, projections are the sessions; no event without a timer; titles cover all messages |
| `RecordsExact` | acknowledged local changes are in a projection; cached answers are the file's; both folds agree; a question shows exactly while open; forks have no gap; pins and archives exclude each other |
| `WatchersTell` | supervisor's subscribers, status deltas, reloads: the last change is told |
| `NothingLeftBehind` | no child after `Close`; `Start` answered; nothing after a stop; no claim on a title; teardown users first and complete |
| `UpgradesForward` | an update is offered for a later version and no other; a restart leaves a successor |
| `LossesAreMeant` | no step prunes what exists, drops a new session, mixes projections, unpins, overrides a choice or a name |

**Bounds.** Sessions of the manager share no state but `closed` and the mutex,
so one is enough. Three calls give a creator, a waiter and an abort or an
eviction at the same time, and call slots are reused, so histories are long.
Workers are not reused: two allow one eviction and its successor. The view of
`manager_safety` hides only what no later step reads. In the queue, three
messages are the least in which a position freed by a removal could be handed
out again while the drainer and a tab hold the others; one kick slot makes
dropping normal (the code has 64). In `session_create` three requests are the
owner, a waiter and a conflicting or late one; two faults allow a failed mark
after a failed call. The mailbox of two slots (the code has 16) is full with
one keyless event and one key while the second key waits.

In the workers two calls overlap in every way one mutex and one process allow;
two turns are the least in which one completes late beside a newer one; one
further notification in each place of a Codex turn is enough for the reads and
snapshots it starts to overlap with those of the turn's end, and two would
repeat that (70 times the states). A channel of two OpenCode events overflows
with the third. In the records, two calls and two paths or sessions are the
least for every pairwise race; three changes let a session be written before,
during and after a sync; four lines hold a header, a call, its result and a
message after it; four releases are two prereleases of one version, a late one of
the line before, and the version itself. The supervisor may start two children
and fail twice. SQLite's connection and `Catalog.mu` make more calls queue rather
than interleave.

**Deadlock** is checked for the manager, the queue and hosted creation. It is not
in `sse_hub`, which stops when its events are used up and the connection is gone,
nor in the runs of the agent workers and the server records: their calls are made
once, their budgets end, and workers, supervisors and the process stop for good.

**Fairness.** Weak fairness on what a goroutine does by itself: the Go
scheduler runs it. `WorkerManager` also assumes that a factory, an abort and a
model switch return (they run under deadlines) and that a `Prompt` whose context
is done returns; it does not assume that an acknowledgement comes. In
`QueueDrainer` the drainer's `select` takes a tick that is offered again and
again (strong fairness of `DrainAll`), `Send` ends (it has a timeout), and
agent runs end; that kicks arrive is not assumed. In `SessionCreate` every wait
and every call has a time limit. `SseHub` assumes nothing about further events:
`KeyedDelivered` holds in a pause of the events. The agent workers and the
server records state no fairness: what must be so in the end is said of their
states of rest (`CaughtUp`, `TurnsSettle`, `WatchersTell`), as an invariant. No fairness is given to
crashes, faults, user actions or disconnects.

Some of the properties carry a condition the code does not establish for free:
`RowSettles` holds as long as no statement fails, because after a failed mark
the row stays as it is until the next start; `QueueDrains` is about a session
that in the end stays available and unpaused. `CxSettles` and
`CxLiveTurnKept` exclude `cxDoubt`, and `OcSettles` a worker that `GetState` set
running from an answer out of date. A
title pass past its second look at the file overrides a rename
(`TiManualStands`). `SbDeltasBalance` says that deltas balance, not that they
arrive in order: two broadcasts after the unlock may overtake each other, and
only a session shown as running is found again by the sweeper. `WaReloadsFollow`
leaves out a second write within the same tick of the file system's clock and
the first look at a file nothing announced. `OsSubscriberCaughtUp` leaves out a
subscriber whose first value, sent after the unlock, was overtaken.
`UpHandedOver` leaves out a restart command that was killed.

## What the violations show

* `manager_abort_dip`: `AbortExisting` deletes `pendingSends[id]` while the
  aborted Sends are in flight (`manager.go:366-368`). Each still runs its
  deferred decrement (`manager.go:209-213`), on whatever count is there by then.
  A Send accepted after the abort loses its reservation to it, and `Status`
  reports idle in the middle of that Send, against the comment at
  `manager.go:205-207`. The reaper may take its worker then too, which is why
  `ReservedWorkerSpared` is conditional on `dropped`.
* `queue_double_dispatch`: the drainer starts `Send` in a goroutine
  (`chat_queue_drainer.go:167`). Until that goroutine has reserved the session,
  `Status` is idle, so the next kick pops a second message of the session,
  against "processes one dispatch at a time" (`chat_queue_drainer.go:28-30`).
* `claude_recovery`: the catalog remembers a transcript's fingerprint after it
  has parsed it (`claude/catalog.go:341`). What Claude wrote in between counts as
  seen; the only repair is the pending file event, and a removal of another
  transcript drops pending timers for one full sync (`watcher.go:126-129`), which
  skips the file. `docs/architecture/claude-runtime.md:34` says that "a ten-minute
  recovery scan covers missed filesystem events".
* `session_cache_rewrite`: `canExtend` takes a file with the same header that has
  not shrunk for one that was appended to (`sessions/incremental.go:114`), but
  `Replace` puts new runtime entries before preserved local ones
  (`projections/store.go:218`), so that the bytes before the offset change. The
  comment at `incremental.go:18-25` says that "a truncated/rewritten file is never
  misread as a plain append".

## Proofs

Every safety property and every action property of the passing runs is a theorem:
it holds for every value of the constants, not only for the instance TLC has
visited, and so does the refinement of `MessageDelivery`.

| Module | Proves |
| --- | --- |
| `WorkerManagerProofs` | the safety properties of `manager_safety`; who waits for a creation has one (`WaitersHaveCreator`) |
| `QueueDrainerProofs` | `TypeOK`, `ClaimedOnce`, `DrainedInOrder`, `PauseHolds`, `DeliverySpec` |
| `SessionCreateProofs` | the safety and the action property of `session_create`; a row in progress has a request that settles it (`RowInHands`) |
| `SseHubProofs` | the safety properties of `sse_hub` |
| `AgentWorkersProofs` | `NeverBack`, `CxLiveTurnKept`, `ClInterruptAfterPrompt`, `WorkersTypeOK`, `CallsAnswered`, `TurnsSettle`, `ShownIsNewest` |
| `CatalogProofs`, `RecordFilesProofs` | lemmas: an invariant of each part, and that it implies the part's properties |
| `ServerRecordsProofs` | `CaughtUp`, `LossesAreMeant`, `UpgradesForward`, `RecordsTypeOK`, `RecordsExact`, `WatchersTell`, `NothingLeftBehind`; local changes stay, nothing is both pinned and archived |

**Assumptions** are the named ones of the modules. Values that stand for nobody,
nothing or all (`None`, `NoKey`, `Drainer`, `CgAll`, ...) are none of the others;
sets whose members are counted (calls, operations, title passes, status
callbacks) are finite; bounds are natural numbers, and positive where the code
has a positive constant (a mailbox, a channel, an attempt). No call is both a
prompt and an abort, and a thread of Codex has more than one version, since a fork
has turns. Nothing is assumed of the releases but that there is one.

*Manager.* The properties are not inductive alone. `IInv` has three layers.
`CallInv` says what the position of a call tells of its locals. Then
`ReservationsAccounted`: `pendingSends` is compared with the cardinality of
`InFlight`, which a step changes by one call at most. `WorkerInv` says where
workers are: `creating` names the one call between `LookupCreate` and
`Publish*`, and while there is one nothing is published (`SingleFlight`);
whatever refers to a worker refers to one spawned for that session
(`Ownership`); `closed` and `closer` go together and the collection by `Close`
is final (`CloserInv`); what `reapOnce` took out nobody finds again (`DeadInv`).
`OneWorkerPerSession` and `CloseLeavesNothing` follow in any one state.

*Queue.* `StepEffect` reduces the actions to six effects on messages: nothing, a
message is added, asked for, claimed, moves on, or the process dies. `OwnerInv`
(a position that was handed out is queued or has one owner, and never both),
`OrderInv` and the refinement are then proved of six effects rather than of each
action. `PopHead` takes the least position, which exists because `<` is
well-founded on the naturals. For `DeliverySpec`, `FateIs` says what the mapping
makes of each place a message can be in, and `EffectRefines` shows each effect to
be a step of `MessageDelivery` or to leave its variables alone.

*Hosted creation.* At most one request owns the creation of a key (the one whose
INSERT took effect) and at most one its dispatch (the one whose UPDATE did);
before their calls the counts in codex are zero; what a request remembers as
created or accepted stays so.

*Event hub.* `HubInv` relates who is on the list and who a broadcast may still
visit to where the handlers are. `TokenInv` says where the one token of a
signaled key is: in the mailbox exactly once, or in the hands of the handler
between receiving and resolving it. With it `Resolve` always finds the payload it
takes off, which makes `NewestKept` inductive.

*Agent workers.* `CxInv` is about reads of the thread under way after a turn has
completed: if the revision is still the one a read was asked at, so is the
thread (`StillKeeps`, `BumpKeeps`). `ClInv` says that the prompt of a running
turn is on stdin, or about to be written by the owner of `writeMu`, or never will
be because the process or the worker is going.

For `CallsAnswered` each client has an invariant that an answer is owed in one
place at most: the map of pending calls, the hands of the reader or of whoever
fails them, or the call's channel (`PiCallInv`, `CcCallInv`, `ClCallInv`). For
`TurnsSettle` the invariant names what a worker that shows a run still waits
for, and a turn that is over leaves none of it: for Pi the run, a prompt, or an
`agent_end` behind the lines that speak of a run (`PiRunInv`); for Codex the
notifications are followed through the queue, by position, to where a turn's end
(`CxEndInv`) and its beginning (`CxLeadInv`) stand, so that an answer may overtake
them (`CxRunInv`); for Claude the prompt's frame, its result or its convergence
(`ClRunInv`); for OpenCode the turn, its event, or the answer (`OcRunInv`). What is
shown is the newest because whatever is older has its successor in the throttle,
the channel or a repeated refresh (`PiPreviewInv`, `CxToldInv`, `OcFreshInv`).

*Server records.* Each part has an invariant; `PartsInv` is their conjunction,
kept because a step is of one part and a part whose variables stand still keeps
its own.

* Projections: the counter of an identity's lock is the number of operations that
  hold its entry, so two that are at work have the same mutex (`PsLockInv`); a
  `Replace` under way knows all files and local entries (`PsReplaceInv`).
* Catalogs: no session is forgotten. Each is right, or something is still to come
  that will look at it, or whoever has it in hand will set it right, or it is
  excused (`CaCareInv`, `CgCareInv`). For Codex, a Sync nothing overlaps has brought
  the threads it is past up to date (`CdAloneInv`), and no version is written that
  was not there (`CdVersionsInv`).
* Titles: one pass has the claim, while its model runs (`TiClaimInv`); a session
  that is to be titled is in someone's hands (`TiHandsInv`).
* Curation: a transaction's copy differs from the tables by its own statements.
* Updater: `compareSemver` finds a version later exactly when it is by `UpBefore`,
  the order of semver.org in a definition of its own, for prereleases of any length
  (`UpCompareIs`).
* Supervisor: a child that lives belongs to `run`, or to a `Close` that has yet to
  kill it (`OsChildInv`); the last value a subscriber was sent is the last
  publication, or one that publications have overtaken (`OsNewsInv`).
* File watcher: a change of the file is on its way to a look at it (`WaLooksInv`).
* Status: the deltas sent and the ones about to be sent add up to what is known
  (`SbSums`), whatever number of recomputes has passed the unlock;
  a sweep nothing has disturbed sees the sources as they are (`SbSweepInv`).
* Process: the cleanup stack is in the order of starting (`ArOrderInv`), and what
  runs is on it with all that it uses (`ArStackInv`).
* Cache: of a file that only grows, what is cached is a prefix of the complete
  lines, and all of them if the entry's time is the file's (`ScSound`).
* Session files: both folds are functions of the number of lines. That they agree,
  that the pending calls are those no line has ended (`SlPendingIs`), and that the
  parents of an entry lead to a root (`SlPathWhole`) is shown by induction on that
  number. The library's induction theorems take operators, so the induction is
  one over sets: a set of numbers that has 0 and with each number the next has
  them all (`InductionUpTo`, from the well-foundedness of `<`).

Proving some of this corrected the models: a thread of Codex counts as older
(`cdOlder`) when its projection is behind what the catalog has recorded, not behind
the projection it replaces; the comparison of prereleases had alternatives that
overlap; and the folds are recursive functions now, whose values can be reasoned
about.

**Only model-checked:** the liveness properties `CallsReturn`,
`CloseTerminates`, `QueueDrains`, `RowSettles` and `KeyedDelivered`, which rest on
fairness and `ENABLED`, outside the prover's reach; and the violations, which
are single behaviours. What liveness rests on that is not temporal is proved:
nobody waits on `call.done` for a creation that is not in flight
(`WaitersHaveCreator`), and a creation in flight is a call with a step to take
(`SingleFlight`, on which `CloseTerminates` rests too); a row in progress has the
request that will settle it as long as no statement fails (`RowInHands`); the
token of a signaled key is in the mailbox or in the hands of the handler
(`TokenInv`). A queue needs no such lemma: each tick looks at every
session that has rows.

## Not modelled

Timeouts are possible at any time rather than measured. The contents of
messages, prompts and events are not represented. Beyond that:

* the mappings of native items and transcript records to session entries
  (`codex/projection.go`, `claude/projection.go`, `claude/transcript.go`,
  `opencode/projection.go`, `opencode/types.go`): functions of one record to
  another whose value is their detail, covered by the unit tests beside them;
* settings, peers and push subscriptions: single rows. Endpoints that a push
  finds gone are removed after the network calls (`push.go:238`), so one
  registered again meanwhile is removed too; no property is stated about it;
* the lock on the state file: between `Close` and `Remove` (`app.go:495-500`)
  another process may lock the file that is then unlinked;
* requests that the end of the process cuts off: `AppRun` lets them outlive the
  HTTP server, `docs/sequence-flows/server-startup.md:247` calls the shutdown
  graceful;
* the watchers and APIs of tasks and workflows, which debounce one event and read
  files; read-only handlers, rendering, the models cache, files, git, workspace
  and authentication, which keep no protocol state;
* the I/O of an update (download, digest, rename are steps that may fail);
* the frontend but for a tab that claims a queued row; its views and stores;
* `chatqueue.Store.Clear`, which has no caller, and the plain creation path of
  `new_session.go`, which keeps no record to be consistent with.

`PROJECT.json` gives the reason for each component that is left out or partly
modelled.

## Plan

Done: manager, queue and drainer with the abstract delivery specification,
hosted creation, event hub; the workers of the four runtimes; the records of the
server in thirteen parts; proofs of every safety and action property of the
passing runs and of the refinement.

The model could be carried further where state remains: push subscriptions with
the race above, the state-file lock with two processes, the task and workflow
watchers.
