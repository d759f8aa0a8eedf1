# T3 Code in TLA+

T3 Code is a server (`src/apps/server`) that drives coding agents (Codex,
Claude, Cursor, OpenCode) for a set of clients (web, desktop) that show what the
agents do. The repository also carries `src/packages/doltlite`, a SQLite whose
storage is a version-controlled, content-addressed chunk file shared by
processes. These modules model the parts of both that must not lose, repeat,
reorder or forget anything: the event-sourced orchestration core of the server
with the workers and streams around it, and doltlite's storage, from the bytes
of the file over the sessions that share it to the savepoints of one of them.

## Inventory

The paths below are relative to `src/apps/server/src/` unless they start with
`src/`.

| Component | State | Operations | Talks to |
|---|---|---|---|
| `orchestration/Layers/OrchestrationEngine.ts` | command queue, in-memory read model, hot event PubSub | `dispatch`, the worker's `processEnvelope`, reconciliation, startup | decider, event store, receipts, projection pipeline |
| `orchestration/decider.ts`, `commandInvariants.ts` | none | decide one command against the read model | engine |
| `orchestration/projector.ts` | none | fold one event into the read model | engine |
| `orchestration/Layers/ProjectionPipeline.ts` | nine projection tables, one cursor each | `projectEvent`, `bootstrap`, attachment clean-up | event store, file system |
| `orchestration/Layers/ProjectionSnapshotQuery.ts` | none (reads tables) | command read model, shell and thread snapshots, snapshot sequence | engine, WebSocket server, reactors |
| `persistence/` | SQLite: events, receipts, projections | transactions, migrations (one drops the projections) | everybody |
| `orchestration/Layers/ProviderCommandReactor.ts` | started-thread caches | react to intents in the hot stream, start and steer sessions | provider service, engine |
| `orchestration/Layers/ProviderRuntimeIngestion.ts` | buffered text and turn caches | turn provider runtime events into commands | engine |
| `orchestration/Layers/CheckpointReactor.ts`, `checkpointing/` | git refs, diff blobs | capture, diff, revert | engine, git |
| `orchestration/Layers/ThreadDeletionReactor.ts` | none | stop the sessions and terminals of a deleted thread | provider service, terminals |
| `provider/Layers/ProviderService.ts`, `ProviderSessionDirectory.ts`, `ProviderSessionReaper.ts` | session bindings (persisted) | start, recover, route, stop, reap | adapters |
| `provider/Layers/ProviderInstanceRegistryLive.ts`, `ProviderRegistry.ts` | running provider instances | reconcile with the settings | adapters |
| `provider/Layers/*Adapter.ts` | protocol state of one agent process | translate four external protocols | agent programs |
| `terminal/Layers/Manager.ts` | terminal sessions, history | open, write, resize, restart, close, persist | PTYs |
| `auth/Layers/*.ts` | pairing links, sessions | issue, consume, verify, revoke | HTTP, WebSocket |
| `ws.ts`, `orchestration/http.ts` | subscriptions | RPCs, snapshot-then-stream subscriptions, thread bootstrap | engine, snapshot query |
| `serverRuntimeStartup.ts` | command gate | queue commands until ready | engine |
| `src/packages/shared/src/DrainableWorker.ts`, `KeyedCoalescingWorker.ts` | queues, outstanding work | enqueue, process, drain | reactors, terminals |
| `vcs/`, `git/`, `sourceControl/` | status cache | run git, jj, gh | external programs |
| `gc/`, `textGeneration/`, `telemetry/`, `workspace/`, `observability/`, settings | caches, files | leaf services | |
| `src/apps/web/src/environments/runtime/service.ts` | client stores | apply snapshots and events by sequence | WebSocket server |
| doltlite `chunk_store.c` | the file: chunks and root records; per process its refs, index and known size | open, refresh, lock, commit, truncate after a failure | file system, sessions |
| doltlite `prolly_btree.c` (transactions), `doltlite.c`, `doltlite_tag.c` | per session: refs, working and staged catalog, head, what it rolls back to | begin, commit, roll back, `dolt_add`, `dolt_commit`, `dolt_tag` | chunk store |
| doltlite `doltlite_gc.c` | a new file in place of the old one | mark, sweep, rename | chunk store, every session |
| doltlite `prolly_btree.c` (savepoints), `prolly_mutmap.c` | per table: tree and map of pending edits with levels and undo log; a stack of savepoints | write, flush, push, release, roll back to, clear, drop | SQLite's VDBE |
| doltlite merge, branch, conflicts, rebase, remotes; prolly trees | catalogs, hashes | checkout, merge, diff, push, pull | chunk store |
| SQLite in doltlite; `src/packages/gascity`, `beads-doltlite`, `effect-*` | | vendored or generated | |

What is hard in it: everything runs as Effect fibers, so steps of different
fibers interleave at every `yield*`; the engine's state is half in SQLite and
half in memory, and a crash keeps only the first half; the hot event stream is
not persisted, so whoever is not subscribed when an event is published never
sees it; projections are rebuilt from the log after an upgrade that drops them;
clients read a snapshot first and follow a stream afterwards. In doltlite,
processes share a file they mostly read without its lock, a session renews its
refs, its catalog and its head at different times, and an edit passes through
three representations (map, flushed map of a savepoint, tree) whose levels have
to agree.

What makes each component correct, and where it is stated (in italics: planned):

| Component | Correct if |
|---|---|
| OrchestrationEngine | a command is executed at most once and whole, its receipt and its answer tell the truth, subscribers see each event of the run once and in order, a crash loses nothing that was committed |
| decider, projector | a decision is made on all that was decided before; the read model and the tables accept the same commands |
| ProjectionPipeline | the tables are a function of the log, however they were reached; what a revert drops leaves nothing behind |
| ProviderRuntimeIngestion, CheckpointReactor | what they compute from a stale read and dispatch later does no harm: counts stay unique, placeholders end as captures unless these fail |
| KeyedCoalescingWorker | no value is lost, repeated or stranded; a drain is answered in time and not too early |
| ProviderCommandReactor, ProviderService, ProviderSessionReaper | *a thread has one session, an intent is executed once, no running turn is stopped* |
| TerminalManager | *output goes to history and clients in order, a deleted history stays deleted, a killed process is gone* |
| WebSocket subscriptions, web client | *snapshot and stream together are the log, without gap or repetition* |
| Startup gate | *commands run after readiness, in the order they were queued, or fail* |
| Authentication | *a one-time credential is consumed once, a revoked session stays revoked* |
| doltlite chunk store | an acknowledged commit is found by whoever opens the file, whatever crashes; a root never refers to a chunk that is missing; no commit is put on top of a state its process has not read |
| doltlite sessions | a commit whose hash was returned stays in the branch; what a session was told is stored; a reader reads one catalog; one writer at a time |
| doltlite savepoints | what is read, and what every ROLLBACK TO brings back, is what a copy of the table at the savepoint would be |
| doltlite merge, branches | *three-way merge is symmetric where it does not conflict, checkout keeps what was not committed* |
| VcsStatusBroadcaster | *one poller per directory while somebody subscribes, none afterwards* |

## Modules

| Module | Models |
|---|---|
| `CommandLog` | what the engine promises its callers (abstract) |
| `OrchestrationEngine` | the engine, and the inductive invariants behind its properties |
| `MCOrchestrationEngine` | its instance for TLC |
| `OrchestrationEngineProofs` | theorems about it |
| `ThreadProjections` | what the events of a thread do to five projection tables and to the read model in memory: operators only |
| `ThreadHistory` | one thread with its client, provider, ingestion, checkpoint reactor, crashes and rebuilds, on top of `ThreadProjections` |
| `ThreadProjectionsProofs` | lemmas about the operators of `ThreadProjections`, and about folds |
| `ThreadHistoryProofs` | theorems about `ThreadHistory` |
| `CoalescingMailbox` | what the keyed worker promises who enqueues and drains (abstract) |
| `KeyedCoalescingWorker` | `KeyedCoalescingWorker.ts` |
| `KeyedCoalescingWorkerProofs` | theorems about it |
| `DurableRegister` | what a database file promises its committers (abstract) |
| `ChunkLog` | `chunk_store.c`: one file, write by write, and the processes that share it |
| `ChunkLogProofs` | theorems about it |
| `DoltSessions` | sessions on one branch: transactions, `dolt_add`, `dolt_commit`, `dolt_tag`, `dolt_gc` |
| `MCDoltSessions` | its instance for TLC, with symmetry |
| `DoltSessionsProofs` | theorems about it |
| `SavepointStack` | what a connection is promised about a table and its savepoints (abstract) |
| `DoltSavepoints` | the tree, the map of edits and the savepoints of one table |
| `DoltEditsProofs`, `DoltSavepointsProofs` | lemmas about one map of edits; theorems about the stack |

### OrchestrationEngine

One action per step of `processEnvelope` between two points where something else
can happen: `Take`, `LookupReceipt`, `DecideCommand`, one `AppendEvent` per
event (append, project, fold into the next model), `WriteReceipt`, `Commit`, one
`Publish` per event, `FinishPublishing`; after a failure `Reconcile` or
`ReconcileFails`, `RecordRejection`, `FailCommand`. `pc` is the place in the
generator function; `tx` is the open SQL transaction, of which nothing remains
if it does not commit. `SqlError` fails the statement the worker is about to
run. `Crash` forgets everything but `log`, `receipts` and `projection`;
`DropProjections` is an upgrade's migration 21; `StartBootstrap`,
`BootstrapEvent`, `StartWorker` are the start of the process.

The decider is abstracted to what the engine's properties tell apart: a command
requires some commands to have been executed and excludes others, and emits a
number of events. A read model is the set of events it has seen; the tables are
one such model here, `ThreadHistory` has a cursor per projector. The read limit
of a rebuild (`readFromSequence` without a limit) is kept: it is what the two
engine findings are about. A shutdown that interrupts the worker fiber is not
distinguished from a crash.

### ThreadProjections and ThreadHistory

`ThreadProjections` translates `applyThreadMessagesProjection`,
`applyThreadProposedPlansProjection`, `applyThreadSessionsProjection`,
`applyThreadTurnsProjection` and `applyThreadsProjection`, in the pipeline's
order, each as a function of all tables and one event, because they read each
other's tables; and the two parts of `projector.ts` that decide what later
commands may do, plans and checkpoints. A text is a number of chunks, so a chunk
applied twice or a final text that replaces it shows; a timestamp is a position
in the log; a checkpoint ref is one git has (`git`) or the name of a placeholder.
What a filter keeps is given as a set (`Only`), not as an operator for `SelectSeq`:
that way it can be proved about.

In `ThreadHistory` a command is decided, stored, projected and folded in one
step (`Emit`, `EmitBoth`): the engine's worker does one at a time, and
`OrchestrationEngine` shows that a command's effects are all or none. What is not
one step is what the handlers around it do. Ingestion's `processRuntimeEvent`
reads the tables in `TurnStarted`, `AssistantDelta`, `PlanCompleted`,
`DiffUpdated` or `TurnCompleted`, and its commands (`ingest`) are dispatched one
by one in `IngestionDispatch`; `CheckpointReactor` reads in `ReactorTake`, works
on git, and dispatches in `ReactorDispatch` (`capture`). Both are single fibers
(`DrainableWorker`), so each has one computation under way, and the reactor's
`inbox` is first-in, first-out; published events reach it with their step, since
`PubSub` delivers in order to an inbox that may wait as long as it likes. `Complete`
always reaches it, too; the code says that `turn.completed` may not
(`CheckpointReactor.ts:733-735`), which is a behaviour like that of `ReactorFails`.

What the provider reports may be late. `shouldApplyThreadLifecycle` compares only
`turn.started` and `turn.completed` with the turn the session runs (`Conflicts`) and
lets everything else pass, so `Reporting` admits chunks, plans and diffs of any turn
that has begun, whether it is over, superseded or dropped by a revert. A
turn that begins while the session runs another (`AuxiliaryStarted`) leaves the session
as it is, and may report nevertheless; its end does not touch the session, either, unless that
is idle by then. `ran` says how far each turn of the provider has got.

What handlers dispatch may fail. `IngestionFails` drops the rest of the report
(`processInputSafely`), except that a turn is run although its source plan could not be
marked; `ReactorFails` stands for a workspace that is gone or without git, for git, the
provider's rollback and the dispatch: each leaves at most an activity, and a placeholder
stays one. `failures` remembers the turns whose captures failed.

`RequestRevert` puts the revert in the inbox without an event of the log:
`thread.checkpoint-revert-requested` changes none of these tables.
`Crash` forgets what fibers hold; `DropTables` is an upgrade that drops the
tables or recreates their file while the events are still elsewhere (before
migration 25 moves them into the same file); `BootstrapEvent(k)` applies one
event with projector `k`, in the order of `bootstrap`: a projector starts when the
ones before it have finished.

Left out on purpose: the creation of the thread (it exists), message and
activity lists in memory and the caps on them, buffered (non-streaming) text,
approvals, the contents of the workspace and of the git refs, baselines. Of the
tables, activities, approvals, projects and `finalized_thread_messages` (migration
24, which a revert does not prune) are not modelled, so that the properties say "of
the tables modelled". The read limit of the bootstrap is modelled in
`OrchestrationEngine` only.

### KeyedCoalescingWorker

Each `Effect.tx` is one step; `TxQueue.take`, the look at the state, and the
`offer` after a failure are transactions of their own and therefore steps of
their own (`Take`, `Start`, `Requeue`). The n-th value of a key is the number n
and `merge` is concatenation, of which any merge is an image; `options.process`
runs between `HandOver` and `ProcessSucceeds` or `ProcessFails` and may fail every
time. `CoalescingMailbox` is what remains if the queue, the marks and the fiber
are forgotten; the refinement maps `handed` to its length and `busy` to the key
in process.

### DurableRegister and ChunkLog

The file is the sequence of its successful writes, so a crash falls between any
two: the manifest of a new file, header and data of each chunk, the root record.
`StartCommit` is `chunkStoreLockAndRefresh` with the puts of the commit,
`WriteHeader`, `WriteData`, `WriteRoot`, `Sync` are `csCommitToFile`;
`CommitFails` and `RollbackFailedAppend` its errors, with a truncation that may
fail itself; `Refresh` is the refresh without the lock at the start of any
transaction, in the middle of an append of another process too. `Torn`, `Reached`
and `RootsOf` say what the replay makes of a file. A process dies (`Crash`), or
all do and writes that were not synced are cut off from some point on
(`PowerLoss`; that appends reach the disk in order is an assumption about the file
system). After a torn record the replay fails or stops; that it could fall back
into step, if the length missing from the record ended exactly at a later one, is
left out. `DurableRegister` is what remains if bytes are forgotten: a value, tried and
acknowledged commits, and `damaged` once something is appended behind a torn
record, which in the code destroys what follows (see Findings).

### DoltSessions

A session's copy of the chunk store has `size`, `hasMovedChecked`,
`snapshotPinned` and two copies of the refs; `Detects`, `Looked`, `Reloaded`,
`RefreshIfChanged`, `Current` are `csDetectExternalChanges` and its callers. On top of
it are the catalog (`cat`, `committed`, `staged`) and `headCommit`, which only
`sqlite3BtreeOpen` takes from the branch. A catalog is a set of rows. The two
functions that work before they have the lock are two steps each (`StartAdd` and
`FinishAdd`, `StartCommit` and `FinishCommit`), with `AddIsBusy` and
`CommitConflicts` as their other ends; `Tag` and `Gc` are one step, and so are the
append (`ChunkLog` has its parts) and open with flock. The two refreshes of
`prollyBtreeBeginTrans` are merged. `dolt_commit` in a transaction is `CommitWrite`
followed by it; closing in one is `RollbackWrite` followed by `Exit`, and `Exit`
by itself a process that dies. A new file of `Gc` is at most as large as
the old one, may have left chunks out or not, and gets the path. Merge, checkout,
reset, amending, other branches and the tags' values are left out.

`told` is what the sessions were told, added up; `flaws` names the hazards a
behaviour has met, so that the properties can say what holds without them:

| Flaw | What the code does |
|---|---|
| `split` | `dolt_tag`, the refresh under `dolt_commit`'s lock and `dolt_add` reload the refs and not the catalog, which the session then writes back over an acknowledged row of another |
| `returned` | `committedCatalogHash` equals the file's, so the catalog is not read although the session has read another one since (A-B-A) |
| `released` | `dolt_tag` and `dolt_gc` in a write transaction give up the transaction's lock |
| `exposed` | `dolt_add` in a write transaction publishes rows that are not committed |
| `refused` | `dolt_add` that gets SQLITE_BUSY leaves its refs in memory, and the next append of the session writes them |
| `collected` | `dolt_gc` with another session open, or while the collector remembers a larger file |

Each was reproduced with the program. Besides, and without a property: the head of a
session is never renewed, so the retry that the conflict message asks for
conflicts again until the connection is opened anew; a rollback that cannot get
the lock leaves `inTrans` at `TRANS_WRITE` (`RollbackIsBusy`).
`src/packages/doltlite/source/test/concurrent_write_test.c:2-14` documents one writer
connection; what is checked here goes beyond it.

### SavepointStack and DoltSavepoints

`DoltSavepoints` is one table of one connection. `tree` is the root of its table
entry, `pending` its map of edits: for each key the row (or `NoRow`) and the
level it was born at, with an undo log for edits that are older than the level they
were changed at, and the `base` that `encodeLevel` adds. `pushed` is
`aSavepointTables`: trees, and the maps that a flush inside the savepoint took away
(`snapshotPendingForFlush`). `open` and `stmt` are SQLite's own counts: a savepoint
is pushed only by the first write after it, which is why `pushed` may be shorter.
`Edit`, `Flush`, `ClearTable`, `DropTable` change the table; `BeginStmt`, `EndStmt`,
`AbortStmt` are the statement savepoint (`vdbeCloseStatement`); `Savepoint`,
`Release`, `RollbackTo`, `RollbackToStart`, `Commit`, `Rollback` what the client
says. A flush may clear the map or free it, depending on cursors: a choice here.

`SavepointStack` copies the table at each savepoint. Its variables `content`,
`saved` and `durable` run along in `DoltSavepoints` as history variables: every
action conjoins the step it is promised to be (`Stack!Put`, `Stack!RollbackTo`,
...), and `AsPromised` says that they are, in every state, what the detailed state
reads as, and what rolling back to each savepoint would bring (`Saved`). That is the
refinement, as an invariant: a refinement mapping says the same, but takes TLC
far longer, because `Saved` would be evaluated in primed states.

The constant `Avoided` names the call sequences the client keeps away from, all
of which the program was seen to answer wrongly (Findings); the run
`savepoints` avoids them, and without any one of them `AsPromised` fails in
three to six steps. Other tables, creating tables, the session state a savepoint
keeps (`captureSavepointSessionState`) and failures of the store are left out.

## Runs

| Run | Question | Bounds | Result |
|---|---|---|---|
| `engine` | are execution, receipts, answers, publication and restart right, and is it a `CommandLog`? | 3 commands (one with two events, one that needs another, two that exclude each other), 4 calls with a retry, 2 storage failures, 1 crash, 1 upgrade, nothing cut off | 10 properties hold, 110 318 states |
| `engine_rebuild` | finding, see below | read limit 2, no failure | violated |
| `thread_history` | do tables and read model fit together around a revert, and can two turns get one checkpoint count? | 2 turns, requested or auxiliary, with 2 plans or diffs, in time or late, 1 revert, 7 events, no interrupts and failures (those are in `thread_rebuild`) | 4 properties hold, 1 360 546 states |
| `thread_rebuild` | are the tables and the summary what the log says after crashes and rebuilds, and does a placeholder end as a capture? | 1 turn with 3 chunks or diffs, in time or late, 1 revert, 1 interrupt, 6 events, 2 crashes, 1 loss of the tables, 1 failure of any dispatch or capture, fair workers | 5 properties hold, 500 034 states |
| `thread_reverted` | finding, see below | 1 turn, 6 events | violated |
| `keyed_worker` | is it a mailbox, and do drains end? | 3 keys, 2 values each, failure at every process | 5 properties hold, 11 016 states |
| `chunk_log` | do commits of several processes survive crashes? | 2 processes, 1 chunk, 3 commits, 2 crashes or losses of power | 4 properties hold, 25 990 states |
| `chunk_log_errors` | do failing writes, syncs and truncations leave anything behind? | 1 process, 2 chunks, 3 commits, 2 failures, 1 crash | 4 properties hold, 509 272 states |
| `chunk_log_torn_tail` | finding, see below | 2 processes, 1 crash | violated |
| `dolt_sessions` | do commits, acknowledged writes and reads stay? | 2 sessions, 1 row, 3 appends, 3 commits, 1 call of `dolt_add`, `dolt_tag` or `dolt_gc` | 5 properties hold, 443 985 states |
| `dolt_gc` | finding, see below | the same, `dolt_gc` only | violated |
| `savepoints` | does the client get what a stack of copies would give? | 1 key, 1 row, 2 savepoints, 2 undo records, 1 release of the base | 3 properties hold, 421 556 states |

The bounds are constants of the modules (`Max...`, `ReadLimit`, `Reports`, `Outcomes`). They
are enough for what can go wrong: two turns are what a checkpoint conflict and a
partial revert need, and seven events hold two turns with their reports, a
revert and a report that comes after it; two failures of the engine are a failed
transaction and a failed reconciliation; one crash falls on every step, and the second one on the recovery from the first;
one failure of a worker falls on every dispatch and capture; three keys are one in
process, one in the fiber's way and one behind it. Three commits are one to lose, one that loses it and one built on either; two sessions
are one that changes something and one that has not heard of it, three appends
the change, its answer and one of a stale session. Two savepoints are a named one
and one inside it or a statement's; a row that is written, deleted and rewritten
at each of them fills an undo log of two records. `chunk_log_errors` has one
process because with two a known flaw takes over (a size remembered from before a
truncation, see Findings). Where a bound could hide something the theorems
below do without it: those of `ThreadHistory` hold for any number of turns, reports,
events, reverts, crashes and failures, those of `ChunkLog` hold for any number of processes, four of them
without failures or for one process, those of
`DoltSessions` for any number of sessions, rows and calls, those of `DoltSavepoints`
for any keys, rows, undo records and depth of savepoints.

`CHECK_DEADLOCK FALSE` is set in every run, because each system comes to rest
when its bounds are used up: all calls answered, the last event stored, no value
left. In `DoltSessions` a session may also wait for a lock that another has until
that one ends its transaction. That nobody waits for ever before that is what `CallsAreAnswered`,
`PlaceholdersAreReplaced` and `DrainsReturn` say.

### Fairness

`engine` assumes that the worker fiber goes on when it can and that a start
proceeds, nothing about callers, failures and crashes. `thread_rebuild`
assumes it of the two worker fibers: `Effect.forever` over a queue, `catchCause`
around every item, and dispatches that are answered (`CallsAreAnswered`). To fail
is to go on, too: the fairness is of `ReactorDispatch \/ ReactorFails` and does not
choose. A placeholder whose capture has failed may therefore stay, as it does in the
code, where only another diff or `turn.completed` would bring the reactor back to it;
that of any other turn may not. The run has one turn; with two turns, one diff, one
revert, one failure and no crash (428 084 states) TLC agrees. `PlaceholdersAreReplaced`
says nothing after a crash, since what a crash takes from the hot stream is lost in the
code, too. `keyed_worker` assumes that the fiber goes on, that
`options.process` ends, and that the transaction of a `drainKey`, which retries
when what it read has changed, finds the key drained if it stays so. `DrainsReturn` depends on the bound on
values: a key that is enqueued without end keeps the only fiber in `processKey`,
and nothing in the code prevents that. The storage modules assume no fairness:
doltlite's calls return, with SQLITE_BUSY at worst, and promise no progress.

## Proofs

All proofs are for every value of the constants. None assumes anything but the
assumptions declared with the constants, except where `RebuildFits` or
`FailuresAlone` is named.

`OrchestrationEngineProofs`. The inductive invariant `RunInv` has a conjunct per
concern. `ExecutionInv` (types, how far the transaction got, what the receipt
is while its command is processed, and `PlaceInv`: the receipt of a command
fixes the place of each of its events) is inductive by itself and gives
`CommandsExecuteOnce` and `ReceiptsAreTrue` without any hypothesis: neither a
crash nor a cut-off rebuild can repeat a command. `PlaceInv` is needed because
`ExecutedOnce` speaks of blocks in the log and says nothing of the next commit;
that the place is a function of the receipt, and the receipt is written in the same
transaction, does. The other conjuncts (`CurrentInv`, `PublishInv`, `AnswerInv`,
`DecisionInv`, `QueueInv`) hold under `[]RebuildFits`: no start finds more than
`ReadLimit` events to replay. The findings show that the hypothesis cannot be
dropped. From them follow `ModelStaysCurrent`, `ProjectionsStayComplete`,
`PublicationIsInOrder`, `PublicationIsComplete`, `AnswersAreTrue`, and
`EngineImplementsPromise`, the refinement of `CommandLog`.

`ThreadHistoryProofs` states every safety property of the passing runs of
`ThreadHistory`. Each rests on what `ThreadProjectionsProofs` says of one event and
any tables, so the theorems cover any stale read of ingestion and of the reactor,
late reports and whatever fails.

- `CheckpointsAreDistinct`: each of the five projectors keeps `Tables` for an
  arbitrary event.
- `SummaryIsFresh` needs `FreshInv`: in a rebuild the summary is stale for a long
  time, because the threads projector runs last; but an event it will refresh
  the summary at is still before it (`ToRefresh`), since its cursor is behind
  all others (`CursorInv`) and only five types of event change what is summarised.
- `TypesAreRight` needs `TypeInv`: what waits in `inbox`, `ingest` and `capture` is typed,
  too, a count is at most the number of events, and the starts in the log are at least
  the requests that wait (`RequestsFit`).
- `RevertsLeaveNothing` is `RevertedIsPruned`: after a revert each of the tables is of the
  kept turns. The messages that kept rows name could be of other turns, for all that
  `retainProjectionMessagesAfterRevert` looks at; they are not, because a row
  names only the assistant message of its own turn (`RowTyped`).
- `TurnsAreLive`, `MessagesHaveTheirTurns` and `RebuildsAreLive` compare the tables with
  `After(log, n)`, the live pipeline's fold over the first n events. `RebuildInv` says,
  projector by projector, how many events its table has seen and that it is
  then what that fold has. Turns, sessions and pending starts read no other
  table and so match whatever came before; plans and messages match as long as the
  log is clean of reverts (`Clean`). After a revert messages are still `Owned` by turns
  that the fold had when the projector was there, which is what
  `MessagesHaveTurns` needs. The library's induction takes an operator; here an induction is
  over the set of the numbers that lack a property (`Descent`, `UpTo`), which works for
  functions but not for operators declared RECURSIVE.
- `PlansAreTheSame` is about a server that has not crashed. A revert prunes the
  tables' plans by the turns' rows and the read model's by its own checkpoints, so both
  must have the same counts (`Alike`). They part in two ways, both of which happen: the
  tables take a count away from a turn when another is given it, the read model does
  not; and the tables take a placeholder that the read model refuses because it has a
  capture of that turn, which a late diff after a revert can bring with another count.
  `Recounted` says of the log that counts have not told turns apart: two turns got the
  same one, or one turn two, and no revert in between dropped the first. The property claims
  nothing then; that the turns after a revert get the counts of those it dropped is
  within it. `PlanInv` keeps `Alike`, until the counts of the log are blurred, together with
  what makes it inductive: that every count in the table was given by an event of the log
  which no later revert has dropped (`Gave`), so that an event which clashes with none of
  those cannot clash in the table. Nothing is needed of what ingestion and the reactor have computed and not
  yet dispatched, so any stale read is covered.

`KeyedCoalescingWorkerProofs`. `Inv` adds to the types that the marks and the
queue agree (`Marks`): what is marked queued is in the queue or in the fiber's
hands, exactly once, and what is marked active is in process. It gives
`TypeCorrect`, `ValuesAreHandedOnce`, `NothingIsStranded`, and `WorkerIsMailbox`,
the refinement of `CoalescingMailbox`: a step maps to one of its steps or to none.

`ChunkLogProofs` has two inductive invariants. `FileInv` holds for any number of
processes, whatever writes, syncs and truncations fail: the types; who holds the lock
and how far its commit is (`CommitInv`); roots are numbered in the order they were
tried (`OrderInv`); the root of the acknowledged commit is in the part of the file
that was synced (`AckedInv`); and a commit starts no earlier than that, so that
neither a loss of power nor `csRollbackFailedAppend` takes an acknowledged root. It gives
`TypeCorrect` and, with `FoundInv` (what is found is no older than what was acknowledged,
unless a record is buried), `LogIsRegister`, the refinement of `DurableRegister`.

`IInv` adds what the processes know: the chunks of every root, of every index and of
what a commit has written are in the file, before what refers to them (`ChunksInv`),
for `chunkStorePut` skips what the index has; what each process has read is a root
of the file (`ReadInv`), without which a commit might be based on one that was taken
back; and the size, refs and index of the holder of the lock are those of the file
before its commit (`BeforeInv`), which is the file it has again after a
truncation. `RootsAreALine` is part of it, since a torn tail may be buried between two
roots and the line has to survive that. `IInv` is inductive, and gives `RootsComplete`,
`RootsInLine`, `UpToDateIsCurrent` and `ReadsStay`, if `FailuresAlone` holds: no write fails,
or there is one process. The condition is needed: a process that reads while another
appends may remember a size from before a truncation (Findings), and with two
processes and one failure TLC refutes each of the four.

`DoltSessionsProofs` assumes nothing further. `IInv` is `TypeOK`, `CallInv` (which
calls can be under way in which transaction), `LockInv` (the lock belongs to a
write transaction, and every write transaction has it until one is given up),
`CommitInv` and `ToldInv`. `CommitsStay` alone says nothing of what a session
will append next; `CommitInv` adds that a session which believes to be as large
as the file knows its head, in both copies of its refs (`HeadsFit`), and that one
which remembers a larger file is alone (`AheadAlone`): `dolt_gc` leaves
`iFileSize` as it was. `ToldInv` says the same of all refs and of the catalogs, as long
as no flaw was met. They give `TypesAreKept`, `WritersAreAlone`,
`CommitsAreKept`, `ToldIsKept` and `ReadsAreStable`.

The theorems about `DoltSavepoints` assume `Hazards \subseteq Avoided`: without that
they are false (Findings). `AsPromised` compares copies of tables with what a rollback
would make of undo logs, so an invariant has to say what a log means before anyone rolls
back. `View(m, i)` is that: the rows map `m` held when level `i` began, by the oldest
undo record at or above the level (`First`) or, without one, by the edit itself.
`Good(m)` is what makes views survive: the log fits (`LogFits`), a later record of a
key is born inside the level of the earlier one, and no edit is above the level of
its map. `DoltEditsProofs` proves for each operation on a map, without any
stack, that it keeps `Good` and the view of every level that stays. In
`DoltSavepointsProofs`, `Behind(p, m, i, x)` says that `x` is the map a rollback to
savepoint `i` would start from, and `Fits` relates tree, map, savepoints, table and
copies by it; one lemma for each operation on the stack (push, edit, flush into a
savepoint or in place, release, roll back) keeps `Fits`, and each action is one to three
of these. `Inv` adds that a statement has pushed everything and that before the first
write nothing is pushed. They give `SavepointTypes`, `LevelsAlwaysFit` and
`SavepointsAsPromised`.

Only model-checked: the liveness properties (`CallsAreAnswered`,
`PlaceholdersAreReplaced`, `DrainsReturn`), which the prover does not handle. Every
invariant and every other action property or refinement of a passing run is stated by
a theorem, as far as the hypotheses named above go; all of `chunk_log` and
`chunk_log_errors` is within them. `RootsAreComplete` is checked for one process that
fails (`chunk_log_errors`); for any number of processes without failures it is proved
(`RootsComplete`). For clients of `savepoints` that do not avoid the flawed sequences
nothing is claimed.

## Findings

- `engine_rebuild`: `bootstrapProjector` reads without a limit argument, whose
  default is 1000 events. A start that has more to replay (an upgrade that
  dropped the tables) runs on incomplete projections, and the first rejected
  command then publishes events of earlier runs as new ones, because the
  reconciliation reads from the stale sequence.
- `thread_reverted`: the live pipeline runs all projectors for one event, the
  bootstrap all events for one projector. The messages projector prunes by the
  turns table at a revert, and in a rebuild that table is still empty: messages
  of turns the revert kept are dropped.
- `chunk_log_torn_tail`: a process dies between two writes of a chunk; the next
  commit is appended after the torn record and acknowledged, and no later replay
  gets to it, because the new bytes are read as the rest of the torn record.
- `dolt_gc`: a session has prepared a `dolt_commit` when another one collects
  garbage into a new file. The first one keeps its answer that the file has not
  moved (`hasMovedChecked`), confirms its head in the old file, and the append, which
  does notice the new file, reloads and so drops the refs it was to write:
  `dolt_commit` returns the hash of a commit that no branch has.

Known, without a run of their own:

- Ingestion looks for a checkpoint of the turn, finds none, and dispatches its
  placeholder; the reactor's capture of the turn, stored in between, is replaced in the
  tables, which the comment at `ProviderRuntimeIngestion.ts:1604-1606` rules out.
  The read model in memory does refuse the placeholder (`projector.ts:544-552`), the
  turns projector does not. The reactor hears of the placeholder and captures the turn
  again, unless that fails (`PlaceholdersAreReplaced`); what it then captures is the
  workspace of that later moment.
- After a failed commit was truncated, a process that had read the longer file in
  the meantime remembers a size the file has not got; when another process has
  filled it up again, the size check calls the first one up to date.
- The flaws of `DoltSessions` in the table above.
- Savepoints. `src/packages/doltlite/source/test/oracle_savepoints_test.sh:8-11`: "Any
  mismatch between snapshot and restore surfaces as a row that shouldn't exist or is
  missing after the rollback." With `create table t(a primary key, b)`:

| Avoided | Statements | Outcome |
|---|---|---|
| `late` | `begin; insert 1; savepoint a; rollback to a` | row 1 is gone: `prollyBtreeSavepoint` takes a savepoint it has not pushed for the start of the transaction. `DELETE` without a condition and `DROP` under such a savepoint cannot be rolled back either |
| `nested` | `begin; savepoint a; savepoint b; insert 1; release a; savepoint c; insert 2; rollback to c` | row 1 is gone: the release of the outermost level moves the base by one, whatever level is inside |
| `cleared` | `begin; insert 1; delete from t` | row 1 is still there: `prollyBtreeClearTable` resets the tree and leaves the map |
| `dropped` | `begin; insert 1; savepoint a; drop table t; rollback to a` | the table is back without row 1 |
| `kept` | `begin; savepoint a; insert 1; commit; begin; insert 2; savepoint b; insert 3; rollback to b` | row 2 is gone: the flush of the commit leaves an empty map at level 1, which the next transaction begins with |

The last one was found by this model, the others while writing it.

Two disagreements are kept out of `PlansAgree` by its condition, since no
document says which side is right: after a restart the read model has no
checkpoints, so that the next revert drops all plans from it; and where counts do not
tell turns apart (`Recounted`: two turns have got the same one, which stays with both in
memory, or a turn has got two, of which the tables and the memory may keep different
ones), a revert may keep a plan in one and drop it in the other. Both come of late reports,
reverts and crossing captures, not of a turn that follows another.

## Not modelled

Provider adapters, git and source control, the Gas City client, text generation,
telemetry, rendering and the desktop shell depend on programs outside the
repository or keep no state worth checking; vendored and generated packages are
left aside. Most C of the repository is SQLite as doltlite vendors it (447 000
lines with its tools and tests): its own B-tree, VDBE, parser and extensions are
upstream code that doltlite replaces below the B-tree interface, so only what
doltlite adds or calls is modelled, a small share of those lines. Doltlite's prolly trees
are a sequential data structure whose shape depends on hashes; the models take
them as sets of rows and chunks. `PROJECT.json` lists every component with its reason.

## Plan

In this order; each with its instance, its mutants and, where marked, theorems.

1. `ShellSubscription`: `subscribeShell` and `subscribeThread` (snapshot, then hot
   stream), the client's sequences and recovery (`orchestrationRecovery.ts`), with
   `CommandLog` as the source of events. Question: is an event missed or applied
   twice? Theorem: what the client has is a prefix of the log.
2. `TerminalManager`: sessions, process events and their drain fibers, kill
   escalation, eviction, close with deletion, history on `CoalescingMailbox` (whose
   refinement is proved here). Questions: output lost or out of order, a deleted
   history that comes back.
3. `ProviderCommandReactor` with `ProviderService`, the session directory and the
   reaper: intents from the hot stream, session start, recovery and stop, crashes
   between binding and dispatch. An abstract `ProviderSession` for ingestion, to
   take the place of the provider's actions in `ThreadHistory`.
4. `CheckpointReactor` with the git refs, baselines and the provider's conversation
   as state: a revert that fails or crashes half-way.
5. `CommandGate` and `DrainableWorker` (theorems: commands run in order; drain is
   exact), `Credentials` (consume once), `VcsStatusBroadcaster` (pollers).
6. Pending approvals and activities as further projectors of `ThreadProjections`,
   attachments as files next to the tables.
7. Doltlite: savepoints of several tables and of the session state; checkout, reset and merge as further actions of `DoltSessions`; three-way merge as
   an operator against a reference; failures in `ChunkLog` with several processes
   once the stale size is told apart from the others.
8. Proofs: the refinements of the modules above.
