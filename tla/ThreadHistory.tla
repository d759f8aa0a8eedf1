----------------------------- MODULE ThreadHistory -----------------------------
(***************************************************************************)
(* The history of one thread and everything derived from it.  A client      *)
(* starts turns, interrupts and reverts; ProviderRuntimeIngestion turns     *)
(* what the provider reports into commands; CheckpointReactor captures and  *)
(* reverts.  Each command is decided, stored and projected in one step (see *)
(* OrchestrationEngine), but a handler reads the projections first and      *)
(* dispatches what it computed later: ingest and capture hold what ingestion*)
(* and the reactor have computed and not dispatched yet, and either may fail *)
(* to.  The provider may report late, about any turn it has begun.  The     *)
(* process may crash, lose its projection tables, and rebuild them projector*)
(* by projector.                                                            *)
(***************************************************************************)
EXTENDS ThreadProjections, FiniteSets

CONSTANTS
  Reports,       \* bound: what the provider reports beside the start and end of a turn
  Outcomes,      \* bound: the checkpoint statuses that come of how a turn ends
  MaxReports,    \* bound: such reports that are stored
  MaxRequests,   \* bound: turns the client requests, with a message each
  MaxTurns,      \* bound: turns the provider runs, requested or not
  MaxEvents,     \* bound: events of the thread
  MaxReverts,    \* bound: reverts
  MaxInterrupts, \* bound: interrupts
  MaxCrashes,    \* bound: process crashes
  MaxFailures,   \* bound: dispatches and captures that fail
  MaxDrops       \* bound: starts that find no projection tables

ASSUME HistoryAssumption ==
  /\ Reports \subseteq {"delta", "plan", "diff"}
  /\ Outcomes \subseteq {"ready", "missing", "error"}
  /\ {MaxReports, MaxRequests, MaxTurns, MaxEvents, MaxReverts, MaxInterrupts, MaxCrashes,
      MaxFailures, MaxDrops} \subseteq Nat

VARIABLES
  log,       \* the events of the thread, in the event store
  db,        \* the projection tables
  cursor,    \* last_applied_sequence of each projector
  thread,    \* the thread in the engine's read model
  mode,      \* "down", "booting" or "running"
  requests,  \* turn starts the provider has not begun yet
  attached,  \* does the provider have a session of this process?
  ran,       \* what each turn of the provider is: running, completed, or over for ingestion, too
  inbox,     \* what the checkpoint reactor has heard of and not handled yet
  ingest,    \* events ingestion is about to have appended
  capture,   \* event the reactor is about to have appended
  crashes, drops,
  failures   \* what has failed: the turns of captures, NoTurn for anything else

stored   == <<log, db, cursor>>
provider == <<requests, attached, ran>>
bounds   == <<crashes, drops, failures>>
vars     == <<stored, thread, mode, provider, inbox, ingest, capture, bounds>>

Turns  == 1..MaxTurns
Names  == DOMAIN cursor
Count(P(_)) == Cardinality({i \in DOMAIN log : P(log[i])})

-------------------------------------------------------------------------------
(* Events                                                                   *)

\* An event stored, and projected by every projector and in memory.
Emit(e) ==
  /\ Len(log) < MaxEvents
  /\ log' = Append(log, e)
  /\ db' = ProjectEvent(db, e)
  /\ cursor' = [p \in Names |-> Len(log) + 1]
  /\ thread' = ProjectThread(thread, e)

\* The two events of a command that has two, in one transaction.
EmitBoth(e, f) ==
  /\ Len(log) + 1 < MaxEvents
  /\ log' = log \o <<e, f>>
  /\ db' = ProjectEvent(ProjectEvent(db, e), f)
  /\ cursor' = [p \in Names |-> Len(log) + 2]
  /\ thread' = ProjectThread(ProjectThread(thread, e), f)

\* Of what is published the checkpoint reactor takes the placeholders.
Heard(e) == IF e.type = "turn-diff-completed" /\ e.status = "missing" THEN <<e>> ELSE <<>>

UserTurns == Count(LAMBDA e : e.type = "turn-start-requested")

Checkpoints == {t \in DOMAIN db.turns : db.turns[t].count # NoCount}
MaxCount    == Max({0} \cup {db.turns[t].count : t \in Checkpoints})

-------------------------------------------------------------------------------
(* The client                                                               *)

\* thread.turn.start: a message and a request; a source plan must be known to
\* the read model.
StartTurn(plan) ==
  /\ mode = "running"
  /\ UserTurns < MaxRequests
  /\ plan = NoTurn \/ \E i \in DOMAIN thread.plans : thread.plans[i].turn = plan
  /\ LET id == Message("user", UserTurns + 1)
     IN EmitBoth(MessageSent(id, NoTurn, 1, FALSE), TurnStartRequested(id, plan))
  /\ requests' = requests + 1
  /\ UNCHANGED <<mode, attached, ran, inbox, ingest, capture, bounds>>

\* thread.turn.interrupt of the turn the session runs.
Interrupt ==
  /\ mode = "running"
  /\ Count(LAMBDA e : e.type = "turn-interrupt-requested") < MaxInterrupts
  /\ db.session.turn # NoTurn
  /\ TurnRow(db.turns, db.session.turn).state # "interrupted"
  /\ Emit(InterruptRequested(db.session.turn))
  /\ UNCHANGED <<mode, provider, inbox, ingest, capture, bounds>>

Requested(n) == [type |-> "checkpoint-revert-requested", count |-> n]

\* thread.checkpoint.revert, whose event changes no table and is left out of
\* the log; the checkpoint reactor hears of it.
RequestRevert(n) ==
  /\ mode = "running"
  /\ Count(LAMBDA e : e.type = "reverted") < MaxReverts
  /\ \A i \in DOMAIN inbox : inbox[i].type # "checkpoint-revert-requested"
  /\ inbox' = Append(inbox, Requested(n))
  /\ UNCHANGED <<stored, thread, mode, provider, ingest, capture, bounds>>

-------------------------------------------------------------------------------
(* The provider, and ingestion of what it reports                           *)

\* The command reactor starts a session when a turn is requested.
BindSession ==
  /\ mode = "running" /\ ~ attached
  /\ requests > 0
  /\ Emit(SessionSet("ready", NoTurn))
  /\ attached' = TRUE
  /\ UNCHANGED <<mode, requests, ran, inbox, ingest, capture, bounds>>

\* The provider completes a turn; ingestion and the checkpoint reactor hear of it
\* each in their time.
Complete(t) ==
  /\ mode = "running" /\ attached
  /\ t \in DOMAIN ran /\ ran[t] = "running"
  /\ ran' = [ran EXCEPT ![t] = "completed"]
  /\ \E status \in Outcomes :
       inbox' = Append(inbox, [type |-> "turn.completed", turn |-> t, status |-> status])
  /\ UNCHANGED <<stored, thread, mode, requests, attached, ingest, capture, bounds>>

\* Ingestion is free to take what the provider reports next.
Listening == mode = "running" /\ attached /\ ingest = <<>>

Ingest(events) ==
  /\ ingest' = events
  /\ UNCHANGED <<stored, thread, mode, attached, inbox, capture, bounds>>

\* A turn the session does not run while it runs another: conflictsWithActiveTurn.
Conflicts(t) == db.session.turn \notin {NoTurn, t}

\* turn.started: mark the source plan as implemented, then run the turn.
TurnStarted ==
  /\ Listening
  /\ requests > 0 /\ Len(ran) < MaxTurns
  /\ ~ Conflicts(Len(ran) + 1)
  /\ requests' = requests - 1
  /\ ran' = Append(ran, "running")
  /\ LET source == [turn |-> db.pending.plan, implemented |-> FALSE]
         run    == SessionSet("running", Len(ran) + 1)
     IN Ingest(IF source \in Range(db.plans) THEN <<PlanUpserted(source.turn, TRUE), run>> ELSE <<run>>)

\* turn.started beside the turn the session runs, whether it was requested or is one
\* of the provider's own: the session does not change, but the turn is begun.
AuxiliaryStarted ==
  /\ Listening
  /\ Len(ran) < MaxTurns
  /\ Conflicts(Len(ran) + 1)
  /\ \E taken \in 0..1 : taken <= requests /\ requests' = requests - taken
  /\ ran' = Append(ran, "running")
  /\ Ingest(<<>>)

\* A report about any turn that has begun is taken: only turn.started and
\* turn.completed are compared with the turn the session runs.
Reporting(kind, t) ==
  /\ kind \in Reports
  /\ Count(LAMBDA e : \/ e.type = "message-sent" /\ e.streaming
                      \/ e.type = "proposed-plan-upserted"
                      \/ e.type = "turn-diff-completed" /\ e.ref = "placeholder") < MaxReports
  /\ Listening
  /\ t \in DOMAIN ran

\* content.delta: one chunk of the assistant's message (in streaming mode).
AssistantDelta(t) ==
  /\ Reporting("delta", t)
  /\ Ingest(<<MessageSent(Message("assistant", t), t, 1, TRUE)>>)
  /\ UNCHANGED <<requests, ran>>

\* turn.proposed.completed: a plan keeps its implementation mark.
PlanCompleted(t) ==
  /\ Reporting("plan", t)
  /\ Ingest(<<PlanUpserted(t, [turn |-> t, implemented |-> TRUE] \in Range(db.plans))>>)
  /\ UNCHANGED <<requests, ran>>

\* turn.diff.updated: a placeholder checkpoint, unless the turn has one.
DiffUpdated(t) ==
  /\ Reporting("diff", t)
  /\ t \notin Checkpoints
  /\ Ingest(<<TurnDiffCompleted(t, MaxCount + 1, "missing", "placeholder", Message("assistant", t))>>)
  /\ UNCHANGED <<requests, ran>>

\* turn.completed: the session is ready, unless it runs another turn, and the turn's
\* message is final.
TurnCompleted(t) ==
  /\ Listening
  /\ t \in DOMAIN ran /\ ran[t] = "completed"
  /\ ran' = [ran EXCEPT ![t] = "over"]
  /\ LET id    == Message("assistant", t)
         ready == IF Conflicts(t) THEN <<>> ELSE <<SessionSet("ready", NoTurn)>>
         final == IF \E m \in Range(db.messages) : m.id = id /\ m.streaming
                  THEN <<MessageSent(id, t, 0, FALSE)>> ELSE <<>>
     IN Ingest(ready \o final)
  /\ UNCHANGED requests

IngestionDispatch ==
  /\ mode = "running"
  /\ ingest # <<>>
  /\ Emit(Head(ingest))
  /\ inbox' = inbox \o Heard(Head(ingest))
  /\ ingest' = Tail(ingest)
  /\ UNCHANGED <<mode, provider, capture, bounds>>

\* A dispatch of ingestion's fails: the rest of the report is dropped, but the turn
\* is run although its source plan could not be marked.
IngestionFails ==
  /\ mode = "running"
  /\ ingest # <<>>
  /\ Len(failures) < MaxFailures
  /\ failures' = Append(failures, NoTurn)
  /\ ingest' = IF Head(ingest).type = "proposed-plan-upserted" THEN Tail(ingest) ELSE <<>>
  /\ UNCHANGED <<stored, thread, mode, provider, inbox, capture, crashes, drops>>

-------------------------------------------------------------------------------
(* The checkpoint reactor: it reads the thread, works on the git refs, and   *)
(* dispatches what came of it.                                               *)

\* A bug: a placeholder counts as a captured checkpoint.
AnyCheckpoint(t) == t \in Checkpoints

Captured(t) == t \in Checkpoints /\ db.turns[t].status # "missing"

\* The count of a new capture: that of the turn's placeholder, or the next one.
CaptureCount(t) == IF t \in Checkpoints THEN db.turns[t].count ELSE MaxCount + 1

\* captureCheckpointFromTurnCompletion.
CaptureCompleted(e) ==
  IF db.session.turn \in {NoTurn, e.turn} /\ ~ Captured(e.turn)
  THEN <<TurnDiffCompleted(e.turn, CaptureCount(e.turn), e.status, "git", Message("assistant", e.turn))>>
  ELSE <<>>

\* captureCheckpointFromPlaceholder.
CapturePlaceholder(e) ==
  IF Captured(e.turn) THEN <<>> ELSE <<[e EXCEPT !.status = "ready", !.ref = "git"]>>

\* handleRevertRequested: to no turn, or to a checkpoint that git has.
HandleRevert(e) ==
  IF /\ attached
     /\ e.count = 0 \/ \E t \in Checkpoints : db.turns[t].count = e.count /\ db.turns[t].ref = "git"
  THEN <<Reverted(e.count)>>
  ELSE <<>>

ReactorTake ==
  /\ mode = "running"
  /\ capture = <<>>
  /\ inbox # <<>>
  /\ LET e == Head(inbox)
     IN capture' = CASE e.type = "turn.completed"              -> CaptureCompleted(e)
                     [] e.type = "turn-diff-completed"         -> CapturePlaceholder(e)
                     [] e.type = "checkpoint-revert-requested" -> HandleRevert(e)
  /\ inbox' = Tail(inbox)
  /\ UNCHANGED <<stored, thread, mode, provider, ingest, bounds>>

ReactorDispatch ==
  /\ mode = "running"
  /\ capture # <<>>
  /\ Emit(Head(capture))
  /\ inbox' = inbox \o Heard(Head(capture))
  /\ capture' = <<>>
  /\ UNCHANGED <<mode, provider, ingest, bounds>>

\* A capture or a revert fails: the workspace is gone or without git, git fails, the
\* provider does not roll back, or the dispatch fails.  All that is left of it is an
\* activity; a placeholder stays one.
ReactorFails ==
  /\ mode = "running"
  /\ capture # <<>>
  /\ Len(failures) < MaxFailures
  /\ LET e == Head(capture)
     IN failures' = Append(failures, IF e.type = "reverted" THEN NoTurn ELSE e.turn)
  /\ capture' = <<>>
  /\ UNCHANGED <<stored, thread, mode, provider, inbox, ingest, crashes, drops>>

-------------------------------------------------------------------------------
(* The process                                                              *)

Crash ==
  /\ mode # "down"
  /\ crashes < MaxCrashes
  /\ crashes' = crashes + 1
  /\ mode' = "down"
  /\ thread' = EmptyThread
  /\ requests' = 0
  /\ attached' = FALSE
  /\ ran' = [t \in DOMAIN ran |-> "over"]
  /\ inbox' = <<>>
  /\ ingest' = <<>>
  /\ capture' = <<>>
  /\ UNCHANGED <<stored, drops, failures>>

\* A bug: the cursors survive the tables.
StaleCursors == cursor

FreshCursors == [p \in Names |-> 0]

\* The projection tables and their cursors are gone: an upgrade drops them, or
\* their file is recreated.
DropTables ==
  /\ mode = "down"
  /\ drops < MaxDrops
  /\ drops' = drops + 1
  /\ db' = EmptyDb
  /\ cursor' = FreshCursors
  /\ UNCHANGED <<log, thread, mode, provider, inbox, ingest, capture, crashes, failures>>

StartBootstrap ==
  /\ mode = "down"
  /\ mode' = "booting"
  /\ UNCHANGED <<stored, thread, provider, inbox, ingest, capture, bounds>>

\* A bug: the event at the cursor is read again.
EventAt(p) == log[IF cursor[p] = 0 THEN 1 ELSE cursor[p]]

\* readFromSequence is exclusive: the first event after the cursor.
EventAfter(p) == log[cursor[p] + 1]

\* bootstrapProjector, one event: applied and counted in one transaction.  A
\* projector starts when the ones before it have finished.
BootstrapEvent(k) ==
  /\ mode = "booting"
  /\ LET p == Projectors[k]
     IN /\ cursor[p] < Len(log)
        /\ \A j \in 1..(k - 1) : cursor[Projectors[j]] = Len(log)
        /\ db' = Apply(p, db, EventAfter(p))
        /\ cursor' = [cursor EXCEPT ![p] = @ + 1]
  /\ UNCHANGED <<log, thread, mode, provider, inbox, ingest, capture, bounds>>

\* getCommandReadModel: plans come from the tables, checkpoints do not.
StartEngine ==
  /\ mode = "booting"
  /\ \A p \in Names : cursor[p] = Len(log)
  /\ thread' = [EmptyThread EXCEPT !.plans = db.plans]
  /\ mode' = "running"
  /\ UNCHANGED <<stored, provider, inbox, ingest, capture, bounds>>

Init ==
  /\ log = <<>>
  /\ db = EmptyDb
  /\ cursor = [p \in Range(Projectors) |-> 0]
  /\ thread = EmptyThread
  /\ mode = "running"
  /\ requests = 0
  /\ attached = TRUE
  /\ ran = <<>>
  /\ inbox = <<>>
  /\ ingest = <<>>
  /\ capture = <<>>
  /\ crashes = 0
  /\ drops = 0
  /\ failures = <<>>

Next ==
  \/ \E p \in Turns \cup {NoTurn} : StartTurn(p)
  \/ Interrupt
  \/ \E n \in 0..MaxTurns : RequestRevert(n)
  \/ BindSession
  \/ TurnStarted \/ AuxiliaryStarted
  \/ \E t \in Turns : \/ Complete(t) \/ AssistantDelta(t) \/ PlanCompleted(t)
                      \/ DiffUpdated(t) \/ TurnCompleted(t)
  \/ IngestionDispatch \/ IngestionFails
  \/ ReactorTake \/ ReactorDispatch \/ ReactorFails
  \/ Crash \/ DropTables \/ StartBootstrap
  \/ \E k \in DOMAIN Projectors : BootstrapEvent(k)
  \/ StartEngine

Spec == Init /\ [][Next]_vars

\* The worker fibers of ingestion and of the checkpoint reactor go on while the
\* server runs, whether they fail or not, and every dispatch is answered
\* (OrchestrationEngine).
FairSpec ==
  /\ Spec
  /\ WF_vars(IngestionDispatch \/ IngestionFails)
  /\ WF_vars(ReactorTake)
  /\ WF_vars(ReactorDispatch \/ ReactorFails)

-------------------------------------------------------------------------------
(* Properties                                                               *)

TypeOK ==
  /\ \A i \in DOMAIN log :
       log[i].type \in {"message-sent", "turn-start-requested", "session-set",
                        "proposed-plan-upserted", "turn-diff-completed",
                        "turn-interrupt-requested", "reverted"}
  /\ \A t \in DOMAIN db.turns :
       /\ t \in Turns
       /\ db.turns[t].state \in {"running", "interrupted", "completed", "error"}
       /\ db.turns[t].count \in 0..MaxEvents
       /\ db.turns[t].status = "none" <=> db.turns[t].count = NoCount
       /\ db.turns[t].ref = "none" <=> db.turns[t].count = NoCount
  /\ \A i, j \in DOMAIN db.messages : db.messages[i].id = db.messages[j].id => i = j
  /\ db.session.turn \in Turns \cup {NoTurn}
  /\ cursor \in [Range(Projectors) -> 0..Len(log)]
  /\ mode \in {"down", "booting", "running"}
  /\ requests \in 0..MaxRequests /\ attached \in BOOLEAN
  /\ ran \in Seq({"running", "completed", "over"}) /\ Len(ran) <= MaxTurns
  /\ failures \in Seq(Turns \cup {NoTurn}) /\ Len(failures) <= MaxFailures
  /\ Len(ingest) <= 2 /\ Len(capture) <= 1

\* Two turns of a thread never have the same checkpoint count, so a revert to n
\* means one checkpoint (clearCheckpointTurnConflict).
CheckpointsDistinct ==
  \A t, u \in Checkpoints : t # u => db.turns[t].count # db.turns[u].count

\* The summary in the thread list is that of the tables it summarises, whatever
\* event came last: every handler that changes them refreshes it.
ShellIsFresh == mode = "running" => RefreshShell(db, db.shell.latestTurn) = db

\* A message of a turn has its turn's row, also after reverts and rebuilds.
MessagesHaveTurns ==
  mode = "running" =>
    \A i \in DOMAIN db.messages : db.messages[i].turn \in DOMAIN db.turns \cup {NoTurn}

\* The tables as the live pipeline would have them, event by event.
LiveDb ==
  LET fold[n \in 0..Len(log)] ==
        IF n = 0 THEN EmptyDb ELSE ProjectEvent(fold[n - 1], log[n])
  IN fold[Len(log)]

\* The tables of a running server are what the log says, however often the
\* projectors were interrupted or rebuilt.
RebuildMatchesLive == mode = "running" => db = LiveDb

\* The tables of turns and sessions are, always.
TurnsMatchLive ==
  mode = "running" => db.turns = LiveDb.turns /\ db.session = LiveDb.session /\ db.pending = LiveDb.pending

\* And all of them are, as long as nothing was reverted.
RebuildWithoutRevert ==
  Count(LAMBDA e : e.type = "reverted") = 0 => RebuildMatchesLive

\* A revert leaves nothing of the turns it drops, in any of the tables modelled.
RevertLeavesNothing ==
  [][LET turns == DOMAIN db'.turns \cup {NoTurn}
     IN log' # log /\ Last(log').type = "reverted" =>
          /\ \A i \in DOMAIN db'.messages : db'.messages[i].turn \in turns
          /\ \A i \in DOMAIN db'.plans : db'.plans[i].turn \in turns
          /\ db'.shell.latestTurn \in turns]_vars

\* Counts that do not tell the turns apart: a turn gets the count of another one, or
\* one turn a second count, and no revert has dropped the first one in between.
Recounted ==
  \E j \in DOMAIN log : \E i \in 1..(j - 1) :
    /\ log[i].type = "turn-diff-completed" /\ log[j].type = "turn-diff-completed"
    /\ (log[i].count = log[j].count) # (log[i].turn = log[j].turn)
    /\ \A k \in i..j : log[k].type = "reverted" => log[i].count <= log[k].count

\* A placeholder is replaced by a capture, or its turn is gone: also when it is
\* ingestion's placeholder that came last, after the capture (until the bound on
\* events).  It stays only if a capture of its turn has failed, or if a crash lost
\* what the reactor had heard of.
Placeholder(t) == t \in Checkpoints /\ db.turns[t].status = "missing"
PlaceholdersAreReplaced ==
  \A t \in Turns :
    Placeholder(t) ~> (~ Placeholder(t) \/ t \in Range(failures) \/ Len(log) = MaxEvents \/ crashes > 0)

\* A plan the client sees is one the read model accepts as a source of a turn,
\* also after a revert and after reports that came late: until a restart, and while
\* counts tell the turns apart, projector.ts and ProjectionPipeline.ts keep the same.
PlanTurns(plans) == {plans[i].turn : i \in DOMAIN plans}
PlansAgree == PlanTurns(db.plans) = PlanTurns(thread.plans) \/ crashes > 0 \/ Recounted

===============================================================================
