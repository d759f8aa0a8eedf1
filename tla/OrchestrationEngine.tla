------------------------- MODULE OrchestrationEngine -------------------------
(***************************************************************************)
(* The command worker of src/apps/server/src/orchestration/Layers/          *)
(* OrchestrationEngine.ts: dispatch puts an envelope on an unbounded queue  *)
(* and one worker takes envelopes one at a time, looks the command up in    *)
(* the receipts, decides it against the in-memory read model, appends and   *)
(* projects its events and writes its receipt in one SQL transaction,       *)
(* publishes what it committed and answers; a failure is reconciled with    *)
(* the event store first.  The process may crash between any two steps and  *)
(* start again from the database, after an upgrade that drops the           *)
(* projection tables or without one.                                        *)
(*                                                                          *)
(* A read model is what its fold has seen: the sequence of the last event   *)
(* and the set of sequences applied.  The projection tables are one such    *)
(* model here; ProjectionPipeline has one per projector.                    *)
(***************************************************************************)
EXTENDS Integers, Sequences

CONSTANTS
  Commands,    \* command identities (CommandId)
  Calls,       \* calls of dispatch; two calls of one command are a retry
  CommandOf,   \* the command a call carries
  EventCount,  \* how many events the decider emits for a command
  Requires,    \* commands the decider wants in the read model (requireThread ...)
  Excludes,    \* commands it wants absent from it (requireThreadAbsent ...)
  ReadLimit,   \* the default limit of readFromSequence (1000 in the code)
  MaxFaults,   \* bound: SQL statements that fail
  MaxCrashes,  \* bound: process crashes
  MaxUpgrades  \* bound: starts whose migrations drop the projection tables

ASSUME EngineAssumption ==
  /\ CommandOf \in [Calls -> Commands]
  /\ EventCount \in [Commands -> Nat \ {0}]
  /\ Requires \in [Commands -> SUBSET Commands]
  /\ Excludes \in [Commands -> SUBSET Commands]
  /\ ReadLimit \in Nat \ {0}
  /\ {MaxFaults, MaxCrashes, MaxUpgrades} \subseteq Nat

VARIABLES
  log,        \* orchestration_events; an event's sequence is its index
  receipts,   \* orchestration_command_receipts
  projection, \* the projection tables and their cursor
  commandQueue,
  pc,         \* where the process is
  current,    \* the call whose envelope is being processed
  commandReadModel,
  dispatchStartSequence,
  tx,         \* the open transaction: events appended, projections, next model
  error,      \* what the envelope failed with
  outbox,     \* committed events still to be published
  published,  \* what eventPubSub delivered since the process started
  hotFrom,    \* the length of the log when it started
  bootUntil,  \* the last sequence this start's bootstrap reads
  reply,      \* the Deferred of each call
  faults, crashes, upgrades

durable  == <<log, receipts, projection>>
worker   == <<current, commandReadModel, dispatchStartSequence, tx, error, outbox, published>>
counters == <<faults, crashes, upgrades>>
vars     == <<durable, commandQueue, pc, worker, hotFrom, bootUntil, reply, counters>>

-------------------------------------------------------------------------------
(* Values                                                                   *)

EmptyModel == [sequence |-> 0, seen |-> {}]
Models     == [sequence : Nat, seen : SUBSET Nat]

\* projectEvent: fold one persisted event into a read model.
ProjectOnto(model, n) == [sequence |-> n, seen |-> model.seen \cup {n}]

\* projectEventsOntoReadModel for the events first..last of the log.
ProjectRange(model, first, last) ==
  IF first > last THEN model
  ELSE [sequence |-> last, seen |-> model.seen \cup first..last]

\* A bug: the last page of readFromSequence misses its last event.
ReadEndOffByOne(n) == IF n + ReadLimit < Len(log) THEN n + ReadLimit ELSE Len(log) - 1

\* What readFromSequence(n) returns: at most ReadLimit events after n.
ReadEnd(n) == IF n + ReadLimit < Len(log) THEN n + ReadLimit ELSE Len(log)

NoReceipt          == [status |-> "none", sequence |-> 0]
AcceptedReceipt(n) == [status |-> "accepted", sequence |-> n]
\* A bug: the sequence before the one the rejection was decided at.
RejectedReceiptOffByOne(n) == [status |-> "rejected", sequence |-> n - 1]
RejectedReceipt(n) == [status |-> "rejected", sequence |-> n]
Receipts           == {NoReceipt} \cup [status : {"accepted", "rejected"}, sequence : Nat]

Answers == {"ok", "sql", "invariant", "previouslyRejected"}
Replies == [kind : {"unsent", "pending", "lost"} \cup Answers, sequence : Nat]
Reply(kind) == [kind |-> kind, sequence |-> 0]
Ok(n)       == [kind |-> "ok", sequence |-> n]

\* What an open transaction holds: nothing of it is visible before COMMIT.
BeginTx(projected, model) ==
  [appended |-> 0, projection |-> projected, model |-> model, receipt |-> NoReceipt]
NoTx == BeginTx(EmptyModel, EmptyModel)
Txs  == [appended : Nat, projection : Models, model : Models, receipt : Receipts]

Events      == [command : Commands, part : Nat]
EventsOf(c) == [i \in 1..EventCount[c] |-> [command |-> c, part |-> i]]

\* decideOrchestrationCommand: does the read model satisfy c's invariants?
Decide(c, model) ==
  LET done == {log[n].command : n \in model.seen}
  IN Requires[c] \subseteq done /\ Excludes[c] \cap done = {}

Running == pc \notin {"down", "booting"}

PCs == {"down", "booting", "idle", "lookup", "decide", "append", "receipt",
        "commit", "publish", "reconcile", "reject", "fail"}

TypeOK ==
  /\ log \in Seq(Events)
  /\ receipts \in [Commands -> Receipts]
  /\ projection \in Models
  /\ commandQueue \in Seq(Calls)
  /\ pc \in PCs
  /\ pc \in PCs \ {"down", "booting", "idle"} => current \in Calls
  /\ commandReadModel \in Models
  /\ dispatchStartSequence \in Nat
  /\ tx \in Txs
  /\ error \in {"none", "sql", "invariant"}
  /\ pc \in {"reconcile", "reject", "fail"} => error # "none"
  /\ outbox \in Seq(Nat)
  /\ published \in Seq(Nat)
  /\ hotFrom \in Nat
  /\ bootUntil \in Nat
  /\ reply \in [Calls -> Replies]
  /\ faults \in Nat /\ crashes \in Nat /\ upgrades \in Nat

-------------------------------------------------------------------------------
(* Callers                                                                  *)

\* dispatch: make a Deferred, offer the envelope, wait.
Dispatch(k) ==
  /\ Running
  /\ reply[k] = Reply("unsent")
  /\ commandQueue' = Append(commandQueue, k)
  /\ reply' = [reply EXCEPT ![k] = Reply("pending")]
  /\ UNCHANGED <<durable, pc, worker, hotFrom, bootUntil, counters>>

-------------------------------------------------------------------------------
(* The worker                                                               *)

command == CommandOf[current]

\* Queue.take, and the first line of processEnvelope.
Take ==
  /\ pc = "idle"
  /\ commandQueue # <<>>
  /\ current' = Head(commandQueue)
  /\ commandQueue' = Tail(commandQueue)
  /\ dispatchStartSequence' = commandReadModel.sequence
  /\ error' = "none"
  /\ pc' = "lookup"
  /\ UNCHANGED <<durable, commandReadModel, tx, outbox, published, hotFrom,
                 bootUntil, reply, counters>>

\* A bug: a path that never completes the Deferred.
ResolveNothing(r) ==
  /\ pc' = "idle"
  /\ UNCHANGED reply

\* Deferred.succeed or Deferred.fail; the worker goes back to the queue.
Resolve(r) ==
  /\ reply' = [reply EXCEPT ![current] = r]
  /\ pc' = "idle"

\* A bug: a retried command is decided again.
ForgottenReceipt == NoReceipt

\* getByCommandId.
ExistingReceipt == receipts[command]

\* A command with a receipt is answered from it and not decided again.
LookupReceipt ==
  /\ pc = "lookup"
  /\ \/ /\ ExistingReceipt.status = "accepted"
        /\ Resolve(Ok(ExistingReceipt.sequence))
     \/ /\ ExistingReceipt.status = "rejected"
        /\ Resolve(Reply("previouslyRejected"))
     \/ /\ ExistingReceipt.status = "none"
        /\ pc' = "decide"
        /\ UNCHANGED reply
  /\ UNCHANGED <<durable, commandQueue, worker, hotFrom, bootUntil, counters>>

\* decideOrchestrationCommand, then sql.withTransaction opens.
DecideCommand ==
  /\ pc = "decide"
  /\ IF Decide(command, commandReadModel)
     THEN /\ tx' = BeginTx(projection, commandReadModel)
          /\ pc' = "append"
          /\ UNCHANGED error
     ELSE /\ error' = "invariant"
          /\ pc' = "reconcile"
          /\ UNCHANGED tx
  /\ UNCHANGED <<durable, commandQueue, current, commandReadModel, dispatchStartSequence,
                 outbox, published, hotFrom, bootUntil, reply, counters>>

\* One turn of the loop over eventBases: eventStore.append, projectEvent,
\* projectionPipeline.projectEvent - none of it visible outside the transaction.
AppendEvent ==
  /\ pc = "append"
  /\ LET n == Len(log) + tx.appended + 1
     IN tx' = [tx EXCEPT !.appended = @ + 1,
                         !.projection = ProjectOnto(@, n),
                         !.model = ProjectOnto(@, n)]
  /\ pc' = IF tx.appended + 1 = EventCount[command] THEN "receipt" ELSE "append"
  /\ UNCHANGED <<durable, commandQueue, current, commandReadModel, dispatchStartSequence,
                 error, outbox, published, hotFrom, bootUntil, reply, counters>>

\* A bug: the sequence of the first event of the command.
FirstSequence == Len(log) + 1

\* lastSavedEvent.sequence.
LastSequence == Len(log) + tx.appended

\* commandReceiptRepository.upsert("accepted"), inside the transaction.
WriteReceipt ==
  /\ pc = "receipt"
  /\ tx' = [tx EXCEPT !.receipt = AcceptedReceipt(LastSequence)]
  /\ pc' = "commit"
  /\ UNCHANGED <<durable, commandQueue, current, commandReadModel, dispatchStartSequence,
                 error, outbox, published, hotFrom, bootUntil, reply, counters>>

\* Bugs: the in-memory model stays behind; only the first event is published.
StaleModel     == commandReadModel
FirstCommitted == <<Len(log) + 1>>

\* committedCommand.nextCommandReadModel and committedCommand.committedEvents.
NextModel       == tx.model
CommittedEvents == [i \in 1..tx.appended |-> Len(log) + i]

\* COMMIT makes events, projections and receipt durable at once; then the
\* in-memory model is replaced and the committed events wait to be published.
Commit ==
  /\ pc = "commit"
  /\ log' = log \o EventsOf(command)
  /\ projection' = tx.projection
  /\ receipts' = [receipts EXCEPT ![command] = tx.receipt]
  /\ commandReadModel' = NextModel
  /\ outbox' = CommittedEvents
  /\ tx' = NoTx
  /\ pc' = "publish"
  /\ UNCHANGED <<commandQueue, current, dispatchStartSequence, error, published,
                 hotFrom, bootUntil, reply, counters>>

\* PubSub.publish, one event at a time, after a commit or a reconciliation.
Publish ==
  /\ pc = "publish"
  /\ outbox # <<>>
  /\ published' = Append(published, Head(outbox))
  /\ outbox' = Tail(outbox)
  /\ UNCHANGED <<durable, commandQueue, pc, current, commandReadModel, dispatchStartSequence,
                 tx, error, hotFrom, bootUntil, reply, counters>>

\* A bug: the caller is answered before the subscribers have the events.
AnswerAtOnce == TRUE
AllPublished == outbox = <<>>

\* A bug: any failure leaves a "rejected" receipt.
AnyErrorLeavesReceipt == error # "none"
LeavesReceipt == error = "invariant"

\* Everything is published: a committed command succeeds, a failed one goes on
\* to its receipt (only invariant errors leave one).
FinishPublishing ==
  /\ pc = "publish"
  /\ AllPublished
  /\ \/ /\ error = "none"
        /\ Resolve(Ok(receipts[command].sequence))
     \/ /\ error # "none"
        /\ pc' = IF LeavesReceipt THEN "reject" ELSE "fail"
        /\ UNCHANGED reply
  /\ UNCHANGED <<durable, commandQueue, worker, hotFrom, bootUntil, counters>>

\* A statement of the lookup or of the transaction fails; withTransaction
\* rolls everything back.
SqlError ==
  /\ pc \in {"lookup", "append", "receipt", "commit"}
  /\ faults < MaxFaults
  /\ faults' = faults + 1
  /\ error' = "sql"
  /\ tx' = NoTx
  /\ pc' = "reconcile"
  /\ UNCHANGED <<durable, commandQueue, current, commandReadModel, dispatchStartSequence,
                 outbox, published, hotFrom, bootUntil, reply, crashes, upgrades>>

\* A bug: the reconciliation reads the log from its beginning.
ReconcileFromStart == 0
ReconcileFrom == dispatchStartSequence

\* reconcileReadModelAfterDispatchFailure: catch up with whatever the store
\* holds after the sequence the envelope started from, and publish it.
Reconcile ==
  /\ pc = "reconcile"
  /\ LET last == ReadEnd(ReconcileFrom)
     IN /\ commandReadModel' = ProjectRange(commandReadModel, ReconcileFrom + 1, last)
        /\ outbox' = [i \in 1..(last - ReconcileFrom) |-> ReconcileFrom + i]
  /\ pc' = "publish"
  /\ UNCHANGED <<durable, commandQueue, current, dispatchStartSequence, tx, error, published,
                 hotFrom, bootUntil, reply, counters>>

\* The read of the reconciliation fails too: logged, and nothing is caught up.
ReconcileFails ==
  /\ pc = "reconcile"
  /\ faults < MaxFaults
  /\ faults' = faults + 1
  /\ pc' = "publish"
  /\ UNCHANGED <<durable, commandQueue, worker, hotFrom, bootUntil, reply, crashes, upgrades>>

\* The receipt of a command that violated an invariant; a failure to write it
\* is swallowed.
RecordRejection ==
  /\ pc = "reject"
  /\ \/ /\ receipts' = [receipts EXCEPT ![command] = RejectedReceipt(commandReadModel.sequence)]
        /\ UNCHANGED faults
     \/ /\ faults < MaxFaults
        /\ faults' = faults + 1
        /\ UNCHANGED receipts
  /\ pc' = "fail"
  /\ UNCHANGED <<log, projection, commandQueue, worker, hotFrom, bootUntil, reply,
                 crashes, upgrades>>

FailCommand ==
  /\ pc = "fail"
  /\ Resolve(Reply(error))
  /\ UNCHANGED <<durable, commandQueue, worker, hotFrom, bootUntil, counters>>

-------------------------------------------------------------------------------
(* The process                                                              *)

\* Everything that is not in the database is lost, an open transaction too.
Crash ==
  /\ pc # "down"
  /\ crashes < MaxCrashes
  /\ crashes' = crashes + 1
  /\ pc' = "down"
  /\ commandQueue' = <<>>
  /\ tx' = NoTx
  /\ outbox' = <<>>
  /\ published' = <<>>
  /\ commandReadModel' = EmptyModel
  /\ reply' = [k \in Calls |-> IF reply[k].kind = "pending" THEN Reply("lost") ELSE reply[k]]
  /\ UNCHANGED <<durable, current, dispatchStartSequence, error, hotFrom, bootUntil,
                 faults, upgrades>>

\* Migration 21 drops the projection tables and their cursors.
DropProjections ==
  /\ pc = "down"
  /\ upgrades < MaxUpgrades
  /\ upgrades' = upgrades + 1
  /\ projection' = EmptyModel
  /\ UNCHANGED <<log, receipts, commandQueue, pc, worker, hotFrom, bootUntil, reply,
                 faults, crashes>>

\* projectionPipeline.bootstrap reads the log from the projection cursor.
StartBootstrap ==
  /\ pc = "down"
  /\ bootUntil' = ReadEnd(projection.sequence)
  /\ pc' = "booting"
  /\ UNCHANGED <<durable, commandQueue, worker, hotFrom, reply, counters>>

\* Each replayed event is projected in a transaction of its own.
BootstrapEvent ==
  /\ pc = "booting"
  /\ projection.sequence < bootUntil
  /\ projection' = ProjectOnto(projection, projection.sequence + 1)
  /\ UNCHANGED <<log, receipts, commandQueue, pc, worker, hotFrom, bootUntil, reply, counters>>

\* getCommandReadModel, and the worker is forked.
StartWorker ==
  /\ pc = "booting"
  /\ projection.sequence >= bootUntil
  /\ commandReadModel' = projection
  /\ hotFrom' = Len(log)
  /\ pc' = "idle"
  /\ UNCHANGED <<durable, commandQueue, current, dispatchStartSequence, tx, error, outbox,
                 published, bootUntil, reply, counters>>

-------------------------------------------------------------------------------

Init ==
  /\ log = <<>>
  /\ receipts = [c \in Commands |-> NoReceipt]
  /\ projection = EmptyModel
  /\ commandQueue = <<>>
  /\ pc = "down"
  /\ current = (CHOOSE k \in Calls : TRUE)
  /\ commandReadModel = EmptyModel
  /\ dispatchStartSequence = 0
  /\ tx = NoTx
  /\ error = "none"
  /\ outbox = <<>>
  /\ published = <<>>
  /\ hotFrom = 0
  /\ bootUntil = 0
  /\ reply = [k \in Calls |-> Reply("unsent")]
  /\ faults = 0 /\ crashes = 0 /\ upgrades = 0

WorkerStep ==
  \/ Take \/ LookupReceipt \/ DecideCommand \/ AppendEvent \/ WriteReceipt \/ Commit
  \/ Publish \/ FinishPublishing \/ Reconcile \/ RecordRejection \/ FailCommand

ProcessStep == StartBootstrap \/ BootstrapEvent \/ StartWorker

Next ==
  \/ \E k \in Calls : Dispatch(k)
  \/ WorkerStep
  \/ SqlError \/ ReconcileFails
  \/ ProcessStep
  \/ Crash \/ DropProjections

Spec == Init /\ [][Next]_vars

\* The worker fiber runs whenever it can, and a process that is down is
\* started again; nothing is assumed about callers, faults or crashes.
FairSpec == Spec /\ WF_vars(WorkerStep) /\ WF_vars(ProcessStep)

-------------------------------------------------------------------------------
(* Properties                                                               *)

\* What a read model looks like when it has seen the whole log.
UpToDate(model) == model = [sequence |-> Len(log), seen |-> 1..Len(log)]

\* A command's events are in the log all together, in order and only once,
\* whatever was retried, rolled back or interrupted by a crash.
ExecutedOnce ==
  \A i \in 1..Len(log) :
    LET c == log[i].command
        first == i - log[i].part
    IN /\ first >= 0
       /\ first + EventCount[c] <= Len(log)
       /\ \A j \in 1..Len(log) :
            log[j].command = c <=> j \in (first + 1)..(first + EventCount[c])

\* The receipt of a command says what the log says of it: accepted at its last
\* event, or rejected and absent from the log.
ReceiptsTellTheLog ==
  /\ \A i \in 1..Len(log) : receipts[log[i].command].status = "accepted"
  /\ \A c \in Commands :
       receipts[c].status = "accepted" =>
         /\ receipts[c].sequence \in 1..Len(log)
         /\ log[receipts[c].sequence] = [command |-> c, part |-> EventCount[c]]

\* The worker never decides against a read model that misses a committed event.
ReadModelIsCurrent == Running => UpToDate(commandReadModel)

\* Once the server runs, its projection tables reflect every event of the log.
ProjectionsAreComplete == Running => UpToDate(projection)

\* Subscribers get the events of this run in order, none twice and none from
\* before it ("a hot runtime stream (new events only)").
PublishedInOrder == Running => published = [i \in 1..Len(published) |-> hotFrom + i]

\* A worker at rest has published everything that was committed in this run,
\* also what a failed command left behind.
NothingUnpublished == pc = "idle" => hotFrom + Len(published) >= Len(log)

\* A caller told "ok" can read its write: the sequence it got is the last event
\* of its command, it is projected, and this run's subscribers were told first.
AnswersHold ==
  \A k \in Calls :
    reply[k].kind = "ok" =>
      /\ receipts[CommandOf[k]] = AcceptedReceipt(reply[k].sequence)
      /\ Running =>
           /\ reply[k].sequence \in projection.seen
           /\ reply[k].sequence > hotFrom =>
                \E i \in 1..Len(published) : published[i] = reply[k].sequence

\* The engine implements its promise: receipts are the decisions, and a call
\* that is lost in a crash is a call that was never answered.
Answered(r) == IF r.kind \in Answers THEN r ELSE [kind |-> "none", sequence |-> 0]

Promise == INSTANCE CommandLog
  WITH decision <- receipts, answer <- [k \in Calls |-> Answered(reply[k])]

ImplementsPromise == Promise!Spec

\* Every dispatched command is answered, or lost with the process.
CallsAreAnswered ==
  \A k \in Calls : reply[k].kind = "pending" ~> reply[k].kind # "pending"

-------------------------------------------------------------------------------
(* Why the properties hold: the inductive invariants of the proofs          *)

\* How far the transaction of the current command has got.
TxInv ==
  /\ pc = "append" => tx.appended < EventCount[command]
  /\ pc \in {"receipt", "commit"} => tx.appended = EventCount[command]
  /\ pc = "commit" => tx.receipt = AcceptedReceipt(LastSequence)

\* What the receipt and the error of the current command are at each step.
ReceiptInv ==
  /\ pc \in {"lookup", "decide", "append", "receipt", "commit"} => error = "none"
  /\ pc \in {"decide", "append", "receipt", "commit"} => receipts[command].status = "none"
  /\ pc = "publish" /\ error = "none" => receipts[command].status = "accepted"
  /\ pc \in {"reconcile", "publish", "reject"} /\ error = "invariant" =>
       receipts[command].status = "none"
  /\ pc = "reject" => error = "invariant"

\* The receipt of a command fixes the place of each of its events in the log.
PlaceInv ==
  /\ \A i \in 1..Len(log) :
       LET c == log[i].command
       IN /\ receipts[c].status = "accepted"
          /\ log[i].part \in 1..EventCount[c]
          /\ i = receipts[c].sequence - EventCount[c] + log[i].part
  /\ \A c \in Commands :
       receipts[c].status = "accepted" =>
         /\ receipts[c].sequence \in EventCount[c]..Len(log)
         /\ \A n \in 1..EventCount[c] :
              log[receipts[c].sequence - EventCount[c] + n] = [command |-> c, part |-> n]

ExecutionInv == TypeOK /\ TxInv /\ ReceiptInv /\ PlaceInv

\* The hypothesis under which a start leaves nothing behind: it finds at most
\* ReadLimit events to replay.
RebuildFits == pc = "down" => Len(log) - projection.sequence <= ReadLimit

FoldOf(n) == [sequence |-> n, seen |-> 1..n]

\* Projections and read model are folds of the log, of all of it at runtime.
CurrentInv ==
  /\ projection.sequence <= Len(log) /\ projection = FoldOf(projection.sequence)
  /\ pc = "booting" => bootUntil = Len(log)
  /\ Running => UpToDate(projection) /\ UpToDate(commandReadModel)
  /\ pc \in {"append", "receipt", "commit"} =>
       /\ tx.projection = FoldOf(LastSequence)
       /\ tx.model = FoldOf(LastSequence)
  /\ pc \in {"lookup", "decide", "append", "receipt", "commit", "reconcile"} =>
       dispatchStartSequence = Len(log)

\* What was published and what waits in the outbox make up the run's events.
PublishInv ==
  /\ Running => hotFrom + Len(published) + Len(outbox) = Len(log)
  /\ Running => \A i \in 1..Len(published) : published[i] = hotFrom + i
  /\ Running => \A i \in 1..Len(outbox) : outbox[i] = hotFrom + Len(published) + i
  /\ pc # "publish" => outbox = <<>>
  /\ ~ Running => published = <<>>

AnswerInv ==
  \A k \in Calls :
    reply[k].kind = "ok" =>
      /\ receipts[CommandOf[k]] = AcceptedReceipt(reply[k].sequence)
      /\ Running => reply[k].sequence <= hotFrom + Len(published)

\* The decision was made on the log as it still is.
DecisionInv ==
  /\ pc \in {"append", "receipt", "commit"} => Decide(command, commandReadModel)
  /\ pc \in {"reconcile", "publish", "reject"} /\ error = "invariant" =>
       ~ Decide(command, commandReadModel)
  /\ pc = "fail" /\ error = "invariant" => receipts[command].status # "accepted"

\* An envelope is in the queue or with the worker, never in both, and its
\* caller is waiting.
Busy == pc \notin {"down", "booting", "idle"}

QueueInv ==
  /\ Busy => reply[current] = Reply("pending")
  /\ \A i \in 1..Len(commandQueue) :
       /\ reply[commandQueue[i]] = Reply("pending")
       /\ Busy => commandQueue[i] # current
       /\ \A j \in 1..Len(commandQueue) : commandQueue[i] = commandQueue[j] => i = j
  /\ ~ Running => commandQueue = <<>>

RunInv == ExecutionInv /\ CurrentInv /\ PublishInv /\ AnswerInv /\ DecisionInv /\ QueueInv

===============================================================================
