----------------------- MODULE OrchestrationEngineProofs -----------------------
(***************************************************************************)
(* Theorems about OrchestrationEngine for every value of its constants.     *)
(***************************************************************************)
EXTENDS OrchestrationEngine, SequenceTheorems, TLAPS

-------------------------------------------------------------------------------
(* The operators of the model                                               *)

\* The numbers up to n, as a sequence.
LEMMA NumberedSeq ==
  ASSUME NEW a \in Nat, NEW n \in Nat
  PROVE  /\ [i \in 1..n |-> a + i] \in Seq(Nat)
         /\ Len([i \in 1..n |-> a + i]) = n
<1>1. [i \in 1..n |-> a + i] \in [1..n -> Nat]
  OBVIOUS
<1>2. [i \in 1..n |-> a + i] \in Seq(Nat)
  BY <1>1, SeqDef
<1> QED
  BY <1>2, LenProperties

\* A command's events are a sequence of events.
LEMMA EventsOfType ==
  ASSUME NEW c \in Commands
  PROVE  /\ EventsOf(c) \in Seq(Events)
         /\ Len(EventsOf(c)) = EventCount[c]
         /\ \A i \in 1..EventCount[c] : EventsOf(c)[i] = [command |-> c, part |-> i]
<1>1. EventCount[c] \in Nat
  BY EngineAssumption
<1>2. EventsOf(c) \in [1..EventCount[c] -> Events]
  BY <1>1 DEF EventsOf, Events
<1>3. EventsOf(c) \in Seq(Events)
  BY <1>1, <1>2, SeqDef
<1> QED
  BY <1>1, <1>3, LenProperties DEF EventsOf

\* An event of the log names its command and its number.
LEMMA EventFields ==
  ASSUME NEW l \in Seq(Events), NEW i \in 1..Len(l)
  PROVE  l[i].command \in Commands /\ l[i].part \in Nat
<1>1. l[i] \in Events
  BY ElementOfSeq
<1> QED
  BY <1>1 DEF Events

\* The empty read model is a model.
LEMMA EmptyModelType == EmptyModel \in Models
BY DEF EmptyModel, Models

\* Projecting an event gives a model.
LEMMA ProjectOntoType ==
  ASSUME NEW m \in Models, NEW n \in Nat
  PROVE  ProjectOnto(m, n) \in Models
BY DEF ProjectOnto, Models

\* Projecting a range of events gives a model.
LEMMA ProjectRangeType ==
  ASSUME NEW m \in Models, NEW a \in Nat, NEW b \in Nat
  PROVE  ProjectRange(m, a, b) \in Models
BY DEF ProjectRange, Models

\* The replies are replies.
LEMMA ReplyTypes ==
  /\ \A n \in Nat : Ok(n) \in Replies
  /\ \A a \in {"unsent", "pending", "lost"} \cup Answers : Reply(a) \in Replies
BY DEF Ok, Reply, Replies, Answers

\* A read ends within the log.
LEMMA ReadEndBounds ==
  ASSUME log \in Seq(Events), NEW n \in Nat
  PROVE  ReadEnd(n) \in Nat /\ ReadEnd(n) <= Len(log)
BY EngineAssumption, LenProperties DEF ReadEnd

\* A transaction, begun or not, has its type.
LEMMA TxTypes == NoTx \in Txs /\ \A p, m \in Models : BeginTx(p, m) \in Txs
BY EmptyModelType DEF NoTx, BeginTx, Txs, Receipts, NoReceipt

-------------------------------------------------------------------------------
(* Type correctness                                                         *)

\* The initial state is typed.
LEMMA TypeOKInit == Init => TypeOK
BY EmptyModelType, TxTypes
   DEF Init, TypeOK, PCs, Receipts, NoReceipt, Reply, Replies

\* Every action keeps the types.
LEMMA TypeOKNext == TypeOK /\ [Next]_vars => TypeOK'
<1> SUFFICES ASSUME TypeOK, [Next]_vars PROVE TypeOK'
  OBVIOUS
<1> USE DEF PCs
<1>1. ASSUME NEW k \in Calls, Dispatch(k) PROVE TypeOK'
  BY <1>1 DEF TypeOK, Dispatch, Running, durable, worker, counters, Reply, Replies
<1>2. CASE Take
  <2>1. current' \in Calls /\ commandQueue' \in Seq(Calls)
    BY <1>2, HeadTailProperties DEF Take, TypeOK
  <2>2. dispatchStartSequence' \in Nat
    BY <1>2 DEF Take, TypeOK, Models
  <2> QED
    BY <1>2, <2>1, <2>2 DEF Take, TypeOK, durable, counters
<1>3. CASE LookupReceipt
  <2>1. current \in Calls /\ command \in Commands
    BY <1>3, EngineAssumption DEF LookupReceipt, TypeOK, command
  <2>2. receipts[command] \in Receipts
    BY <2>1 DEF TypeOK
  <2>3. reply' \in [Calls -> Replies]
    <3>1. /\ Ok(ExistingReceipt.sequence) \in Replies
          /\ Reply("previouslyRejected") \in Replies
      BY <2>2, ReplyTypes DEF ExistingReceipt, Receipts, NoReceipt, Answers
    <3>2. \/ reply' = reply
          \/ \E r \in Replies : reply' = [reply EXCEPT ![current] = r]
      BY <1>3, <3>1 DEF LookupReceipt, Resolve
    <3> QED
      BY <2>1, <3>2 DEF TypeOK
  <2> QED
    BY <1>3, <2>1, <2>3
       DEF LookupReceipt, TypeOK, Resolve, durable, worker, counters
<1>4. CASE DecideCommand
  <2>1. tx' \in Txs
    BY <1>4, TxTypes DEF DecideCommand, TypeOK
  <2> QED
    BY <1>4, <2>1 DEF DecideCommand, TypeOK, durable, counters
<1>5. CASE AppendEvent
  <2>1. Len(log) + tx.appended + 1 \in Nat
    BY LenProperties DEF TypeOK, Txs
  <2> DEFINE n == Len(log) + tx.appended + 1
  <2>2. /\ ProjectOnto(tx.projection, n) \in Models
        /\ ProjectOnto(tx.model, n) \in Models
    BY <2>1, ProjectOntoType DEF TypeOK, Txs
  <2>3. tx' = [tx EXCEPT !.appended = tx.appended + 1,
                         !.projection = ProjectOnto(tx.projection, n),
                         !.model = ProjectOnto(tx.model, n)]
    BY <1>5 DEF AppendEvent
  <2>4. tx' \in Txs
    <3>1. tx' = [appended |-> tx.appended + 1, projection |-> ProjectOnto(tx.projection, n),
                 model |-> ProjectOnto(tx.model, n), receipt |-> tx.receipt]
      BY <2>3 DEF TypeOK, Txs
    <3>2. tx.appended + 1 \in Nat /\ tx.receipt \in Receipts
      BY DEF TypeOK, Txs
    <3> QED
      BY <2>2, <3>1, <3>2 DEF Txs
  <2> QED
    BY <1>5, <2>4 DEF AppendEvent, TypeOK, durable, counters
<1>6. CASE WriteReceipt
  <2>1. LastSequence \in Nat
    BY LenProperties DEF TypeOK, Txs, LastSequence
  <2>2. tx' \in Txs
    BY <1>6, <2>1 DEF WriteReceipt, TypeOK, Txs, AcceptedReceipt, Receipts
  <2> QED
    BY <1>6, <2>2 DEF WriteReceipt, TypeOK, durable, counters
<1>7. CASE Commit
  <2>1. current \in Calls /\ command \in Commands
    BY <1>7, EngineAssumption DEF Commit, TypeOK, command
  <2>2. log' \in Seq(Events)
    BY <1>7, <2>1, EventsOfType, ConcatProperties DEF Commit, TypeOK
  <2>3. outbox' \in Seq(Nat)
    BY <1>7, NumberedSeq, LenProperties DEF Commit, CommittedEvents, TypeOK, Txs
  <2>4. projection' \in Models /\ commandReadModel' \in Models
    BY <1>7 DEF Commit, NextModel, TypeOK, Txs
  <2>5. receipts' \in [Commands -> Receipts]
    BY <1>7, <2>1 DEF Commit, TypeOK, Txs
  <2> QED
    BY <1>7, <2>1, <2>2, <2>3, <2>4, <2>5, TxTypes DEF Commit, TypeOK, counters
<1>8. CASE Publish
  <2>1. outbox' \in Seq(Nat) /\ published' \in Seq(Nat)
    BY <1>8, HeadTailProperties DEF Publish, TypeOK
  <2> QED
    BY <1>8, <2>1 DEF Publish, TypeOK, durable, counters
<1>9. CASE FinishPublishing
  <2>1. current \in Calls /\ command \in Commands
    BY <1>9, EngineAssumption DEF FinishPublishing, TypeOK, command
  <2>2. receipts[command] \in Receipts
    BY <2>1 DEF TypeOK
  <2>3. reply' \in [Calls -> Replies]
    <3>1. Ok(receipts[command].sequence) \in Replies
      BY <2>2, ReplyTypes DEF Receipts, NoReceipt
    <3>2. \/ reply' = reply
          \/ \E r \in Replies : reply' = [reply EXCEPT ![current] = r]
      BY <1>9, <3>1 DEF FinishPublishing, Resolve
    <3> QED
      BY <2>1, <3>2 DEF TypeOK
  <2> QED
    BY <1>9, <2>1, <2>3 DEF FinishPublishing, TypeOK, Resolve, durable, worker, counters
<1>10. CASE SqlError
  BY <1>10, TxTypes DEF SqlError, TypeOK, durable
<1>11. CASE Reconcile
  <2> DEFINE last == ReadEnd(ReconcileFrom)
  <2>1. ReconcileFrom \in Nat /\ last \in Nat
    BY ReadEndBounds DEF ReconcileFrom, TypeOK
  <2>2. commandReadModel' \in Models
    <3>1. ReconcileFrom + 1 \in Nat
      BY <2>1
    <3> QED
      BY <1>11, <2>1, <3>1, ProjectRangeType DEF Reconcile, TypeOK
  <2>3. outbox' \in Seq(Nat)
    <3>1. CASE last < ReconcileFrom
      <4>1. 1..(last - ReconcileFrom) = {}
        BY <2>1, <3>1
      <4>2. outbox' = <<>>
        BY <1>11, <4>1 DEF Reconcile
      <4> QED
        BY <4>2
    <3>2. CASE last >= ReconcileFrom
      <4>1. last - ReconcileFrom \in Nat
        BY <2>1, <3>2
      <4> QED
        BY <1>11, <2>1, <4>1, NumberedSeq DEF Reconcile
    <3> QED
      BY <2>1, <3>1, <3>2
  <2> QED
    BY <1>11, <2>2, <2>3 DEF Reconcile, TypeOK, durable, counters
<1>12. CASE ReconcileFails
  BY <1>12 DEF ReconcileFails, TypeOK, durable, worker
<1>13. CASE RecordRejection
  <2>1. current \in Calls /\ command \in Commands
    BY <1>13, EngineAssumption DEF RecordRejection, TypeOK, command
  <2>2. RejectedReceipt(commandReadModel.sequence) \in Receipts
    BY DEF TypeOK, Models, RejectedReceipt, Receipts
  <2>3. receipts' \in [Commands -> Receipts]
    BY <1>13, <2>1, <2>2 DEF RecordRejection, TypeOK
  <2> QED
    BY <1>13, <2>1, <2>3 DEF RecordRejection, TypeOK, worker
<1>14. CASE FailCommand
  <2>1. current \in Calls
    BY <1>14 DEF FailCommand, TypeOK
  <2>2. pc' = "idle" /\ reply' = [reply EXCEPT ![current] = Reply(error)]
    BY <1>14 DEF FailCommand, Resolve
  <2>3. Reply(error) \in Replies
    BY <1>14, ReplyTypes DEF FailCommand, TypeOK, Answers
  <2> QED
    BY <1>14, <2>1, <2>2, <2>3 DEF FailCommand, TypeOK, durable, worker, counters
<1>15. CASE Crash
  <2>1. reply' \in [Calls -> Replies]
    BY <1>15, ReplyTypes DEF Crash, TypeOK
  <2>2. /\ commandQueue' \in Seq(Calls) /\ outbox' \in Seq(Nat) /\ published' \in Seq(Nat)
    BY <1>15, EmptySeq DEF Crash
  <2>3. tx' \in Txs /\ commandReadModel' \in Models
    BY <1>15, EmptyModelType, TxTypes DEF Crash
  <2>4. pc' = "down" /\ crashes' \in Nat
    BY <1>15 DEF Crash, TypeOK
  <2>5. UNCHANGED <<log, receipts, projection, current, dispatchStartSequence, error,
                    hotFrom, bootUntil, faults, upgrades>>
    BY <1>15 DEF Crash, durable
  <2> QED
    BY <2>1, <2>2, <2>3, <2>4, <2>5 DEF TypeOK
<1>16. CASE DropProjections
  <2>1. projection' \in Models
    BY <1>16, EmptyModelType DEF DropProjections
  <2> QED
    BY <1>16, <2>1 DEF DropProjections, TypeOK, worker
<1>17. CASE StartBootstrap
  <2>1. bootUntil' \in Nat
    BY <1>17, ReadEndBounds DEF StartBootstrap, TypeOK, Models
  <2> QED
    BY <1>17, <2>1 DEF StartBootstrap, TypeOK, durable, worker, counters
<1>18. CASE BootstrapEvent
  <2>1. projection' \in Models
    <3>1. projection.sequence + 1 \in Nat
      BY DEF TypeOK, Models
    <3> QED
      BY <1>18, <3>1, ProjectOntoType DEF BootstrapEvent, TypeOK
  <2> QED
    BY <1>18, <2>1 DEF BootstrapEvent, TypeOK, worker, counters
<1>19. CASE StartWorker
  <2>1. hotFrom' \in Nat
    BY <1>19, LenProperties DEF StartWorker, TypeOK
  <2> QED
    BY <1>19, <2>1 DEF StartWorker, TypeOK, durable, counters
<1>20. CASE UNCHANGED vars
  BY <1>20 DEF vars, TypeOK, durable, worker, counters
<1> QED
  BY <1>1, <1>2, <1>3, <1>4, <1>5, <1>6, <1>7, <1>8, <1>9, <1>10, <1>11, <1>12, <1>13,
     <1>14, <1>15, <1>16, <1>17, <1>18, <1>19, <1>20
     DEF Next, WorkerStep, ProcessStep

\* Every variable keeps its type in every behaviour of the engine, crashes,
\* storage failures and rebuilds included.
THEOREM TypeCorrect == Spec => []TypeOK
BY TypeOKInit, TypeOKNext, PTL DEF Spec

-------------------------------------------------------------------------------
(* Execution happens once, and the receipts know where                      *)

\* Nothing is executed at first.
LEMMA ExecutionInvInit == Init => ExecutionInv
<1> SUFFICES ASSUME Init PROVE ExecutionInv
  OBVIOUS
<1>1. TypeOK
  BY TypeOKInit
<1>2. TxInv /\ ReceiptInv
  BY DEF Init, TxInv, ReceiptInv
<1>3. PlaceInv
  BY DEF Init, PlaceInv, NoReceipt
<1> QED
  BY <1>1, <1>2, <1>3 DEF ExecutionInv

\* Only Commit touches the log, and only Commit and RecordRejection a receipt.
LEMMA PlaceInvStutter ==
  ASSUME PlaceInv, UNCHANGED <<log, receipts>>
  PROVE  PlaceInv'
BY DEF PlaceInv

\* A commit appends the block its receipt points to.
LEMMA PlaceInvCommit ==
  ASSUME ExecutionInv, Commit
  PROVE  PlaceInv'
<1> DEFINE c == command
           L == Len(log)
           n == EventCount[c]
<1>1. /\ c \in Commands /\ n \in Nat \ {0} /\ L \in Nat
      /\ log \in Seq(Events)
      /\ receipts \in [Commands -> Receipts]
  BY EngineAssumption, LenProperties DEF Commit, ExecutionInv, TypeOK, command
<1>2. /\ receipts' = [receipts EXCEPT ![c] = AcceptedReceipt(L + n)]
      /\ receipts[c].status = "none"
      /\ log' = log \o EventsOf(c)
  BY DEF Commit, ExecutionInv, TxInv, ReceiptInv, LastSequence
<1>3. /\ log' \in Seq(Events)
      /\ Len(log') = L + n
      /\ \A i \in 1..L : log'[i] = log[i]
      /\ \A i \in 1..n : log'[L + i] = [command |-> c, part |-> i]
  <2>1. /\ EventsOf(c) \in Seq(Events)
        /\ Len(EventsOf(c)) = n
        /\ \A i \in 1..n : EventsOf(c)[i] = [command |-> c, part |-> i]
    BY <1>1, EventsOfType
  <2>2. /\ log' \in Seq(Events)
        /\ Len(log') = L + n
        /\ \A i \in 1..(L + n) : log'[i] = IF i <= L THEN log[i] ELSE EventsOf(c)[i - L]
    BY <1>1, <1>2, <2>1, ConcatProperties
  <2>3. \A i \in 1..L : i \in 1..(L + n) /\ i <= L
    BY <1>1
  <2>4. \A i \in 1..n : L + i \in 1..(L + n) /\ ~ (L + i <= L) /\ (L + i) - L = i
    BY <1>1
  <2>5. \A i \in 1..n : log'[L + i] = EventsOf(c)[(L + i) - L]
    BY <2>2, <2>4
  <2> QED
    BY <2>1, <2>2, <2>3, <2>4, <2>5
<1>4. \A d \in Commands \ {c} : receipts'[d] = receipts[d]
  BY <1>1, <1>2
<1>5. receipts'[c] = [status |-> "accepted", sequence |-> L + n]
  BY <1>1, <1>2 DEF AcceptedReceipt
<1>6. ASSUME NEW i \in 1..Len(log')
      PROVE  LET d == log'[i].command
             IN /\ receipts'[d].status = "accepted"
                /\ log'[i].part \in 1..EventCount[d]
                /\ i = receipts'[d].sequence - EventCount[d] + log'[i].part
  <2>1. CASE i \in 1..L
    <3>1. log'[i] = log[i] /\ log[i].command \in Commands
      BY <1>1, <1>3, <2>1, EventFields
    <3>2. /\ receipts[log[i].command].status = "accepted"
          /\ log[i].part \in 1..EventCount[log[i].command]
          /\ i = receipts[log[i].command].sequence - EventCount[log[i].command] + log[i].part
      BY <2>1 DEF ExecutionInv, PlaceInv
    <3>3. log[i].command # c
      BY <1>2, <3>2
    <3> QED
      BY <1>4, <3>1, <3>2, <3>3
  <2>2. CASE i \in (L + 1)..(L + n)
    <3>1. i - L \in 1..n /\ i = L + (i - L)
      BY <1>1, <2>2
    <3>2. log'[i] = [command |-> c, part |-> i - L]
      BY <1>3, <3>1
    <3> QED
      BY <1>1, <1>5, <3>1, <3>2
  <2> QED
    BY <1>1, <1>3, <2>1, <2>2
<1>7. ASSUME NEW d \in Commands, receipts'[d].status = "accepted"
      PROVE  /\ receipts'[d].sequence \in EventCount[d]..Len(log')
             /\ \A m \in 1..EventCount[d] :
                  log'[receipts'[d].sequence - EventCount[d] + m] = [command |-> d, part |-> m]
  <2>1. CASE d = c
    BY <1>1, <1>3, <1>5, <2>1
  <2>2. CASE d # c
    <3>1. /\ receipts[d].sequence \in EventCount[d]..L
          /\ \A m \in 1..EventCount[d] :
               log[receipts[d].sequence - EventCount[d] + m] = [command |-> d, part |-> m]
      BY <1>4, <1>7, <2>2 DEF ExecutionInv, PlaceInv
    <3>2. EventCount[d] \in Nat
      BY EngineAssumption
    <3>3. ASSUME NEW m \in 1..EventCount[d]
          PROVE  receipts[d].sequence - EventCount[d] + m \in 1..L
      BY <1>1, <3>1, <3>2
    <3>4. \A m \in 1..EventCount[d] :
            log'[receipts[d].sequence - EventCount[d] + m] = [command |-> d, part |-> m]
      BY <1>3, <3>1, <3>3
    <3>5. receipts[d].sequence \in EventCount[d]..(L + n)
      BY <1>1, <3>1, <3>2
    <3>6. receipts'[d] = receipts[d]
      BY <1>4, <2>2
    <3> QED
      BY <1>3, <3>4, <3>5, <3>6
  <2> QED
    BY <2>1, <2>2
<1> QED
  BY <1>6, <1>7 DEF PlaceInv

\* A rejection leaves a receipt and no event.
LEMMA PlaceInvRejection ==
  ASSUME ExecutionInv, RecordRejection
  PROVE  PlaceInv'
<1>1. CASE UNCHANGED receipts
  BY <1>1, PlaceInvStutter DEF ExecutionInv, RecordRejection
<1>2. CASE receipts' = [receipts EXCEPT ![command] =
                          RejectedReceipt(commandReadModel.sequence)]
  <2>1. receipts[command].status = "none"
    BY DEF ExecutionInv, ReceiptInv, RecordRejection
  <2>2. command \in Commands /\ receipts \in [Commands -> Receipts]
    BY EngineAssumption DEF ExecutionInv, TypeOK, RecordRejection, command
  <2>3. receipts'[command].status = "rejected"
    BY <1>2, <2>2 DEF RejectedReceipt
  <2>4. \A c \in Commands \ {command} : receipts'[c] = receipts[c]
    BY <1>2, <2>2
  <2>5. log' = log
    BY DEF RecordRejection
  <2>6. \A i \in 1..Len(log) : log[i].command \in Commands \ {command}
    <3> TAKE i \in 1..Len(log)
    <3>1. log[i].command \in Commands
      BY EventFields DEF ExecutionInv, TypeOK
    <3>2. receipts[log[i].command].status = "accepted"
      BY DEF ExecutionInv, PlaceInv
    <3> QED
      BY <2>1, <3>1, <3>2
  <2> QED
    BY <2>3, <2>4, <2>5, <2>6 DEF ExecutionInv, PlaceInv
<1> QED
  BY <1>1, <1>2 DEF RecordRejection

\* Every event keeps its place in the block of its command.
LEMMA PlaceInvNext == ExecutionInv /\ [Next]_vars => PlaceInv'
<1> SUFFICES ASSUME ExecutionInv, [Next]_vars PROVE PlaceInv'
  OBVIOUS
<1>1. CASE Commit
  BY <1>1, PlaceInvCommit
<1>2. CASE RecordRejection
  BY <1>2, PlaceInvRejection
<1>3. CASE UNCHANGED <<log, receipts>>
  BY <1>3, PlaceInvStutter DEF ExecutionInv
<1>4. Commit \/ RecordRejection \/ UNCHANGED <<log, receipts>>
  BY DEF Next, WorkerStep, ProcessStep, vars, durable, Dispatch, Take, LookupReceipt,
         DecideCommand, AppendEvent, WriteReceipt, Publish, FinishPublishing, SqlError,
         Reconcile, ReconcileFails, FailCommand, Crash, DropProjections, StartBootstrap,
         BootstrapEvent, StartWorker
<1> QED
  BY <1>1, <1>2, <1>3, <1>4

\* A transaction has appended what its counter says.
LEMMA TxInvNext == ExecutionInv /\ [Next]_vars => TxInv'
<1> SUFFICES ASSUME ExecutionInv, [Next]_vars PROVE TxInv'
  OBVIOUS
<1> USE DEF ExecutionInv, TxInv
<1>1. CASE DecideCommand
  <2>1. command \in Commands /\ command' = command
    BY <1>1, EngineAssumption DEF DecideCommand, TypeOK, PCs, command
  <2>2. EventCount[command] \in Nat \ {0}
    BY <2>1, EngineAssumption
  <2> QED
    BY <1>1, <2>1, <2>2 DEF DecideCommand, BeginTx
<1>2. CASE AppendEvent
  <2>1. command \in Commands /\ command' = command
    BY <1>2, EngineAssumption DEF AppendEvent, TypeOK, PCs, command
  <2>2. EventCount[command] \in Nat /\ tx.appended \in Nat
    BY <2>1, EngineAssumption DEF TypeOK, Txs
  <2>3. tx'.appended = tx.appended + 1
    BY <1>2 DEF AppendEvent, TypeOK, Txs
  <2>4. pc' = IF tx.appended + 1 = EventCount[command] THEN "receipt" ELSE "append"
    BY <1>2 DEF AppendEvent
  <2>5. tx.appended < EventCount[command]
    BY <1>2 DEF AppendEvent
  <2> QED
    BY <2>1, <2>2, <2>3, <2>4, <2>5
<1>3. CASE WriteReceipt
  <2>1. tx'.appended = tx.appended /\ tx'.receipt = AcceptedReceipt(LastSequence)
    BY <1>3 DEF WriteReceipt, TypeOK, Txs
  <2>2. command' = command /\ LastSequence' = LastSequence
    BY <1>3, <2>1 DEF WriteReceipt, command, LastSequence, durable
  <2> QED
    BY <1>3, <2>1, <2>2 DEF WriteReceipt
<1>4. CASE UNCHANGED vars
  <2>1. command' = command /\ LastSequence' = LastSequence
    BY <1>4 DEF vars, durable, worker, command, LastSequence
  <2> QED
    BY <1>4, <2>1 DEF vars, worker
<1>5. CASE \E k \in Calls : Dispatch(k)
  <2>1. UNCHANGED <<log, pc, tx, current>>
    BY <1>5 DEF Dispatch, durable, worker
  <2>2. command' = command /\ LastSequence' = LastSequence
    BY <2>1 DEF command, LastSequence
  <2> QED
    BY <2>1, <2>2
<1>6. ASSUME ~ DecideCommand, ~ AppendEvent, ~ WriteReceipt, ~ UNCHANGED vars,
             ~ \E k \in Calls : Dispatch(k)
      PROVE  pc' \notin {"append", "receipt", "commit"}
  BY <1>6 DEF Next, WorkerStep, ProcessStep, Take, LookupReceipt, Resolve, Commit,
              Publish, FinishPublishing, SqlError, Reconcile, ReconcileFails,
              RecordRejection, FailCommand, Crash, DropProjections, StartBootstrap,
              BootstrapEvent, StartWorker
<1> QED
  BY <1>1, <1>2, <1>3, <1>4, <1>5, <1>6

\* The steps that leave the current envelope, its error and the receipts alone.
LEMMA ReceiptInvStutter ==
  ASSUME ReceiptInv, UNCHANGED <<pc, current, error, receipts>>
  PROVE  ReceiptInv'
BY DEF ReceiptInv, command

\* A command that is processed has no receipt yet.
LEMMA ReceiptInvNext == ExecutionInv /\ [Next]_vars => ReceiptInv'
<1> SUFFICES ASSUME ExecutionInv, [Next]_vars PROVE ReceiptInv'
  OBVIOUS
<1> USE DEF ExecutionInv
<1>1. CASE Take
  BY <1>1 DEF Take, ReceiptInv
<1>2. CASE LookupReceipt
  BY <1>2 DEF LookupReceipt, Resolve, ExistingReceipt, ReceiptInv, command, durable, worker
<1>3. CASE DecideCommand
  BY <1>3 DEF DecideCommand, ReceiptInv, command, durable
<1>4. CASE AppendEvent
  BY <1>4 DEF AppendEvent, ReceiptInv, command, durable
<1>5. CASE WriteReceipt
  BY <1>5 DEF WriteReceipt, ReceiptInv, command, durable
<1>6. CASE Commit
  <2>1. command \in Commands /\ command' = command /\ error = "none"
    BY <1>6, EngineAssumption DEF Commit, TypeOK, PCs, command, ReceiptInv
  <2>2. receipts'[command] = AcceptedReceipt(LastSequence)
    BY <1>6, <2>1 DEF Commit, TypeOK, TxInv
  <2> QED
    BY <1>6, <2>1, <2>2 DEF Commit, ReceiptInv, AcceptedReceipt
<1>7. CASE FinishPublishing
  BY <1>7 DEF FinishPublishing, Resolve, LeavesReceipt, ReceiptInv, command, durable, worker
<1>8. CASE SqlError
  BY <1>8 DEF SqlError, ReceiptInv, command, durable
<1>9. CASE Reconcile \/ ReconcileFails
  <2>1. error # "none"
    BY <1>9 DEF Reconcile, ReconcileFails, TypeOK
  <2> QED
    BY <1>9, <2>1 DEF Reconcile, ReconcileFails, ReceiptInv, command, durable, worker
<1>10. CASE RecordRejection
  BY <1>10 DEF RecordRejection, ReceiptInv
<1>11. CASE FailCommand \/ Crash \/ StartBootstrap \/ StartWorker
  BY <1>11 DEF FailCommand, Resolve, Crash, StartBootstrap, StartWorker, ReceiptInv
<1>12. CASE (\E k \in Calls : Dispatch(k)) \/ Publish \/ DropProjections
            \/ BootstrapEvent \/ UNCHANGED vars
  <2>1. UNCHANGED <<pc, current, error, receipts>>
    BY <1>12 DEF Dispatch, Publish, DropProjections, BootstrapEvent, vars, durable, worker
  <2> QED
    BY <2>1, ReceiptInvStutter
<1> QED
  BY <1>1, <1>2, <1>3, <1>4, <1>5, <1>6, <1>7, <1>8, <1>9, <1>10, <1>11, <1>12
     DEF Next, WorkerStep, ProcessStep

\* ExecutionInv is inductive.
LEMMA ExecutionInvNext == ExecutionInv /\ [Next]_vars => ExecutionInv'
BY TypeOKNext, TxInvNext, ReceiptInvNext, PlaceInvNext DEF ExecutionInv

\* Where PlaceInv holds, the events of a command are one block of the log.
LEMMA PlacesAreBlocks == ExecutionInv => ExecutedOnce /\ ReceiptsTellTheLog
<1> SUFFICES ASSUME ExecutionInv PROVE ExecutedOnce /\ ReceiptsTellTheLog
  OBVIOUS
<1>1. log \in Seq(Events) /\ Len(log) \in Nat
  BY LenProperties DEF ExecutionInv, TypeOK
<1>2. ASSUME NEW i \in 1..Len(log)
      PROVE  /\ log[i].command \in Commands
             /\ EventCount[log[i].command] \in Nat \ {0}
             /\ receipts[log[i].command].status = "accepted"
             /\ receipts[log[i].command].sequence \in EventCount[log[i].command]..Len(log)
             /\ log[i].part \in 1..EventCount[log[i].command]
             /\ i = receipts[log[i].command].sequence - EventCount[log[i].command] + log[i].part
  <2>1. log[i].command \in Commands
    BY <1>1, EventFields
  <2> QED
    BY <2>1, EngineAssumption DEF ExecutionInv, PlaceInv
<1>3. ASSUME NEW i \in 1..Len(log)
      PROVE  LET c == log[i].command
                 first == i - log[i].part
             IN /\ first >= 0
                /\ first + EventCount[c] <= Len(log)
                /\ \A j \in 1..Len(log) :
                     log[j].command = c <=> j \in (first + 1)..(first + EventCount[c])
  <2> DEFINE c == log[i].command
             n == EventCount[c]
             s == receipts[c].sequence
  <2>1. /\ c \in Commands /\ n \in Nat \ {0} /\ s \in n..Len(log)
        /\ i - log[i].part = s - n
        /\ receipts[c].status = "accepted"
    <3>1. log[i].part \in Int /\ s \in Int /\ n \in Int
      BY <1>1, <1>2
    <3> QED
      BY <1>2, <3>1, SMTT(30)
  <2>2. ASSUME NEW j \in 1..Len(log), log[j].command = c
        PROVE  j \in (s - n + 1)..s
    <3>1. log[j].part \in 1..n /\ j = s - n + log[j].part
      BY <1>2, <2>2
    <3>2. \A p \in 1..n : s - n + p \in (s - n + 1)..s
      <4> HIDE DEF s, n, c
      <4> QED BY <1>1, <2>1
    <3> QED
      BY <3>1, <3>2
  <2>3. ASSUME NEW j \in (s - n + 1)..s
        PROVE  log[j].command = c
    <3>1. j - (s - n) \in 1..n /\ s - n + (j - (s - n)) = j
      <4>1. s \in Int /\ n \in Int
        BY <1>1, <2>1
      <4> HIDE DEF s, n, c
      <4> QED BY <2>3, <4>1
    <3>2. \A m \in 1..n : log[s - n + m] = [command |-> c, part |-> m]
      BY <2>1 DEF ExecutionInv, PlaceInv
    <3>3. log[j] = [command |-> c, part |-> j - (s - n)]
      BY <3>1, <3>2
    <3> HIDE DEF s, n, c
    <3> QED
      BY <3>3
  <2>4. (s - n + 1)..(s - n + n) = (s - n + 1)..s
    BY <1>1, <2>1
  <2>5. s - n >= 0 /\ s - n + n <= Len(log)
    BY <1>1, <2>1
  <2> HIDE DEF s, n, c
  <2>6. \A j \in 1..Len(log) : log[j].command = c <=> j \in (s - n + 1)..(s - n + n)
    BY <2>2, <2>3, <2>4
  <2>7. /\ i - log[i].part >= 0
        /\ i - log[i].part + n <= Len(log)
        /\ \A j \in 1..Len(log) :
             log[j].command = c <=> j \in (i - log[i].part + 1)..(i - log[i].part + n)
    BY <2>1, <2>5, <2>6
  <2> QED
    BY <2>7 DEF c, n
<1>4. ExecutedOnce
  BY <1>3 DEF ExecutedOnce
<1>5. ASSUME NEW c \in Commands, receipts[c].status = "accepted"
      PROVE  /\ receipts[c].sequence \in 1..Len(log)
             /\ log[receipts[c].sequence] = [command |-> c, part |-> EventCount[c]]
  <2>1. EventCount[c] \in Nat \ {0}
    BY EngineAssumption
  <2>2. /\ receipts[c].sequence \in EventCount[c]..Len(log)
        /\ \A n \in 1..EventCount[c] :
             log[receipts[c].sequence - EventCount[c] + n] = [command |-> c, part |-> n]
    BY <1>5 DEF ExecutionInv, PlaceInv
  <2>3. /\ EventCount[c] \in 1..EventCount[c]
        /\ receipts[c].sequence - EventCount[c] + EventCount[c] = receipts[c].sequence
    BY <1>1, <2>1, <2>2
  <2>4. log[receipts[c].sequence - EventCount[c] + EventCount[c]]
          = [command |-> c, part |-> EventCount[c]]
    BY <2>2, <2>3
  <2> QED
    BY <1>1, <2>1, <2>2, <2>3, <2>4
<1>6. ReceiptsTellTheLog
  BY <1>2, <1>5 DEF ReceiptsTellTheLog
<1> QED
  BY <1>4, <1>6

\* ExecutionInv holds of every reachable state.
LEMMA ExecutionInvariant == Spec => []ExecutionInv
BY ExecutionInvInit, ExecutionInvNext, PTL DEF Spec

\* Retries, rollbacks, crashes and rebuilds never make a command's events
\* appear twice, in part or apart from each other.
THEOREM CommandsExecuteOnce == Spec => []ExecutedOnce
BY ExecutionInvariant, PlacesAreBlocks, PTL

\* The receipts table and the event log agree in every state, so that a retry
\* answered from its receipt is answered truly.
THEOREM ReceiptsAreTrue == Spec => []ReceiptsTellTheLog
BY ExecutionInvariant, PlacesAreBlocks, PTL

-------------------------------------------------------------------------------
(* The folds of a server whose rebuild was not cut off                      *)

\* The fold of no event is the empty model.
LEMMA FoldOfNothing == EmptyModel = FoldOf(0)
BY DEF EmptyModel, FoldOf

\* Projecting the next event continues the fold.
LEMMA FoldOfNext ==
  ASSUME NEW n \in Nat
  PROVE  ProjectOnto(FoldOf(n), n + 1) = FoldOf(n + 1)
<1>1. (1..n) \cup {n + 1} = 1..(n + 1)
  OBVIOUS
<1> QED
  BY <1>1 DEF ProjectOnto, FoldOf

\* At the end of the log there is nothing to read.
LEMMA NothingToRead ==
  ASSUME log \in Seq(Events), NEW m, NEW n \in Nat, n = Len(log)
  PROVE  ReadEnd(n) = n /\ ProjectRange(m, n + 1, ReadEnd(n)) = m
<1>1. ReadEnd(n) = n
  BY EngineAssumption DEF ReadEnd
<1> QED
  BY <1>1 DEF ProjectRange

\* The empty model is current.
LEMMA CurrentInvInit == Init => CurrentInv
BY FoldOfNothing DEF Init, CurrentInv, EmptyModel, Running

\* A step that touches neither log nor models keeps them current.
LEMMA CurrentInvStutter ==
  ASSUME CurrentInv,
         UNCHANGED <<log, projection, pc, commandReadModel, dispatchStartSequence, tx, bootUntil>>
  PROVE  CurrentInv'
<1>1. LastSequence' = LastSequence
  BY DEF LastSequence
<1> QED
  BY <1>1 DEF CurrentInv, Running, UpToDate

\* A running worker that reads and writes nothing, outside a transaction.
LEMMA CurrentInvQuiet ==
  ASSUME CurrentInv, Running, Running',
         UNCHANGED <<log, projection, commandReadModel, dispatchStartSequence>>,
         pc' \notin {"append", "receipt", "commit"},
         pc' \in {"lookup", "decide", "reconcile"} =>
           pc \in {"lookup", "decide", "append", "receipt", "commit", "reconcile"}
  PROVE  CurrentInv'
BY DEF CurrentInv, Running, UpToDate

\* Within a transaction its model runs ahead of the committed one.
LEMMA CurrentInvTransaction ==
  ASSUME ExecutionInv, CurrentInv, DecideCommand \/ AppendEvent \/ WriteReceipt
  PROVE  CurrentInv'
<1>1. /\ log' = log /\ projection' = projection /\ commandReadModel' = commandReadModel
      /\ dispatchStartSequence' = dispatchStartSequence
      /\ Running
  BY DEF DecideCommand, AppendEvent, WriteReceipt, durable, Running
<1>2. Len(log) \in Nat /\ tx.appended \in Nat
  BY LenProperties DEF ExecutionInv, TypeOK, Txs
<1>3. CASE DecideCommand /\ ~ Decide(command, commandReadModel)
  BY <1>1, <1>3, CurrentInvQuiet DEF DecideCommand, Running
<1>4. CASE DecideCommand /\ Decide(command, commandReadModel)
  <2>1. tx' = BeginTx(projection, commandReadModel) /\ pc' = "append" /\ pc = "decide"
    BY <1>4 DEF DecideCommand
  <2>2. LastSequence' = Len(log)
    BY <1>1, <1>2, <2>1 DEF LastSequence, BeginTx
  <2>3. projection = FoldOf(Len(log)) /\ commandReadModel = FoldOf(Len(log))
    BY <1>1 DEF CurrentInv, UpToDate, FoldOf
  <2> QED
    BY <1>1, <2>1, <2>2, <2>3 DEF CurrentInv, BeginTx, Running, UpToDate
<1>5. CASE AppendEvent
  <2>1. /\ pc' \in {"append", "receipt"} /\ pc = "append"
        /\ tx'.appended = tx.appended + 1
        /\ tx'.projection = ProjectOnto(tx.projection, LastSequence + 1)
        /\ tx'.model = ProjectOnto(tx.model, LastSequence + 1)
    BY <1>5 DEF AppendEvent, ExecutionInv, TypeOK, Txs, LastSequence
  <2>2. LastSequence \in Nat /\ LastSequence' = LastSequence + 1
    BY <1>1, <1>2, <2>1 DEF LastSequence
  <2>3. tx.projection = FoldOf(LastSequence) /\ tx.model = FoldOf(LastSequence)
    BY <2>1 DEF CurrentInv
  <2>4. tx'.projection = FoldOf(LastSequence') /\ tx'.model = FoldOf(LastSequence')
    BY <2>1, <2>2, <2>3, FoldOfNext
  <2> QED
    BY <1>1, <2>1, <2>4 DEF CurrentInv, Running, UpToDate
<1>6. CASE WriteReceipt
  <2>1. /\ pc' = "commit" /\ pc = "receipt"
        /\ tx'.appended = tx.appended
        /\ tx'.projection = tx.projection /\ tx'.model = tx.model
    BY <1>6 DEF WriteReceipt, ExecutionInv, TypeOK, Txs
  <2>2. LastSequence' = LastSequence
    BY <1>1, <2>1 DEF LastSequence
  <2> QED
    BY <1>1, <2>1, <2>2 DEF CurrentInv, Running, UpToDate
<1> QED
  BY <1>3, <1>4, <1>5, <1>6

\* A commit appends the events of one command.
LEMMA CommitExtendsLog ==
  ASSUME ExecutionInv, Commit
  PROVE  /\ log' \in Seq(Events)
         /\ Len(log') = LastSequence
         /\ Len(log') = Len(log) + tx.appended
         /\ log' = log \o EventsOf(command)
         /\ tx.appended = EventCount[command]
<1>1. command \in Commands /\ tx.appended = EventCount[command] /\ log' = log \o EventsOf(command)
  BY EngineAssumption DEF Commit, ExecutionInv, TypeOK, TxInv, command
<1>2. EventsOf(command) \in Seq(Events) /\ Len(EventsOf(command)) = EventCount[command]
  BY <1>1, EventsOfType
<1>3. log \in Seq(Events)
  BY DEF ExecutionInv, TypeOK
<1>4. log' \in Seq(Events) /\ Len(log') = Len(log) + EventCount[command]
  BY <1>1, <1>2, <1>3, ConcatProperties
<1> QED
  BY <1>1, <1>4 DEF LastSequence

\* The model that replaces the read model at the commit is current.
LEMMA CurrentInvCommit ==
  ASSUME ExecutionInv, CurrentInv, Commit
  PROVE  CurrentInv'
<1>1. Len(log') = LastSequence /\ Len(log') \in Nat
  BY CommitExtendsLog, LenProperties
<1>2. projection' = FoldOf(Len(log')) /\ commandReadModel' = FoldOf(Len(log'))
  BY <1>1 DEF Commit, NextModel, CurrentInv
<1>3. pc' = "publish"
  BY DEF Commit
<1> QED
  BY <1>1, <1>2, <1>3 DEF CurrentInv, UpToDate, FoldOf, Running

\* A reconciliation has nothing to add to a current model.
LEMMA CurrentInvReconcile ==
  ASSUME ExecutionInv, CurrentInv, Reconcile
  PROVE  CurrentInv' /\ outbox' = <<>>
<1>1. log \in Seq(Events) /\ Len(log) \in Nat /\ ReconcileFrom = Len(log)
  BY LenProperties DEF ExecutionInv, TypeOK, CurrentInv, Reconcile, ReconcileFrom
<1>2. /\ ReadEnd(ReconcileFrom) = ReconcileFrom
      /\ ProjectRange(commandReadModel, ReconcileFrom + 1, ReadEnd(ReconcileFrom)) = commandReadModel
  BY <1>1, NothingToRead
<1>3. commandReadModel' = commandReadModel
  BY <1>2 DEF Reconcile
<1>4. outbox' = <<>>
  <2>1. outbox' = [i \in 1..(ReconcileFrom - ReconcileFrom) |-> ReconcileFrom + i]
    BY <1>2 DEF Reconcile
  <2> QED
    BY <1>1, <2>1
<1>5. CurrentInv'
  BY <1>3, CurrentInvQuiet DEF Reconcile, durable, Running
<1> QED
  BY <1>4, <1>5

\* Crashes and rebuilds leave a running server current.
LEMMA CurrentInvProcess ==
  ASSUME ExecutionInv, CurrentInv, RebuildFits,
         Crash \/ DropProjections \/ StartBootstrap \/ BootstrapEvent \/ StartWorker
  PROVE  CurrentInv'
<1>1. /\ Len(log) \in Nat /\ log' = log
      /\ projection.sequence \in Nat /\ projection.sequence <= Len(log)
      /\ projection = FoldOf(projection.sequence)
  BY LenProperties DEF ExecutionInv, TypeOK, Models, CurrentInv, Crash, DropProjections,
     StartBootstrap, BootstrapEvent, StartWorker, durable
<1>2. CASE Crash
  BY <1>1, <1>2 DEF Crash, CurrentInv, Running, durable
<1>3. CASE DropProjections
  BY <1>1, <1>3, FoldOfNothing DEF DropProjections, CurrentInv, Running, EmptyModel
<1>4. CASE StartBootstrap
  <2>1. ~ (projection.sequence + ReadLimit < Len(log))
    BY <1>1, <1>4, EngineAssumption DEF StartBootstrap, RebuildFits
  <2>2. bootUntil' = Len(log)
    BY <1>4, <2>1 DEF StartBootstrap, ReadEnd
  <2> QED
    BY <1>1, <1>4, <2>2 DEF StartBootstrap, CurrentInv, Running, durable
<1>5. CASE BootstrapEvent
  <2>1. projection.sequence + 1 <= Len(log) /\ bootUntil = Len(log)
    BY <1>1, <1>5 DEF BootstrapEvent, CurrentInv
  <2>2. projection' = FoldOf(projection.sequence + 1)
    BY <1>1, <1>5, FoldOfNext DEF BootstrapEvent
  <2>3. projection'.sequence = projection.sequence + 1
    BY <2>2 DEF FoldOf
  <2> QED
    BY <1>1, <1>5, <2>1, <2>2, <2>3 DEF BootstrapEvent, CurrentInv, Running
<1>6. CASE StartWorker
  <2>1. projection.sequence = Len(log)
    BY <1>1, <1>6 DEF StartWorker, CurrentInv
  <2> QED
    BY <1>1, <1>6, <2>1 DEF StartWorker, CurrentInv, Running, UpToDate, FoldOf, durable
<1> QED
  BY <1>2, <1>3, <1>4, <1>5, <1>6

\* CurrentInv is inductive as long as rebuilds fit.
LEMMA CurrentInvNext ==
  ExecutionInv /\ CurrentInv /\ RebuildFits /\ [Next]_vars => CurrentInv'
<1> SUFFICES ASSUME ExecutionInv, CurrentInv, RebuildFits, [Next]_vars PROVE CurrentInv'
  OBVIOUS
<1>1. CASE Take
  <2>1. Running /\ commandReadModel.sequence = Len(log)
    BY <1>1 DEF Take, Running, CurrentInv, UpToDate
  <2> QED
    BY <1>1, <2>1 DEF Take, CurrentInv, Running, UpToDate, durable
<1>2. CASE DecideCommand \/ AppendEvent \/ WriteReceipt
  BY <1>2, CurrentInvTransaction
<1>3. CASE Commit
  BY <1>3, CurrentInvCommit
<1>4. CASE Reconcile
  BY <1>4, CurrentInvReconcile
<1>5. CASE LookupReceipt \/ FinishPublishing \/ SqlError \/ ReconcileFails
           \/ RecordRejection \/ FailCommand
  <2>1. /\ Running /\ Running'
        /\ UNCHANGED <<log, projection, commandReadModel, dispatchStartSequence>>
        /\ pc' \notin {"append", "receipt", "commit"}
        /\ pc' \in {"lookup", "decide", "reconcile"} =>
             pc \in {"lookup", "decide", "append", "receipt", "commit", "reconcile"}
    BY <1>5 DEF LookupReceipt, FinishPublishing, SqlError, ReconcileFails, RecordRejection,
       FailCommand, Resolve, Running, durable, worker
  <2> QED
    BY <2>1, CurrentInvQuiet
<1>6. CASE Crash \/ DropProjections \/ ProcessStep
  BY <1>6, CurrentInvProcess DEF ProcessStep
<1>7. CASE (\E k \in Calls : Dispatch(k)) \/ Publish \/ UNCHANGED vars
  <2>1. UNCHANGED <<log, projection, pc, commandReadModel, dispatchStartSequence, tx, bootUntil>>
    BY <1>7 DEF Dispatch, Publish, vars, durable, worker
  <2> QED
    BY <2>1, CurrentInvStutter
<1> QED
  BY <1>1, <1>2, <1>3, <1>4, <1>5, <1>6, <1>7 DEF Next, WorkerStep

\* CurrentInv holds as long as rebuilds fit.
LEMMA CurrentInvariant == Spec /\ []RebuildFits => []CurrentInv
BY ExecutionInvariant, CurrentInvInit, CurrentInvNext, PTL DEF Spec

\* Whatever fails, the model commands are decided against has every committed
\* event, as long as no start had more events to replay than one read returns.
THEOREM ModelStaysCurrent == Spec /\ []RebuildFits => []ReadModelIsCurrent
<1>1. CurrentInv => ReadModelIsCurrent
  BY DEF CurrentInv, ReadModelIsCurrent
<1> QED
  BY <1>1, CurrentInvariant, PTL

\* On the same condition the projection tables of a running server are complete.
THEOREM ProjectionsStayComplete == Spec /\ []RebuildFits => []ProjectionsAreComplete
<1>1. CurrentInv => ProjectionsAreComplete
  BY DEF CurrentInv, ProjectionsAreComplete
<1> QED
  BY <1>1, CurrentInvariant, PTL

-------------------------------------------------------------------------------
(* Publication                                                              *)

\* Nothing is committed or published at first.
LEMMA PublishInvInit == Init => PublishInv
BY DEF Init, PublishInv, Running

\* A step that neither commits nor publishes.
LEMMA PublishInvStutter ==
  ASSUME PublishInv, UNCHANGED <<log, published, outbox, hotFrom>>,
         Running <=> Running',
         pc' # "publish" => pc # "publish" \/ outbox = <<>>
  PROVE  PublishInv'
BY DEF PublishInv

\* The events a commit adds to the log are the ones it hands to the publisher.
LEMMA PublishInvCommit ==
  ASSUME ExecutionInv, PublishInv, Commit
  PROVE  PublishInv'
<1>1. /\ Running /\ Running' /\ pc' = "publish"
      /\ published' = published /\ hotFrom' = hotFrom
      /\ outbox = <<>>
  BY DEF Commit, Running, PublishInv
<1>2. /\ Len(log) \in Nat /\ tx.appended \in Nat /\ Len(published) \in Nat /\ hotFrom \in Nat
  BY LenProperties DEF ExecutionInv, TypeOK, Txs
<1>3. Len(log) = hotFrom + Len(published)
  BY <1>1, <1>2 DEF PublishInv
<1>4. outbox' = [i \in 1..tx.appended |-> Len(log) + i]
  BY DEF Commit, CommittedEvents
<1>5. Len(outbox') = tx.appended
  BY <1>2, <1>4, NumberedSeq
<1>6. \A i \in 1..Len(outbox') : outbox'[i] = hotFrom' + Len(published') + i
  BY <1>1, <1>3, <1>4, <1>5
<1>7. Len(log') = Len(log) + tx.appended
  BY CommitExtendsLog
<1>8. hotFrom' + Len(published') + Len(outbox') = Len(log')
  BY <1>1, <1>2, <1>3, <1>5, <1>7
<1>9. \A i \in 1..Len(published') : published'[i] = hotFrom' + i
  BY <1>1 DEF PublishInv
<1> QED
  BY <1>1, <1>6, <1>8, <1>9 DEF PublishInv

\* The next event of the outbox is the next to be published.
LEMMA PublishInvPublish ==
  ASSUME ExecutionInv, PublishInv, Publish
  PROVE  PublishInv'
<1>1. /\ Running /\ Running' /\ pc = "publish" /\ pc' = "publish"
      /\ log' = log /\ hotFrom' = hotFrom
  BY DEF Publish, Running, durable
<1>2. /\ outbox \in Seq(Nat) /\ outbox # <<>> /\ published \in Seq(Nat)
      /\ Len(published) \in Nat /\ hotFrom \in Nat /\ Len(log) \in Nat
  BY LenProperties DEF Publish, ExecutionInv, TypeOK
<1>3. /\ outbox' \in Seq(Nat) /\ Len(outbox') = Len(outbox) - 1
      /\ \A i \in 1..Len(outbox') : outbox'[i] = outbox[i + 1]
      /\ Head(outbox) = outbox[1] /\ Head(outbox) \in Nat
      /\ Len(outbox) \in Nat /\ Len(outbox) # 0
  BY <1>2, HeadTailProperties, EmptySeq, LenProperties DEF Publish
<1>4. /\ Len(published') = Len(published) + 1
      /\ \A i \in 1..Len(published) : published'[i] = published[i]
      /\ published'[Len(published) + 1] = Head(outbox)
  BY <1>2, <1>3, AppendProperties DEF Publish
<1>5. Head(outbox) = hotFrom + (Len(published) + 1)
  <2>1. 1 \in 1..Len(outbox)
    BY <1>3
  <2>2. outbox[1] = hotFrom + Len(published) + 1
    BY <1>1, <2>1 DEF PublishInv
  <2> QED
    BY <1>2, <1>3, <2>2
<1>6. ASSUME NEW i \in 1..Len(published')
      PROVE  published'[i] = hotFrom' + i
  <2>1. CASE i = Len(published) + 1
    BY <1>1, <1>4, <1>5, <2>1
  <2>2. CASE i # Len(published) + 1
    <3>1. i \in 1..Len(published)
      BY <1>2, <1>4, <2>2
    <3>2. published[i] = hotFrom + i
      BY <1>1, <3>1 DEF PublishInv
    <3> QED
      BY <1>1, <1>4, <3>1, <3>2
  <2> QED
    BY <2>1, <2>2
<1>7. ASSUME NEW i \in 1..Len(outbox')
      PROVE  outbox'[i] = hotFrom' + Len(published') + i
  <2>1. i + 1 \in 1..Len(outbox)
    BY <1>3
  <2>2. outbox'[i] = hotFrom + Len(published) + (i + 1)
    BY <1>1, <1>3, <2>1 DEF PublishInv
  <2>3. hotFrom + Len(published) + (i + 1) = hotFrom + (Len(published) + 1) + i
    BY <1>2
  <2>4. hotFrom' + Len(published') + i = hotFrom + (Len(published) + 1) + i
    BY <1>1, <1>4
  <2> QED
    BY <2>2, <2>3, <2>4
<1>8. hotFrom' + Len(published') + Len(outbox') = Len(log')
  <2>1. hotFrom + Len(published) + Len(outbox) = Len(log)
    BY <1>1 DEF PublishInv
  <2>2. Len(outbox) \in Nat /\ Len(published) \in Nat /\ hotFrom \in Nat
    BY <1>2, <1>3
  <2>3. (hotFrom + (Len(published) + 1)) + (Len(outbox) - 1) = Len(log)
    BY <2>1, <2>2
  <2> QED
    BY <1>1, <1>3, <1>4, <2>3
<1> QED
  BY <1>1, <1>6, <1>7, <1>8 DEF PublishInv

\* A new process publishes from where the log ends.
LEMMA PublishInvProcess ==
  ASSUME ExecutionInv, PublishInv,
         Crash \/ DropProjections \/ StartBootstrap \/ BootstrapEvent \/ StartWorker
  PROVE  PublishInv'
<1>1. CASE Crash
  BY <1>1 DEF Crash, PublishInv, Running
<1>2. CASE DropProjections \/ StartBootstrap \/ BootstrapEvent
  <2>1. ~ Running /\ ~ Running' /\ pc # "publish" /\ UNCHANGED <<outbox, published>>
    BY <1>2 DEF DropProjections, StartBootstrap, BootstrapEvent, Running, worker
  <2> QED
    BY <2>1 DEF PublishInv
<1>3. CASE StartWorker
  <2>1. /\ published' = <<>> /\ outbox' = <<>> /\ hotFrom' = Len(log) /\ log' = log
        /\ Len(log) \in Nat
    BY <1>3, LenProperties DEF StartWorker, PublishInv, Running, durable, ExecutionInv, TypeOK
  <2> QED
    BY <1>3, <2>1 DEF PublishInv, StartWorker
<1> QED
  BY <1>1, <1>2, <1>3

\* PublishInv is inductive where the models are current.
LEMMA PublishInvNext ==
  ExecutionInv /\ CurrentInv /\ PublishInv /\ [Next]_vars => PublishInv'
<1> SUFFICES ASSUME ExecutionInv, CurrentInv, PublishInv, [Next]_vars PROVE PublishInv'
  OBVIOUS
<1>1. CASE Commit
  BY <1>1, PublishInvCommit
<1>2. CASE Publish
  BY <1>2, PublishInvPublish
<1>3. CASE Reconcile
  <2>1. outbox' = <<>> /\ outbox = <<>>
    BY <1>3, CurrentInvReconcile DEF Reconcile, PublishInv
  <2> QED
    BY <1>3, <2>1, PublishInvStutter DEF Reconcile, Running, durable
<1>4. CASE Crash \/ DropProjections \/ ProcessStep
  BY <1>4, PublishInvProcess DEF ProcessStep
<1>5. CASE FinishPublishing
  BY <1>5, PublishInvStutter
     DEF FinishPublishing, AllPublished, Resolve, Running, durable, worker
<1>6. CASE Take \/ LookupReceipt \/ DecideCommand \/ AppendEvent \/ WriteReceipt \/ SqlError
           \/ ReconcileFails \/ RecordRejection \/ FailCommand
  <2>1. UNCHANGED <<log, published, outbox, hotFrom>> /\ Running /\ Running' /\ pc # "publish"
    BY <1>6 DEF Take, LookupReceipt, DecideCommand, AppendEvent, WriteReceipt, SqlError,
       ReconcileFails, RecordRejection, FailCommand, Resolve, Running, durable, worker
  <2> QED
    BY <2>1, PublishInvStutter
<1>7. CASE (\E k \in Calls : Dispatch(k)) \/ UNCHANGED vars
  <2>1. UNCHANGED <<log, published, outbox, hotFrom, pc>>
    BY <1>7 DEF Dispatch, vars, durable, worker
  <2> QED
    BY <2>1, PublishInvStutter DEF Running
<1> QED
  BY <1>1, <1>2, <1>3, <1>4, <1>5, <1>6, <1>7 DEF Next, WorkerStep

\* PublishInv holds as long as rebuilds fit.
LEMMA PublishInvariant == Spec /\ []RebuildFits => []PublishInv
BY ExecutionInvariant, CurrentInvariant, PublishInvInit, PublishInvNext, PTL DEF Spec

\* Subscribers see this run's events in order, none twice, none skipped, on the
\* condition that no rebuild was cut off.
THEOREM PublicationIsInOrder == Spec /\ []RebuildFits => []PublishedInOrder
<1>1. TypeOK /\ PublishInv => PublishedInOrder
  <2> SUFFICES ASSUME TypeOK, PublishInv, Running
               PROVE  published = [i \in 1..Len(published) |-> hotFrom + i]
    BY DEF PublishedInOrder
  <2>1. published = [i \in 1..Len(published) |-> published[i]]
    BY SeqDef, LenProperties DEF TypeOK
  <2>2. \A i \in 1..Len(published) : published[i] = hotFrom + i
    BY DEF PublishInv
  <2> QED
    BY <2>1, <2>2
<1> QED
  BY <1>1, TypeCorrect, PublishInvariant, PTL

\* On the same condition an idle worker has left no committed event unpublished.
THEOREM PublicationIsComplete == Spec /\ []RebuildFits => []NothingUnpublished
<1>1. TypeOK /\ PublishInv => NothingUnpublished
  <2> SUFFICES ASSUME TypeOK, PublishInv, pc = "idle"
               PROVE  hotFrom + Len(published) >= Len(log)
    BY DEF NothingUnpublished
  <2>1. outbox = <<>> /\ hotFrom + Len(published) + Len(outbox) = Len(log)
    BY DEF PublishInv, Running
  <2>2. Len(published) \in Nat /\ hotFrom \in Nat /\ Len(log) \in Nat
    BY LenProperties DEF TypeOK
  <2> QED
    BY <2>1, <2>2
<1> QED
  BY <1>1, TypeCorrect, PublishInvariant, PTL

-------------------------------------------------------------------------------
(* Envelopes and answers                                                    *)

\* The queue is empty at first.
LEMMA QueueInvInit == Init => QueueInv
BY DEF Init, QueueInv, Busy, Running

\* A step that neither queues, takes nor answers.
LEMMA QueueInvStutter ==
  ASSUME QueueInv, UNCHANGED <<commandQueue, reply, current>>,
         Busy' => Busy, Running <=> Running'
  PROVE  QueueInv'
BY DEF QueueInv

\* The worker answers the envelope it holds and goes back to the queue.
LEMMA QueueInvResolve ==
  ASSUME TypeOK, QueueInv, Busy, UNCHANGED <<commandQueue, current>>,
         NEW r, Resolve(r)
  PROVE  QueueInv'
<1>1. ~ Busy' /\ Running' /\ commandQueue' = commandQueue
  BY DEF Resolve, Busy, Running
<1>2. reply' = [reply EXCEPT ![current] = r]
  BY DEF Resolve
<1>3. \A i \in 1..Len(commandQueue) : commandQueue[i] # current
  BY DEF QueueInv
<1>4. \A i \in 1..Len(commandQueue) : commandQueue[i] \in Calls
  BY ElementOfSeq DEF TypeOK
<1>5. \A i \in 1..Len(commandQueue) : reply'[commandQueue[i]] = reply[commandQueue[i]]
  BY <1>2, <1>3, <1>4 DEF TypeOK
<1> QED
  BY <1>1, <1>5 DEF QueueInv

\* A call waits in the queue once.
LEMMA QueueInvDispatch ==
  ASSUME TypeOK, QueueInv, NEW k \in Calls, Dispatch(k)
  PROVE  QueueInv'
<1>1. /\ commandQueue' = Append(commandQueue, k) /\ commandQueue \in Seq(Calls)
      /\ reply' = [reply EXCEPT ![k] = Reply("pending")] /\ reply \in [Calls -> Replies]
      /\ reply[k] = Reply("unsent") /\ Reply("unsent") # Reply("pending")
      /\ current' = current /\ pc' = pc
      /\ Len(commandQueue) \in Nat
      /\ Running
  BY LenProperties DEF Dispatch, TypeOK, Reply, worker
<1>2. (Busy <=> Busy') /\ (Running <=> Running')
  BY <1>1 DEF Busy, Running
<1> DEFINE n == Len(commandQueue)
<1>3. /\ Len(commandQueue') = n + 1
      /\ \A i \in 1..n : commandQueue'[i] = commandQueue[i]
      /\ commandQueue'[n + 1] = k
  BY <1>1, AppendProperties
<1>4. \A i \in 1..n : commandQueue[i] \in Calls /\ commandQueue[i] # k
  BY <1>1, ElementOfSeq DEF QueueInv
<1>5. reply'[k] = Reply("pending") /\ \A i \in 1..n : reply'[commandQueue[i]] = Reply("pending")
  BY <1>1, <1>4 DEF QueueInv
<1>6. Busy => current # k /\ reply'[current] = Reply("pending")
  <2> SUFFICES ASSUME Busy PROVE current # k /\ reply'[current] = Reply("pending")
    OBVIOUS
  <2>1. reply[current] = Reply("pending") /\ current \in Calls
    BY DEF QueueInv, Busy, TypeOK, PCs
  <2> QED
    BY <1>1, <2>1
<1>7. \A i \in 1..(n + 1) : i \in 1..n \/ i = n + 1
  BY <1>1
<1>8. \A i \in 1..(n + 1) : /\ reply'[commandQueue'[i]] = Reply("pending")
                            /\ Busy => commandQueue'[i] # current
  BY <1>3, <1>5, <1>6, <1>7 DEF QueueInv
<1>9. \A i, j \in 1..(n + 1) : commandQueue'[i] = commandQueue'[j] => i = j
  <2>1. \A i, j \in 1..n : commandQueue'[i] = commandQueue'[j] => i = j
    BY <1>3 DEF QueueInv
  <2>2. \A i \in 1..n : commandQueue'[i] # commandQueue'[n + 1]
    BY <1>3, <1>4
  <2> QED
    BY <1>7, <2>1, <2>2
<1> QED
  BY <1>1, <1>2, <1>3, <1>6, <1>8, <1>9 DEF QueueInv

\* The worker holds the call it has taken.
LEMMA QueueInvTake ==
  ASSUME TypeOK, QueueInv, Take
  PROVE  QueueInv'
<1>1. /\ commandQueue \in Seq(Calls) /\ commandQueue # <<>>
      /\ commandQueue' = Tail(commandQueue) /\ current' = Head(commandQueue)
      /\ reply' = reply /\ Running /\ Running' /\ Busy'
  BY DEF Take, TypeOK, Running, Busy
<1> DEFINE n == Len(commandQueue)
<1>2. n \in Nat \ {0}
  BY <1>1, EmptySeq
<1>3. /\ Len(commandQueue') = n - 1
      /\ \A i \in 1..(n - 1) : commandQueue'[i] = commandQueue[i + 1]
      /\ current' = commandQueue[1]
  BY <1>1, <1>2, HeadTailProperties, LenProperties
<1>4. \A i \in 1..(n - 1) : i + 1 \in 1..n /\ i + 1 # 1
  BY <1>2
<1>5. 1 \in 1..n
  BY <1>2
<1>6. reply'[current'] = Reply("pending")
  BY <1>1, <1>3, <1>5 DEF QueueInv
<1>7. \A i \in 1..(n - 1) : /\ reply'[commandQueue'[i]] = Reply("pending")
                            /\ commandQueue'[i] # current'
  BY <1>1, <1>3, <1>4, <1>5 DEF QueueInv
<1>8. \A i, j \in 1..(n - 1) : commandQueue'[i] = commandQueue'[j] => i = j
  <2> TAKE i, j \in 1..(n - 1)
  <2>1. commandQueue[i + 1] = commandQueue[j + 1] => i + 1 = j + 1
    BY <1>4 DEF QueueInv
  <2>2. i + 1 = j + 1 => i = j
    BY <1>2
  <2> QED
    BY <1>3, <2>1, <2>2
<1> QED
  BY <1>1, <1>3, <1>6, <1>7, <1>8 DEF QueueInv

\* QueueInv is inductive.
LEMMA QueueInvNext == TypeOK /\ QueueInv /\ [Next]_vars => QueueInv'
<1> SUFFICES ASSUME TypeOK, QueueInv, [Next]_vars PROVE QueueInv'
  OBVIOUS
<1>1. CASE \E k \in Calls : Dispatch(k)
  BY <1>1, QueueInvDispatch
<1>2. CASE Take
  BY <1>2, QueueInvTake
<1>3. CASE LookupReceipt \/ FinishPublishing
  <2>1. (\E r : Resolve(r)) \/ (UNCHANGED reply /\ Busy /\ Running' /\ Busy')
    BY <1>3 DEF LookupReceipt, FinishPublishing, Busy, Running
  <2>2. Busy /\ Running /\ UNCHANGED <<commandQueue, current>>
    BY <1>3 DEF LookupReceipt, FinishPublishing, Busy, Running, worker
  <2> QED
    BY <2>1, <2>2, QueueInvResolve, QueueInvStutter
<1>4. CASE FailCommand
  <2>1. Busy /\ UNCHANGED <<commandQueue, current>> /\ \E r : Resolve(r)
    BY <1>4 DEF FailCommand, Busy, worker
  <2> QED
    BY <2>1, QueueInvResolve
<1>5. CASE DecideCommand \/ AppendEvent \/ WriteReceipt \/ Commit \/ Publish \/ SqlError
           \/ Reconcile \/ ReconcileFails \/ RecordRejection
  <2>1. Busy /\ Busy' /\ Running /\ Running' /\ UNCHANGED <<commandQueue, current, reply>>
    BY <1>5 DEF DecideCommand, AppendEvent, WriteReceipt, Commit, Publish, SqlError,
       Reconcile, ReconcileFails, RecordRejection, Busy, Running, worker
  <2> QED
    BY <2>1, QueueInvStutter
<1>6. CASE Crash
  BY <1>6 DEF Crash, QueueInv, Busy, Running
<1>7. CASE ProcessStep
  <2>1. commandQueue = <<>> /\ commandQueue' = <<>> /\ ~ Busy'
    BY <1>7 DEF ProcessStep, StartBootstrap, BootstrapEvent, StartWorker, Busy, Running, QueueInv
  <2> QED
    BY <2>1 DEF QueueInv
<1>8. CASE DropProjections \/ UNCHANGED vars
  <2>1. UNCHANGED <<commandQueue, reply, current, pc>>
    BY <1>8 DEF DropProjections, vars, worker
  <2> QED
    BY <2>1, QueueInvStutter DEF Busy, Running
<1> QED
  BY <1>1, <1>2, <1>3, <1>4, <1>5, <1>6, <1>7, <1>8 DEF Next, WorkerStep

\* An accepted receipt names a place in the log.
LEMMA AcceptedIsInLog ==
  ASSUME ExecutionInv, NEW c \in Commands, receipts[c].status = "accepted"
  PROVE  /\ receipts[c] = AcceptedReceipt(receipts[c].sequence)
         /\ receipts[c].sequence \in 1..Len(log)
<1>1. receipts[c] \in [status : {"accepted", "rejected"}, sequence : Nat]
  BY DEF ExecutionInv, TypeOK, Receipts, NoReceipt
<1>2. receipts[c].sequence \in EventCount[c]..Len(log) /\ EventCount[c] \in Nat \ {0}
  BY EngineAssumption DEF ExecutionInv, PlaceInv
<1>3. Len(log) \in Nat
  BY LenProperties DEF ExecutionInv, TypeOK
<1> QED
  BY <1>1, <1>2, <1>3 DEF AcceptedReceipt

\* An answer of ok is that of the receipt.
LEMMA AnswerInvResolve ==
  ASSUME TypeOK, AnswerInv, Running, current \in Calls,
         UNCHANGED <<receipts, hotFrom, published>>,
         NEW r, Resolve(r),
         r.kind = "ok" => /\ receipts[command] = AcceptedReceipt(r.sequence)
                          /\ r.sequence <= hotFrom + Len(published)
  PROVE  AnswerInv'
<1> SUFFICES ASSUME NEW k \in Calls, reply'[k].kind = "ok"
             PROVE  /\ receipts[CommandOf[k]] = AcceptedReceipt(reply'[k].sequence)
                    /\ reply'[k].sequence <= hotFrom + Len(published)
  BY DEF AnswerInv
<1>1. reply' = [reply EXCEPT ![current] = r] /\ reply \in [Calls -> Replies]
  BY DEF Resolve, TypeOK
<1>2. CASE k = current
  BY <1>1, <1>2 DEF command
<1>3. CASE k # current
  <2>1. reply'[k] = reply[k]
    BY <1>1, <1>3
  <2> QED
    BY <2>1 DEF AnswerInv
<1> QED
  BY <1>2, <1>3

\* A step that only writes a first receipt disturbs no answer.
LEMMA AnswerInvReceipt ==
  ASSUME TypeOK, AnswerInv, Running, current \in Calls, receipts[command].status = "none",
         NEW r, receipts' = [receipts EXCEPT ![command] = r],
         UNCHANGED <<reply, hotFrom, published>>
  PROVE  AnswerInv'
<1> SUFFICES ASSUME NEW k \in Calls, reply[k].kind = "ok"
             PROVE  /\ receipts'[CommandOf[k]] = AcceptedReceipt(reply[k].sequence)
                    /\ reply[k].sequence <= hotFrom + Len(published)
  BY DEF AnswerInv
<1>1. /\ receipts[CommandOf[k]] = AcceptedReceipt(reply[k].sequence)
      /\ reply[k].sequence <= hotFrom + Len(published)
  BY DEF AnswerInv
<1>2. CommandOf[k] # command
  BY <1>1 DEF AcceptedReceipt
<1>3. CommandOf[k] \in Commands
  BY EngineAssumption
<1> QED
  BY <1>1, <1>2, <1>3 DEF TypeOK

\* AnswerInv is inductive.
LEMMA AnswerInvNext ==
  ExecutionInv /\ PublishInv /\ AnswerInv /\ [Next]_vars => AnswerInv'
<1> SUFFICES ASSUME ExecutionInv, PublishInv, AnswerInv, [Next]_vars PROVE AnswerInv'
  OBVIOUS
<1>1. /\ TypeOK /\ Len(log) \in Nat /\ Len(published) \in Nat /\ hotFrom \in Nat
      /\ log \in Seq(Events) /\ published \in Seq(Nat)
  BY LenProperties DEF ExecutionInv, TypeOK
<1>2. CASE LookupReceipt \/ FinishPublishing
  <2>1. /\ Running /\ current \in Calls /\ command \in Commands
        /\ UNCHANGED <<receipts, hotFrom, published>>
    BY <1>1, <1>2, EngineAssumption
       DEF LookupReceipt, FinishPublishing, Running, TypeOK, PCs, command, durable, worker
  <2>2. CASE UNCHANGED reply
    BY <1>2, <2>1, <2>2 DEF AnswerInv
  <2>3. CASE Resolve(Reply("previouslyRejected"))
    <3>1. Reply("previouslyRejected").kind # "ok"
      BY DEF Reply
    <3> QED
      BY <1>1, <2>1, <2>3, <3>1, AnswerInvResolve
  <2>4. CASE Resolve(Ok(receipts[command].sequence)) /\ receipts[command].status = "accepted"
    <3>1. hotFrom + Len(published) = Len(log)
      <4>1. outbox = <<>>
        BY <1>2 DEF LookupReceipt, FinishPublishing, AllPublished, PublishInv
      <4> QED
        BY <1>1, <2>1, <4>1 DEF PublishInv
    <3>2. /\ receipts[command] = AcceptedReceipt(receipts[command].sequence)
          /\ receipts[command].sequence \in 1..Len(log)
      BY <2>1, <2>4, AcceptedIsInLog
    <3>3. receipts[command].sequence <= hotFrom + Len(published)
      BY <1>1, <3>1, <3>2
    <3>4. Ok(receipts[command].sequence).sequence = receipts[command].sequence
      BY DEF Ok
    <3> QED
      BY <1>1, <2>1, <2>4, <3>2, <3>3, <3>4, AnswerInvResolve
  <2> QED
    BY <1>2, <2>2, <2>3, <2>4
       DEF LookupReceipt, FinishPublishing, ExistingReceipt, ExecutionInv, ReceiptInv
<1>3. CASE FailCommand
  <2>1. /\ Running /\ current \in Calls /\ Resolve(Reply(error))
        /\ UNCHANGED <<receipts, hotFrom, published>>
    BY <1>1, <1>3 DEF FailCommand, Running, TypeOK, PCs, durable, worker
  <2>2. Reply(error).kind # "ok"
    BY <1>1 DEF Reply, TypeOK
  <2> QED
    BY <1>1, <2>1, <2>2, AnswerInvResolve
<1>4. CASE Commit \/ (RecordRejection /\ receipts' # receipts)
  <2>1. /\ Running /\ current \in Calls /\ receipts[command].status = "none"
        /\ UNCHANGED <<reply, hotFrom, published>>
        /\ \E r : receipts' = [receipts EXCEPT ![command] = r]
    BY <1>1, <1>4 DEF Commit, RecordRejection, Running, TypeOK, PCs, ExecutionInv, ReceiptInv, worker
  <2> QED
    BY <1>1, <2>1, AnswerInvReceipt
<1>5. CASE Publish
  <2>1. Running /\ UNCHANGED <<receipts, reply, hotFrom>>
    BY <1>5 DEF Publish, Running, durable
  <2>2. Len(published') = Len(published) + 1
    <3>1. outbox \in Seq(Nat) /\ outbox # <<>>
      BY <1>1, <1>5 DEF TypeOK, Publish
    <3>2. Head(outbox) \in Nat
      BY <3>1, HeadTailProperties
    <3> QED
      BY <1>1, <1>5, <3>2, AppendProperties DEF Publish
  <2>3. \A n \in Int : n <= hotFrom + Len(published) => n <= hotFrom' + Len(published')
    BY <1>1, <2>1, <2>2
  <2>4. \A k \in Calls : reply[k].sequence \in Int
    BY <1>1 DEF TypeOK, Replies
  <2> QED
    BY <2>1, <2>3, <2>4 DEF AnswerInv
<1>6. CASE StartWorker
  <2>1. /\ UNCHANGED <<receipts, reply>> /\ hotFrom' = Len(log) /\ published' = <<>>
    BY <1>6 DEF StartWorker, PublishInv, Running, durable
  <2>2. ASSUME NEW k \in Calls, reply[k].kind = "ok"
        PROVE  reply[k].sequence <= hotFrom' + Len(published')
    <3>1. receipts[CommandOf[k]] = AcceptedReceipt(reply[k].sequence) /\ CommandOf[k] \in Commands
      BY <2>2, EngineAssumption DEF AnswerInv
    <3>2. /\ receipts[CommandOf[k]].status = "accepted"
          /\ receipts[CommandOf[k]].sequence = reply[k].sequence
      BY <3>1 DEF AcceptedReceipt
    <3>3. reply[k].sequence \in 1..Len(log)
      BY <3>1, <3>2, AcceptedIsInLog
    <3>4. hotFrom' + Len(published') = Len(log)
      BY <1>1, <2>1, EmptySeq
    <3> QED
      BY <1>1, <3>3, <3>4
  <2> QED
    BY <2>1, <2>2 DEF AnswerInv
<1>7. CASE Crash
  <2>1. ~ Running' /\ receipts' = receipts
    BY <1>7 DEF Crash, Running, durable
  <2>2. ASSUME NEW k \in Calls, reply'[k].kind = "ok"
        PROVE  reply'[k] = reply[k]
    BY <1>7, <2>2 DEF Crash, Reply
  <2> QED
    BY <2>1, <2>2 DEF AnswerInv
<1>8. CASE \E k \in Calls : Dispatch(k)
  <2>1. PICK k \in Calls : Dispatch(k)
    BY <1>8
  <2>2. /\ reply' = [reply EXCEPT ![k] = Reply("pending")]
        /\ UNCHANGED <<receipts, hotFrom, published>> /\ Running
    BY <2>1 DEF Dispatch, durable, worker
  <2>3. \A j \in Calls : reply'[j].kind = "ok" => reply'[j] = reply[j]
    BY <1>1, <2>2 DEF TypeOK, Reply
  <2> QED
    BY <2>2, <2>3 DEF AnswerInv
<1>9. CASE Take \/ DecideCommand \/ AppendEvent \/ WriteReceipt \/ SqlError \/ Reconcile
           \/ ReconcileFails \/ (RecordRejection /\ receipts' = receipts) \/ DropProjections
           \/ StartBootstrap \/ BootstrapEvent \/ UNCHANGED vars
  <2>1. UNCHANGED <<receipts, reply, hotFrom, published>> /\ (Running' => Running)
    BY <1>9 DEF Take, DecideCommand, AppendEvent, WriteReceipt, SqlError, Reconcile,
       ReconcileFails, RecordRejection, DropProjections, StartBootstrap, BootstrapEvent,
       vars, durable, worker, Running
  <2> QED
    BY <2>1 DEF AnswerInv
<1> QED
  BY <1>2, <1>3, <1>4, <1>5, <1>6, <1>7, <1>8, <1>9 DEF Next, WorkerStep, ProcessStep

\* Nobody is answered at first.
LEMMA AnswerInvInit == Init => AnswerInv
BY DEF Init, AnswerInv, Reply

\* AnswerInv holds as long as rebuilds fit.
LEMMA AnswerInvariant == Spec /\ []RebuildFits => []AnswerInv
BY ExecutionInvariant, PublishInvariant, AnswerInvInit, AnswerInvNext, PTL DEF Spec

\* A caller told "ok" reads its write in the projections, and the subscribers of
\* this run were told first, on the condition that no rebuild was cut off.
THEOREM AnswersAreTrue == Spec /\ []RebuildFits => []AnswersHold
<1>1. ExecutionInv /\ CurrentInv /\ PublishInv /\ AnswerInv => AnswersHold
  <2> SUFFICES ASSUME ExecutionInv, CurrentInv, PublishInv, AnswerInv,
                      NEW k \in Calls, reply[k].kind = "ok"
               PROVE  /\ receipts[CommandOf[k]] = AcceptedReceipt(reply[k].sequence)
                      /\ Running =>
                           /\ reply[k].sequence \in projection.seen
                           /\ reply[k].sequence > hotFrom =>
                                \E i \in 1..Len(published) : published[i] = reply[k].sequence
    BY DEF AnswersHold
  <2> DEFINE n == reply[k].sequence
  <2>1. receipts[CommandOf[k]] = AcceptedReceipt(n) /\ (Running => n <= hotFrom + Len(published))
    BY DEF AnswerInv
  <2>2. CommandOf[k] \in Commands
    BY EngineAssumption
  <2>3. receipts[CommandOf[k]].status = "accepted" /\ receipts[CommandOf[k]].sequence = n
    BY <2>1 DEF AcceptedReceipt
  <2>4. n \in 1..Len(log)
    BY <2>2, <2>3, AcceptedIsInLog
  <2>5. Running => n \in projection.seen
    BY <2>4 DEF CurrentInv, UpToDate
  <2>6. hotFrom \in Nat /\ Len(published) \in Nat /\ Len(log) \in Nat
    BY LenProperties DEF ExecutionInv, TypeOK
  <2>7. ASSUME Running, n > hotFrom
        PROVE  \E i \in 1..Len(published) : published[i] = n
    <3>1. n - hotFrom \in 1..Len(published) /\ hotFrom + (n - hotFrom) = n
      BY <2>1, <2>4, <2>6, <2>7
    <3>2. published[n - hotFrom] = hotFrom + (n - hotFrom)
      BY <2>7, <3>1 DEF PublishInv
    <3> QED
      BY <3>1, <3>2
  <2> QED
    BY <2>1, <2>5, <2>7
<1> QED
  BY <1>1, ExecutionInvariant, CurrentInvariant, PublishInvariant, AnswerInvariant, PTL

-------------------------------------------------------------------------------
(* The engine implements CommandLog                                         *)

\* Nothing is decided at first.
LEMMA DecisionInvInit == Init => DecisionInv
BY DEF Init, DecisionInv

\* A step that decides and commits nothing.
LEMMA DecisionInvStutter ==
  ASSUME DecisionInv, UNCHANGED <<log, current, error, receipts, commandReadModel>>,
         pc' \in {"append", "receipt", "commit"} => pc \in {"append", "receipt", "commit"},
         pc' \in {"reconcile", "publish", "reject"} /\ error = "invariant" =>
           pc \in {"reconcile", "publish", "reject"},
         pc' = "fail" /\ error = "invariant" => receipts[command].status # "accepted"
  PROVE  DecisionInv'
BY DEF DecisionInv, Decide, command

\* What was decided is still so when it is committed or rejected.
LEMMA DecisionInvNext ==
  ExecutionInv /\ CurrentInv /\ CurrentInv' /\ DecisionInv /\ [Next]_vars => DecisionInv'
<1> SUFFICES ASSUME ExecutionInv, CurrentInv, CurrentInv', DecisionInv, [Next]_vars
             PROVE  DecisionInv'
  OBVIOUS
<1>1. CASE DecideCommand
  <2>1. command' = command /\ UNCHANGED <<log, commandReadModel, receipts>>
    BY <1>1 DEF DecideCommand, command, durable
  <2>2. CASE Decide(command, commandReadModel)
    <3>1. pc' = "append" /\ Decide(command, commandReadModel)'
      BY <1>1, <2>1, <2>2 DEF DecideCommand, Decide
    <3> QED
      BY <3>1 DEF DecisionInv
  <2>3. CASE ~ Decide(command, commandReadModel)
    <3>1. pc' = "reconcile" /\ ~ Decide(command, commandReadModel)'
      BY <1>1, <2>1, <2>3 DEF DecideCommand, Decide
    <3> QED
      BY <3>1 DEF DecisionInv
  <2> QED
    BY <2>2, <2>3
<1>2. CASE Reconcile
  <2>1. /\ UNCHANGED <<log, current, error, receipts>> /\ pc = "reconcile" /\ pc' = "publish"
    BY <1>2 DEF Reconcile, durable
  <2>2. commandReadModel' = commandReadModel
    BY <2>1 DEF CurrentInv, UpToDate, Running
  <2> QED
    BY <2>1, <2>2, DecisionInvStutter
<1>3. CASE AppendEvent \/ WriteReceipt \/ ReconcileFails \/ Publish
           \/ (\E k \in Calls : Dispatch(k)) \/ DropProjections \/ UNCHANGED vars
  <2>1. /\ UNCHANGED <<log, current, error, receipts, commandReadModel>>
        /\ pc' = pc \/ (pc = "append" /\ pc' = "receipt") \/ (pc = "receipt" /\ pc' = "commit")
                    \/ (pc = "reconcile" /\ pc' = "publish")
    <3>1. CASE \E k \in Calls : Dispatch(k)
      BY <3>1 DEF Dispatch, durable, worker
    <3>2. CASE DropProjections \/ UNCHANGED vars
      BY <3>2 DEF DropProjections, vars, durable, worker
    <3>3. CASE AppendEvent \/ WriteReceipt \/ ReconcileFails \/ Publish
      BY <3>3 DEF AppendEvent, WriteReceipt, ReconcileFails, Publish, durable, worker
    <3> QED
      BY <1>3, <3>1, <3>2, <3>3
  <2> QED
    BY <2>1, DecisionInvStutter DEF DecisionInv
<1>4. CASE FinishPublishing
  <2>1. /\ UNCHANGED <<log, current, error, receipts, commandReadModel>> /\ pc = "publish"
        /\ \/ pc' = "idle" \/ pc' = "reject" \/ (pc' = "fail" /\ error # "invariant")
    BY <1>4 DEF FinishPublishing, Resolve, LeavesReceipt, durable, worker
  <2> QED
    BY <2>1, DecisionInvStutter
<1>5. CASE RecordRejection
  <2>1. /\ command \in Commands /\ receipts \in [Commands -> Receipts]
        /\ receipts[command].status = "none" /\ command' = command /\ pc' = "fail"
    BY <1>5, EngineAssumption
       DEF RecordRejection, ExecutionInv, TypeOK, PCs, ReceiptInv, command, worker
  <2>2. receipts'[command].status # "accepted"
    BY <1>5, <2>1 DEF RecordRejection, RejectedReceipt
  <2> QED
    BY <2>1, <2>2 DEF DecisionInv
<1>6. CASE Commit \/ SqlError
  <2>1. pc' \in {"publish", "reconcile"} /\ error' # "invariant"
    BY <1>6 DEF Commit, SqlError, ExecutionInv, ReceiptInv
  <2> QED
    BY <2>1 DEF DecisionInv
<1>7. CASE Take \/ LookupReceipt \/ FailCommand \/ Crash \/ ProcessStep
  <2>1. pc' \in {"lookup", "decide", "idle", "down", "booting"}
    BY <1>7 DEF Take, LookupReceipt, FailCommand, Resolve, Crash, ProcessStep,
       StartBootstrap, BootstrapEvent, StartWorker
  <2> QED
    BY <2>1 DEF DecisionInv
<1> QED
  BY <1>1, <1>2, <1>3, <1>4, <1>5, <1>6, <1>7 DEF Next, WorkerStep

\* All of it holds at first.
LEMMA RunInvInit == Init => RunInv
BY ExecutionInvInit, CurrentInvInit, PublishInvInit, AnswerInvInit, DecisionInvInit, QueueInvInit
   DEF RunInv

\* RunInv is inductive as long as rebuilds fit.
LEMMA RunInvNext == RunInv /\ RebuildFits /\ [Next]_vars => RunInv'
BY ExecutionInvNext, CurrentInvNext, PublishInvNext, AnswerInvNext, DecisionInvNext, QueueInvNext
   DEF RunInv, ExecutionInv

\* RunInv holds as long as rebuilds fit.
LEMMA RunInvariant == Spec /\ []RebuildFits => []RunInv
BY RunInvInit, RunInvNext, PTL DEF Spec

\* The model commands are decided against says what CommandLog's log says.
LEMMA DecisionsAgree ==
  ASSUME CurrentInv, Running, NEW c \in Commands
  PROVE  Decide(c, commandReadModel) <=> Promise!Permitted(c)
BY DEF CurrentInv, UpToDate, Decide, Promise!Permitted, Promise!Executed

\* A commit is the step Execute of the promise.
LEMMA CommitExecutes ==
  ASSUME ExecutionInv, CurrentInv, DecisionInv, Commit
  PROVE  Promise!Execute(command)
<1>1. /\ command \in Commands /\ Running /\ receipts \in [Commands -> Receipts]
      /\ Decide(command, commandReadModel)
      /\ receipts[command].status = "none"
  BY EngineAssumption
     DEF Commit, ExecutionInv, TypeOK, ReceiptInv, DecisionInv, Running, command
<1>2. receipts[command] = Promise!Undecided
  BY <1>1 DEF Receipts, NoReceipt, Promise!Undecided
<1>3. Promise!Permitted(command)
  BY <1>1, DecisionsAgree
<1>4. log' = log \o Promise!EventsOf(command)
  BY DEF Commit, EventsOf, Promise!EventsOf
<1>5. receipts' = [receipts EXCEPT ![command] = Promise!Accepted(Len(log) + EventCount[command])]
  BY DEF Commit, ExecutionInv, TxInv, LastSequence, AcceptedReceipt, Promise!Accepted
<1>6. reply' = reply
  BY DEF Commit
<1> QED
  BY <1>2, <1>3, <1>4, <1>5, <1>6 DEF Promise!Execute

\* A rejected receipt is the step Reject of the promise.
LEMMA RejectionRejects ==
  ASSUME ExecutionInv, CurrentInv, DecisionInv, RecordRejection, receipts' # receipts
  PROVE  Promise!Reject(command)
<1>1. /\ command \in Commands /\ Running /\ receipts \in [Commands -> Receipts]
      /\ error = "invariant"
      /\ receipts[command].status = "none"
  BY EngineAssumption
     DEF RecordRejection, ExecutionInv, TypeOK, PCs, ReceiptInv, Running, command
<1>2. receipts[command] = Promise!Undecided
  BY <1>1 DEF Receipts, NoReceipt, Promise!Undecided
<1>3. ~ Decide(command, commandReadModel)
  BY <1>1 DEF RecordRejection, DecisionInv
<1>4. ~ Promise!Permitted(command)
  BY <1>1, <1>3, DecisionsAgree
<1>5. receipts' = [receipts EXCEPT ![command] = Promise!Rejected(Len(log))]
  BY <1>1 DEF RecordRejection, CurrentInv, UpToDate, RejectedReceipt, Promise!Rejected
<1>6. reply' = reply /\ log' = log
  BY DEF RecordRejection
<1> QED
  BY <1>2, <1>4, <1>5, <1>6 DEF Promise!Reject

\* The worker's answer is an answer CommandLog allows.
LEMMA ResolveAnswers ==
  ASSUME TypeOK, QueueInv, Busy, UNCHANGED <<log, receipts>>, NEW r, Resolve(r),
         \/ r = Ok(receipts[command].sequence) /\ receipts[command].status = "accepted"
         \/ r = Reply("previouslyRejected") /\ receipts[command].status = "rejected"
         \/ r = Reply("invariant") /\ receipts[command].status # "accepted"
         \/ r = Reply("sql")
  PROVE  Promise!Answer(current)
<1> DEFINE told == [k \in Calls |-> Answered(reply[k])]
<1>1. current \in Calls /\ reply[current] = Reply("pending") /\ reply \in [Calls -> Replies]
  BY DEF TypeOK, QueueInv, Busy, PCs
<1>2. told[current] = Promise!Unanswered
  BY <1>1 DEF Answered, Answers, Reply, Promise!Unanswered
<1>3. reply' = [reply EXCEPT ![current] = r]
  BY DEF Resolve
<1>4. Answered(r) = r
  BY DEF Answered, Answers, Reply, Ok
<1>5. told' = [told EXCEPT ![current] = r]
  BY <1>1, <1>3, <1>4 DEF Answered
<1>6. \/ receipts[command].status = "accepted" /\ r = Promise!Success(receipts[command].sequence)
      \/ receipts[command].status = "rejected" /\ r = Promise!Failure("previouslyRejected")
      \/ receipts[command].status # "accepted" /\ r = Promise!Failure("invariant")
      \/ r = Promise!Failure("sql")
  BY DEF Ok, Reply, Promise!Success, Promise!Failure
<1> HIDE DEF told
<1>7. \/ /\ receipts[CommandOf[current]].status = "accepted"
         /\ told' = [told EXCEPT ![current] = Promise!Success(receipts[CommandOf[current]].sequence)]
      \/ /\ receipts[CommandOf[current]].status = "rejected"
         /\ told' = [told EXCEPT ![current] = Promise!Failure("previouslyRejected")]
      \/ /\ receipts[CommandOf[current]].status # "accepted"
         /\ told' = [told EXCEPT ![current] = Promise!Failure("invariant")]
      \/ told' = [told EXCEPT ![current] = Promise!Failure("sql")]
  BY <1>5, <1>6 DEF command
<1> QED
  BY <1>2, <1>7 DEF Promise!Answer, told

\* The engine starts where its promise does.
LEMMA PromiseInit == Init => Promise!Init
BY DEF Init, NoReceipt, Reply, Answered, Answers, Promise!Init, Promise!Undecided, Promise!Unanswered

\* What the worker answers, and when it answers nothing.
LEMMA AnsweringStep ==
  ASSUME RunInv, LookupReceipt \/ FinishPublishing \/ FailCommand
  PROVE  Promise!Answer(current) \/ UNCHANGED <<log, receipts, reply>>
<1>1. /\ TypeOK /\ QueueInv /\ Busy /\ UNCHANGED <<log, receipts>>
      /\ command \in Commands /\ receipts \in [Commands -> Receipts]
  BY EngineAssumption DEF RunInv, ExecutionInv, LookupReceipt, FinishPublishing, FailCommand,
     Busy, TypeOK, PCs, command, durable
<1>2. CASE LookupReceipt
  BY <1>1, <1>2, ResolveAnswers DEF LookupReceipt, ExistingReceipt
<1>3. CASE FinishPublishing
  <2>1. error = "none" => receipts[command].status = "accepted"
    BY <1>3 DEF FinishPublishing, RunInv, ExecutionInv, ReceiptInv
  <2> QED
    BY <1>1, <1>3, <2>1, ResolveAnswers DEF FinishPublishing
<1>4. CASE FailCommand
  <2>1. error \in {"sql", "invariant"} /\ Resolve(Reply(error))
    BY <1>1, <1>4 DEF FailCommand, TypeOK
  <2>2. error = "invariant" => receipts[command].status # "accepted"
    BY <1>4 DEF FailCommand, RunInv, DecisionInv
  <2> QED
    BY <1>1, <2>1, <2>2, ResolveAnswers
<1> QED
  BY <1>2, <1>3, <1>4

\* Each step of the engine is one of its promise or changes nothing of it.
LEMMA PromiseNext == RunInv /\ [Next]_vars => [Promise!Next]_(Promise!vars)
<1> SUFFICES ASSUME RunInv, [Next]_vars PROVE [Promise!Next]_(Promise!vars)
  OBVIOUS
<1>1. ASSUME UNCHANGED <<log, receipts, reply>>
      PROVE  UNCHANGED Promise!vars
  BY <1>1 DEF Promise!vars, Answered
<1>2. CASE Commit
  <2>1. command \in Commands
    BY <1>2, EngineAssumption DEF Commit, RunInv, ExecutionInv, TypeOK, command
  <2> QED
    BY <1>2, <2>1, CommitExecutes DEF RunInv, Promise!Next
<1>3. CASE RecordRejection
  <2>1. command \in Commands
    BY <1>3, EngineAssumption DEF RecordRejection, RunInv, ExecutionInv, TypeOK, PCs, command
  <2>2. receipts' = receipts => UNCHANGED <<log, receipts, reply>>
    BY <1>3 DEF RecordRejection
  <2> QED
    BY <1>1, <1>3, <2>1, <2>2, RejectionRejects DEF RunInv, Promise!Next
<1>4. CASE LookupReceipt \/ FinishPublishing \/ FailCommand
  <2>1. current \in Calls
    BY <1>4 DEF LookupReceipt, FinishPublishing, FailCommand, RunInv, ExecutionInv, TypeOK, PCs
  <2> QED
    BY <1>1, <1>4, <2>1, AnsweringStep DEF Promise!Next
<1>5. CASE (\E k \in Calls : Dispatch(k)) \/ Crash
  <2>1. UNCHANGED <<log, receipts>>
    BY <1>5 DEF Dispatch, Crash, durable
  <2>2. \A k \in Calls : Answered(reply'[k]) = Answered(reply[k])
    <3>1. reply \in [Calls -> Replies]
      BY DEF RunInv, ExecutionInv, TypeOK
    <3>2. CASE Crash
      BY <3>2 DEF Crash, Answered, Answers, Reply
    <3>3. CASE \E k \in Calls : Dispatch(k)
      BY <3>1, <3>3 DEF Dispatch, Answered, Answers, Reply
    <3> QED
      BY <1>5, <3>2, <3>3
  <2> QED
    BY <2>1, <2>2 DEF Promise!vars
<1>6. CASE Take \/ DecideCommand \/ AppendEvent \/ WriteReceipt \/ Publish \/ SqlError \/ Reconcile
           \/ ReconcileFails \/ DropProjections \/ ProcessStep \/ UNCHANGED vars
  <2>1. UNCHANGED <<log, receipts, reply>>
    BY <1>6 DEF Take, DecideCommand, AppendEvent, WriteReceipt, Publish, SqlError, Reconcile,
       ReconcileFails, DropProjections, ProcessStep, StartBootstrap, BootstrapEvent,
       StartWorker, vars, durable
  <2> QED
    BY <1>1, <2>1
<1> QED
  BY <1>2, <1>3, <1>4, <1>5, <1>6 DEF Next, WorkerStep

\* Where no rebuild is cut off, every behaviour of the engine is a behaviour of
\* CommandLog: commands are decided once, against everything decided before
\* them, executed as a whole or not at all, and answered with what was decided.
THEOREM EngineImplementsPromise == Spec /\ []RebuildFits => ImplementsPromise
<1>1. Spec /\ []RebuildFits => Promise!Init
  BY PromiseInit DEF Spec
<1>2. Spec /\ []RebuildFits => [][Promise!Next]_(Promise!vars)
  BY RunInvariant, PromiseNext, PTL DEF Spec
<1> QED
  BY <1>1, <1>2, PTL DEF ImplementsPromise, Promise!Spec

===============================================================================
