------------------------- MODULE KeyedCoalescingWorker -------------------------
(***************************************************************************)
(* src/packages/shared/src/KeyedCoalescingWorker.ts: a worker fiber that    *)
(* keeps only one, merged, value per key.  TerminalManager persists the     *)
(* history of its terminals with it.  The queue of keys and the state are   *)
(* transactional, each Effect.tx is one step, and the fiber's take, its     *)
(* look at the state and its offer after a failure are transactions of      *)
(* their own.                                                               *)
(*                                                                          *)
(* The n-th value enqueued under a key is the number n and merge is         *)
(* concatenation, of which every merge function is an image.                *)
(***************************************************************************)
EXTENDS Naturals, Sequences

CONSTANTS
  Keys, NoKey,
  MaxValues  \* bound: values enqueued under a key

ASSUME WorkerAssumption == NoKey \notin Keys

VARIABLES
  queue,    \* keys offered to the fiber
  latest,   \* latestByKey, <<>> for none
  queued,   \* queuedKeys
  active,   \* activeKeys
  pc,       \* the fiber: "take", "taken", "process" or "requeue"
  current,  \* its key
  sent,     \* values enqueued under a key
  handed,   \* values handed to options.process
  draining  \* keys for which drainKey has been called and has not returned

state  == <<latest, queued, active>>
fiber  == <<pc, current>>
vars   == <<queue, state, fiber, sent, handed, draining>>

-------------------------------------------------------------------------------
(* Callers                                                                  *)

\* A bug: a key that is already queued is offered again.
ActiveOnly == active

Scheduled == queued \cup active

\* enqueue: merge, and offer the key unless the fiber will come to it anyway.
Enqueue(k) ==
  /\ sent[k] < MaxValues
  /\ sent' = [sent EXCEPT ![k] = @ + 1]
  /\ latest' = [latest EXCEPT ![k] = Append(@, sent[k] + 1)]
  /\ IF k \in Scheduled
     THEN UNCHANGED <<queue, queued>>
     ELSE queued' = queued \cup {k} /\ queue' = Append(queue, k)
  /\ UNCHANGED <<active, fiber, handed, draining>>

DrainKey(k) ==
  /\ k \notin draining
  /\ draining' = draining \cup {k}
  /\ UNCHANGED <<queue, state, fiber, sent, handed>>

\* A bug: a value that is being processed does not count.
NothingQueued(k) == latest[k] = <<>> /\ k \notin queued

Drained(k) == latest[k] = <<>> /\ k \notin queued /\ k \notin active

\* The transaction of drainKey is retried until it finds the key drained.
DrainReturns(k) ==
  /\ k \in draining
  /\ Drained(k)
  /\ draining' = draining \ {k}
  /\ UNCHANGED <<queue, state, fiber, sent, handed>>

-------------------------------------------------------------------------------
(* The fiber                                                                *)

Take ==
  /\ pc = "take"
  /\ queue # <<>>
  /\ current' = Head(queue)
  /\ queue' = Tail(queue)
  /\ pc' = "taken"
  /\ UNCHANGED <<state, sent, handed, draining>>

\* A bug: the value that is handed over stays in latestByKey.
KeepLatest(k) == latest

RemoveLatest(k) == [latest EXCEPT ![k] = <<>>]

\* What waits under the fiber's key is handed to the process.
HandOver ==
  /\ handed' = [handed EXCEPT ![current] = @ \o latest[current]]
  /\ latest' = RemoveLatest(current)
  /\ active' = active \cup {current}
  /\ pc' = "process"
  /\ UNCHANGED current

GoOn == pc' = "take" /\ current' = NoKey

\* A bug: a key stays active when its process has ended.
StillActive == active

Released == active \ {current}

\* The transaction after take.
Start ==
  /\ pc = "taken"
  /\ queued' = queued \ {current}
  /\ IF latest[current] = <<>>
     THEN GoOn /\ UNCHANGED <<latest, active, handed>>
     ELSE HandOver
  /\ UNCHANGED <<queue, sent, draining>>

\* processKey after options.process succeeded: on with what has come meanwhile.
ProcessSucceeds ==
  /\ pc = "process"
  /\ IF latest[current] = <<>>
     THEN /\ GoOn
          /\ active' = Released
          /\ UNCHANGED <<latest, handed>>
     ELSE HandOver
  /\ UNCHANGED <<queue, queued, sent, draining>>

\* A bug: what came meanwhile is forgotten after a failure.
NeverRequeue(k) == FALSE

ShouldRequeue(k) == latest[k] # <<>> /\ k \notin queued

\* cleanupFailedKey: the key is queued again if a value has come meanwhile.
ProcessFails ==
  /\ pc = "process"
  /\ active' = Released
  /\ IF ShouldRequeue(current)
     THEN queued' = queued \cup {current} /\ pc' = "requeue" /\ UNCHANGED current
     ELSE GoOn /\ UNCHANGED queued
  /\ UNCHANGED <<queue, latest, sent, handed, draining>>

Requeue ==
  /\ pc = "requeue"
  /\ queue' = Append(queue, current)
  /\ GoOn
  /\ UNCHANGED <<state, sent, handed, draining>>

Fiber == Take \/ Start \/ ProcessSucceeds \/ ProcessFails \/ Requeue

Init ==
  /\ queue = <<>>
  /\ latest = [k \in Keys |-> <<>>]
  /\ queued = {}
  /\ active = {}
  /\ pc = "take"
  /\ current = NoKey
  /\ sent = [k \in Keys |-> 0]
  /\ handed = [k \in Keys |-> <<>>]
  /\ draining = {}

Next ==
  \/ Take \/ Start \/ ProcessSucceeds \/ ProcessFails \/ Requeue
  \/ \E k \in Keys : Enqueue(k) \/ DrainKey(k) \/ DrainReturns(k)

Spec == Init /\ [][Next]_vars

\* The fiber runs in the scope of its owner, options.process ends, and a retried
\* transaction runs again when what it read has changed.
FairSpec == Spec /\ WF_vars(Fiber) /\ \A k \in Keys : WF_vars(DrainReturns(k))

-------------------------------------------------------------------------------
(* Properties                                                               *)

TypeOK ==
  /\ queue \in Seq(Keys)
  /\ \A i, j \in DOMAIN queue : queue[i] = queue[j] => i = j
  /\ latest \in [Keys -> Seq(Nat)]
  /\ queued \subseteq Keys /\ active \subseteq Keys
  /\ pc \in {"take", "taken", "process", "requeue"}
  /\ current \in Keys \cup {NoKey}
  /\ pc = "take" \/ current \in Keys
  /\ sent \in [Keys -> Nat]
  /\ handed \in [Keys -> Seq(Nat)]
  /\ draining \subseteq Keys

\* Every value is handed to a process once and in order, or still waits: merging,
\* failures and requeues neither lose, repeat nor reorder one.
EachValueOnce == \A k \in Keys : handed[k] \o latest[k] = [n \in 1..sent[k] |-> n]

\* The fiber holds the key between two transactions, or it is in the queue.
Holds(k)    == pc \in {"taken", "requeue"} /\ current = k
InQueue(k)  == \E i \in DOMAIN queue : queue[i] = k

\* A value that waits is never stranded: its key is marked queued or active, what
\* is marked queued is in the queue or in the fiber's hands, and what is marked
\* active has its process running, after which the fiber looks at the key again.
NothingStranded ==
  \A k \in Keys :
    /\ latest[k] # <<>> => k \in queued \cup active
    /\ k \in queued => InQueue(k) \/ Holds(k)
    /\ k \in active => pc = "process" /\ current = k

\* The worker keeps the promise of the mailbox; in particular drainKey returns
\* only when every value enqueued so far has been processed.
Mailbox == INSTANCE CoalescingMailbox WITH
  handed <- [k \in Keys |-> Len(handed[k])],
  busy   <- {k \in Keys : pc = "process" /\ current = k}

ImplementsMailbox == Mailbox!Spec

\* A drainKey returns when the values under every key have ended.
DrainsReturn == \A k \in Keys : k \in draining ~> k \notin draining

===============================================================================
