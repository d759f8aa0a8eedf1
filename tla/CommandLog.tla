------------------------------ MODULE CommandLog ------------------------------
(***************************************************************************)
(* What OrchestrationEngineService promises its callers, without its       *)
(* queue, its transactions, its caches or its restarts                     *)
(* (src/apps/server/src/orchestration/Services/OrchestrationEngine.ts): a   *)
(* command is decided once, against everything decided before it, and is   *)
(* either executed - all its events are appended to the log, together -    *)
(* or rejected for good; an answer reports a decision that was made.       *)
(***************************************************************************)
EXTENDS Integers, Sequences

CONSTANTS
  Commands,    \* command identities (CommandId)
  Calls,       \* calls of dispatch; two calls of one command are a retry
  CommandOf,   \* the command a call carries
  EventCount,  \* how many events the decider emits for a command
  Requires,    \* commands that must have been executed before this one
  Excludes     \* commands that must not have been executed before this one

VARIABLES
  log,         \* the event log: who caused the event, and which part of it
  decision,    \* what was decided about a command
  answer       \* what a call was told

vars == <<log, decision, answer>>

Undecided   == [status |-> "none", sequence |-> 0]
Accepted(n) == [status |-> "accepted", sequence |-> n]
Rejected(n) == [status |-> "rejected", sequence |-> n]

Unanswered  == [kind |-> "none", sequence |-> 0]
Failure(e)  == [kind |-> e, sequence |-> 0]
Success(n)  == [kind |-> "ok", sequence |-> n]

EventsOf(c) == [i \in 1..EventCount[c] |-> [command |-> c, part |-> i]]

Executed == {log[i].command : i \in 1..Len(log)}

Permitted(c) ==
  /\ Requires[c] \subseteq Executed
  /\ Excludes[c] \cap Executed = {}

-------------------------------------------------------------------------------

Init ==
  /\ log = <<>>
  /\ decision = [c \in Commands |-> Undecided]
  /\ answer = [k \in Calls |-> Unanswered]

\* All the events of c become part of the log in one step.
Execute(c) ==
  /\ decision[c] = Undecided
  /\ Permitted(c)
  /\ log' = log \o EventsOf(c)
  /\ decision' = [decision EXCEPT ![c] = Accepted(Len(log) + EventCount[c])]
  /\ UNCHANGED answer

Reject(c) ==
  /\ decision[c] = Undecided
  /\ ~ Permitted(c)
  /\ decision' = [decision EXCEPT ![c] = Rejected(Len(log))]
  /\ UNCHANGED <<log, answer>>

\* A success quotes the decision; a call told "previouslyRejected" names a
\* command rejected for good, one told "invariant" a command not executed; a
\* storage failure says nothing about what was decided.
Answer(k) ==
  /\ answer[k] = Unanswered
  /\ \/ /\ decision[CommandOf[k]].status = "accepted"
        /\ answer' = [answer EXCEPT ![k] = Success(decision[CommandOf[k]].sequence)]
     \/ /\ decision[CommandOf[k]].status = "rejected"
        /\ answer' = [answer EXCEPT ![k] = Failure("previouslyRejected")]
     \/ /\ decision[CommandOf[k]].status # "accepted"
        /\ answer' = [answer EXCEPT ![k] = Failure("invariant")]
     \/ answer' = [answer EXCEPT ![k] = Failure("sql")]
  /\ UNCHANGED <<log, decision>>

Next ==
  \/ \E c \in Commands : Execute(c) \/ Reject(c)
  \/ \E k \in Calls : Answer(k)

Spec == Init /\ [][Next]_vars

===============================================================================
