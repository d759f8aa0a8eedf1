--------------------------- MODULE CoalescingMailbox ---------------------------
(***************************************************************************)
(* What KeyedCoalescingWorker promises those who use it: the values put     *)
(* under a key are handed to the key's process in the order they were put,  *)
(* each once, all that wait together as one merged value; a key has one     *)
(* process at a time; and who drains a key is answered when nothing of it   *)
(* waits or is in process.                                                  *)
(***************************************************************************)
EXTENDS Naturals

CONSTANTS Keys, MaxValues  \* the keys; bound: values put under a key

VARIABLES
  sent,     \* how many values have been put under a key
  handed,   \* how many of them have been handed to a process
  busy,     \* the keys whose process runs
  draining  \* the keys somebody drains

vars == <<sent, handed, busy, draining>>

Put(k) ==
  /\ sent[k] < MaxValues
  /\ sent' = [sent EXCEPT ![k] = @ + 1]
  /\ UNCHANGED <<handed, busy, draining>>

\* All that waits is handed over, to a new process or as the next of the last.
Hand(k) ==
  /\ handed[k] < sent[k]
  /\ handed' = [handed EXCEPT ![k] = sent[k]]
  /\ busy' = busy \cup {k}
  /\ UNCHANGED <<sent, draining>>

Finish(k) ==
  /\ k \in busy
  /\ busy' = busy \ {k}
  /\ UNCHANGED <<sent, handed, draining>>

Drain(k) ==
  /\ draining' = draining \cup {k}
  /\ UNCHANGED <<sent, handed, busy>>

Drained(k) ==
  /\ k \in draining
  /\ handed[k] = sent[k] /\ k \notin busy
  /\ draining' = draining \ {k}
  /\ UNCHANGED <<sent, handed, busy>>

Init ==
  /\ sent = [k \in Keys |-> 0]
  /\ handed = [k \in Keys |-> 0]
  /\ busy = {}
  /\ draining = {}

Next == \E k \in Keys : Put(k) \/ Hand(k) \/ Finish(k) \/ Drain(k) \/ Drained(k)

Spec == Init /\ [][Next]_vars

===============================================================================
