---------------------------- MODULE SavepointStack ----------------------------
(***************************************************************************)
(* What a connection is promised about one table and its savepoints: a      *)
(* savepoint keeps the table as it is, ROLLBACK TO brings exactly that back  *)
(* and keeps the savepoint, RELEASE forgets it with those inside it, and     *)
(* ROLLBACK brings back what was committed.                                 *)
(***************************************************************************)
EXTENDS Naturals, Sequences

CONSTANTS Keys, Rows, NoTable

VARIABLES
  content,    \* the table as the connection reads it
  saved,      \* the table as it was at each open savepoint
  committed   \* the table as the last commit left it

svars == <<content, saved, committed>>

Tables  == UNION {[K -> Rows] : K \in SUBSET Keys}
NoRows  == [k \in {} |-> k]

TypeOK ==
  /\ content \in Tables \cup {NoTable}
  /\ saved \in Seq(Tables \cup {NoTable})
  /\ committed \in Tables \cup {NoTable}

Init == content = NoRows /\ saved = <<>> /\ committed = NoRows

Exists     == content # NoTable
Changes(t) == content' = t /\ UNCHANGED <<saved, committed>>

Put(k, r) == Exists /\ Changes([j \in DOMAIN content \cup {k} |-> IF j = k THEN r ELSE content[j]])
Remove(k) == Exists /\ k \in DOMAIN content /\ Changes([j \in DOMAIN content \ {k} |-> content[j]])
Empty     == Exists /\ Changes(NoRows)
Drop      == Exists /\ Changes(NoTable)

Mark       == saved' = Append(saved, content) /\ UNCHANGED <<content, committed>>
Release(i) == saved' = SubSeq(saved, 1, i - 1) /\ UNCHANGED <<content, committed>>

RollbackTo(i) ==
  content' = saved[i] /\ saved' = SubSeq(saved, 1, i) /\ UNCHANGED committed

\* What a failed statement does to the savepoint of its own.
Abort ==
  /\ content' = saved[Len(saved)] /\ saved' = SubSeq(saved, 1, Len(saved) - 1)
  /\ UNCHANGED committed

Commit   == committed' = content /\ saved' = <<>> /\ UNCHANGED content
Restart  == content' = committed /\ saved' = <<>> /\ UNCHANGED committed

Next ==
  \/ \E k \in Keys : Remove(k) \/ \E r \in Rows : Put(k, r)
  \/ Empty \/ Drop \/ Mark
  \/ \E i \in DOMAIN saved : Release(i) \/ RollbackTo(i)
  \/ saved # <<>> /\ Abort
  \/ Commit \/ Restart

Spec == Init /\ [][Next]_svars
===============================================================================
