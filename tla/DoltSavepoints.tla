---------------------------- MODULE DoltSavepoints ----------------------------
(***************************************************************************)
(* packages/doltlite: one table of one connection and the savepoints of its  *)
(* transactions (prolly_btree.c), whose changes wait in a map of edits with  *)
(* an undo log (prolly_mutmap.c) until they are flushed into the tree.       *)
(*                                                                          *)
(* An edit remembers the savepoint level it was born at.  ROLLBACK TO       *)
(* restores edits from the undo log and drops those born inside; RELEASE    *)
(* relabels them.  A savepoint is pushed only by the first write after it,  *)
(* a flush moves the map into the innermost savepoint pushed, and releasing *)
(* the outermost level moves a base instead of relabelling.                 *)
(*                                                                          *)
(* A transaction begins with its first call.  Other tables, creating tables *)
(* and failures of the store are left out.                                  *)
(***************************************************************************)
EXTENDS Naturals, Sequences, FiniteSetsExt

CONSTANTS
  Keys, Rows,
  NoRow,      \* the row of an edit that deletes
  NoTable,    \* the tree of a table that was dropped
  Avoided,    \* call sequences the client keeps away from, see below
  MaxDepth,   \* bound: savepoints open together, that of a statement included
  MaxUndo,    \* bound: undo records of a map
  MaxBase     \* bound: releases of the outermost level while a map lasts

\* late:    rolling back to, or emptying the table under, a savepoint without a write
\* nested:  releasing the outermost savepoint with another one inside it
\* cleared: emptying a table that has edits
\* dropped: dropping a table that has edits
\* kept:    committing inside a savepoint
Hazards == {"late", "nested", "cleared", "dropped", "kept"}

ASSUME SavepointAssumption ==
  /\ NoRow \notin Rows /\ \A K \in SUBSET Keys : NoTable \notin [K -> Rows]
  /\ Avoided \subseteq Hazards
  /\ MaxDepth \in Nat /\ MaxUndo \in Nat /\ MaxBase \in Nat

VARIABLES
  tree,       \* pTE->root: the rows in the tree, or NoTable
  pending,    \* pTE->pPending: the map of edits, or NoMap
  pushed,     \* aSavepointTables: trees, and maps that were flushed inside
  open,       \* db->nSavepoint: SAVEPOINTs of the client
  stmt,       \* db->nStatement: a statement that can fail is under way
  writing,    \* inTrans is TRANS_WRITE
  committed,  \* the tree of committedCatalogHash
  content, saved, durable   \* what the client was promised: see SavepointStack

promised == <<content, saved, durable>>
vars     == <<tree, pending, pushed, open, stmt, writing, committed, promised>>

\* Every call takes the step it is promised to be along with its own.
Stack == INSTANCE SavepointStack WITH committed <- durable

Tables == UNION {[K -> Rows] : K \in SUBSET Keys}
NoRows == [k \in {} |-> k]

-------------------------------------------------------------------------------
(* The map of edits                                                         *)

EmptyMap(level) == [made |-> TRUE, edits |-> NoRows, undo |-> <<>>, level |-> level, base |-> 0]
NoMap           == [EmptyMap(0) EXCEPT !.made = FALSE]

HasEdits(m) == DOMAIN m.edits # {}

\* encodeLevel and decodeLevel.
Encode(m, level) == IF level = 0 THEN 0 ELSE level + m.base
Decode(m, born)  == IF born <= m.base THEN 0 ELSE born - m.base

Level(m, k) == Decode(m, m.edits[k].born)

\* appendUndoRec, for an edit that is older than the level.
Undo(m, k) ==
  IF m.level > 0 /\ Level(m, k) < m.level
  THEN Append(m.undo, [level |-> m.level, key |-> k, born |-> Level(m, k), row |-> m.edits[k].row])
  ELSE m.undo

\* prollyMutMapInsert, and prollyMutMapDelete with NoRow.
Edited(m, k, row) ==
  IF k \in DOMAIN m.edits /\ row = NoRow /\ m.edits[k].row = NoRow THEN m
  ELSE [m EXCEPT !.undo = IF k \in DOMAIN m.edits THEN Undo(m, k) ELSE @,
                 !.edits = [j \in DOMAIN @ \cup {k} |->
                              IF j = k THEN [row |-> row, born |-> Encode(m, m.level)] ELSE @[j]]]

\* The undo records that stay when the level is rolled back.
Older(m, level) == Max({0} \cup {n \in DOMAIN m.undo : m.undo[n].level < level})

\* An edit after the newer undo records: as the oldest of them has it.
Undone(m, k, level) ==
  LET N == {n \in Older(m, level) + 1 .. Len(m.undo) : m.undo[n].key = k}
      u == m.undo[Min(N)]
  IN  IF N = {} THEN m.edits[k] ELSE [row |-> u.row, born |-> Encode(m, u.born)]

\* prollyMutMapRollbackToSavepoint: first the undo records, then the edits born inside.
RolledBack(m, level) ==
  LET K == {k \in DOMAIN m.edits : Decode(m, Undone(m, k, level).born) < level}
  IN  IF m = NoMap THEN m ELSE
      [m EXCEPT !.edits = [k \in K |-> Undone(m, k, level)],
                !.undo  = SubSeq(@, 1, Older(m, level)),
                !.level = level - 1]

\* A level when the levels from the given one on are released.
Lower(l, level) == IF l >= level THEN level - 1 ELSE l

\* A bug: the outermost level is released as any other, so records stay with level 0.
ReleasedAlike(m, level) ==
  IF m = NoMap THEN m
  ELSE [m EXCEPT
          !.undo  = [n \in DOMAIN m.undo |-> [m.undo[n] EXCEPT !.level = Lower(m.undo[n].level, level)]],
          !.edits = [k \in DOMAIN m.edits |->
                       IF Level(m, k) < level THEN m.edits[k]
                       ELSE [m.edits[k] EXCEPT !.born = Encode(m, level - 1)]],
          !.level = level - 1]

\* prollyMutMapReleaseSavepoint.  The base is of no use to a map without edits.
Released(m, level) ==
  IF m = NoMap THEN m
  ELSE IF level = 1
  THEN [m EXCEPT !.undo = <<>>, !.base = IF HasEdits(m) THEN @ + 1 ELSE 0, !.level = 0]
  ELSE [m EXCEPT
          !.undo  = [n \in DOMAIN m.undo |-> [m.undo[n] EXCEPT !.level = Lower(m.undo[n].level, level)]],
          !.edits = [k \in DOMAIN m.edits |->
                       IF Level(m, k) < level THEN m.edits[k]
                       ELSE [m.edits[k] EXCEPT !.born = Encode(m, level - 1)]],
          !.level = level - 1]

\* A bug: the level is reset with the rest.
ClearedAll(m) == EmptyMap(0)

\* prollyMutMapClear.
Cleared(m) == EmptyMap(m.level)

\* The table as it is read: the tree with the edits over it.
Merged(t, m) ==
  IF t = NoTable THEN t
  ELSE LET K == {k \in Keys : IF k \in DOMAIN m.edits THEN m.edits[k].row # NoRow ELSE k \in DOMAIN t}
       IN  [k \in K |-> IF k \in DOMAIN m.edits THEN m.edits[k].row ELSE t[k]]

-------------------------------------------------------------------------------
(* The stack of savepoints                                                  *)

Content == Merged(tree, pending)
Depth   == open + (IF stmt THEN 1 ELSE 0)

\* syncSavepoints: pushSavepoint up to a depth.
PushedTo(n) ==
  [i \in 1 .. Max({n, Len(pushed)}) |->
     IF i <= Len(pushed) THEN pushed[i] ELSE [tree |-> tree, flushed |-> NoMap]]

\* pushSavepointOnMutMaps.
PendingAt(n) ==
  IF pending = NoMap \/ n <= Len(pushed) THEN pending ELSE [pending EXCEPT !.level = n]

\* ensureMutMap.
EnsuredAt(n) == IF pending = NoMap THEN EmptyMap(Max({n, Len(pushed)})) ELSE PendingAt(n)

\* snapshotPendingForFlush and applyMutMapToTableRoot: the innermost savepoint takes
\* the map if it has none; else it is cleared in place, or freed if no cursor needs it.
Flushes ==
  LET n == Len(pushed)
      Left(m) == [tree |-> Content, pending |-> m, pushed |-> pushed]
  IN  IF ~HasEdits(pending) THEN {Left(pending)}
      ELSE IF n > 0 /\ pushed[n].flushed = NoMap
           THEN {[Left(EmptyMap(pending.level)) EXCEPT !.pushed[n].flushed = pending]}
           ELSE {Left(Cleared(pending)), Left(NoMap)}

\* The savepoints from the i-th on that took a map.
Took(i) == {j \in i .. Len(pushed) : pushed[j].flushed # NoMap}

\* rollbackMutMapsToSavepoint: the oldest map that was flushed inside, or the one there is.
Reverted(i) ==
  IF tree = NoTable THEN NoMap
  ELSE RolledBack(IF Took(i) = {} THEN pending ELSE pushed[Min(Took(i))].flushed, i)

\* A bug: the savepoint released takes the map it was flushed with along.
NotInherited(i) == SubSeq(pushed, 1, i - 1)

\* inheritPendingSnapshots.
Inherited(i) ==
  [j \in 1 .. i - 1 |->
     IF j = i - 1 /\ Took(j) # {} THEN [pushed[j] EXCEPT !.flushed = pushed[Min(Took(j))].flushed]
     ELSE pushed[j]]

\* releaseSavepointsFrom.
ReleaseFrom(i) ==
  IF i > Len(pushed) THEN UNCHANGED <<pending, pushed>>
  ELSE /\ pending' = Released(pending, i) /\ pending'.base <= MaxBase
       /\ pushed' = Inherited(i)

\* rollbackNamedSavepoint.
RollbackNamed(i) ==
  tree' = pushed[i].tree /\ pending' = Reverted(i) /\ pushed' = SubSeq(pushed, 1, i - 1)

\* rollbackCommittedState.
RollbackCommitted == tree' = committed /\ pending' = NoMap

Init ==
  /\ tree = NoRows /\ committed = NoRows /\ pending = NoMap
  /\ pushed = <<>> /\ open = 0 /\ stmt = FALSE /\ writing = FALSE
  /\ Stack!Init

-------------------------------------------------------------------------------
(* Statements                                                               *)

\* prollyBtCursorInsert and prollyBtCursorDelete.
Edit(k, row) ==
  /\ tree # NoTable
  /\ pushed' = PushedTo(Depth)
  /\ pending' = Edited(EnsuredAt(Depth), k, row)
  /\ Len(pending'.undo) <= MaxUndo
  /\ writing' = TRUE
  /\ UNCHANGED <<tree, open, stmt, committed>>

Write(k, row) == Edit(k, row) /\ Stack!Put(k, row)
Delete(k)     == tree # NoTable /\ k \in DOMAIN Content /\ Edit(k, NoRow) /\ Stack!Remove(k)

\* prollyBtreeClearTable: only a transaction that begins pushes savepoints.
ClearTable ==
  /\ tree # NoTable /\ ~stmt
  /\ "cleared" \in Avoided => ~HasEdits(pending)
  /\ "late" \in Avoided => ~writing \/ Len(pushed) >= open
  /\ IF writing THEN UNCHANGED <<pending, pushed>>
     ELSE pushed' = PushedTo(open) /\ pending' = PendingAt(open)
  /\ tree' = NoRows /\ writing' = TRUE
  /\ Stack!Empty
  /\ UNCHANGED <<open, stmt, committed>>

\* prollyBtreeDropTable, after the delete from the schema table has pushed.
DropTable ==
  /\ tree # NoTable /\ ~stmt
  /\ "dropped" \in Avoided =>
       ~HasEdits(pending) /\ Took(1) = {}
  /\ pushed' = PushedTo(open)
  /\ tree' = NoTable /\ pending' = NoMap /\ writing' = TRUE
  /\ Stack!Drop
  /\ UNCHANGED <<open, stmt, committed>>

\* prollyBtCursorCount, a map of 65536 edits, and the dolt functions.
Flush ==
  /\ HasEdits(pending)
  /\ \E f \in Flushes : tree' = f.tree /\ pending' = f.pending /\ pushed' = f.pushed
  /\ UNCHANGED <<open, stmt, writing, committed, promised>>

\* prollyBtreeBeginStmt, and what vdbeCloseStatement calls.
BeginStmt ==
  /\ ~stmt /\ Depth < MaxDepth /\ stmt' = TRUE
  /\ pushed' = PushedTo(open + 1) /\ pending' = PendingAt(open + 1) /\ writing' = TRUE
  /\ Stack!Mark
  /\ UNCHANGED <<tree, open, committed>>

EndStmt ==
  /\ stmt /\ stmt' = FALSE
  /\ ReleaseFrom(open + 1)
  /\ Stack!Release(open + 1)
  /\ UNCHANGED <<tree, open, writing, committed>>

AbortStmt ==
  /\ stmt /\ stmt' = FALSE
  /\ RollbackNamed(open + 1)
  /\ Stack!Abort
  /\ UNCHANGED <<open, writing, committed>>

-------------------------------------------------------------------------------
(* Savepoints and transactions                                              *)

\* OP_Savepoint: the tree hears nothing of it.
Savepoint ==
  /\ ~stmt /\ Depth < MaxDepth /\ open' = open + 1
  /\ Stack!Mark
  /\ UNCHANGED <<tree, pending, pushed, stmt, writing, committed>>

Release(i) ==
  /\ ~stmt /\ i \in 1 .. open
  /\ "nested" \in Avoided => i > 1 \/ Len(pushed) <= 1
  /\ open' = i - 1
  /\ ReleaseFrom(i)
  /\ Stack!Release(i)
  /\ UNCHANGED <<tree, stmt, writing, committed>>

\* prollyBtreeSavepoint.
RollbackTo(i) ==
  /\ ~stmt /\ i \in 1 .. open
  /\ "late" \in Avoided => ~writing \/ i <= Len(pushed)
  /\ open' = i
  /\ \/ ~writing /\ UNCHANGED <<tree, pending, pushed>>
     \/ writing /\ i <= Len(pushed) /\ RollbackNamed(i)
     \/ writing /\ i > Len(pushed) /\ RollbackCommitted /\ UNCHANGED pushed
  /\ Stack!RollbackTo(i)
  /\ UNCHANGED <<stmt, writing, committed>>

\* rollbackAllSavepoints, for the savepoint that began the transaction.
RollbackToStart ==
  /\ ~stmt /\ open' = 0
  /\ pushed' = <<>>
  /\ IF writing THEN RollbackCommitted ELSE UNCHANGED <<tree, pending>>
  /\ Stack!Restart
  /\ UNCHANGED <<stmt, writing, committed>>

\* prollyBtreeCommitPhaseTwo.  A statement is only open if it is the transaction.
Commit ==
  /\ stmt => open = 0
  /\ \E f \in IF writing THEN Flushes ELSE {[tree |-> tree, pending |-> pending]} :
       /\ "kept" \in Avoided => f.pending.level = 0
       /\ tree' = f.tree /\ committed' = f.tree /\ pending' = f.pending
  /\ pushed' = <<>> /\ open' = 0 /\ stmt' = FALSE /\ writing' = FALSE
  /\ Stack!Commit

\* prollyBtreeRollback.
Rollback ==
  /\ pushed' = <<>> /\ open' = 0 /\ stmt' = FALSE /\ writing' = FALSE
  /\ IF writing THEN RollbackCommitted ELSE UNCHANGED <<tree, pending>>
  /\ Stack!Restart
  /\ UNCHANGED committed

Next ==
  \/ \E k \in Keys : Delete(k) \/ \E r \in Rows : Write(k, r)
  \/ ClearTable \/ DropTable \/ Flush
  \/ BeginStmt \/ EndStmt \/ AbortStmt
  \/ Savepoint \/ RollbackToStart \/ Commit \/ Rollback
  \/ \E i \in 1 .. MaxDepth : Release(i) \/ RollbackTo(i)

Spec == Init /\ [][Next]_vars

-------------------------------------------------------------------------------
(* Properties                                                               *)

Edits == [row : Rows \cup {NoRow}, born : Nat]
Undos == [level : Nat \ {0}, key : Keys, born : Nat, row : Rows \cup {NoRow}]

IsMap(m) ==
  /\ m \in [edits : {m.edits}, undo : Seq(Undos), level : Nat, base : Nat,
           made : BOOLEAN]
  /\ DOMAIN m.edits \subseteq Keys /\ m.edits \in [DOMAIN m.edits -> Edits]

\* Types.
TypeOK ==
  /\ tree \in Tables \cup {NoTable} /\ committed \in Tables \cup {NoTable}
  /\ IsMap(pending)
  /\ DOMAIN pushed = 1 .. Len(pushed)
  /\ \A i \in DOMAIN pushed :
       pushed[i] \in [tree : Tables \cup {NoTable}, flushed : {pushed[i].flushed}] /\ IsMap(pushed[i].flushed)
  /\ open \in 0 .. MaxDepth /\ stmt \in BOOLEAN /\ writing \in BOOLEAN

\* An undo log that rolling back can trust: its levels rise up to that of the map, and the
\* edit a record would restore is there, and no older than the record.
LogFits(m) ==
  /\ \A n \in DOMAIN m.undo :
       /\ m.undo[n].level <= m.level
       /\ m.undo[n].key \in DOMAIN m.edits
       /\ Level(m, m.undo[n].key) >= m.undo[n].level
  /\ \A n, o \in DOMAIN m.undo : n <= o => m.undo[n].level <= m.undo[o].level

\* Every map's undo log fits, the one that waits is at the level of the innermost
\* savepoint pushed, and a flushed one at or above the level of its savepoint.
LevelsFit ==
  /\ pending # NoMap => pending.level = Len(pushed)
  /\ LogFits(pending)
  /\ \A i \in Took(1) : pushed[i].flushed.level >= i /\ LogFits(pushed[i].flushed)

\* What a savepoint stands for: what rolling back to it would bring.  One that was not
\* pushed stands for the table as it is.
Saved ==
  [i \in 1 .. Depth |-> IF i <= Len(pushed) THEN Merged(pushed[i].tree, Reverted(i)) ELSE Content]

\* However writes, flushes, statements, savepoints and transactions follow on each other,
\* the client reads and gets back what a stack that copies the table would give it, if it
\* keeps away from the call sequences of Avoided.
AsPromised == content = Content /\ saved = Saved /\ durable = committed
===============================================================================
