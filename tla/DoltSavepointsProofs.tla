------------------------- MODULE DoltSavepointsProofs -------------------------
(***************************************************************************)
(* What DoltSavepoints keeps for any keys, rows and depth of savepoints, as  *)
(* long as the client avoids the five hazards: the table it reads, and what  *)
(* every ROLLBACK TO brings back, is what SavepointStack promises.           *)
(*                                                                          *)
(* Fits relates a tree, a map of edits and the savepoints pushed to a table  *)
(* and its promised copies.  Each operation on the stack keeps it, by what   *)
(* DoltEditsProofs says of the map, and each action is one to three of them. *)
(***************************************************************************)
EXTENDS DoltEditsProofs

Tabs == Tables \cup {NoTable}

\* The table that rows of edits make of a tree.
Over(t, R) ==
  IF t = NoTable THEN t
  ELSE [k \in {j \in Keys : IF j \in DOMAIN R THEN R[j] # NoRow ELSE j \in DOMAIN t} |->
          IF k \in DOMAIN R THEN R[k] ELSE t[k]]

Maps   == [edits : UNION {[K -> Edits] : K \in SUBSET Keys}, undo : Seq(Undos), level : Nat, base : Nat,
           made : BOOLEAN]
Pushes == [tree : Tabs, flushed : Maps]

\* Map x is the one that is rolled back to the i-th savepoint.
Behind(p, m, i, x) ==
  \/ x = m /\ \A j \in i .. Len(p) : p[j].flushed = NoMap
  \/ \E n \in i .. Len(p) : /\ x = p[n].flushed /\ x # NoMap
                            /\ \A j \in i .. n - 1 : p[j].flushed = NoMap

\* The maps are at their levels.
MapsFit(m, p) ==
  /\ Good(m) /\ (m # NoMap => m.level = Len(p))
  /\ \A i \in 1 .. Len(p) : Good(p[i].flushed) /\ (p[i].flushed # NoMap => p[i].flushed.level >= i)

\* A table that was dropped stays so, and has no edits.
DropsFit(t, m, p) ==
  /\ t = NoTable => DOMAIN m.edits = {} /\ \A i \in 1 .. Len(p) : p[i].flushed = NoMap
  /\ \A i \in 1 .. Len(p) :
       p[i].tree = NoTable => t = NoTable /\ \A j \in i .. Len(p) : p[j].tree = NoTable

\* Tree t with the edits of m, and the savepoints p, are table c with the copies s.
Fits(t, m, p, c, s) ==
  /\ t \in Tabs /\ p \in Seq(Pushes) /\ s \in Seq(Tabs)
  /\ MapsFit(m, p) /\ DropsFit(t, m, p)
  /\ c = Over(t, RowsOf(m))
  /\ Len(p) <= Len(s)
  /\ \A i \in 1 .. Len(p) : \A x : Behind(p, m, i, x) => s[i] = Over(p[i].tree, View(x, i))
  /\ \A i \in Len(p) + 1 .. Len(s) : s[i] = c

-------------------------------------------------------------------------------
(* Tables                                                                   *)

\* A map is in the set of maps.
LEMMA MapIn ==
  ASSUME NEW m, IsMap(m)
  PROVE  m \in Maps
<1>1. m \in [edits : {m.edits}, undo : Seq(Undos), level : Nat, base : Nat, made : BOOLEAN]
      /\ DOMAIN m.edits \subseteq Keys /\ m.edits \in [DOMAIN m.edits -> Edits]
  BY DEF IsMap
<1> DEFINE e == m.edits
           S == UNION {[K -> Edits] : K \in SUBSET Keys}
<1>2. e \in S
  BY <1>1
<1> HIDE DEF e, S
<1>3. m \in [edits : {e}, undo : Seq(Undos), level : Nat, base : Nat, made : BOOLEAN]
  BY <1>1 DEF e
<1>4. m \in [edits : S, undo : Seq(Undos), level : Nat, base : Nat, made : BOOLEAN]
  BY <1>2, <1>3
<1>5. QED
  BY <1>4 DEF Maps, S

\* The table as it is read.
LEMMA MergedIs ==
  ASSUME NEW t, NEW m
  PROVE  Merged(t, m) = Over(t, RowsOf(m))
<1>1. DOMAIN RowsOf(m) = DOMAIN m.edits /\ \A k \in DOMAIN m.edits : RowsOf(m)[k] = m.edits[k].row
  BY DEF RowsOf
<1> DEFINE K == {k \in Keys : IF k \in DOMAIN m.edits THEN m.edits[k].row # NoRow ELSE k \in DOMAIN t}
           L == {k \in Keys : IF k \in DOMAIN RowsOf(m) THEN RowsOf(m)[k] # NoRow ELSE k \in DOMAIN t}
<1>2. K = L
  BY <1>1
<1>3. [k \in K |-> IF k \in DOMAIN m.edits THEN m.edits[k].row ELSE t[k]]
        = [k \in L |-> IF k \in DOMAIN RowsOf(m) THEN RowsOf(m)[k] ELSE t[k]]
  <2> HIDE DEF K, L
  <2>1. \A k : (IF k \in DOMAIN m.edits THEN m.edits[k].row ELSE t[k])
                 = (IF k \in DOMAIN RowsOf(m) THEN RowsOf(m)[k] ELSE t[k])
    BY <1>1
  <2>2. QED
    BY <1>2, <2>1
<1>4. QED
  BY <1>3 DEF Merged, Over

\* A table and no edits is the table.
LEMMA OverNone ==
  ASSUME NEW t \in Tabs
  PROVE  Over(t, NoRows) = t
<1>1. DOMAIN NoRows = {}
  BY DEF NoRows
<1>2. CASE t = NoTable
  BY <1>2 DEF Over
<1>3. CASE t # NoTable
  <2>1. PICK K \in SUBSET Keys : t \in [K -> Rows]
    BY <1>3 DEF Tabs, Tables
  <2>2. Over(t, NoRows) = [k \in {j \in Keys : j \in DOMAIN t} |-> t[k]]
    BY <1>1, <1>3 DEF Over
  <2>3. {j \in Keys : j \in DOMAIN t} = K
    BY <2>1
  <2>4. QED
    BY <2>1, <2>2, <2>3
<1>4. QED
  BY <1>2, <1>3

\* A table with edits is a table, and is dropped only if it was.
LEMMA OverTyped ==
  ASSUME NEW t \in Tabs, NEW R, \A k \in DOMAIN R : R[k] \in Rows \cup {NoRow}
  PROVE  Over(t, R) \in Tabs /\ (Over(t, R) = NoTable => t = NoTable)
<1>1. CASE t = NoTable
  BY <1>1 DEF Over, Tabs
<1>2. CASE t # NoTable
  <2> DEFINE K == {j \in Keys : IF j \in DOMAIN R THEN R[j] # NoRow ELSE j \in DOMAIN t}
             f == [k \in K |-> IF k \in DOMAIN R THEN R[k] ELSE t[k]]
  <2>1. PICK J \in SUBSET Keys : t \in [J -> Rows]
    BY <1>2 DEF Tabs, Tables
  <2>2. \A k \in K : (IF k \in DOMAIN R THEN R[k] ELSE t[k]) \in Rows
    BY <2>1
  <2>3. Over(t, R) = f /\ K \in SUBSET Keys
    BY <1>2 DEF Over
  <2> HIDE DEF K
  <2>4. f \in [K -> Rows]
    BY <2>2
  <2>5. f \in Tables /\ f # NoTable
    BY <2>3, <2>4, SavepointAssumption DEF Tables
  <2>6. QED
    BY <1>2, <2>3, <2>5 DEF Tabs
<1>3. QED
  BY <1>1, <1>2

\* The rows of a map.
LEMMA RowsTyped ==
  ASSUME NEW m, Good(m)
  PROVE  \A k \in DOMAIN RowsOf(m) : RowsOf(m)[k] \in Rows \cup {NoRow}
<1>1. \A k \in DOMAIN m.edits : m.edits[k].row \in Rows \cup {NoRow}
  BY Shape DEF Good
<1>2. QED
  BY <1>1 DEF RowsOf

-------------------------------------------------------------------------------
(* The stack of savepoints                                                  *)

\* A sequence of savepoints or of copies.
LEMMA SeqIs ==
  ASSUME NEW S, NEW p \in Seq(S)
  PROVE  /\ Len(p) \in Nat /\ DOMAIN p = 1 .. Len(p)
         /\ \A i \in 1 .. Len(p) : p[i] \in S
OBVIOUS

\* A savepoint pushed has a tree and a map.
LEMMA PushIs ==
  ASSUME NEW p \in Seq(Pushes), NEW i \in 1 .. Len(p)
  PROVE  /\ p[i].tree \in Tabs /\ p[i].flushed \in Maps
         /\ p[i] = [tree |-> p[i].tree, flushed |-> p[i].flushed]
<1>1. p[i] \in Pushes
  BY SeqIs
<1>2. QED
  BY <1>1 DEF Pushes

\* What is behind a savepoint is the map that waits, or one flushed at or above it.
LEMMA BehindIs ==
  ASSUME NEW p \in Seq(Pushes), NEW m, MapsFit(m, p), NEW i \in 1 .. Len(p), NEW x, Behind(p, m, i, x)
  PROVE  Good(x) /\ (x # NoMap => x.level >= i /\ i \in 1 .. x.level)
<1>1. i \in Nat /\ Len(p) \in Nat /\ i <= Len(p) /\ i >= 1
  BY SeqIs
<1>2. CASE x = m
  BY <1>1, <1>2 DEF MapsFit
<1>3. CASE \E n \in i .. Len(p) : x = p[n].flushed
  <2>1. PICK n \in i .. Len(p) : x = p[n].flushed
    BY <1>3
  <2>2. n \in 1 .. Len(p) /\ n >= i
    BY <1>1
  <2>3. Good(x) /\ (x # NoMap => x.level >= n)
    BY <2>1, <2>2 DEF MapsFit
  <2>4. x.level \in Nat
    BY <2>3, Shape DEF Good
  <2>5. QED
    BY <1>1, <2>2, <2>3, <2>4
<1>4. QED
  BY <1>2, <1>3 DEF Behind

\* A transaction starts with what was committed.
LEMMA FreshFits ==
  ASSUME NEW t \in Tabs, NEW m, Good(m), DOMAIN m.edits = {}, m # NoMap => m.level = 0
  PROVE  Fits(t, m, <<>>, t, <<>>)
<1> DEFINE p == <<>>
<1>1. p \in Seq(Pushes) /\ p \in Seq(Tabs) /\ Len(p) = 0
  OBVIOUS
<1> HIDE DEF p
<1>2. 1 .. Len(p) = {}
  BY <1>1
<1>3. t = Over(t, RowsOf(m))
  <2>1. RowsOf(m) = NoRows
    BY NoEdits
  <2>2. QED
    BY <2>1, OverNone
<1>4. MapsFit(m, p) /\ DropsFit(t, m, p)
  BY <1>1, <1>2 DEF MapsFit, DropsFit
<1>5. Fits(t, m, p, t, p)
  <2>1. Len(p) + 1 .. Len(p) = {} /\ Len(p) <= Len(p)
    BY <1>1
  <2>2. QED
    BY <1>1, <1>2, <1>3, <1>4, <2>1 DEF Fits
<1>6. QED
  BY <1>5 DEF p

\* SAVEPOINT: another copy of the table, of which the tree hears nothing.
LEMMA MarkFits ==
  ASSUME NEW t, NEW m, NEW p, NEW c, NEW s, Fits(t, m, p, c, s)
  PROVE  Fits(t, m, p, c, Append(s, c)) /\ Len(Append(s, c)) = Len(s) + 1
<1> DEFINE z == Append(s, c)
<1>1. s \in Seq(Tabs) /\ c \in Tabs /\ p \in Seq(Pushes) /\ Len(p) \in Nat /\ Len(s) \in Nat /\ Len(p) <= Len(s)
  <2>1. c \in Tabs
    BY OverTyped, RowsTyped DEF Fits, MapsFit
  <2>2. QED
    BY <2>1 DEF Fits
<1>2. z \in Seq(Tabs) /\ Len(z) = Len(s) + 1 /\ z[Len(s) + 1] = c /\ \A i \in 1 .. Len(s) : z[i] = s[i]
  BY <1>1
<1> HIDE DEF z
<1>3. \A i \in 1 .. Len(p) : \A x : Behind(p, m, i, x) => z[i] = Over(p[i].tree, View(x, i))
  <2>1. \A i \in 1 .. Len(p) : z[i] = s[i]
    BY <1>1, <1>2
  <2>2. QED
    BY <2>1 DEF Fits
<1>4. \A i \in Len(p) + 1 .. Len(z) : z[i] = c
  <2>1. SUFFICES ASSUME NEW i \in Len(p) + 1 .. Len(z)
                 PROVE  z[i] = c
    OBVIOUS
  <2>2. CASE i = Len(s) + 1
    BY <1>2, <2>2
  <2>3. CASE i # Len(s) + 1
    <3>1. i \in Len(p) + 1 .. Len(s) /\ i \in 1 .. Len(s)
      BY <1>1, <1>2, <2>3
    <3>2. QED
      BY <1>2, <3>1 DEF Fits
  <2>4. QED
    BY <2>2, <2>3
<1>5. Fits(t, m, p, c, z)
  BY <1>1, <1>2, <1>3, <1>4 DEF Fits
<1>6. QED
  BY <1>2, <1>5 DEF z

\* RELEASE of savepoints that were not pushed: fewer copies.
LEMMA CutFits ==
  ASSUME NEW t, NEW m, NEW p, NEW c, NEW s, Fits(t, m, p, c, s), NEW q \in Len(p) .. Len(s)
  PROVE  Fits(t, m, p, c, SubSeq(s, 1, q)) /\ Len(SubSeq(s, 1, q)) = q
<1> DEFINE z == SubSeq(s, 1, q)
<1>1. s \in Seq(Tabs) /\ p \in Seq(Pushes) /\ Len(p) \in Nat /\ Len(s) \in Nat /\ Len(p) <= Len(s)
  BY DEF Fits
<1>2. q \in Nat /\ Len(p) <= q /\ q <= Len(s)
  BY <1>1
<1>3. z \in Seq(Tabs) /\ Len(z) = q /\ \A i \in 1 .. q : z[i] = s[i]
  BY <1>1, <1>2
<1> HIDE DEF z
<1>4. \A i \in 1 .. Len(p) : z[i] = s[i]
  BY <1>1, <1>2, <1>3
<1>5. \A i \in Len(p) + 1 .. Len(z) : z[i] = s[i] /\ i \in Len(p) + 1 .. Len(s)
  BY <1>1, <1>2, <1>3
<1>6. Fits(t, m, p, c, z)
  BY <1>2, <1>3, <1>4, <1>5 DEF Fits
<1>7. QED
  BY <1>3, <1>6 DEF z

\* Map o and savepoints q are m and p with savepoints pushed up to the N-th.
PushDone(t, m, p, N, o, q) ==
  /\ o = IF m = NoMap \/ N <= Len(p) THEN m ELSE [m EXCEPT !.level = N]
  /\ q = [i \in 1 .. N |-> IF i <= Len(p) THEN p[i] ELSE [tree |-> t, flushed |-> NoMap]]

\* syncSavepoints: the savepoints pushed take the table as it is.
LEMMA PushFits ==
  ASSUME NEW t, NEW m, NEW p, NEW c, NEW s, Fits(t, m, p, c, s), NEW N \in Len(p) .. Len(s),
         NEW o, NEW q, PushDone(t, m, p, N, o, q)
  PROVE  Fits(t, o, q, c, s) /\ Len(q) = N /\ (o = NoMap <=> m = NoMap) /\ DOMAIN o.edits = DOMAIN m.edits
<1>1. /\ t \in Tabs /\ s \in Seq(Tabs) /\ p \in Seq(Pushes) /\ Len(p) \in Nat /\ Len(s) \in Nat
      /\ N \in Nat /\ Len(p) <= N /\ N <= Len(s) /\ MapsFit(m, p) /\ DropsFit(t, m, p)
  BY DEF Fits
<1>2. Good(m) /\ (m # NoMap => m.level = Len(p)) /\ IsMap(m) /\ m.level \in Nat
  BY <1>1, Shape DEF MapsFit, Good
<1> DEFINE new == [tree |-> t, flushed |-> NoMap]
<1>3. new \in Pushes /\ new.tree = t /\ new.flushed = NoMap
  <2>1. NoMap \in Maps
    <3>1. Good(NoMap)
      BY <1>1, EmptyGood
    <3>2. QED
      BY <3>1, MapIn DEF Good
  <2>2. QED
    BY <1>1, <2>1 DEF Pushes
<1>4. /\ q \in Seq(Pushes) /\ Len(q) = N
      /\ \A i \in 1 .. Len(p) : q[i] = p[i]
      /\ \A i \in Len(p) + 1 .. N : q[i].tree = t /\ q[i].flushed = NoMap
  <2> HIDE DEF new
  <2>1. \A i \in 1 .. N : (IF i <= Len(p) THEN p[i] ELSE new) \in Pushes
    BY <1>1, <1>3
  <2>2. q = [i \in 1 .. N |-> IF i <= Len(p) THEN p[i] ELSE new]
    BY DEF new, PushDone
  <2>3. q \in Seq(Pushes) /\ Len(q) = N
    BY <1>1, <2>1, <2>2
  <2>4. \A i \in 1 .. Len(p) : q[i] = p[i]
    BY <1>1, <2>2
  <2>5. \A i \in Len(p) + 1 .. N : q[i] = new
    BY <1>1, <2>2
  <2>6. QED
    BY <1>3, <2>3, <2>4, <2>5
<1>5. /\ Good(o) /\ (o # NoMap => o.level = N) /\ (o = NoMap <=> m = NoMap)
      /\ \A i : View(o, i) = View(m, i)
      /\ RowsOf(o) = RowsOf(m) /\ DOMAIN o.edits = DOMAIN m.edits
  <2>1. CASE m = NoMap \/ N <= Len(p)
    <3>1. o = m
      BY <2>1 DEF PushDone
    <3>2. m # NoMap => Len(p) = N
      BY <1>1, <2>1
    <3>3. QED
      BY <1>2, <3>1, <3>2
  <2>2. CASE ~(m = NoMap \/ N <= Len(p))
    <3>1. o = [m EXCEPT !.level = N]
      BY <2>2 DEF PushDone
    <3>2. /\ IsMap(o) /\ o.edits = m.edits /\ o.undo = m.undo /\ o.level = N
          /\ o.base = m.base /\ o.made = m.made
      BY <1>1, <1>2, <3>1, LevelSet DEF LevelDone
    <3>3. m.made /\ o.made /\ m.level <= o.level
      BY <1>1, <1>2, <2>2, <3>2 DEF Good
    <3>4. Good(o) /\ (\A i : View(o, i) = View(m, i)) /\ RowsOf(o) = RowsOf(m)
      BY <1>2, <3>2, <3>3, RaisedKeeps
    <3>5. NoMap.made = FALSE
      BY <1>1, EmptyGood
    <3>6. QED
      BY <2>2, <3>2, <3>3, <3>4, <3>5
  <2>3. QED
    BY <2>1, <2>2
<1>6. MapsFit(o, q)
  <2>1. ASSUME NEW i \in 1 .. N
        PROVE  Good(q[i].flushed) /\ (q[i].flushed # NoMap => q[i].flushed.level >= i)
    <3>1. CASE i \in 1 .. Len(p)
      BY <1>1, <1>4, <3>1 DEF MapsFit
    <3>2. CASE i \in Len(p) + 1 .. N
      <4>1. Good(NoMap)
        BY <1>1, EmptyGood
      <4>2. QED
        BY <1>4, <3>2, <4>1
    <3>3. QED
      BY <1>1, <3>1, <3>2
  <2>2. QED
    BY <1>4, <1>5, <2>1 DEF MapsFit
<1>7. DropsFit(t, o, q)
  <2>1. ASSUME t = NoTable, NEW i \in 1 .. N
        PROVE  q[i].flushed = NoMap
    <3>1. CASE i \in 1 .. Len(p)
      BY <1>1, <1>4, <2>1, <3>1 DEF DropsFit
    <3>2. CASE i \in Len(p) + 1 .. N
      BY <1>4, <3>2
    <3>3. QED
      BY <1>1, <3>1, <3>2
  <2>2. ASSUME NEW i \in 1 .. N, q[i].tree = NoTable
        PROVE  t = NoTable /\ \A j \in i .. N : q[j].tree = NoTable
    <3>1. t = NoTable
      <4>1. CASE i \in 1 .. Len(p)
        BY <1>1, <1>4, <2>2, <4>1 DEF DropsFit
      <4>2. CASE i \in Len(p) + 1 .. N
        BY <1>4, <2>2, <4>2
      <4>3. QED
        BY <1>1, <4>1, <4>2
    <3>2. ASSUME NEW j \in i .. N
          PROVE  q[j].tree = NoTable
      <4>1. CASE j \in 1 .. Len(p)
        <5>1. i \in 1 .. Len(p) /\ j \in i .. Len(p)
          BY <1>1, <4>1
        <5>2. p[i].tree = NoTable
          BY <1>4, <2>2, <5>1
        <5>3. p[j].tree = NoTable
          BY <1>1, <5>1, <5>2 DEF DropsFit
        <5>4. QED
          BY <1>4, <4>1, <5>3
      <4>2. CASE j \in Len(p) + 1 .. N
        BY <1>4, <3>1, <4>2
      <4>3. QED
        BY <1>1, <4>1, <4>2
    <3>3. QED
      BY <3>1, <3>2
  <2>3. QED
    BY <1>1, <1>4, <1>5, <2>1, <2>2 DEF DropsFit
<1>8. ASSUME NEW i \in 1 .. N, NEW x, Behind(q, o, i, x)
      PROVE  s[i] = Over(q[i].tree, View(x, i))
  <2>1. CASE i \in 1 .. Len(p)
    <3>1. CASE x = o /\ \A j \in i .. N : q[j].flushed = NoMap
      <4>1. \A j \in i .. Len(p) : j \in i .. N /\ q[j] = p[j]
        BY <1>1, <1>4, <2>1
      <4>2. Behind(p, m, i, m)
        BY <3>1, <4>1 DEF Behind
      <4>3. s[i] = Over(p[i].tree, View(m, i))
        BY <2>1, <4>2 DEF Fits
      <4>4. QED
        BY <1>4, <1>5, <2>1, <3>1, <4>3
    <3>2. CASE \E n \in i .. N : /\ x = q[n].flushed /\ x # NoMap
                                 /\ \A j \in i .. n - 1 : q[j].flushed = NoMap
      <4>1. PICK n \in i .. N : /\ x = q[n].flushed /\ x # NoMap
                                /\ \A j \in i .. n - 1 : q[j].flushed = NoMap
        BY <3>2
      <4>2. n \in i .. Len(p)
        BY <1>1, <1>4, <2>1, <4>1
      <4>3. x = p[n].flushed /\ \A j \in i .. n - 1 : j \in 1 .. Len(p) /\ q[j] = p[j]
        BY <1>1, <1>4, <2>1, <4>1, <4>2
      <4>4. Behind(p, m, i, x)
        BY <4>1, <4>2, <4>3 DEF Behind
      <4>5. QED
        BY <1>4, <2>1, <4>4 DEF Fits
    <3>3. QED
      BY <1>4, <1>8, <3>1, <3>2 DEF Behind
  <2>2. CASE i \in Len(p) + 1 .. N
    <3>1. x = o
      <4>1. \A n \in i .. N : q[n].flushed = NoMap
        BY <1>1, <1>4, <2>2
      <4>2. QED
        BY <1>4, <1>8, <4>1 DEF Behind
    <3>2. View(m, i) = RowsOf(m)
      <4>1. CASE m = NoMap
        <5>1. DOMAIN m.edits = {}
          BY <1>1, <4>1, EmptyGood
        <5>2. QED
          BY <5>1, NoEdits
      <4>2. CASE m # NoMap
        <5>1. i \in Nat /\ i > m.level
          BY <1>1, <1>2, <2>2, <4>2
        <5>2. QED
          BY <1>2, <5>1, AboveLevel
      <4>3. QED
        BY <4>1, <4>2
    <3>3. s[i] = c
      <4>1. i \in Len(p) + 1 .. Len(s)
        BY <1>1, <2>2
      <4>2. QED
        BY <4>1 DEF Fits
    <3>4. c = Over(t, RowsOf(m))
      BY DEF Fits
    <3>5. QED
      BY <1>4, <1>5, <2>2, <3>1, <3>2, <3>3, <3>4
  <2>3. QED
    BY <1>1, <2>1, <2>2
<1>9. \A i \in N + 1 .. Len(s) : s[i] = c
  <2>1. \A i \in N + 1 .. Len(s) : i \in Len(p) + 1 .. Len(s)
    BY <1>1
  <2>2. QED
    BY <2>1 DEF Fits
<1>10. c = Over(t, RowsOf(o))
  BY <1>5 DEF Fits
<1>11. Fits(t, o, q, c, s)
  BY <1>1, <1>4, <1>6, <1>7, <1>8, <1>9, <1>10 DEF Fits
<1>12. QED
  BY <1>4, <1>5, <1>11

\* Another tree and another map under the same savepoints: they fit if the map looked the
\* same before each savepoint, or something was flushed above it.
LEMMA SwapFits ==
  ASSUME NEW t, NEW m, NEW p, NEW c, NEW s, Fits(t, m, p, c, s),
         NEW u \in Tabs, NEW o, MapsFit(o, p), DropsFit(u, o, p),
         NEW d, d = Over(u, RowsOf(o)), d = c \/ Len(p) = Len(s),
         \A i \in 1 .. Len(p) : View(o, i) = View(m, i) \/ \E j \in i .. Len(p) : p[j].flushed # NoMap
  PROVE  Fits(u, o, p, d, s)
<1>1. p \in Seq(Pushes) /\ s \in Seq(Tabs) /\ Len(p) \in Nat /\ Len(s) \in Nat /\ Len(p) <= Len(s)
  BY DEF Fits
<1>2. ASSUME NEW i \in 1 .. Len(p), NEW x, Behind(p, o, i, x)
      PROVE  s[i] = Over(p[i].tree, View(x, i))
  <2>1. CASE x = o /\ \A j \in i .. Len(p) : p[j].flushed = NoMap
    <3>1. Behind(p, m, i, m)
      BY <2>1 DEF Behind
    <3>2. s[i] = Over(p[i].tree, View(m, i))
      BY <3>1 DEF Fits
    <3>3. QED
      BY <2>1, <3>2
  <2>2. CASE \E n \in i .. Len(p) : /\ x = p[n].flushed /\ x # NoMap
                                    /\ \A j \in i .. n - 1 : p[j].flushed = NoMap
    <3>1. Behind(p, m, i, x)
      BY <2>2 DEF Behind
    <3>2. QED
      BY <3>1 DEF Fits
  <2>3. QED
    BY <1>2, <2>1, <2>2 DEF Behind
<1>3. \A i \in Len(p) + 1 .. Len(s) : s[i] = d
  <2>1. CASE d = c
    BY <2>1 DEF Fits
  <2>2. CASE Len(p) = Len(s)
    <3>1. Len(p) + 1 .. Len(s) = {}
      BY <1>1, <2>2
    <3>2. QED
      BY <3>1
  <2>3. QED
    BY <2>1, <2>2
<1>4. QED
  BY <1>1, <1>2, <1>3 DEF Fits

\* ensureMutMap: an empty map where there is none.
LEMMA EnsureFits ==
  ASSUME NEW t, NEW p, NEW c, NEW s, Fits(t, NoMap, p, c, s)
  PROVE  Fits(t, EmptyMap(Len(p)), p, c, s) /\ EmptyMap(Len(p)) # NoMap
<1> DEFINE o == EmptyMap(Len(p))
<1>1. t \in Tabs /\ p \in Seq(Pushes) /\ Len(p) \in Nat /\ MapsFit(NoMap, p) /\ DropsFit(t, NoMap, p)
  BY DEF Fits
<1>2. Good(o) /\ DOMAIN o.edits = {} /\ o.level = Len(p) /\ o # NoMap /\ DOMAIN NoMap.edits = {}
  BY <1>1, EmptyGood
<1> HIDE DEF o
<1>3. RowsOf(o) = RowsOf(NoMap) /\ \A i : View(o, i) = View(NoMap, i)
  BY <1>2, NoEdits
<1>4. MapsFit(o, p)
  BY <1>1, <1>2 DEF MapsFit
<1>5. DropsFit(t, o, p)
  BY <1>1, <1>2 DEF DropsFit
<1>6. c = Over(t, RowsOf(o))
  BY <1>3 DEF Fits
<1>7. Fits(t, o, p, c, s)
  BY <1>1, <1>3, <1>4, <1>5, <1>6, SwapFits
<1>8. QED
  BY <1>2, <1>7 DEF o

\* Table d is c with another row at k, or without the one there was.
RowSet(c, d, k, row) ==
  /\ row # NoRow => d = [j \in DOMAIN c \cup {k} |-> IF j = k THEN row ELSE c[j]]
  /\ row = NoRow => d = [j \in DOMAIN c \ {k} |-> c[j]]

\* An edit, when every savepoint is pushed: the table with another row.
LEMMA EditFits ==
  ASSUME NEW t, NEW m, NEW p, NEW c, NEW s, Fits(t, m, p, c, s), m # NoMap, t # NoTable, Len(p) = Len(s),
         NEW k \in Keys, NEW row \in Rows \cup {NoRow}, NEW o, o = Edited(m, k, row),
         NEW d, d = Over(t, RowsOf(o))
  PROVE  Fits(t, o, p, d, s) /\ o # NoMap /\ RowSet(c, d, k, row)
<1>1. t \in Tabs /\ MapsFit(m, p) /\ DropsFit(t, m, p) /\ c = Over(t, RowsOf(m)) /\ p \in Seq(Pushes)
  BY DEF Fits
<1>2. Good(m) /\ m.made /\ m.level = Len(p) /\ Len(p) \in Nat
  BY <1>1 DEF MapsFit, Good
<1>3. /\ Good(o) /\ o.made /\ o.level = m.level
      /\ DOMAIN o.edits = DOMAIN m.edits \cup {k} /\ o.edits[k].row = row
      /\ \A j \in DOMAIN m.edits : j # k => o.edits[j] = m.edits[j]
      /\ \A i \in 1 .. m.level : View(o, i) = View(m, i)
  BY <1>2, EditedKeeps
<1>4. o # NoMap
  <2>1. NoMap.made = FALSE
    BY <1>2, EmptyGood
  <2>2. QED
    BY <1>3, <2>1
<1>5. MapsFit(o, p)
  BY <1>1, <1>2, <1>3 DEF MapsFit
<1>6. DropsFit(t, o, p)
  BY <1>1 DEF DropsFit
<1>7. Fits(t, o, p, d, s)
  BY <1>1, <1>2, <1>3, <1>5, <1>6, SwapFits
<1> DEFINE R == RowsOf(m)
           Q == RowsOf(o)
<1>8. /\ DOMAIN Q = DOMAIN R \cup {k} /\ Q[k] = row
      /\ \A j \in DOMAIN R : j # k => Q[j] = R[j]
  BY <1>3 DEF RowsOf
<1>9. /\ DOMAIN c = {j \in Keys : IF j \in DOMAIN R THEN R[j] # NoRow ELSE j \in DOMAIN t}
      /\ \A j \in DOMAIN c : c[j] = IF j \in DOMAIN R THEN R[j] ELSE t[j]
  BY <1>1 DEF Over
<1> DEFINE D == {j \in Keys : IF j \in DOMAIN Q THEN Q[j] # NoRow ELSE j \in DOMAIN t}
<1>10. d = [j \in D |-> IF j \in DOMAIN Q THEN Q[j] ELSE t[j]]
  BY DEF Over
<1> HIDE DEF R, Q
<1>11. row # NoRow => D = DOMAIN c \cup {k}
  BY <1>8, <1>9
<1>12. row = NoRow => D = DOMAIN c \ {k}
  BY <1>8, <1>9
<1>13. \A j \in D : j # k => j \in DOMAIN c
  BY <1>8, <1>9
<1>14. \A j \in D : (IF j \in DOMAIN Q THEN Q[j] ELSE t[j]) = IF j = k THEN row ELSE c[j]
  <2>1. SUFFICES ASSUME NEW j \in D
                 PROVE  (IF j \in DOMAIN Q THEN Q[j] ELSE t[j]) = IF j = k THEN row ELSE c[j]
    OBVIOUS
  <2>2. CASE j = k
    BY <1>8, <2>2
  <2>3. CASE j # k
    BY <1>8, <1>9, <1>13, <2>1, <2>3
  <2>4. QED
    BY <2>2, <2>3
<1> HIDE DEF D
<1>15. d = [j \in D |-> IF j = k THEN row ELSE c[j]]
  BY <1>10, <1>14
<1>16. row # NoRow => d = [j \in DOMAIN c \cup {k} |-> IF j = k THEN row ELSE c[j]]
  BY <1>11, <1>15
<1>17. ASSUME row = NoRow
       PROVE  d = [j \in DOMAIN c \ {k} |-> c[j]]
  <2>1. D = DOMAIN c \ {k}
    BY <1>12, <1>17
  <2>2. d = [j \in DOMAIN c \ {k} |-> IF j = k THEN row ELSE c[j]]
    BY <1>15, <2>1
  <2>3. QED
    BY <2>2
<1>18. QED
  BY <1>4, <1>7, <1>16, <1>17 DEF RowSet

\* A table that is emptied without edits.
LEMMA EmptyFits ==
  ASSUME NEW t, NEW m, NEW p, NEW c, NEW s, Fits(t, m, p, c, s),
         t # NoTable, DOMAIN m.edits = {}, Len(p) = Len(s)
  PROVE  Fits(NoRows, m, p, NoRows, s)
<1>1. MapsFit(m, p) /\ DropsFit(t, m, p)
  BY DEF Fits
<1>2. NoRows \in Tabs /\ NoRows # NoTable
  <2>1. NoRows \in [{} -> Rows]
    BY DEF NoRows
  <2>2. NoTable \notin [{} -> Rows]
    BY SavepointAssumption
  <2>3. NoRows \in Tables
    BY <2>1 DEF Tables
  <2>4. QED
    BY <2>1, <2>2, <2>3 DEF Tabs
<1>3. DropsFit(NoRows, m, p)
  BY <1>1, <1>2 DEF DropsFit
<1>4. NoRows = Over(NoRows, RowsOf(m))
  <2>1. RowsOf(m) = NoRows
    BY NoEdits
  <2>2. QED
    BY <1>2, <2>1, OverNone
<1>5. QED
  BY <1>1, <1>2, <1>3, <1>4, SwapFits

\* A table that is dropped without edits, when nothing was flushed.
LEMMA DropFits ==
  ASSUME NEW t, NEW m, NEW p, NEW c, NEW s, Fits(t, m, p, c, s),
         t # NoTable, DOMAIN m.edits = {}, Len(p) = Len(s), \A i \in 1 .. Len(p) : p[i].flushed = NoMap
  PROVE  Fits(NoTable, NoMap, p, NoTable, s)
<1>1. MapsFit(m, p) /\ DropsFit(t, m, p) /\ Len(p) \in Nat
  BY DEF Fits
<1>2. Good(NoMap) /\ DOMAIN NoMap.edits = {}
  BY <1>1, EmptyGood
<1>3. MapsFit(NoMap, p)
  BY <1>1, <1>2 DEF MapsFit
<1>4. DropsFit(NoTable, NoMap, p)
  BY <1>1, <1>2 DEF DropsFit
<1>5. NoTable = Over(NoTable, RowsOf(NoMap)) /\ NoTable \in Tabs
  BY DEF Over, Tabs
<1>6. \A i : View(NoMap, i) = View(m, i)
  BY <1>2, NoEdits
<1>7. QED
  BY <1>3, <1>4, <1>5, <1>6, SwapFits

\* A flush in place: the tree takes the edits, and some map is behind every savepoint.
LEMMA FlushInPlace ==
  ASSUME NEW t, NEW m, NEW p, NEW c, NEW s, Fits(t, m, p, c, s), DOMAIN m.edits # {},
         Len(p) > 0 => p[Len(p)].flushed # NoMap,
         NEW o, o = Cleared(m) \/ o = NoMap
  PROVE  Fits(c, o, p, c, s) /\ DOMAIN o.edits = {} /\ (o # NoMap => o.level = m.level)
<1>1. /\ t \in Tabs /\ MapsFit(m, p) /\ DropsFit(t, m, p) /\ c = Over(t, RowsOf(m))
      /\ p \in Seq(Pushes) /\ Len(p) \in Nat
  BY DEF Fits
<1>2. Good(m) /\ m.level \in Nat /\ DOMAIN NoMap.edits = {}
  BY <1>1, Shape, EmptyGood DEF MapsFit, Good
<1>3. m.level = Len(p)
  BY <1>1, <1>2 DEF MapsFit
<1>4. Good(o) /\ DOMAIN o.edits = {} /\ (o # NoMap => o.level = m.level)
  BY <1>2, EmptyGood DEF Cleared
<1>5. t # NoTable /\ c # NoTable /\ c \in Tabs
  <2>1. t # NoTable
    BY <1>1 DEF DropsFit
  <2>2. QED
    BY <1>1, <1>2, <2>1, OverTyped, RowsTyped
<1>6. MapsFit(o, p)
  BY <1>1, <1>3, <1>4 DEF MapsFit
<1>7. DropsFit(c, o, p)
  BY <1>1, <1>5 DEF DropsFit
<1>8. c = Over(c, RowsOf(o))
  <2>1. RowsOf(o) = NoRows
    BY <1>4, NoEdits
  <2>2. QED
    BY <1>5, <2>1, OverNone
<1>9. ASSUME NEW i \in 1 .. Len(p)
      PROVE  \E j \in i .. Len(p) : p[j].flushed # NoMap
  <2>1. Len(p) \in i .. Len(p) /\ Len(p) > 0
    BY <1>1
  <2>2. QED
    BY <2>1
<1>10. Fits(c, o, p, c, s)
  BY <1>5, <1>6, <1>7, <1>8, <1>9, SwapFits
<1>11. QED
  BY <1>4, <1>10

\* The innermost savepoint of q has map m, for which o starts anew.
FlushDone(m, p, o, q) == o = EmptyMap(m.level) /\ q = [p EXCEPT ![Len(p)].flushed = m]

\* A flush into the innermost savepoint, which had no map.
LEMMA FlushInto ==
  ASSUME NEW t, NEW m, NEW p, NEW c, NEW s, Fits(t, m, p, c, s), DOMAIN m.edits # {},
         Len(p) > 0, p[Len(p)].flushed = NoMap,
         NEW o, NEW q, FlushDone(m, p, o, q)
  PROVE  Fits(c, o, q, c, s) /\ Len(q) = Len(p) /\ DOMAIN o.edits = {} /\ o.level = m.level
<1> DEFINE n == Len(p)
<1>1. /\ t \in Tabs /\ MapsFit(m, p) /\ DropsFit(t, m, p) /\ c = Over(t, RowsOf(m))
      /\ p \in Seq(Pushes) /\ n \in Nat /\ n > 0 /\ DOMAIN p = 1 .. n
      /\ s \in Seq(Tabs) /\ n <= Len(s)
  BY DEF Fits
<1>2. Good(m) /\ IsMap(m) /\ m.level \in Nat /\ DOMAIN NoMap.edits = {}
  BY <1>1, Shape, EmptyGood DEF MapsFit, Good
<1>3. m.level = n /\ m # NoMap
  BY <1>1, <1>2 DEF MapsFit
<1>4. Good(o) /\ DOMAIN o.edits = {} /\ o # NoMap /\ o.level = n
  <2>1. o = EmptyMap(n)
    BY <1>3 DEF FlushDone
  <2>2. QED
    BY <1>1, <2>1, EmptyGood
<1>5. t # NoTable /\ c # NoTable /\ c \in Tabs
  <2>1. t # NoTable
    BY <1>1 DEF DropsFit
  <2>2. QED
    BY <1>1, <1>2, <2>1, OverTyped, RowsTyped
<1>6. /\ q \in Seq(Pushes) /\ Len(q) = n
      /\ \A i \in 1 .. n : i # n => q[i] = p[i]
      /\ q[n].tree = p[n].tree /\ q[n].flushed = m
  <2> DEFINE w == [p[n] EXCEPT !.flushed = m]
  <2>1. n \in 1 .. n /\ p[n] \in Pushes /\ m \in Maps
    BY <1>1, <1>2, MapIn
  <2>2. w \in Pushes /\ w.tree = p[n].tree /\ w.flushed = m
    BY <2>1 DEF Pushes
  <2>3. q = [p EXCEPT ![n] = w]
    BY DEF FlushDone
  <2> HIDE DEF w, n
  <2>4. q \in Seq(Pushes) /\ Len(q) = n /\ q[n] = w /\ \A i \in 1 .. n : i # n => q[i] = p[i]
    BY <1>1, <2>1, <2>2, <2>3 DEF n
  <2>5. QED
    BY <2>2, <2>4
<1> HIDE DEF n
<1>7. MapsFit(o, q)
  <2>1. ASSUME NEW i \in 1 .. n
        PROVE  Good(q[i].flushed) /\ (q[i].flushed # NoMap => q[i].flushed.level >= i)
    <3>1. CASE i = n
      BY <1>1, <1>2, <1>3, <1>6, <3>1
    <3>2. CASE i # n
      BY <1>1, <1>6, <3>2 DEF MapsFit, n
    <3>3. QED
      BY <3>1, <3>2
  <2>2. QED
    BY <1>4, <1>6, <2>1 DEF MapsFit
<1>8. DropsFit(c, o, q)
  <2>1. \A i \in 1 .. n : q[i].tree = p[i].tree
    BY <1>6
  <2>2. \A i \in 1 .. n : p[i].tree # NoTable
    BY <1>1, <1>5 DEF DropsFit, n
  <2>3. QED
    BY <1>5, <1>6, <2>1, <2>2 DEF DropsFit
<1>9. ASSUME NEW i \in 1 .. n, NEW x, Behind(q, o, i, x)
      PROVE  s[i] = Over(q[i].tree, View(x, i))
  <2>1. n \in i .. n
    BY <1>1
  <2>2. PICK j \in i .. n : /\ x = q[j].flushed /\ x # NoMap
                            /\ \A h \in i .. j - 1 : q[h].flushed = NoMap
    BY <1>3, <1>6, <1>9, <2>1 DEF Behind
  <2>3. \A h \in i .. j - 1 : h \in 1 .. n /\ h # n /\ p[h].flushed = NoMap
    <3>1. \A h \in i .. j - 1 : h \in 1 .. n /\ h # n
      BY <1>1
    <3>2. QED
      BY <1>6, <2>2, <3>1
  <2>4. CASE j = n
    <3>1. x = m
      BY <1>6, <2>2, <2>4
    <3>2. \A h \in i .. n : h = n \/ h \in i .. n - 1
      BY <1>1
    <3>3. \A h \in i .. n : p[h].flushed = NoMap
      BY <2>3, <2>4, <3>2 DEF n
    <3>4. Behind(p, m, i, m)
      BY <3>3 DEF Behind, n
    <3>5. s[i] = Over(p[i].tree, View(m, i))
      BY <3>4 DEF Fits, n
    <3>6. QED
      BY <1>6, <3>1, <3>5
  <2>5. CASE j # n
    <3>1. j \in 1 .. n /\ x = p[j].flushed
      BY <1>1, <1>6, <2>2, <2>5
    <3>2. Behind(p, m, i, x)
      BY <2>2, <2>3, <3>1 DEF Behind, n
    <3>3. s[i] = Over(p[i].tree, View(x, i))
      BY <3>2 DEF Fits, n
    <3>4. QED
      BY <1>6, <3>3
  <2>6. QED
    BY <2>4, <2>5
<1>10. c = Over(c, RowsOf(o))
  <2>1. RowsOf(o) = NoRows
    BY <1>4, NoEdits
  <2>2. QED
    BY <1>5, <2>1, OverNone
<1>11. \A i \in n + 1 .. Len(s) : s[i] = c
  BY DEF Fits, n
<1>12. Fits(c, o, q, c, s)
  BY <1>1, <1>5, <1>6, <1>7, <1>8, <1>9, <1>10, <1>11 DEF Fits
<1>13. QED
  BY <1>3, <1>4, <1>6, <1>12 DEF n

\* A function on 1..n is a sequence.
LEMMA MakesSeq ==
  ASSUME NEW S, NEW n \in Nat, NEW q, q = [j \in 1 .. n |-> q[j]], \A j \in 1 .. n : q[j] \in S
  PROVE  q \in Seq(S) /\ Len(q) = n
OBVIOUS

\* Sequence q is p up to below l, with the oldest map flushed from there on.
InheritDone(p, l, q) ==
  /\ q \in Seq(Pushes) /\ Len(q) = l - 1
  /\ \A j \in 1 .. l - 1 : /\ q[j].tree = p[j].tree
                           /\ j # l - 1 => q[j] = p[j]
  /\ l > 1 =>
       \/ q[l - 1].flushed = NoMap /\ \A j \in l - 1 .. Len(p) : p[j].flushed = NoMap
       \/ /\ q[l - 1].flushed # NoMap
          /\ \E n \in l - 1 .. Len(p) : /\ q[l - 1].flushed = p[n].flushed
                                        /\ \A j \in l - 1 .. n - 1 : p[j].flushed = NoMap

\* What inheritPendingSnapshots leaves, of any savepoints.
HandedOn(p, l) ==
  [j \in 1 .. l - 1 |->
     IF j = l - 1 /\ {n \in j .. Len(p) : p[n].flushed # NoMap} # {}
     THEN [p[j] EXCEPT !.flushed = p[Min({n \in j .. Len(p) : p[n].flushed # NoMap})].flushed]
     ELSE p[j]]

\* inheritPendingSnapshots: the savepoint below takes the oldest map flushed at or above it.
LEMMA InheritedIs ==
  ASSUME NEW p \in Seq(Pushes), NEW l \in 1 .. Len(p), NEW q,
         q = HandedOn(p, l)
  PROVE  InheritDone(p, l, q)
<1>1. l \in Nat /\ Len(p) \in Nat /\ l <= Len(p) /\ l - 1 \in Nat
  BY SeqIs
<1> DEFINE N == {n \in l - 1 .. Len(p) : p[n].flushed # NoMap}
           w == [p[l - 1] EXCEPT !.flushed = p[Min(N)].flushed]
<1>2. \A j \in 1 .. l - 1 : j # l - 1 => q[j] = p[j]
  BY DEF HandedOn
<1>3. l > 1 => q[l - 1] = IF N # {} THEN w ELSE p[l - 1]
  BY <1>1 DEF HandedOn
<1>4. \A j \in 1 .. l - 1 : j \in 1 .. Len(p) /\ p[j] \in Pushes
  BY <1>1, SeqIs
<1>5. q = [j \in 1 .. l - 1 |-> q[j]]
  BY DEF HandedOn
<1>6. ASSUME l > 1, N # {}
      PROVE  /\ w \in Pushes /\ w.tree = p[l - 1].tree /\ w.flushed # NoMap
             /\ \E n \in l - 1 .. Len(p) : /\ w.flushed = p[n].flushed
                                           /\ \A j \in l - 1 .. n - 1 : p[j].flushed = NoMap
  <2>1. N \in SUBSET Nat
    BY <1>1
  <2> DEFINE n == Min(N)
  <2>2. n \in N /\ \A j \in N : n <= j
    BY <1>6, <2>1, LeastExists
  <2> HIDE DEF n
  <2>3. n \in l - 1 .. Len(p) /\ p[n].flushed # NoMap /\ \A j \in l - 1 .. n - 1 : p[j].flushed = NoMap
    BY <1>1, <2>2
  <2>4. p[n].flushed \in Maps
    <3>1. n \in 1 .. Len(p)
      BY <1>1, <1>6, <2>3
    <3>2. QED
      BY <3>1, PushIs
  <2>5. p[l - 1] \in Pushes
    BY <1>1, <1>4, <1>6
  <2>6. w = [p[l - 1] EXCEPT !.flushed = p[n].flushed]
    BY DEF n
  <2>7. w \in Pushes /\ w.tree = p[l - 1].tree /\ w.flushed = p[n].flushed
    BY <2>4, <2>5, <2>6 DEF Pushes
  <2>8. QED
    BY <2>3, <2>7
<1> HIDE DEF w
<1>7. ASSUME l > 1, N = {}
      PROVE  \A j \in l - 1 .. Len(p) : p[j].flushed = NoMap
  BY <1>7
<1>8. \A j \in 1 .. l - 1 : q[j] \in Pushes /\ q[j].tree = p[j].tree
  <2>1. SUFFICES ASSUME NEW j \in 1 .. l - 1
                 PROVE  q[j] \in Pushes /\ q[j].tree = p[j].tree
    OBVIOUS
  <2>2. CASE j # l - 1
    BY <1>2, <1>4, <2>2
  <2>3. CASE j = l - 1
    <3>1. l > 1
      BY <1>1, <2>3
    <3>2. q[j] = IF N # {} THEN w ELSE p[j]
      BY <1>3, <2>3, <3>1
    <3>3. CASE N # {}
      BY <1>6, <2>3, <3>1, <3>2, <3>3
    <3>4. CASE N = {}
      BY <1>4, <3>2, <3>4
    <3>5. QED
      BY <3>3, <3>4
  <2>4. QED
    BY <2>2, <2>3
<1>9. q \in Seq(Pushes) /\ Len(q) = l - 1
  <2>1. l - 1 \in Nat /\ \A j \in 1 .. l - 1 : q[j] \in Pushes
    BY <1>1, <1>8
  <2>2. QED
    BY <1>5, <2>1, MakesSeq
<1>10. ASSUME l > 1
       PROVE  \/ q[l - 1].flushed = NoMap /\ \A j \in l - 1 .. Len(p) : p[j].flushed = NoMap
              \/ /\ q[l - 1].flushed # NoMap
                 /\ \E n \in l - 1 .. Len(p) : /\ q[l - 1].flushed = p[n].flushed
                                               /\ \A j \in l - 1 .. n - 1 : p[j].flushed = NoMap
  <2>1. CASE N # {}
    <3>1. q[l - 1] = w
      BY <1>3, <1>10, <2>1
    <3>2. QED
      BY <1>6, <1>10, <2>1, <3>1
  <2>2. CASE N = {}
    <3>1. q[l - 1] = p[l - 1]
      BY <1>3, <1>10, <2>2
    <3>2. l - 1 \in l - 1 .. Len(p)
      BY <1>1
    <3>3. QED
      BY <1>7, <1>10, <2>2, <3>1, <3>2
  <2>3. QED
    BY <2>1, <2>2
<1>11. QED
  BY <1>2, <1>8, <1>9, <1>10 DEF InheritDone

\* releaseSavepointsFrom: the copies inside go, what is behind the others stays.
LEMMA ReleaseFits ==
  ASSUME NEW t, NEW m, NEW p, NEW c, NEW s, Fits(t, m, p, c, s),
         NEW l \in 1 .. Len(p), l = 1 => Len(p) <= 1,
         NEW o, o = Released(m, l), NEW q, InheritDone(p, l, q)
  PROVE  Fits(t, o, q, c, SubSeq(s, 1, l - 1)) /\ Len(SubSeq(s, 1, l - 1)) = l - 1 /\ Len(q) = l - 1
<1> DEFINE z == SubSeq(s, 1, l - 1)
           f == q[l - 1].flushed
<1>1. /\ t \in Tabs /\ MapsFit(m, p) /\ DropsFit(t, m, p) /\ p \in Seq(Pushes) /\ s \in Seq(Tabs)
      /\ Len(p) \in Nat /\ Len(s) \in Nat /\ Len(p) <= Len(s) /\ l \in Nat /\ l - 1 \in Nat /\ l <= Len(p)
  BY DEF Fits
<1>2. z \in Seq(Tabs) /\ Len(z) = l - 1 /\ \A i \in 1 .. l - 1 : z[i] = s[i]
  BY <1>1
<1> HIDE DEF z
<1>3. /\ q \in Seq(Pushes) /\ Len(q) = l - 1
      /\ \A j \in 1 .. l - 1 : /\ q[j].tree = p[j].tree
                               /\ j # l - 1 => q[j] = p[j]
  BY DEF InheritDone
<1>4. ASSUME l > 1
      PROVE  \/ f = NoMap /\ \A j \in l - 1 .. Len(p) : p[j].flushed = NoMap
             \/ /\ f # NoMap
                /\ \E n \in l - 1 .. Len(p) : /\ f = p[n].flushed
                                              /\ \A j \in l - 1 .. n - 1 : p[j].flushed = NoMap
  BY <1>4 DEF InheritDone
<1> HIDE DEF f
<1>5. /\ Good(o) /\ (o # NoMap => o.level = l - 1) /\ RowsOf(o) = RowsOf(m)
      /\ \A i \in 1 .. l - 1 : View(o, i) = View(m, i)
  <2>1. CASE m = NoMap
    <3>1. o = NoMap
      BY <2>1 DEF Released
    <3>2. QED
      BY <1>1, <2>1, <3>1, EmptyGood
  <2>2. CASE m # NoMap
    <3>1. Good(m) /\ m.made /\ m.level = Len(p)
      BY <1>1, <2>2 DEF MapsFit, Good
    <3>2. CASE l = 1
      <4>1. m.level <= 1
        BY <3>1, <3>2
      <4>2. Good(o) /\ o.level = 0 /\ RowsOf(o) = RowsOf(m)
        BY <3>1, <3>2, <4>1, ReleasedOutermost
      <4>3. 1 .. l - 1 = {}
        BY <3>2
      <4>4. QED
        BY <3>2, <4>2, <4>3
    <3>3. CASE l # 1
      <4>1. l >= 2
        BY <1>1, <3>3
      <4>2. QED
        BY <1>1, <3>1, <4>1, ReleasedKeeps
    <3>4. QED
      BY <3>2, <3>3
  <2>3. QED
    BY <2>1, <2>2
<1>6. MapsFit(o, q)
  <2>1. ASSUME NEW i \in 1 .. l - 1
        PROVE  Good(q[i].flushed) /\ (q[i].flushed # NoMap => q[i].flushed.level >= i)
    <3>1. CASE i # l - 1
      <4>1. q[i] = p[i] /\ i \in 1 .. Len(p)
        BY <1>1, <1>3, <3>1
      <4>2. QED
        BY <1>1, <4>1 DEF MapsFit
    <3>2. CASE i = l - 1
      <4>1. l > 1
        BY <1>1, <3>2
      <4>2. CASE f = NoMap
        BY <1>1, <3>2, <4>2, EmptyGood DEF f
      <4>3. CASE f # NoMap
        <5>1. PICK n \in l - 1 .. Len(p) : f = p[n].flushed
          BY <1>4, <4>1, <4>3
        <5>2. n \in 1 .. Len(p) /\ n >= i
          BY <1>1, <3>2, <4>1
        <5>3. Good(f) /\ f.level >= n
          BY <1>1, <4>3, <5>1, <5>2 DEF MapsFit
        <5>4. f.level \in Nat
          BY <5>3, Shape DEF Good
        <5>5. f.level >= i
          BY <1>1, <5>2, <5>3, <5>4
        <5>6. QED
          BY <3>2, <5>3, <5>5 DEF f
      <4>4. QED
        BY <4>2, <4>3
    <3>3. QED
      BY <3>1, <3>2
  <2>2. QED
    BY <1>3, <1>5, <2>1 DEF MapsFit
<1>7. DropsFit(t, o, q)
  <2>1. ASSUME t = NoTable
        PROVE  DOMAIN o.edits = {} /\ \A i \in 1 .. l - 1 : q[i].flushed = NoMap
    <3>1. DOMAIN m.edits = {} /\ \A i \in 1 .. Len(p) : p[i].flushed = NoMap
      BY <1>1, <2>1 DEF DropsFit
    <3>2. DOMAIN RowsOf(m) = {} /\ DOMAIN RowsOf(o) = DOMAIN o.edits
      BY <3>1 DEF RowsOf
    <3>3. ASSUME NEW i \in 1 .. l - 1
          PROVE  q[i].flushed = NoMap
      <4>1. CASE i # l - 1
        <5>1. q[i] = p[i] /\ i \in 1 .. Len(p)
          BY <1>1, <1>3, <4>1
        <5>2. QED
          BY <3>1, <5>1
      <4>2. CASE i = l - 1
        <5>1. l > 1 /\ \A n \in l - 1 .. Len(p) : n \in 1 .. Len(p)
          BY <1>1, <4>2
        <5>2. f = NoMap
          BY <1>4, <3>1, <5>1
        <5>3. QED
          BY <4>2, <5>2 DEF f
      <4>3. QED
        BY <4>1, <4>2
    <3>4. QED
      BY <1>5, <3>2, <3>3
  <2>2. ASSUME NEW i \in 1 .. l - 1, q[i].tree = NoTable
        PROVE  t = NoTable /\ \A j \in i .. l - 1 : q[j].tree = NoTable
    <3>1. i \in 1 .. Len(p) /\ p[i].tree = NoTable
      BY <1>1, <1>3, <2>2
    <3>2. t = NoTable /\ \A j \in i .. Len(p) : p[j].tree = NoTable
      BY <1>1, <3>1 DEF DropsFit
    <3>3. \A j \in i .. l - 1 : j \in i .. Len(p) /\ j \in 1 .. l - 1
      BY <1>1
    <3>4. QED
      BY <1>3, <3>2, <3>3
  <2>3. QED
    BY <1>3, <2>1, <2>2 DEF DropsFit
<1>8. ASSUME NEW i \in 1 .. l - 1, NEW x, Behind(q, o, i, x)
      PROVE  z[i] = Over(q[i].tree, View(x, i))
  <2>1. l > 1 /\ l - 1 \in i .. l - 1 /\ i \in 1 .. Len(p) /\ i \in Nat
    BY <1>1
  <2>2. CASE x = o /\ \A j \in i .. l - 1 : q[j].flushed = NoMap
    <3>1. f = NoMap
      BY <2>1, <2>2 DEF f
    <3>2. \A j \in l - 1 .. Len(p) : p[j].flushed = NoMap
      BY <1>4, <2>1, <3>1
    <3>3. \A j \in i .. Len(p) : j \in l - 1 .. Len(p) \/ (j \in i .. l - 1 /\ j # l - 1 /\ j \in 1 .. l - 1)
      BY <1>1
    <3>4. \A j \in i .. Len(p) : p[j].flushed = NoMap
      BY <1>3, <2>2, <3>2, <3>3
    <3>5. Behind(p, m, i, m)
      BY <3>4 DEF Behind
    <3>6. s[i] = Over(p[i].tree, View(m, i))
      BY <2>1, <3>5 DEF Fits
    <3>7. QED
      BY <1>2, <1>3, <1>5, <2>2, <3>6
  <2>3. CASE \E n \in i .. l - 1 : /\ x = q[n].flushed /\ x # NoMap
                                   /\ \A j \in i .. n - 1 : q[j].flushed = NoMap
    <3>1. PICK n \in i .. l - 1 : /\ x = q[n].flushed /\ x # NoMap
                                  /\ \A j \in i .. n - 1 : q[j].flushed = NoMap
      BY <2>3
    <3>2. \A j \in i .. n - 1 : p[j].flushed = NoMap
      <4>1. \A j \in i .. n - 1 : j \in 1 .. l - 1 /\ j # l - 1
        BY <1>1
      <4>2. QED
        BY <1>3, <3>1, <4>1
    <3>3. Behind(p, m, i, x)
      <4>1. CASE n # l - 1
        <5>1. n \in i .. Len(p) /\ n \in 1 .. l - 1
          BY <1>1
        <5>2. x = p[n].flushed
          BY <1>3, <3>1, <4>1, <5>1
        <5>3. QED
          BY <3>1, <3>2, <5>1, <5>2 DEF Behind
      <4>2. CASE n = l - 1
        <5>1. x = f /\ f # NoMap
          BY <3>1, <4>2 DEF f
        <5>2. PICK h \in l - 1 .. Len(p) : /\ f = p[h].flushed
                                           /\ \A j \in l - 1 .. h - 1 : p[j].flushed = NoMap
          BY <1>4, <2>1, <5>1
        <5>3. h \in i .. Len(p) /\ \A j \in i .. h - 1 : j \in i .. n - 1 \/ j \in l - 1 .. h - 1
          BY <1>1, <4>2
        <5>4. \A j \in i .. h - 1 : p[j].flushed = NoMap
          BY <3>2, <5>2, <5>3
        <5>5. QED
          BY <3>1, <5>1, <5>2, <5>3, <5>4 DEF Behind
      <4>3. QED
        BY <4>1, <4>2
    <3>4. s[i] = Over(p[i].tree, View(x, i))
      BY <2>1, <3>3 DEF Fits
    <3>5. QED
      BY <1>2, <1>3, <3>4
  <2>4. QED
    BY <1>3, <1>8, <2>2, <2>3 DEF Behind
<1>9. c = Over(t, RowsOf(o))
  BY <1>5 DEF Fits
<1>10. Len(q) + 1 .. Len(z) = {}
  BY <1>1, <1>2, <1>3
<1>11. Fits(t, o, q, c, z)
  <2>1. \A i \in 1 .. Len(q) : \A x : Behind(q, o, i, x) => z[i] = Over(q[i].tree, View(x, i))
    BY <1>3, <1>8
  <2>2. \A i \in Len(q) + 1 .. Len(z) : z[i] = c
    BY <1>10
  <2>3. Len(q) <= Len(z)
    BY <1>1, <1>2, <1>3
  <2>4. QED
    BY <1>1, <1>2, <1>3, <1>6, <1>7, <1>9, <2>1, <2>2, <2>3 DEF Fits
<1>12. QED
  BY <1>2, <1>3, <1>11 DEF z

\* rollbackNamedSavepoint: the copy comes back, and what is behind the others stays.
LEMMA RollbackFits ==
  ASSUME NEW t, NEW m, NEW p, NEW c, NEW s, Fits(t, m, p, c, s),
         NEW l \in 1 .. Len(p), NEW x, Behind(p, m, l, x),
         NEW o, o = IF t = NoTable THEN NoMap ELSE RolledBack(x, l),
         NEW r \in {l - 1, l}
  PROVE  /\ Fits(p[l].tree, o, SubSeq(p, 1, l - 1), s[l], SubSeq(s, 1, r))
         /\ Len(SubSeq(s, 1, r)) = r /\ Len(SubSeq(p, 1, l - 1)) = l - 1
         /\ RowsOf(o) = View(x, l)
<1> DEFINE z == SubSeq(s, 1, r)
           q == SubSeq(p, 1, l - 1)
           u == p[l].tree
<1>1. /\ t \in Tabs /\ MapsFit(m, p) /\ DropsFit(t, m, p) /\ p \in Seq(Pushes) /\ s \in Seq(Tabs)
      /\ Len(p) \in Nat /\ Len(s) \in Nat /\ Len(p) <= Len(s)
      /\ l \in Nat /\ l - 1 \in Nat /\ l <= Len(p) /\ l <= Len(s)
  BY DEF Fits
<1>2. r \in Nat /\ l - 1 <= r /\ r <= l
  BY <1>1
<1>3. z \in Seq(Tabs) /\ Len(z) = r /\ \A i \in 1 .. r : z[i] = s[i]
  BY <1>1, <1>2
<1>4. q \in Seq(Pushes) /\ Len(q) = l - 1 /\ \A i \in 1 .. l - 1 : q[i] = p[i]
  BY <1>1
<1>5. u \in Tabs
  BY <1>1, PushIs
<1> HIDE DEF z, q, u
<1>6. Good(x) /\ (x # NoMap => l \in 1 .. x.level)
  BY <1>1, BehindIs
<1>7. /\ Good(o) /\ (o # NoMap => o.level = l - 1) /\ RowsOf(o) = View(x, l)
      /\ \A i \in 1 .. l - 1 : View(o, i) = View(x, i)
      /\ (t = NoTable => o = NoMap)
  <2>1. Good(NoMap) /\ DOMAIN NoMap.edits = {}
    BY <1>1, EmptyGood
  <2>2. CASE t = NoTable
    <3>1. DOMAIN m.edits = {} /\ \A j \in 1 .. Len(p) : p[j].flushed = NoMap
      BY <1>1, <2>2 DEF DropsFit
    <3>2. x = m
      <4>1. \A j \in l .. Len(p) : j \in 1 .. Len(p)
        BY <1>1
      <4>2. QED
        BY <3>1, <4>1 DEF Behind
    <3>3. o = NoMap
      BY <2>2
    <3>4. RowsOf(o) = View(x, l) /\ \A i : View(o, i) = View(x, i)
      BY <2>1, <3>1, <3>2, <3>3, NoEdits
    <3>5. QED
      BY <2>1, <3>3, <3>4
  <2>3. CASE t # NoTable
    <3>1. o = RolledBack(x, l)
      BY <2>3
    <3>2. CASE x = NoMap
      <4>1. o = x
        BY <3>1, <3>2 DEF RolledBack
      <4>2. RowsOf(o) = View(x, l)
        BY <2>1, <3>2, <4>1, NoEdits
      <4>3. QED
        BY <2>1, <2>3, <3>2, <4>1, <4>2
    <3>3. CASE x # NoMap
      <4>1. x.made
        BY <1>6, <3>3 DEF Good
      <4>2. QED
        BY <1>6, <2>3, <3>1, <3>3, <4>1, RolledBackKeeps
    <3>4. QED
      BY <3>2, <3>3
  <2>4. QED
    BY <2>2, <2>3
<1>8. MapsFit(o, q)
  <2>1. \A i \in 1 .. l - 1 : i \in 1 .. Len(p)
    BY <1>1
  <2>2. QED
    BY <1>1, <1>4, <1>7, <2>1 DEF MapsFit
<1>9. DropsFit(u, o, q)
  <2>1. ASSUME u = NoTable
        PROVE  DOMAIN o.edits = {} /\ \A i \in 1 .. l - 1 : q[i].flushed = NoMap
    <3>1. t = NoTable
      BY <1>1, <2>1 DEF DropsFit, u
    <3>2. o = NoMap /\ \A j \in 1 .. Len(p) : p[j].flushed = NoMap
      BY <1>1, <1>7, <3>1 DEF DropsFit
    <3>3. \A i \in 1 .. l - 1 : i \in 1 .. Len(p)
      BY <1>1
    <3>4. DOMAIN o.edits = {}
      BY <1>1, <3>2, EmptyGood
    <3>5. QED
      BY <1>4, <3>2, <3>3, <3>4
  <2>2. ASSUME NEW i \in 1 .. l - 1, q[i].tree = NoTable
        PROVE  u = NoTable /\ \A j \in i .. l - 1 : q[j].tree = NoTable
    <3>1. i \in 1 .. Len(p) /\ l \in i .. Len(p) /\ \A j \in i .. l - 1 : j \in i .. Len(p) /\ j \in 1 .. l - 1
      BY <1>1
    <3>2. p[i].tree = NoTable
      BY <1>4, <2>2
    <3>3. \A j \in i .. Len(p) : p[j].tree = NoTable
      BY <1>1, <3>1, <3>2 DEF DropsFit
    <3>4. QED
      BY <1>4, <3>1, <3>3 DEF u
  <2>3. QED
    BY <1>4, <2>1, <2>2 DEF DropsFit
<1>10. s[l] = Over(u, RowsOf(o))
  BY <1>7 DEF Fits, u
<1>11. ASSUME NEW i \in 1 .. l - 1, NEW y, Behind(q, o, i, y)
       PROVE  z[i] = Over(q[i].tree, View(y, i))
  <2>1. i \in Nat /\ i \in 1 .. Len(p) /\ i < l /\ i \in 1 .. r
    BY <1>1, <1>2
  <2>2. CASE y = o /\ \A j \in i .. l - 1 : q[j].flushed = NoMap
    <3>1. \A j \in i .. l - 1 : p[j].flushed = NoMap
      <4>1. \A j \in i .. l - 1 : j \in 1 .. l - 1
        BY <1>1
      <4>2. QED
        BY <1>4, <2>2, <4>1
    <3>2. Behind(p, m, i, x)
      <4>1. CASE x = m /\ \A j \in l .. Len(p) : p[j].flushed = NoMap
        <5>1. \A j \in i .. Len(p) : j \in i .. l - 1 \/ j \in l .. Len(p)
          BY <1>1, <2>1
        <5>2. QED
          BY <3>1, <4>1, <5>1 DEF Behind
      <4>2. CASE \E n \in l .. Len(p) : /\ x = p[n].flushed /\ x # NoMap
                                        /\ \A j \in l .. n - 1 : p[j].flushed = NoMap
        <5>1. PICK n \in l .. Len(p) : /\ x = p[n].flushed /\ x # NoMap
                                       /\ \A j \in l .. n - 1 : p[j].flushed = NoMap
          BY <4>2
        <5>2. n \in i .. Len(p) /\ \A j \in i .. n - 1 : j \in i .. l - 1 \/ j \in l .. n - 1
          BY <1>1, <2>1
        <5>3. \A j \in i .. n - 1 : p[j].flushed = NoMap
          BY <3>1, <5>1, <5>2
        <5>4. QED
          BY <5>1, <5>2, <5>3 DEF Behind
      <4>3. QED
        BY <4>1, <4>2 DEF Behind
    <3>3. s[i] = Over(p[i].tree, View(x, i))
      BY <2>1, <3>2 DEF Fits
    <3>4. QED
      BY <1>3, <1>4, <1>7, <2>1, <2>2, <3>3
  <2>3. CASE \E n \in i .. l - 1 : /\ y = q[n].flushed /\ y # NoMap
                                   /\ \A j \in i .. n - 1 : q[j].flushed = NoMap
    <3>1. PICK n \in i .. l - 1 : /\ y = q[n].flushed /\ y # NoMap
                                  /\ \A j \in i .. n - 1 : q[j].flushed = NoMap
      BY <2>3
    <3>2. n \in i .. Len(p) /\ n \in 1 .. l - 1 /\ \A j \in i .. n - 1 : j \in 1 .. l - 1
      BY <1>1
    <3>3. y = p[n].flushed /\ \A j \in i .. n - 1 : p[j].flushed = NoMap
      BY <1>4, <3>1, <3>2
    <3>4. Behind(p, m, i, y)
      BY <3>1, <3>2, <3>3 DEF Behind
    <3>5. s[i] = Over(p[i].tree, View(y, i))
      BY <2>1, <3>4 DEF Fits
    <3>6. QED
      BY <1>3, <1>4, <2>1, <3>5
  <2>4. QED
    BY <1>4, <1>11, <2>2, <2>3 DEF Behind
<1>12. \A i \in Len(q) + 1 .. Len(z) : z[i] = s[l]
  <2>1. \A i \in Len(q) + 1 .. Len(z) : i = l /\ i \in 1 .. r
    BY <1>1, <1>2, <1>3, <1>4
  <2>2. QED
    BY <1>3, <2>1
<1>13. Fits(u, o, q, s[l], z)
  <2>1. \A i \in 1 .. Len(q) : \A y : Behind(q, o, i, y) => z[i] = Over(q[i].tree, View(y, i))
    BY <1>4, <1>11
  <2>2. Len(q) <= Len(z)
    BY <1>2, <1>3, <1>4
  <2>3. QED
    BY <1>3, <1>4, <1>5, <1>8, <1>9, <1>10, <1>12, <2>1, <2>2 DEF Fits
<1>14. QED
  BY <1>3, <1>4, <1>7, <1>13 DEF z, q, u

-------------------------------------------------------------------------------
(* The invariant                                                            *)

\* The promised copies are those of the savepoints that are open.
Opened ==
  /\ Len(saved) = Depth
  /\ open \in 0 .. MaxDepth /\ stmt \in BOOLEAN /\ writing \in BOOLEAN
  /\ committed \in Tabs /\ durable = committed

\* A statement has pushed every savepoint; nothing is pushed or edited before the first write.
Begun ==
  /\ stmt => writing /\ Len(pushed) = Depth
  /\ ~writing => pushed = <<>> /\ DOMAIN pending.edits = {} /\ tree = committed

Inv == Fits(tree, pending, pushed, content, saved) /\ Opened /\ Begun

\* What the actions need of it.
LEMMA InvIs ==
  ASSUME Inv
  PROVE  /\ pushed \in Seq(Pushes) /\ saved \in Seq(Tabs) /\ tree \in Tabs
         /\ Len(pushed) \in Nat /\ Len(saved) \in Nat /\ Len(pushed) <= Len(saved)
         /\ Len(saved) = Depth /\ Depth \in Nat /\ open \in Nat /\ MaxDepth \in Nat
         /\ (stmt => Depth = open + 1) /\ (~stmt => Depth = open)
         /\ Good(pending) /\ (pending # NoMap => pending.level = Len(pushed))
         /\ content = Content
<1>1. /\ pushed \in Seq(Pushes) /\ saved \in Seq(Tabs) /\ tree \in Tabs /\ MapsFit(pending, pushed)
      /\ content = Over(tree, RowsOf(pending)) /\ Len(pushed) <= Len(saved)
  BY DEF Inv, Fits
<1>2. Len(pushed) \in Nat /\ Len(saved) \in Nat
  BY <1>1
<1>3. Len(saved) = Depth /\ open \in Nat /\ MaxDepth \in Nat /\ stmt \in BOOLEAN
  BY SavepointAssumption DEF Inv, Opened
<1>4. (stmt => Depth = open + 1) /\ (~stmt => Depth = open) /\ Depth \in Nat
  BY <1>3 DEF Depth
<1>5. content = Content
  BY <1>1, MergedIs DEF Content
<1>6. QED
  BY <1>1, <1>2, <1>3, <1>4, <1>5 DEF MapsFit

\* syncSavepoints, up to savepoints that are open.
LEMMA SyncFits ==
  ASSUME NEW c, NEW s, Fits(tree, pending, pushed, c, s), NEW n \in Len(pushed) .. Len(s)
  PROVE  /\ Fits(tree, PendingAt(n), PushedTo(n), c, s) /\ Len(PushedTo(n)) = n
         /\ (PendingAt(n) = NoMap <=> pending = NoMap)
         /\ DOMAIN PendingAt(n).edits = DOMAIN pending.edits
         /\ EnsuredAt(n) = IF pending = NoMap THEN EmptyMap(n) ELSE PendingAt(n)
<1>1. Len(pushed) \in Nat /\ n \in Nat /\ n >= Len(pushed)
  <2>1. pushed \in Seq(Pushes)
    BY DEF Fits
  <2>2. QED
    BY <2>1
<1>2. Max({n, Len(pushed)}) = n
  BY <1>1, GreaterOf
<1>3. PushedTo(n) = [i \in 1 .. n |-> IF i <= Len(pushed) THEN pushed[i] ELSE [tree |-> tree, flushed |-> NoMap]]
  BY <1>2 DEF PushedTo
<1>4. PendingAt(n) = IF pending = NoMap \/ n <= Len(pushed) THEN pending ELSE [pending EXCEPT !.level = n]
  BY DEF PendingAt
<1>5. EnsuredAt(n) = IF pending = NoMap THEN EmptyMap(n) ELSE PendingAt(n)
  BY <1>2 DEF EnsuredAt
<1>6. PushDone(tree, pending, pushed, n, PendingAt(n), PushedTo(n))
  BY <1>3, <1>4 DEF PushDone
<1>7. QED
  BY <1>5, <1>6, PushFits

\* The map that is rolled back is the one behind the savepoint.
LEMMA RevertedIs ==
  ASSUME pushed \in Seq(Pushes), NEW i \in 1 .. Len(pushed)
  PROVE  \E x : /\ Behind(pushed, pending, i, x)
                /\ Reverted(i) = IF tree = NoTable THEN NoMap ELSE RolledBack(x, i)
<1>1. i \in Nat /\ Len(pushed) \in Nat
  BY SeqIs
<1>2. CASE Took(i) = {}
  <2>1. \A j \in i .. Len(pushed) : pushed[j].flushed = NoMap
    BY <1>2 DEF Took
  <2>2. Behind(pushed, pending, i, pending)
    BY <2>1 DEF Behind
  <2>3. QED
    BY <1>2, <2>2 DEF Reverted
<1>3. CASE Took(i) # {}
  <2>1. Took(i) \in SUBSET Nat
    BY <1>1 DEF Took
  <2> DEFINE n == Min(Took(i))
             x == pushed[n].flushed
  <2>2. n \in Took(i) /\ \A j \in Took(i) : n <= j
    BY <1>3, <2>1, LeastExists
  <2>3. Reverted(i) = IF tree = NoTable THEN NoMap ELSE RolledBack(x, i)
    BY <1>3 DEF Reverted
  <2> HIDE DEF n
  <2>4. n \in i .. Len(pushed) /\ x # NoMap /\ \A j \in i .. n - 1 : pushed[j].flushed = NoMap
    BY <1>1, <2>2 DEF Took
  <2>5. Behind(pushed, pending, i, x)
    BY <2>4 DEF Behind
  <2>6. QED
    BY <2>3, <2>5
<1>4. QED
  BY <1>2, <1>3

\* An empty table, no transaction.
LEMMA InitHolds == Init => Inv
<1> SUFFICES ASSUME Init
             PROVE  Inv
  OBVIOUS
<1>1. /\ tree = NoRows /\ committed = NoRows /\ pending = NoMap /\ pushed = <<>>
      /\ open = 0 /\ stmt = FALSE /\ writing = FALSE
      /\ content = NoRows /\ saved = <<>> /\ durable = NoRows
  BY DEF Init, Stack!Init, Stack!NoRows, NoRows
<1>2. NoRows \in Tabs
  <2>1. NoRows \in [{} -> Rows]
    BY DEF NoRows
  <2>2. QED
    BY <2>1 DEF Tabs, Tables
<1>3. Good(NoMap) /\ DOMAIN NoMap.edits = {}
  <2>1. 0 \in Nat
    OBVIOUS
  <2>2. QED
    BY <2>1, EmptyGood
<1>4. Fits(tree, pending, pushed, content, saved)
  BY <1>1, <1>2, <1>3, FreshFits
<1>5. Opened
  <2>1. 0 \in 0 .. MaxDepth
    BY SavepointAssumption
  <2>2. Len(saved) = 0 /\ Depth = 0
    BY <1>1 DEF Depth
  <2>3. QED
    BY <1>1, <1>2, <2>1, <2>2 DEF Opened
<1>6. Begun
  BY <1>1, <1>3 DEF Begun
<1>7. QED
  BY <1>4, <1>5, <1>6 DEF Inv

-------------------------------------------------------------------------------
(* Statements                                                               *)

\* prollyBtCursorInsert and prollyBtCursorDelete: push, get a map, edit it.
LEMMA EditKeeps ==
  ASSUME Inv, NEW k \in Keys, NEW row \in Rows \cup {NoRow}, Edit(k, row), UNCHANGED <<saved, durable>>,
         RowSet(content, content', k, row)
  PROVE  Inv'
<1> DEFINE m == EnsuredAt(Depth)
           q == PushedTo(Depth)
<1>1. /\ tree # NoTable /\ pushed' = q /\ pending' = Edited(m, k, row) /\ writing' = TRUE
      /\ tree' = tree /\ open' = open /\ stmt' = stmt /\ committed' = committed
      /\ saved' = saved /\ durable' = durable
  BY DEF Edit
<1>2. Len(saved) = Depth /\ Depth \in Len(pushed) .. Len(saved)
  BY InvIs
<1>3. Fits(tree, m, q, content, saved) /\ m # NoMap /\ Len(q) = Len(saved)
  <2>1. /\ Fits(tree, PendingAt(Depth), q, content, saved) /\ Len(q) = Depth
        /\ (PendingAt(Depth) = NoMap <=> pending = NoMap)
        /\ m = IF pending = NoMap THEN EmptyMap(Depth) ELSE PendingAt(Depth)
    BY <1>2, SyncFits DEF Inv
  <2> HIDE DEF m, q
  <2>2. CASE pending = NoMap
    <3>1. Fits(tree, NoMap, q, content, saved)
      BY <2>1, <2>2
    <3>2. Fits(tree, EmptyMap(Len(q)), q, content, saved) /\ EmptyMap(Len(q)) # NoMap
      BY <3>1, EnsureFits
    <3>3. QED
      BY <1>2, <2>1, <2>2, <3>2
  <2>3. CASE pending # NoMap
    BY <1>2, <2>1, <2>3
  <2>4. QED
    BY <2>2, <2>3
<1> HIDE DEF m, q
<1>4. Fits(tree, pending', q, content', saved)
  <2> DEFINE o == Edited(m, k, row)
             d == Over(tree, RowsOf(o))
  <2>1. Fits(tree, o, q, d, saved) /\ RowSet(content, d, k, row)
    BY <1>1, <1>3, EditFits
  <2> HIDE DEF o, d
  <2>2. content' = d
    BY <2>1 DEF RowSet
  <2>3. QED
    BY <1>1, <2>1, <2>2 DEF o
<1>5. Fits(tree, pending, pushed, content, saved)'
  BY <1>1, <1>4
<1>6. Depth' = Depth
  BY <1>1 DEF Depth
<1>7. Opened'
  BY <1>1, <1>6 DEF Inv, Opened
<1>8. Begun'
  BY <1>1, <1>2, <1>3, <1>6 DEF Begun
<1>9. QED
  BY <1>5, <1>7, <1>8 DEF Inv

\* A row is written.
LEMMA WriteKeeps ==
  ASSUME Inv, NEW k \in Keys, NEW r \in Rows, Write(k, r)
  PROVE  Inv'
<1>1. r # NoRow
  BY SavepointAssumption
<1>2. Edit(k, r) /\ UNCHANGED <<saved, durable>> /\ RowSet(content, content', k, r)
  BY <1>1 DEF Write, Stack!Put, Stack!Changes, RowSet
<1>3. QED
  BY <1>2, EditKeeps

\* A row is deleted.
LEMMA DeleteKeeps ==
  ASSUME Inv, NEW k \in Keys, Delete(k)
  PROVE  Inv'
<1>1. Edit(k, NoRow) /\ UNCHANGED <<saved, durable>> /\ RowSet(content, content', k, NoRow)
  BY DEF Delete, Stack!Remove, Stack!Changes, RowSet
<1>2. QED
  BY <1>1, EditKeeps

\* The table is emptied, when it has no edits.
LEMMA ClearTableKeeps ==
  ASSUME Inv, Hazards \subseteq Avoided, ClearTable
  PROVE  Inv'
<1>1. /\ tree # NoTable /\ ~stmt /\ ~HasEdits(pending) /\ (writing => Len(pushed) >= open)
      /\ tree' = NoRows /\ writing' = TRUE /\ UNCHANGED <<open, stmt, committed, saved, durable>>
      /\ content' = NoRows
  BY DEF ClearTable, Hazards, Stack!Empty, Stack!Changes, Stack!NoRows, NoRows
<1>2. DOMAIN pending.edits = {} /\ Len(saved) = open /\ open \in Len(pushed) .. Len(saved)
  BY <1>1, InvIs DEF HasEdits
<1>3. Fits(tree, pending', pushed', content, saved) /\ Len(pushed') = open /\ DOMAIN pending'.edits = {}
  <2>1. CASE writing
    <3>1. pending' = pending /\ pushed' = pushed
      BY <2>1 DEF ClearTable
    <3>2. Len(pushed) = open
      BY <1>1, <1>2, <2>1, InvIs
    <3>3. QED
      BY <1>2, <3>1, <3>2 DEF Inv
  <2>2. CASE ~writing
    <3>1. pending' = PendingAt(open) /\ pushed' = PushedTo(open)
      BY <2>2 DEF ClearTable
    <3>2. QED
      BY <1>2, <3>1, SyncFits DEF Inv
  <2>3. QED
    BY <2>1, <2>2
<1>4. Fits(NoRows, pending', pushed', NoRows, saved)
  BY <1>1, <1>2, <1>3, EmptyFits
<1>5. Fits(tree, pending, pushed, content, saved)'
  BY <1>1, <1>4
<1>6. Depth' = Depth
  BY <1>1 DEF Depth
<1>7. Opened'
  BY <1>1, <1>6 DEF Inv, Opened
<1>8. Begun'
  BY <1>1 DEF Begun
<1>9. QED
  BY <1>5, <1>7, <1>8 DEF Inv

\* The table is dropped, when no map has edits.
LEMMA DropTableKeeps ==
  ASSUME Inv, Hazards \subseteq Avoided, DropTable
  PROVE  Inv'
<1> DEFINE q == PushedTo(open)
<1>1. /\ tree # NoTable /\ ~stmt /\ ~HasEdits(pending) /\ Took(1) = {}
      /\ tree' = NoTable /\ pending' = NoMap /\ pushed' = q /\ writing' = TRUE
      /\ UNCHANGED <<open, stmt, committed, saved, durable>>
      /\ content' = NoTable
  BY DEF DropTable, Hazards, Stack!Drop, Stack!Changes
<1>2. DOMAIN pending.edits = {} /\ Len(saved) = open /\ open \in Len(pushed) .. Len(saved) /\ Len(pushed) \in Nat
  BY <1>1, InvIs DEF HasEdits
<1>3. /\ Fits(tree, PendingAt(open), q, content, saved) /\ Len(q) = open
      /\ DOMAIN PendingAt(open).edits = {}
  BY <1>2, SyncFits DEF Inv
<1>4. \A i \in 1 .. Len(q) : q[i].flushed = NoMap
  <2>1. ASSUME NEW i \in 1 .. open
        PROVE  q[i].flushed = NoMap
    <3>1. Max({open, Len(pushed)}) = open
      BY <1>2, GreaterOf, InvIs
    <3>2. q[i] = IF i <= Len(pushed) THEN pushed[i] ELSE [tree |-> tree, flushed |-> NoMap]
      BY <3>1 DEF PushedTo
    <3>3. CASE i <= Len(pushed)
      <4>1. i \in 1 .. Len(pushed)
        BY <1>2, <3>3
      <4>2. pushed[i].flushed = NoMap
        BY <1>1, <4>1 DEF Took
      <4>3. QED
        BY <3>2, <3>3, <4>2
    <3>4. CASE ~(i <= Len(pushed))
      BY <3>2, <3>4
    <3>5. QED
      BY <3>3, <3>4
  <2>2. QED
    BY <1>3, <2>1
<1> HIDE DEF q
<1>5. Fits(NoTable, NoMap, q, NoTable, saved)
  BY <1>1, <1>2, <1>3, <1>4, DropFits
<1>6. Fits(tree, pending, pushed, content, saved)'
  BY <1>1, <1>5
<1>7. Depth' = Depth
  BY <1>1 DEF Depth
<1>8. Opened'
  BY <1>1, <1>7 DEF Inv, Opened
<1>9. Begun'
  BY <1>1 DEF Begun
<1>10. QED
  BY <1>6, <1>8, <1>9 DEF Inv

\* What a flush leaves: the table in the tree, and no edits.
LEMMA FlushesFit ==
  ASSUME Inv, NEW f \in Flushes
  PROVE  /\ Fits(content, f.pending, f.pushed, content, saved) /\ Len(f.pushed) = Len(pushed)
         /\ f.tree = content /\ DOMAIN f.pending.edits = {}
<1> DEFINE n == Len(pushed)
           Left(m) == [tree |-> Content, pending |-> m, pushed |-> pushed]
<1>1. content = Content /\ Fits(tree, pending, pushed, content, saved) /\ n \in Nat
      /\ pushed \in Seq(Pushes) /\ tree \in Tabs
  BY InvIs DEF Inv
<1>2. \A m : Left(m).tree = content /\ Left(m).pending = m /\ Left(m).pushed = pushed
  BY <1>1
<1>3. CASE ~HasEdits(pending)
  <2>1. f = Left(pending)
    BY <1>3 DEF Flushes
  <2>2. DOMAIN pending.edits = {}
    BY <1>3 DEF HasEdits
  <2>3. content = tree
    <3>1. RowsOf(pending) = NoRows /\ content = Over(tree, RowsOf(pending))
      BY <1>1, <2>2, NoEdits DEF Fits
    <3>2. QED
      BY <1>1, <3>1, OverNone
  <2>4. QED
    BY <1>1, <1>2, <2>1, <2>2, <2>3
<1>4. CASE HasEdits(pending) /\ n > 0 /\ pushed[n].flushed = NoMap
  <2> DEFINE q == [pushed EXCEPT ![n].flushed = pending]
             o == EmptyMap(pending.level)
             g == [Left(o) EXCEPT !.pushed[n].flushed = pending]
  <2>1. f = g
    BY <1>4 DEF Flushes
  <2>2. DOMAIN pending.edits # {}
    BY <1>4 DEF HasEdits
  <2>3. g.tree = content /\ g.pending = o /\ g.pushed = q
    BY <1>1
  <2>4. FlushDone(pending, pushed, o, q)
    BY DEF FlushDone
  <2> HIDE DEF g, o, q
  <2>5. Fits(content, o, q, content, saved) /\ Len(q) = Len(pushed) /\ DOMAIN o.edits = {}
    BY <1>1, <1>4, <2>2, <2>4, FlushInto
  <2>6. QED
    BY <2>1, <2>3, <2>5
<1>5. CASE HasEdits(pending) /\ ~(n > 0 /\ pushed[n].flushed = NoMap)
  <2>1. f \in {Left(Cleared(pending)), Left(NoMap)}
    BY <1>5 DEF Flushes
  <2>2. PICK o \in {Cleared(pending), NoMap} : f = Left(o)
    BY <2>1
  <2>3. DOMAIN pending.edits # {}
    BY <1>5 DEF HasEdits
  <2>4. f.tree = content /\ f.pending = o /\ f.pushed = pushed
    BY <1>2, <2>2
  <2>5. Fits(content, o, pushed, content, saved) /\ DOMAIN o.edits = {}
    BY <1>1, <1>5, <2>2, <2>3, FlushInPlace
  <2>6. QED
    BY <2>4, <2>5
<1>6. QED
  BY <1>3, <1>4, <1>5

\* A flush changes nothing of the table or its copies.
LEMMA FlushKeeps ==
  ASSUME Inv, Flush
  PROVE  Inv'
<1>1. PICK f \in Flushes : tree' = f.tree /\ pending' = f.pending /\ pushed' = f.pushed
  BY DEF Flush
<1>2. HasEdits(pending) /\ UNCHANGED <<open, stmt, writing, committed, content, saved, durable>>
  BY DEF Flush, promised
<1>3. /\ Fits(content, pending', pushed', content, saved) /\ Len(pushed') = Len(pushed)
      /\ tree' = content
  BY <1>1, FlushesFit
<1>4. Fits(tree, pending, pushed, content, saved)'
  BY <1>2, <1>3
<1>5. Depth' = Depth
  BY <1>2 DEF Depth
<1>6. Opened'
  BY <1>2, <1>5 DEF Inv, Opened
<1>7. writing
  BY <1>2 DEF Inv, Begun, HasEdits
<1>8. Begun'
  BY <1>2, <1>3, <1>5, <1>7 DEF Inv, Begun
<1>9. QED
  BY <1>4, <1>6, <1>8 DEF Inv

\* A statement marks the table and pushes every savepoint, its own too.
LEMMA BeginStmtKeeps ==
  ASSUME Inv, BeginStmt
  PROVE  Inv'
<1> DEFINE n == open + 1
           z == Append(saved, content)
<1>1. /\ ~stmt /\ Depth < MaxDepth /\ stmt' = TRUE /\ pushed' = PushedTo(n) /\ pending' = PendingAt(n)
      /\ writing' = TRUE /\ saved' = z /\ UNCHANGED <<tree, open, committed, content, durable>>
  BY DEF BeginStmt, Stack!Mark
<1>2. Fits(tree, pending, pushed, content, z) /\ Len(z) = Len(saved) + 1
  BY MarkFits DEF Inv
<1>3. n = Depth + 1 /\ Len(saved) = Depth /\ Depth \in Nat /\ Len(pushed) \in Nat /\ Len(pushed) <= Depth
  BY <1>1, InvIs
<1> HIDE DEF n, z
<1>4. n \in Len(pushed) .. Len(z)
  BY <1>2, <1>3
<1>5. Fits(tree, PendingAt(n), PushedTo(n), content, z) /\ Len(PushedTo(n)) = n
  BY <1>2, <1>4, SyncFits
<1>6. Fits(tree, pending, pushed, content, saved)'
  BY <1>1, <1>5
<1>7. Depth' = n
  BY <1>1 DEF Depth, n
<1>8. Opened'
  BY <1>1, <1>2, <1>3, <1>7 DEF Inv, Opened
<1>9. Begun'
  BY <1>1, <1>5, <1>7 DEF Begun
<1>10. QED
  BY <1>6, <1>8, <1>9 DEF Inv

\* releaseSavepointsFrom, whether or not the savepoint was pushed.
LEMMA ReleaseFromFits ==
  ASSUME Inv, NEW i \in 1 .. Depth, i = 1 => Len(pushed) <= 1, ReleaseFrom(i)
  PROVE  /\ Fits(tree, pending', pushed', content, SubSeq(saved, 1, i - 1)) /\ Len(SubSeq(saved, 1, i - 1)) = i - 1
         /\ (pushed' = pushed /\ pending' = pending) \/ i <= Len(pushed)
<1>1. /\ pushed \in Seq(Pushes) /\ Len(pushed) \in Nat /\ Len(saved) = Depth /\ Depth \in Nat
      /\ Len(pushed) <= Depth
  BY InvIs
<1>2. CASE i > Len(pushed)
  <2>1. pending' = pending /\ pushed' = pushed
    BY <1>2 DEF ReleaseFrom
  <2>2. i - 1 \in Len(pushed) .. Len(saved)
    BY <1>1, <1>2
  <2>3. QED
    BY <2>1, <2>2, CutFits DEF Inv
<1>3. CASE i <= Len(pushed)
  <2>1. i \in 1 .. Len(pushed) /\ ~(i > Len(pushed))
    BY <1>1, <1>3
  <2>2. pending' = Released(pending, i) /\ pushed' = Inherited(i)
    BY <2>1 DEF ReleaseFrom
  <2>3. Inherited(i) = HandedOn(pushed, i)
    BY DEF Inherited, HandedOn, Took
  <2>4. InheritDone(pushed, i, pushed')
    BY <1>1, <2>1, <2>2, <2>3, InheritedIs
  <2>5. QED
    BY <1>3, <2>1, <2>2, <2>4, ReleaseFits DEF Inv
<1>4. QED
  BY <1>1, <1>2, <1>3

\* The statement ends: its savepoint is released.
LEMMA EndStmtKeeps ==
  ASSUME Inv, EndStmt
  PROVE  Inv'
<1> DEFINE i == open + 1
           z == SubSeq(saved, 1, i - 1)
<1>1. /\ stmt /\ stmt' = FALSE /\ ReleaseFrom(i) /\ saved' = z
      /\ UNCHANGED <<tree, open, writing, committed, content, durable>>
  BY DEF EndStmt, Stack!Release
<1>2. Depth = i /\ open \in Nat /\ Depth \in Nat /\ Len(pushed) = Depth /\ writing
  BY <1>1, InvIs DEF Inv, Begun
<1> HIDE DEF z
<1>3. i \in 1 .. Depth /\ (i = 1 => Len(pushed) <= 1) /\ i - 1 = open
  BY <1>2
<1> HIDE DEF i
<1>4. Fits(tree, pending', pushed', content, z) /\ Len(z) = i - 1
  BY <1>1, <1>3, ReleaseFromFits DEF z
<1>5. Fits(tree, pending, pushed, content, saved)'
  BY <1>1, <1>4
<1>6. Depth' = open
  BY <1>1, <1>2 DEF Depth
<1>7. Opened'
  BY <1>1, <1>3, <1>4, <1>6 DEF Inv, Opened
<1>8. Begun'
  BY <1>1, <1>2 DEF Begun
<1>9. QED
  BY <1>5, <1>7, <1>8 DEF Inv

\* rollbackNamedSavepoint, for a savepoint that was pushed.
LEMMA RollbackNamedFits ==
  ASSUME Inv, NEW i \in 1 .. Len(pushed), RollbackNamed(i), NEW r \in {i - 1, i}
  PROVE  /\ Fits(tree', pending', pushed', saved[i], SubSeq(saved, 1, r))
         /\ Len(SubSeq(saved, 1, r)) = r /\ Len(pushed') = i - 1
<1>1. pushed \in Seq(Pushes)
  BY InvIs
<1>2. PICK x : /\ Behind(pushed, pending, i, x)
               /\ Reverted(i) = IF tree = NoTable THEN NoMap ELSE RolledBack(x, i)
  BY <1>1, RevertedIs
<1>3. tree' = pushed[i].tree /\ pending' = Reverted(i) /\ pushed' = SubSeq(pushed, 1, i - 1)
  BY DEF RollbackNamed
<1>4. Fits(tree, pending, pushed, content, saved)
  BY DEF Inv
<1> DEFINE o == Reverted(i)
<1>5. /\ Fits(pushed[i].tree, o, SubSeq(pushed, 1, i - 1), saved[i], SubSeq(saved, 1, r))
      /\ Len(SubSeq(saved, 1, r)) = r /\ Len(SubSeq(pushed, 1, i - 1)) = i - 1
  <2>1. o = IF tree = NoTable THEN NoMap ELSE RolledBack(x, i)
    BY <1>2
  <2> HIDE DEF o
  <2>2. QED
    BY <1>2, <1>4, <2>1, RollbackFits
<1>6. QED
  BY <1>3, <1>5

\* The statement fails: its savepoint brings the table back and goes.
LEMMA AbortStmtKeeps ==
  ASSUME Inv, AbortStmt
  PROVE  Inv'
<1> DEFINE i == open + 1
           z == SubSeq(saved, 1, i - 1)
<1>1. /\ stmt /\ stmt' = FALSE /\ RollbackNamed(i)
      /\ content' = saved[Len(saved)] /\ saved' = SubSeq(saved, 1, Len(saved) - 1)
      /\ UNCHANGED <<open, writing, committed, durable>>
  BY DEF AbortStmt, Stack!Abort
<1>2. Depth = i /\ open \in Nat /\ Len(saved) = Depth /\ Len(pushed) = Depth /\ writing
  BY <1>1, InvIs DEF Inv, Begun
<1>3. i \in 1 .. Len(pushed) /\ i - 1 = open /\ saved' = z /\ content' = saved[i]
  BY <1>1, <1>2
<1> HIDE DEF z, i
<1>4. Fits(tree', pending', pushed', saved[i], z) /\ Len(z) = i - 1
  BY <1>1, <1>3, RollbackNamedFits DEF z
<1>5. Fits(tree, pending, pushed, content, saved)'
  BY <1>3, <1>4
<1>6. Depth' = open
  BY <1>1, <1>2 DEF Depth
<1>7. Opened'
  BY <1>1, <1>3, <1>4, <1>6 DEF Inv, Opened
<1>8. Begun'
  BY <1>1, <1>2 DEF Begun
<1>9. QED
  BY <1>5, <1>7, <1>8 DEF Inv

-------------------------------------------------------------------------------
(* Savepoints and transactions                                              *)

\* SAVEPOINT marks the table.
LEMMA SavepointKeeps ==
  ASSUME Inv, Savepoint
  PROVE  Inv'
<1> DEFINE z == Append(saved, content)
<1>1. /\ ~stmt /\ Depth < MaxDepth /\ open' = open + 1 /\ saved' = z
      /\ UNCHANGED <<tree, pending, pushed, stmt, writing, committed, content, durable>>
  BY DEF Savepoint, Stack!Mark
<1>2. Fits(tree, pending, pushed, content, z) /\ Len(z) = Len(saved) + 1
  BY MarkFits DEF Inv
<1>3. Depth = open /\ open \in Nat /\ Len(saved) = Depth /\ MaxDepth \in Nat
  BY <1>1, InvIs
<1> HIDE DEF z
<1>4. Fits(tree, pending, pushed, content, saved)'
  BY <1>1, <1>2
<1>5. Depth' = open + 1
  BY <1>1, <1>3 DEF Depth
<1>6. Opened'
  BY <1>1, <1>2, <1>3, <1>5 DEF Inv, Opened
<1>7. Begun'
  BY <1>1 DEF Inv, Begun
<1>8. QED
  BY <1>4, <1>6, <1>7 DEF Inv

\* RELEASE of an inner savepoint, or of the outermost with none pushed inside it.
LEMMA ReleaseKeeps ==
  ASSUME Inv, Hazards \subseteq Avoided, NEW i, Release(i)
  PROVE  Inv'
<1> DEFINE z == SubSeq(saved, 1, i - 1)
<1>1. /\ ~stmt /\ i \in 1 .. open /\ (i > 1 \/ Len(pushed) <= 1) /\ open' = i - 1
      /\ ReleaseFrom(i) /\ saved' = z /\ UNCHANGED <<tree, stmt, writing, committed, content, durable>>
  BY DEF Release, Hazards, Stack!Release
<1>2. Depth = open /\ open \in Nat /\ open <= MaxDepth /\ MaxDepth \in Nat
  BY <1>1, InvIs DEF Inv, Opened
<1>3. i \in 1 .. Depth /\ (i = 1 => Len(pushed) <= 1) /\ i - 1 \in 0 .. MaxDepth
  BY <1>1, <1>2
<1>4. /\ Fits(tree, pending', pushed', content, z) /\ Len(z) = i - 1
      /\ (pushed' = pushed /\ pending' = pending) \/ i <= Len(pushed)
  BY <1>1, <1>3, ReleaseFromFits
<1> HIDE DEF z
<1>5. Fits(tree, pending, pushed, content, saved)'
  BY <1>1, <1>4
<1>6. Depth' = i - 1
  BY <1>1, <1>3 DEF Depth
<1>7. Opened'
  BY <1>1, <1>3, <1>4, <1>6 DEF Inv, Opened
<1>8. Begun'
  <2>1. ~writing => Len(pushed) = 0 /\ i \in Nat /\ i > 0
    BY <1>3 DEF Inv, Begun
  <2>2. ~writing => pushed' = pushed /\ pending' = pending
    BY <1>4, <2>1
  <2>3. QED
    BY <1>1, <2>2 DEF Inv, Begun
<1>9. QED
  BY <1>5, <1>7, <1>8 DEF Inv

\* ROLLBACK TO a savepoint: before any write there is nothing to bring back.
LEMMA RollbackToKeeps ==
  ASSUME Inv, Hazards \subseteq Avoided, NEW i, RollbackTo(i)
  PROVE  Inv'
<1> DEFINE z == SubSeq(saved, 1, i)
<1>1. /\ ~stmt /\ i \in 1 .. open /\ open' = i /\ (~writing \/ i <= Len(pushed))
      /\ content' = saved[i] /\ saved' = z /\ UNCHANGED <<stmt, writing, committed, durable>>
  BY DEF RollbackTo, Hazards, Stack!RollbackTo
<1>2. Depth = open /\ open \in Nat /\ open <= MaxDepth /\ MaxDepth \in Nat
      /\ Len(saved) = Depth /\ Len(pushed) \in Nat
  BY <1>1, InvIs DEF Inv, Opened
<1>3. Fits(tree, pending, pushed, content, saved)' /\ Len(saved') = i /\ (~writing => UNCHANGED <<tree, pending, pushed>>)
  <2>1. CASE ~writing
    <3>1. UNCHANGED <<tree, pending, pushed>>
      BY <2>1 DEF RollbackTo
    <3>2. Len(pushed) = 0 /\ i \in Len(pushed) .. Len(saved) /\ i \in Len(pushed) + 1 .. Len(saved)
      BY <1>1, <1>2, <2>1 DEF Inv, Begun
    <3>3. saved[i] = content
      BY <3>2 DEF Inv, Fits
    <3>4. Fits(tree, pending, pushed, content, z) /\ Len(z) = i
      BY <3>2, CutFits DEF Inv
    <3> HIDE DEF z
    <3>5. QED
      BY <1>1, <3>1, <3>3, <3>4
  <2>2. CASE writing
    <3>1. i \in 1 .. Len(pushed) /\ i \in {i - 1, i}
      BY <1>1, <1>2, <2>2
    <3>2. RollbackNamed(i)
      BY <1>2, <2>2, <3>1 DEF RollbackTo
    <3>3. Fits(tree', pending', pushed', saved[i], z) /\ Len(z) = i
      BY <3>1, <3>2, RollbackNamedFits
    <3> HIDE DEF z
    <3>4. QED
      BY <1>1, <2>2, <3>3
  <2>3. QED
    BY <2>1, <2>2
<1> HIDE DEF z
<1>4. Depth' = i
  BY <1>1 DEF Depth
<1>5. Opened'
  BY <1>1, <1>2, <1>3, <1>4 DEF Inv, Opened
<1>6. Begun'
  BY <1>1, <1>3 DEF Inv, Begun
<1>7. QED
  BY <1>3, <1>5, <1>6 DEF Inv

\* Back to what was committed, with no savepoint open.
LEMMA RestartKeeps ==
  ASSUME Inv, stmt' = FALSE, open' = 0, pushed' = <<>>, saved' = <<>>, writing' \in BOOLEAN,
         IF writing THEN RollbackCommitted ELSE UNCHANGED <<tree, pending>> /\ writing' = FALSE,
         content' = durable, UNCHANGED <<committed, durable>>
  PROVE  Inv'
<1>1. committed \in Tabs /\ durable = committed /\ MaxDepth \in Nat
  BY SavepointAssumption DEF Inv, Opened
<1>2. Good(NoMap) /\ DOMAIN NoMap.edits = {}
  <2>1. 0 \in Nat
    OBVIOUS
  <2>2. QED
    BY <2>1, EmptyGood
<1>3. /\ tree' = committed /\ Good(pending') /\ DOMAIN pending'.edits = {}
      /\ (pending' # NoMap => pending'.level = 0)
  <2>1. CASE writing
    BY <1>2, <2>1 DEF RollbackCommitted
  <2>2. CASE ~writing
    <3>1. tree' = tree /\ pending' = pending
      BY <2>2
    <3>2. tree = committed /\ DOMAIN pending.edits = {} /\ Len(pushed) = 0
      BY <2>2 DEF Inv, Begun
    <3>3. Good(pending) /\ (pending # NoMap => pending.level = Len(pushed))
      BY InvIs
    <3>4. QED
      BY <3>1, <3>2, <3>3
  <2>3. QED
    BY <2>1, <2>2
<1>4. Fits(committed, pending', <<>>, committed, <<>>)
  BY <1>1, <1>3, FreshFits
<1>5. Fits(tree, pending, pushed, content, saved)'
  BY <1>1, <1>3, <1>4
<1>6. Depth' = 0 /\ Len(saved') = 0 /\ 0 \in 0 .. MaxDepth
  BY <1>1 DEF Depth
<1>7. Opened'
  BY <1>1, <1>6 DEF Opened
<1>8. Begun'
  BY <1>3 DEF Begun
<1>9. QED
  BY <1>5, <1>7, <1>8 DEF Inv

\* ROLLBACK TO the savepoint that began the transaction.
LEMMA RollbackToStartKeeps ==
  ASSUME Inv, RollbackToStart
  PROVE  Inv'
<1>1. writing \in BOOLEAN /\ stmt \in BOOLEAN
  BY DEF Inv, Opened
<1>2. /\ stmt' = FALSE /\ open' = 0 /\ pushed' = <<>> /\ saved' = <<>> /\ writing' \in BOOLEAN
      /\ IF writing THEN RollbackCommitted ELSE UNCHANGED <<tree, pending>> /\ writing' = FALSE
      /\ content' = durable /\ UNCHANGED <<committed, durable>>
  BY <1>1 DEF RollbackToStart, Stack!Restart
<1>3. QED
  BY <1>2, RestartKeeps

\* ROLLBACK.
LEMMA RollbackKeeps ==
  ASSUME Inv, Rollback
  PROVE  Inv'
<1>1. /\ stmt' = FALSE /\ open' = 0 /\ pushed' = <<>> /\ saved' = <<>> /\ writing' \in BOOLEAN
      /\ IF writing THEN RollbackCommitted ELSE UNCHANGED <<tree, pending>> /\ writing' = FALSE
      /\ content' = durable /\ UNCHANGED <<committed, durable>>
  BY DEF Rollback, Stack!Restart
<1>2. QED
  BY <1>1, RestartKeeps

\* COMMIT flushes the map, which must not be left inside a savepoint.
LEMMA CommitKeeps ==
  ASSUME Inv, Hazards \subseteq Avoided, Commit
  PROVE  Inv'
<1>1. PICK f \in IF writing THEN Flushes ELSE {[tree |-> tree, pending |-> pending]} :
        /\ f.pending.level = 0 /\ tree' = f.tree /\ committed' = f.tree /\ pending' = f.pending
  BY DEF Commit, Hazards
<1>2. /\ pushed' = <<>> /\ open' = 0 /\ stmt' = FALSE /\ writing' = FALSE
      /\ durable' = content /\ saved' = <<>> /\ content' = content
  BY DEF Commit, Stack!Commit
<1>3. /\ f.tree = content /\ Good(f.pending) /\ DOMAIN f.pending.edits = {} /\ content \in Tabs
  <2>1. CASE writing
    <3>1. f \in Flushes
      BY <1>1, <2>1
    <3>2. Fits(content, f.pending, f.pushed, content, saved) /\ f.tree = content /\ DOMAIN f.pending.edits = {}
      BY <3>1, FlushesFit
    <3>3. QED
      BY <3>2 DEF Fits, MapsFit
  <2>2. CASE ~writing
    <3>1. f.tree = tree /\ f.pending = pending
      BY <1>1, <2>2
    <3>2. DOMAIN pending.edits = {} /\ Good(pending) /\ tree \in Tabs
      BY <2>2, InvIs DEF Inv, Begun
    <3>3. content = tree
      <4>1. content = Over(tree, RowsOf(pending)) /\ RowsOf(pending) = NoRows
        BY <3>2, NoEdits DEF Inv, Fits
      <4>2. QED
        BY <3>2, <4>1, OverNone
    <3>4. QED
      BY <3>1, <3>2, <3>3
  <2>3. QED
    BY <2>1, <2>2
<1>4. Fits(content, pending', <<>>, content, <<>>)
  BY <1>1, <1>3, FreshFits
<1>5. Fits(tree, pending, pushed, content, saved)'
  BY <1>1, <1>2, <1>3, <1>4
<1>6. Depth' = 0 /\ Len(saved') = 0
  BY <1>2 DEF Depth
<1>7. Opened'
  <2>1. 0 \in 0 .. MaxDepth
    BY SavepointAssumption
  <2>2. QED
    BY <1>1, <1>2, <1>3, <1>6, <2>1 DEF Opened
<1>8. Begun'
  BY <1>1, <1>2, <1>3 DEF Begun
<1>9. QED
  BY <1>5, <1>7, <1>8 DEF Inv

-------------------------------------------------------------------------------
(* The theorems                                                             *)

\* Every step keeps the invariant, as long as the client avoids the hazards.
LEMMA NextHolds ==
  ASSUME Hazards \subseteq Avoided
  PROVE  Inv /\ [Next]_vars => Inv'
<1> SUFFICES ASSUME Inv, [Next]_vars
             PROVE  Inv'
  OBVIOUS
<1>1. CASE UNCHANGED vars
  <2>1. /\ UNCHANGED <<tree, pending, pushed, open, stmt, writing, committed>>
        /\ UNCHANGED <<content, saved, durable>>
    BY <1>1 DEF vars, promised
  <2>2. Depth' = Depth
    BY <2>1 DEF Depth
  <2>3. QED
    BY <2>1, <2>2 DEF Inv, Opened, Begun
<1>2. ASSUME NEW k \in Keys, Delete(k)
      PROVE  Inv'
  BY <1>2, DeleteKeeps
<1>3. ASSUME NEW k \in Keys, NEW r \in Rows, Write(k, r)
      PROVE  Inv'
  BY <1>3, WriteKeeps
<1>4. CASE ClearTable
  BY <1>4, ClearTableKeeps
<1>5. CASE DropTable
  BY <1>5, DropTableKeeps
<1>6. CASE Flush
  BY <1>6, FlushKeeps
<1>7. CASE BeginStmt
  BY <1>7, BeginStmtKeeps
<1>8. CASE EndStmt
  BY <1>8, EndStmtKeeps
<1>9. CASE AbortStmt
  BY <1>9, AbortStmtKeeps
<1>10. CASE Savepoint
  BY <1>10, SavepointKeeps
<1>11. CASE RollbackToStart
  BY <1>11, RollbackToStartKeeps
<1>12. CASE Commit
  BY <1>12, CommitKeeps
<1>13. CASE Rollback
  BY <1>13, RollbackKeeps
<1>14. ASSUME NEW i, Release(i)
       PROVE  Inv'
  BY <1>14, ReleaseKeeps
<1>15. ASSUME NEW i, RollbackTo(i)
       PROVE  Inv'
  BY <1>15, RollbackToKeeps
<1>16. QED
  BY <1>1, <1>2, <1>3, <1>4, <1>5, <1>6, <1>7, <1>8, <1>9, <1>10, <1>11, <1>12, <1>13, <1>14, <1>15 DEF Next

\* The invariant holds in every state.
LEMMA InvHolds ==
  ASSUME Hazards \subseteq Avoided
  PROVE  Spec => []Inv
<1>1. Inv /\ [Next]_vars => Inv'
  BY NextHolds
<1>2. QED
  BY <1>1, InitHolds, PTL DEF Spec

\* Types.
THEOREM SavepointTypes ==
  ASSUME Hazards \subseteq Avoided
  PROVE  Spec => []TypeOK
<1>1. ASSUME Inv
      PROVE  TypeOK
  <2>1. /\ pushed \in Seq(Pushes) /\ tree \in Tabs /\ MapsFit(pending, pushed)
    BY <1>1 DEF Inv, Fits
  <2>2. DOMAIN pushed = 1 .. Len(pushed)
    BY <2>1
  <2>3. ASSUME NEW i \in DOMAIN pushed
        PROVE  pushed[i] \in [tree : Tabs, flushed : {pushed[i].flushed}] /\ IsMap(pushed[i].flushed)
    <3>1. i \in 1 .. Len(pushed)
      BY <2>2
    <3>2. pushed[i].tree \in Tabs /\ pushed[i] = [tree |-> pushed[i].tree, flushed |-> pushed[i].flushed]
      BY <2>1, <3>1, PushIs
    <3>3. Good(pushed[i].flushed)
      BY <2>1, <3>1 DEF MapsFit
    <3> DEFINE g == pushed[i].flushed
               u == pushed[i].tree
    <3>4. pushed[i] = [tree |-> u, flushed |-> g]
      BY <3>2
    <3>5. u \in Tabs
      BY <3>2
    <3> HIDE DEF g, u
    <3>6. pushed[i] \in [tree : Tabs, flushed : {g}]
      BY <3>4, <3>5
    <3>7. QED
      BY <3>3, <3>6 DEF Good, g
  <2>4. IsMap(pending)
    BY <2>1 DEF MapsFit, Good
  <2>5. open \in 0 .. MaxDepth /\ stmt \in BOOLEAN /\ writing \in BOOLEAN /\ committed \in Tabs
    BY <1>1 DEF Inv, Opened
  <2>6. QED
    BY <2>1, <2>2, <2>3, <2>4, <2>5 DEF TypeOK, Tabs
<1>2. QED
  BY <1>1, InvHolds, PTL

\* Every undo log can be trusted, and every map is at the level of its savepoint, whatever
\* flushes, rollbacks and releases happened in between.
THEOREM LevelsAlwaysFit ==
  ASSUME Hazards \subseteq Avoided
  PROVE  Spec => []LevelsFit
<1>1. ASSUME Inv
      PROVE  LevelsFit
  <2>1. MapsFit(pending, pushed)
    BY <1>1 DEF Inv, Fits
  <2>2. \A i \in Took(1) : i \in 1 .. Len(pushed) /\ pushed[i].flushed # NoMap
    BY DEF Took
  <2>3. LogFits(pending) /\ (pending # NoMap => pending.level = Len(pushed))
    BY <2>1 DEF MapsFit, Good
  <2>4. \A i \in Took(1) : pushed[i].flushed.level >= i /\ LogFits(pushed[i].flushed)
    BY <2>1, <2>2 DEF MapsFit, Good
  <2>5. QED
    BY <2>3, <2>4 DEF LevelsFit
<1>2. QED
  BY <1>1, InvHolds, PTL

\* What the client reads, what each ROLLBACK TO would bring back and what is committed
\* are what a stack that copies the table at each savepoint has.
THEOREM SavepointsAsPromised ==
  ASSUME Hazards \subseteq Avoided
  PROVE  Spec => []AsPromised
<1>1. ASSUME Inv
      PROVE  AsPromised
  <2>1. /\ pushed \in Seq(Pushes) /\ saved \in Seq(Tabs) /\ Len(saved) = Depth /\ Depth \in Nat
        /\ Len(pushed) \in Nat /\ content = Content
    BY <1>1, InvIs
  <2>2. /\ \A i \in 1 .. Len(pushed) : \A x : Behind(pushed, pending, i, x) => saved[i] = Over(pushed[i].tree, View(x, i))
        /\ \A i \in Len(pushed) + 1 .. Len(saved) : saved[i] = content
        /\ MapsFit(pending, pushed) /\ DropsFit(tree, pending, pushed)
    BY <1>1 DEF Inv, Fits
  <2>3. ASSUME NEW i \in 1 .. Depth
        PROVE  saved[i] = IF i <= Len(pushed) THEN Merged(pushed[i].tree, Reverted(i)) ELSE Content
    <3>1. CASE ~(i <= Len(pushed))
      <4>1. i \in Len(pushed) + 1 .. Len(saved)
        BY <2>1, <3>1
      <4>2. QED
        BY <2>1, <2>2, <3>1, <4>1
    <3>2. CASE i <= Len(pushed)
      <4>1. i \in 1 .. Len(pushed)
        BY <2>1, <3>2
      <4>2. PICK x : /\ Behind(pushed, pending, i, x)
                     /\ Reverted(i) = IF tree = NoTable THEN NoMap ELSE RolledBack(x, i)
        BY <2>1, <4>1, RevertedIs
      <4> DEFINE o == Reverted(i)
      <4>3. o = IF tree = NoTable THEN NoMap ELSE RolledBack(x, i)
        BY <4>2
      <4> HIDE DEF o
      <4>4. RowsOf(o) = View(x, i)
        <5>1. i - 1 \in {i - 1, i}
          OBVIOUS
        <5>2. QED
          BY <1>1, <4>1, <4>2, <4>3, <5>1, RollbackFits DEF Inv
      <4>5. Merged(pushed[i].tree, o) = Over(pushed[i].tree, RowsOf(o))
        BY MergedIs
      <4>6. saved[i] = Over(pushed[i].tree, View(x, i))
        BY <2>2, <4>1, <4>2
      <4>7. QED
        BY <3>2, <4>4, <4>5, <4>6 DEF o
    <3>3. QED
      BY <3>1, <3>2
  <2>4. saved = [i \in 1 .. Depth |-> saved[i]]
    BY <2>1
  <2>5. saved = Saved
    BY <2>3, <2>4 DEF Saved
  <2>6. QED
    BY <1>1, <2>1, <2>5 DEF AsPromised, Inv, Opened
<1>2. QED
  BY <1>1, InvHolds, PTL
===============================================================================
