------------------------ MODULE ThreadProjectionsProofs ------------------------
(***************************************************************************)
(* Lemmas about the operators of ThreadProjections.                         *)
(***************************************************************************)
EXTENDS ThreadProjections, FiniteSets, FiniteSetTheorems, TLAPS

-------------------------------------------------------------------------------
(* Induction.  The theorems of the library take the property as an operator;*)
(* here it is the set of the numbers that have it.                           *)

\* A set of numbers that has, with each, the one before it, and not 0, is empty:
\* counting down would put its members up to n among those below n.
LEMMA Descent ==
  ASSUME NEW T, T \subseteq Nat, 0 \notin T, \A n \in T : n - 1 \in T
  PROVE  T = {}
<1> SUFFICES ASSUME NEW n \in T PROVE FALSE
  OBVIOUS
<1> DEFINE U == {m \in T : m <= n}
           f == [m \in U |-> m - 1]
<1>1. IsFiniteSet(U)
  BY FS_BoundedSetOfNaturals
<1>2. n \in U /\ U \subseteq T /\ \A m \in U : m <= n
  OBVIOUS
<1>3. IsFiniteSet(U \ {n}) /\ Cardinality(U \ {n}) < Cardinality(U)
  <2> HIDE DEF U
  <2>1. Cardinality(U) \in Nat
    BY <1>1, FS_CardinalityType
  <2>2. IsFiniteSet(U \ {n}) /\ Cardinality(U \ {n}) = Cardinality(U) - 1
    BY <1>1, <1>2, FS_RemoveElement
  <2> QED BY <2>1, <2>2
<1>4. \A m \in U : m - 1 \in U \ {n}
  <2> SUFFICES ASSUME NEW m \in U PROVE m - 1 \in U \ {n}
    OBVIOUS
  <2>1. m \in Nat /\ n \in Nat /\ m <= n /\ m - 1 \in T
    OBVIOUS
  <2> QED BY <2>1
<1>5. f \in [U -> U \ {n}]
  <2> HIDE DEF U
  <2> QED BY <1>4
<1>6. PICK x, y \in U : x # y /\ f[x] = f[y]
  <2> HIDE DEF U, f
  <2> QED BY <1>1, <1>3, <1>5, FS_PigeonHole
<1> QED BY <1>6

\* Induction up to N.
LEMMA UpTo ==
  ASSUME NEW N \in Nat, NEW G, 0 \in G, \A n \in 1..N : n - 1 \in G => n \in G
  PROVE  \A n \in 0..N : n \in G
<1> DEFINE T == {n \in 0..N : n \notin G}
<1>1. T \subseteq Nat /\ 0 \notin T /\ \A n \in T : n - 1 \in T
  OBVIOUS
<1>2. T = {}
  <2> HIDE DEF T
  <2> QED BY <1>1, Descent
<1> QED BY <1>2

\* A set of numbers up to n has a greatest one.
LEMMA Greatest ==
  ASSUME NEW n \in Nat, NEW S, S \subseteq 0..n, S # {}
  PROVE  \E x \in S : \A y \in S : y <= x
<1> DEFINE G == {m \in 0..n : (\E s \in S : n - m <= s) => \E x \in S : \A y \in S : y <= x}
<1>1. 0 \in G
  <2>1. ASSUME NEW s \in S, n - 0 <= s PROVE s = n
    BY <2>1
  <2> QED BY <2>1
<1>2. ASSUME NEW m \in 1..n, m - 1 \in G PROVE m \in G
  <2> SUFFICES ASSUME NEW s \in S, n - m <= s PROVE \E x \in S : \A y \in S : y <= x
    BY <1>2
  <2>1. CASE \E t \in S : n - (m - 1) <= t
    BY <1>2, <2>1
  <2>2. CASE \A t \in S : ~ (n - (m - 1) <= t)
    BY <2>2
  <2> QED BY <2>1, <2>2
<1>3. n \in G
  <2> HIDE DEF G
  <2> QED BY <1>1, <1>2, UpTo
<1>4. \E s \in S : n - n <= s
  <2>1. PICK s \in S : s \in 0..n
    OBVIOUS
  <2> QED BY <2>1
<1> QED BY <1>3, <1>4

LEMMA MaxIsGreatest ==
  ASSUME NEW n \in Nat, NEW S, S \subseteq 0..n, S # {}
  PROVE  Max(S) \in S /\ \A y \in S : y <= Max(S)
<1>1. PICK x \in S : \A y \in S : y <= x
  BY Greatest
<1>2. \A y \in S : x >= y
  BY <1>1
<1> QED BY <1>2 DEF Max

-------------------------------------------------------------------------------
(* Rows in a set                                                            *)

IsSequence(s) == \E S : s \in Seq(S)

OnlyUpTo(rows, S, n, f) ==
  f = [k \in 0..n |->
        IF k = 0 THEN <<>>
        ELSE IF rows[k] \in S THEN Append(f[k - 1], rows[k]) ELSE f[k - 1]]

\* What Only builds up exists.
LEMMA OnlyExists ==
  ASSUME NEW rows, NEW S, NEW N \in Nat
  PROVE  \E f : OnlyUpTo(rows, S, N, f)
<1> DEFINE G == {n \in 0..N : \E f : OnlyUpTo(rows, S, n, f)}
<1>1. 0 \in G
  <2>1. OnlyUpTo(rows, S, 0, [k \in 0..0 |-> <<>>])
    BY DEF OnlyUpTo
  <2> QED BY <2>1
<1>2. ASSUME NEW n \in 1..N, n - 1 \in G PROVE n \in G
  <2>1. PICK f : OnlyUpTo(rows, S, n - 1, f)
    BY <1>2
  <2> DEFINE next == IF rows[n] \in S THEN Append(f[n - 1], rows[n]) ELSE f[n - 1]
             g    == [k \in 0..n |-> IF k = n THEN next ELSE f[k]]
  <2>2. \A k \in 0..(n - 1) :
          f[k] = IF k = 0 THEN <<>>
                 ELSE IF rows[k] \in S THEN Append(f[k - 1], rows[k]) ELSE f[k - 1]
    BY <2>1 DEF OnlyUpTo
  <2>3. g[n] = next /\ \A k \in 0..(n - 1) : g[k] = f[k]
    OBVIOUS
  <2>4. \A k \in 0..n :
          g[k] = IF k = 0 THEN <<>>
                 ELSE IF rows[k] \in S THEN Append(g[k - 1], rows[k]) ELSE g[k - 1]
    <3> SUFFICES ASSUME NEW k \in 0..n
                 PROVE  g[k] = IF k = 0 THEN <<>>
                               ELSE IF rows[k] \in S THEN Append(g[k - 1], rows[k]) ELSE g[k - 1]
      OBVIOUS
    <3>1. k # 0 => g[k - 1] = f[k - 1]
      BY <2>3
    <3>2. CASE k = n
      <4>1. g[k] = next /\ k # 0
        BY <2>3, <3>2
      <4>2. next = IF rows[k] \in S THEN Append(f[k - 1], rows[k]) ELSE f[k - 1]
        BY <3>2
      <4> HIDE DEF g, next
      <4> QED BY <3>1, <4>1, <4>2
    <3>3. CASE k # n
      <4>1. k \in 0..(n - 1)
        BY <3>3
      <4> HIDE DEF g, next
      <4> QED BY <2>2, <2>3, <3>1, <4>1
    <3> QED BY <3>2, <3>3
  <2>5. OnlyUpTo(rows, S, n, g)
    BY <2>4 DEF OnlyUpTo
  <2> QED BY <2>5
<1>3. N \in G
  <2> HIDE DEF G
  <2> QED BY <1>1, <1>2, UpTo
<1> QED BY <1>3

\* A sequence that takes the elements of S from rows, in their order.
Takes(o, rows, S, n) ==
  /\ \E R : o \in Seq(R)
  /\ \E e \in [DOMAIN o -> 1..n] :
       /\ \A i \in DOMAIN o : o[i] = rows[e[i]] /\ o[i] \in S
       /\ \A i, j \in DOMAIN o : i < j => e[i] < e[j]
       /\ \A k \in 1..n : rows[k] \in S => \E i \in DOMAIN o : e[i] = k

\* What Only returns: the rows in S, each once and in order.
LEMMA OnlyTakes ==
  ASSUME NEW R, NEW rows \in Seq(R), NEW S
  PROVE  Takes(Only(rows, S), rows, S, Len(rows))
<1> DEFINE f == CHOOSE f : OnlyUpTo(rows, S, Len(rows), f)
<1>0. Len(rows) \in Nat
  OBVIOUS
<1>1. OnlyUpTo(rows, S, Len(rows), f)
  <2>1. \E g : OnlyUpTo(rows, S, Len(rows), g)
    BY <1>0, OnlyExists
  <2> QED BY <2>1
<1>2. Only(rows, S) = f[Len(rows)]
  BY DEF Only, OnlyUpTo
<1> HIDE DEF f
<1> DEFINE G == {n \in 0..Len(rows) : Takes(f[n], rows, S, n)}
<1>3. /\ f[0] = <<>>
      /\ \A n \in 1..Len(rows) :
           f[n] = IF rows[n] \in S THEN Append(f[n - 1], rows[n]) ELSE f[n - 1]
  <2>1. \A k \in 0..Len(rows) :
          f[k] = IF k = 0 THEN <<>>
                 ELSE IF rows[k] \in S THEN Append(f[k - 1], rows[k]) ELSE f[k - 1]
    BY <1>1 DEF OnlyUpTo
  <2> QED BY <1>0, <2>1
<1>4. 0 \in G
  <2>1. <<>> \in Seq({}) /\ DOMAIN <<>> = {}
    OBVIOUS
  <2>2. [i \in {} |-> 0] \in [DOMAIN <<>> -> 1..0]
    BY <2>1
  <2>3. Takes(<<>>, rows, S, 0)
    <3> DEFINE o == <<>>
    <3>1. DOMAIN o = {} /\ \E R1 : o \in Seq(R1)
      BY <2>1
    <3>2. \E e \in [DOMAIN o -> 1..0] : TRUE
      BY <2>2
    <3>3. 1..0 = {}
      OBVIOUS
    <3> HIDE DEF o
    <3>4. Takes(o, rows, S, 0)
      BY <3>1, <3>2, <3>3 DEF Takes
    <3> QED BY <3>4 DEF o
  <2> QED BY <1>0, <1>3, <2>3
<1>5. ASSUME NEW n \in 1..Len(rows), n - 1 \in G PROVE n \in G
  <2> DEFINE o == f[n - 1]
  <2>1. Takes(o, rows, S, n - 1)
    BY <1>5
  <2>2. PICK Q : o \in Seq(Q)
    BY <2>1 DEF Takes
  <2>3. PICK e \in [DOMAIN o -> 1..(n - 1)] :
          /\ \A i \in DOMAIN o : o[i] = rows[e[i]] /\ o[i] \in S
          /\ \A i, j \in DOMAIN o : i < j => e[i] < e[j]
          /\ \A k \in 1..(n - 1) : rows[k] \in S => \E i \in DOMAIN o : e[i] = k
    BY <2>1 DEF Takes
  <2> HIDE DEF o
  <2>4. CASE rows[n] \in S
    <3> DEFINE p == Append(o, rows[n])
               d == [i \in DOMAIN p |-> IF i = Len(o) + 1 THEN n ELSE e[i]]
    <3>1. f[n] = p
      BY <1>3, <2>4 DEF o
    <3>2. p \in Seq(Q \cup {rows[n]}) /\ DOMAIN p = 1..(Len(o) + 1) /\ DOMAIN o = 1..Len(o) /\ Len(o) \in Nat
      BY <2>2
    <3>3. p[Len(o) + 1] = rows[n] /\ \A i \in DOMAIN o : p[i] = o[i]
      BY <2>2
    <3> HIDE DEF p
    <3>4. d \in [DOMAIN p -> 1..n]
      BY <3>2
    <3>5. \A i \in DOMAIN p : p[i] = rows[d[i]] /\ p[i] \in S
      BY <2>3, <2>4, <3>2, <3>3
    <3>6. \A i, j \in DOMAIN p : i < j => d[i] < d[j]
      <4> SUFFICES ASSUME NEW i \in DOMAIN p, NEW j \in DOMAIN p, i < j PROVE d[i] < d[j]
        OBVIOUS
      <4>1. i \in DOMAIN o /\ d[i] = e[i] /\ e[i] \in 1..(n - 1)
        BY <3>2
      <4>2. CASE j = Len(o) + 1
        BY <4>1, <4>2
      <4>3. CASE j # Len(o) + 1
        <5>1. j \in DOMAIN o /\ d[j] = e[j]
          BY <3>2, <4>3
        <5> QED BY <2>3, <4>1, <5>1
      <4> QED BY <4>2, <4>3
    <3>7. \A k \in 1..n : rows[k] \in S => \E i \in DOMAIN p : d[i] = k
      <4> SUFFICES ASSUME NEW k \in 1..n, rows[k] \in S PROVE \E i \in DOMAIN p : d[i] = k
        OBVIOUS
      <4>1. CASE k = n
        <5>1. Len(o) + 1 \in DOMAIN p /\ d[Len(o) + 1] = n
          BY <3>2
        <5> QED BY <4>1, <5>1
      <4>2. CASE k # n
        <5>1. PICK i \in DOMAIN o : e[i] = k
          BY <2>3, <4>2
        <5>2. i \in DOMAIN p /\ d[i] = e[i]
          BY <3>2
        <5> QED BY <5>1, <5>2
      <4> QED BY <4>1, <4>2
    <3>8. Takes(p, rows, S, n)
      <4> HIDE DEF d
      <4> QED BY <3>2, <3>4, <3>5, <3>6, <3>7 DEF Takes
    <3> QED BY <3>1, <3>8
  <2>5. CASE rows[n] \notin S
    <3>1. f[n] = o
      BY <1>3, <2>5 DEF o
    <3>2. e \in [DOMAIN o -> 1..n]
      OBVIOUS
    <3>3. \A k \in 1..n : rows[k] \in S => \E i \in DOMAIN o : e[i] = k
      BY <2>3, <2>5
    <3>4. Takes(o, rows, S, n)
      BY <2>2, <2>3, <3>2, <3>3 DEF Takes
    <3> QED BY <3>1, <3>4
  <2> QED BY <2>4, <2>5
<1>6. Len(rows) \in G
  <2> HIDE DEF G
  <2> DEFINE N == Len(rows)
  <2>1. N \in Nat /\ \A n \in 1..N : n - 1 \in G => n \in G
    BY <1>0, <1>5
  <2> HIDE DEF N
  <2>2. \A n \in 0..N : n \in G
    BY <1>4, <2>1, UpTo
  <2> QED BY <2>1, <2>2 DEF N
<1> QED BY <1>2, <1>6

\* Rows of which no two have the same key.
Distinct(rows, key) == \A i, j \in DOMAIN rows : rows[i][key] = rows[j][key] => i = j

\* What Only, Upsert and MoveToEnd leave of a table.
LEMMA OnlyRows ==
  ASSUME NEW rows, NEW S, IsSequence(rows)
  PROVE  /\ IsSequence(Only(rows, S))
         /\ Range(Only(rows, S)) = Range(rows) \cap S
         /\ \A key : Distinct(rows, key) => Distinct(Only(rows, S), key)
<1> DEFINE o == Only(rows, S)
<1>1. PICK R : rows \in Seq(R)
  BY DEF IsSequence
<1>2. Takes(o, rows, S, Len(rows))
  BY <1>1, OnlyTakes
<1> HIDE DEF o
<1>3. IsSequence(o)
  BY <1>2 DEF Takes, IsSequence
<1>4. PICK e \in [DOMAIN o -> 1..Len(rows)] :
        /\ \A i \in DOMAIN o : o[i] = rows[e[i]] /\ o[i] \in S
        /\ \A i, j \in DOMAIN o : i < j => e[i] < e[j]
        /\ \A k \in 1..Len(rows) : rows[k] \in S => \E i \in DOMAIN o : e[i] = k
  BY <1>2 DEF Takes
<1>5. DOMAIN rows = 1..Len(rows) /\ DOMAIN o \subseteq Nat
  <2>1. PICK Q : o \in Seq(Q)
    BY <1>3 DEF IsSequence
  <2> QED BY <1>1, <2>1
<1>6. Range(o) = Range(rows) \cap S
  BY <1>4, <1>5 DEF Range
<1>7. ASSUME NEW key, Distinct(rows, key), NEW i \in DOMAIN o, NEW j \in DOMAIN o, o[i][key] = o[j][key]
      PROVE  i = j
  <2>1. e[i] = e[j]
    BY <1>4, <1>5, <1>7 DEF Distinct
  <2>2. e[i] \in Nat /\ i \in Nat /\ j \in Nat
    BY <1>5
  <2> QED BY <1>4, <2>1, <2>2
<1> QED BY <1>3, <1>6, <1>7 DEF o, Distinct

LEMMA UpsertRows ==
  ASSUME NEW rows, NEW row, NEW key, IsSequence(rows)
  PROVE  LET new == Upsert(rows, row, key)
         IN /\ IsSequence(new)
            /\ row \in Range(new)
            /\ Range(new) \subseteq Range(rows) \cup {row}
            /\ \A r \in Range(rows) : r[key] # row[key] => r \in Range(new)
            /\ Distinct(rows, key) => Distinct(new, key)
<1> DEFINE new == Upsert(rows, row, key)
<1>1. PICK R : rows \in Seq(R)
  BY DEF IsSequence
<1>2. CASE \E i \in DOMAIN rows : rows[i][key] = row[key]
  <2>1. new = [i \in DOMAIN rows |-> IF rows[i][key] = row[key] THEN row ELSE rows[i]]
    BY <1>2 DEF Upsert
  <2> HIDE DEF new
  <2>2. new \in Seq(R \cup {row})
    BY <1>1, <2>1
  <2>3. DOMAIN new = DOMAIN rows
    BY <2>1
  <2>4. row \in Range(new) /\ Range(new) \subseteq Range(rows) \cup {row}
    BY <1>2, <2>1, <2>3 DEF Range
  <2>5. \A r \in Range(rows) : r[key] # row[key] => r \in Range(new)
    BY <2>1, <2>3 DEF Range
  <2>6. \A i \in DOMAIN rows : new[i][key] = rows[i][key]
    BY <2>1
  <2>7. Distinct(rows, key) => Distinct(new, key)
    BY <2>3, <2>6 DEF Distinct
  <2> QED BY <2>2, <2>4, <2>5, <2>7 DEF IsSequence, new
<1>3. CASE \A i \in DOMAIN rows : rows[i][key] # row[key]
  <2>1. new = Append(rows, row)
    BY <1>3 DEF Upsert
  <2> HIDE DEF new
  <2>2. rows \in Seq(R \cup {row})
    BY <1>1
  <2>3. new \in Seq(R \cup {row})
    BY <2>1, <2>2
  <2>4. /\ DOMAIN rows = 1..Len(rows) /\ DOMAIN new = 1..(Len(rows) + 1) /\ Len(rows) \in Nat
        /\ new[Len(rows) + 1] = row /\ \A i \in DOMAIN rows : new[i] = rows[i]
    BY <2>1, <2>2
  <2>5. row \in Range(new) /\ Range(new) \subseteq Range(rows) \cup {row}
    BY <2>4 DEF Range
  <2>6. \A r \in Range(rows) : r \in Range(new)
    BY <2>4 DEF Range
  <2>7. Distinct(rows, key) => Distinct(new, key)
    BY <1>3, <2>4 DEF Distinct
  <2> QED BY <2>3, <2>5, <2>6, <2>7 DEF IsSequence, new
<1> QED BY <1>2, <1>3

LEMMA MoveToEndRows ==
  ASSUME NEW rows, NEW row, NEW key, IsSequence(rows)
  PROVE  /\ IsSequence(MoveToEnd(rows, row, key))
         /\ Range(MoveToEnd(rows, row, key)) = {r \in Range(rows) : r[key] # row[key]} \cup {row}
<1> DEFINE o   == Only(rows, {r \in Range(rows) : r[key] # row[key]})
           new == Append(o, row)
<1>1. IsSequence(o) /\ Range(o) = {r \in Range(rows) : r[key] # row[key]}
  BY OnlyRows
<1> HIDE DEF o
<1>2. PICK Q : o \in Seq(Q)
  BY <1>1 DEF IsSequence
<1>3. o \in Seq(Q \cup {row}) /\ new \in Seq(Q \cup {row})
  BY <1>2
<1>4. /\ DOMAIN o = 1..Len(o) /\ DOMAIN new = 1..(Len(o) + 1) /\ Len(o) \in Nat
      /\ new[Len(o) + 1] = row /\ \A i \in DOMAIN o : new[i] = o[i]
  BY <1>3
<1> HIDE DEF new
<1>5. Range(new) = Range(o) \cup {row}
  BY <1>4 DEF Range
<1> QED BY <1>1, <1>3, <1>5 DEF MoveToEnd, IsSequence, o, new

\* A revert retains messages it has, of kept turns or of none or named by kept ones.
LEMMA RetainedMessages ==
  ASSUME NEW messages, NEW turns, NEW n, IsSequence(messages)
  PROVE  LET kept == KeptTurns(turns, n)
             new  == RetainMessages(messages, turns, n)
         IN /\ IsSequence(new)
            /\ Range(new) \subseteq Range(messages)
            /\ \A m \in Range(new) :
                 \/ m.turn \in kept \cup {NoTurn}
                 \/ \E t \in kept : m.id = turns[t].pendingMessage \/ m.id = turns[t].message
            /\ Distinct(messages, "id") => Distinct(new, "id")
<1> DEFINE kept  == KeptTurns(turns, n)
           named == {turns[t].pendingMessage : t \in kept} \cup {turns[t].message : t \in kept}
           retained == {m \in Range(messages) : m.turn \in kept \/ m.id \in named}
           missing(role) == n - Len(Only(messages, {m \in retained : m.id.role = role}))
           loose(role) == {m \in Range(messages) \ retained :
                             m.id.role = role /\ m.turn \in kept \cup {NoTurn}}
           spare(role) == Only(messages, loose(role))
           fallback(role) == {spare(role)[i] : i \in {j \in DOMAIN spare(role) : j <= missing(role)}}
           all == retained \cup fallback("user") \cup fallback("assistant")
<1>1. RetainMessages(messages, turns, n) = Only(messages, all)
  BY DEF RetainMessages
<1>2. ASSUME NEW role PROVE \A m \in fallback(role) : m.turn \in kept \cup {NoTurn}
  <2>1. Range(spare(role)) \subseteq loose(role)
    <3> HIDE DEF loose
    <3> QED BY OnlyRows
  <2>2. fallback(role) \subseteq Range(spare(role))
    BY DEF Range
  <2> QED BY <2>1, <2>2
<1>3. \A m \in all : \/ m.turn \in kept \cup {NoTurn}
                     \/ \E t \in kept : m.id = turns[t].pendingMessage \/ m.id = turns[t].message
  <2>1. \A m \in retained : \/ m.turn \in kept \cup {NoTurn}
                            \/ \E t \in kept : m.id = turns[t].pendingMessage \/ m.id = turns[t].message
    OBVIOUS
  <2> HIDE DEF retained, fallback, kept
  <2> QED BY <1>2, <2>1
<1> HIDE DEF all
<1>4. /\ IsSequence(Only(messages, all)) /\ Range(Only(messages, all)) = Range(messages) \cap all
      /\ Distinct(messages, "id") => Distinct(Only(messages, all), "id")
  BY OnlyRows
<1> QED BY <1>1, <1>3, <1>4

-------------------------------------------------------------------------------
(* The turns table                                                          *)

\* A table of turns with distinct counts.
Rows(turns) == \A t \in DOMAIN turns : "count" \in DOMAIN turns[t]
Counts(turns) ==
  \A t, u \in DOMAIN turns :
    t # u /\ turns[t].count # NoCount /\ turns[u].count # NoCount =>
      turns[t].count # turns[u].count

Tables(d) ==
  /\ d = [f \in DOMAIN d |-> d[f]]
  /\ {"messages", "plans", "session", "turns", "pending", "shell"} \subseteq DOMAIN d
  /\ Rows(d.turns)
  /\ Counts(d.turns)

\* The tables are empty at first.
LEMMA EmptyTables == Tables(EmptyDb)
BY DEF EmptyDb, Tables, Rows, Counts

\* A turn's row, found or new, has a count.
LEMMA TurnRowHasCount ==
  ASSUME NEW turns, NEW t, Rows(turns)
  PROVE  "count" \in DOMAIN TurnRow(turns, t)
BY DEF Rows, TurnRow, EmptyTurn

\* A row replaced by one with the same count.
LEMMA SameCount ==
  ASSUME NEW turns, NEW t, NEW row, Rows(turns), Counts(turns),
         "count" \in DOMAIN row, row.count = TurnRow(turns, t).count
  PROVE  Rows(SetTurn(turns, t, row)) /\ Counts(SetTurn(turns, t, row))
<1> DEFINE set == SetTurn(turns, t, row)
<1>1. DOMAIN set = DOMAIN turns \cup {t}
  BY DEF SetTurn
<1>2. set[t] = row /\ \A u \in DOMAIN turns : u # t => set[u] = turns[u]
  BY DEF SetTurn
<1>3. t \notin DOMAIN turns => row.count = NoCount
  BY DEF TurnRow, EmptyTurn
<1>4. t \in DOMAIN turns => row.count = turns[t].count
  BY DEF TurnRow
<1> HIDE DEF set
<1>5. Rows(set)
  BY <1>1, <1>2 DEF Rows
<1>6. Counts(set)
  BY <1>1, <1>2, <1>3, <1>4 DEF Counts
<1> QED BY <1>5, <1>6 DEF set

\* clearCheckpointTurnConflict frees the count for the turn it is given to.
LEMMA NewCount ==
  ASSUME NEW turns, NEW t, NEW row, Rows(turns), Counts(turns), "count" \in DOMAIN row
  PROVE  /\ Rows(SetTurn(ClearConflict(turns, t, row.count), t, row))
         /\ Counts(SetTurn(ClearConflict(turns, t, row.count), t, row))
<1> DEFINE cleared == ClearConflict(turns, t, row.count)
           set     == SetTurn(cleared, t, row)
<1>1. DOMAIN cleared = DOMAIN turns
  BY DEF ClearConflict
<1>2. \A u \in DOMAIN turns :
        /\ "count" \in DOMAIN cleared[u]
        /\ u # t /\ turns[u].count = row.count => cleared[u].count = NoCount
        /\ u = t \/ turns[u].count # row.count => cleared[u] = turns[u]
  BY DEF ClearConflict, Rows
<1> HIDE DEF cleared
<1>3. DOMAIN set = DOMAIN turns \cup {t}
  BY <1>1 DEF SetTurn
<1>4. set[t] = row /\ \A u \in DOMAIN turns : u # t => set[u] = cleared[u]
  BY <1>1 DEF SetTurn
<1> HIDE DEF set
<1>5. Rows(set)
  BY <1>2, <1>3, <1>4 DEF Rows
<1>6. \A u \in DOMAIN turns : u # t => set[u].count = NoCount \/ set[u].count # row.count
  BY <1>2, <1>4
<1>7. \A u \in DOMAIN turns : u # t => set[u].count = NoCount \/ set[u].count = turns[u].count
  BY <1>2, <1>4
<1>8. Counts(set)
  BY <1>3, <1>4, <1>6, <1>7 DEF Counts
<1> QED BY <1>5, <1>8 DEF set, cleared

-------------------------------------------------------------------------------
(* The projectors                                                           *)

\* A column replaced in the tables.
LEMMA OtherTables ==
  ASSUME NEW d, Tables(d), NEW x
  PROVE  /\ Tables([d EXCEPT !.messages = x]) /\ Tables([d EXCEPT !.plans = x])
         /\ Tables([d EXCEPT !.session = x])  /\ Tables([d EXCEPT !.shell = x])
BY DEF Tables

\* The turns replaced by turns with distinct counts.
LEMMA TurnTables ==
  ASSUME NEW d, Tables(d), NEW turns, Rows(turns), Counts(turns), NEW x
  PROVE  /\ Tables([d EXCEPT !.turns = turns])
         /\ Tables([d EXCEPT !.pending = x])
         /\ Tables([d EXCEPT !.turns = turns, !.pending = x])
BY DEF Tables

\* The turns projector keeps the counts distinct, at any event.
LEMMA ApplyTurnsTables ==
  ASSUME NEW d, NEW e, Tables(d)
  PROVE  Tables(ApplyTurns(d, e))
<1>1. Rows(d.turns) /\ Counts(d.turns)
  BY DEF Tables
<1>2. Tables(StartTurnRow(d, e))
  <2> DEFINE row == TurnRow(d.turns, e.turn)
             started == [row EXCEPT
               !.state = IF @ \in {"completed", "error"} THEN @ ELSE "running",
               !.pendingMessage = IF @ = NoMessage THEN d.pending.message ELSE @]
  <2>1. "count" \in DOMAIN row
    BY <1>1, TurnRowHasCount
  <2>2. "count" \in DOMAIN started /\ started.count = row.count
    <3> HIDE DEF row
    <3> QED BY <2>1
  <2>3. Rows(SetTurn(d.turns, e.turn, started)) /\ Counts(SetTurn(d.turns, e.turn, started))
    <3> HIDE DEF started
    <3> QED BY <1>1, <2>2, SameCount DEF row
  <2>4. Tables([d EXCEPT !.turns = SetTurn(d.turns, e.turn, started), !.pending = NoStart])
    <3> HIDE DEF started
    <3> QED BY <2>3, TurnTables
  <2> QED BY <2>4 DEF StartTurnRow
<1>3. Tables(AssistantTurnRow(d, e))
  <2> DEFINE row == TurnRow(d.turns, e.turn)
             sent == [row EXCEPT
               !.message = e.id,
               !.state = IF e.streaming \/ @ \in {"interrupted", "error"} THEN @ ELSE "completed"]
  <2>1. "count" \in DOMAIN row
    BY <1>1, TurnRowHasCount
  <2>2. "count" \in DOMAIN sent /\ sent.count = row.count
    <3> HIDE DEF row
    <3> QED BY <2>1
  <2>3. Rows(SetTurn(d.turns, e.turn, sent)) /\ Counts(SetTurn(d.turns, e.turn, sent))
    <3> HIDE DEF sent
    <3> QED BY <1>1, <2>2, SameCount DEF row
  <2>4. Tables([d EXCEPT !.turns = SetTurn(d.turns, e.turn, sent)])
    <3> HIDE DEF sent
    <3> QED BY <2>3, TurnTables
  <2> QED BY <2>4 DEF AssistantTurnRow
<1>4. Tables(DiffTurnRow(d, e))
  <2> DEFINE row == TurnRow(d.turns, e.turn)
             done == [row EXCEPT
               !.message = e.message,
               !.state = IF e.status = "error" THEN "error" ELSE "completed",
               !.count = e.count,
               !.status = e.status,
               !.ref = e.ref]
             turns == SetTurn(ClearConflict(d.turns, e.turn, e.count), e.turn, done)
  <2>1. "count" \in DOMAIN row
    BY <1>1, TurnRowHasCount
  <2>2. "count" \in DOMAIN done /\ done.count = e.count
    <3> HIDE DEF row
    <3> QED BY <2>1
  <2>3. Rows(turns) /\ Counts(turns)
    <3> HIDE DEF done
    <3>1. /\ Rows(SetTurn(ClearConflict(d.turns, e.turn, done.count), e.turn, done))
          /\ Counts(SetTurn(ClearConflict(d.turns, e.turn, done.count), e.turn, done))
      BY <1>1, <2>2, NewCount
    <3> QED BY <2>2, <3>1
  <2>4. TurnRow(ClearConflict(d.turns, e.turn, e.count), e.turn) = row
    BY DEF TurnRow, ClearConflict
  <2>5. Tables([d EXCEPT !.turns = turns])
    <3> HIDE DEF turns
    <3> QED BY <2>3, TurnTables
  <2> QED BY <2>5 DEF DiffTurnRow
<1>5. Tables([d EXCEPT !.turns = SetTurn(@, e.turn, [TurnRow(@, e.turn) EXCEPT !.state = "interrupted"])])
  <2> DEFINE row == TurnRow(d.turns, e.turn)
             stopped == [row EXCEPT !.state = "interrupted"]
  <2>1. "count" \in DOMAIN row
    BY <1>1, TurnRowHasCount
  <2>2. "count" \in DOMAIN stopped /\ stopped.count = row.count
    <3> HIDE DEF row
    <3> QED BY <2>1
  <2>3. Rows(SetTurn(d.turns, e.turn, stopped)) /\ Counts(SetTurn(d.turns, e.turn, stopped))
    <3> HIDE DEF stopped
    <3> QED BY <1>1, <2>2, SameCount DEF row
  <2>4. Tables([d EXCEPT !.turns = SetTurn(d.turns, e.turn, stopped)])
    <3> HIDE DEF stopped
    <3> QED BY <2>3, TurnTables
  <2> QED BY <2>4
<1>6. Tables([d EXCEPT !.turns = [t \in KeptTurns(@, e.count) |-> @[t]], !.pending = NoStart])
  <2> DEFINE kept == [t \in KeptTurns(d.turns, e.count) |-> d.turns[t]]
  <2>1. Rows(kept) /\ Counts(kept)
    BY <1>1 DEF Rows, Counts, KeptTurns
  <2>2. Tables([d EXCEPT !.turns = kept, !.pending = NoStart])
    <3> HIDE DEF kept
    <3> QED BY <2>1, TurnTables
  <2> QED BY <2>2
<1>7. Tables([d EXCEPT !.pending = [message |-> e.message, plan |-> e.plan]])
  BY <1>1, TurnTables
<1> HIDE DEF Tables
<1> QED BY <1>2, <1>3, <1>4, <1>5, <1>6, <1>7 DEF ApplyTurns

\* The projectors of the other tables do not touch that of the turns.
LEMMA OthersTables ==
  ASSUME NEW d, NEW e, Tables(d)
  PROVE  /\ Tables(ApplyMessages(d, e)) /\ Tables(ApplyPlans(d, e))
         /\ Tables(ApplySessions(d, e)) /\ Tables(ApplyThreads(d, e))
<1>1. \A x : /\ Tables([d EXCEPT !.messages = x]) /\ Tables([d EXCEPT !.plans = x])
             /\ Tables([d EXCEPT !.session = x])  /\ Tables([d EXCEPT !.shell = x])
  BY OtherTables
<1>2. Tables(ApplyMessages(d, e))
  BY <1>1 DEF ApplyMessages
<1>3. Tables(ApplyPlans(d, e))
  BY <1>1 DEF ApplyPlans
<1>4. Tables(ApplySessions(d, e))
  BY <1>1 DEF ApplySessions
<1>5. \A t : Tables(RefreshShell(d, t))
  BY <1>1 DEF RefreshShell
<1>6. Tables(ApplyThreads(d, e))
  BY <1>5 DEF ApplyThreads
<1> QED BY <1>2, <1>3, <1>4, <1>6

\* One event through the pipeline.
LEMMA ProjectEventTables ==
  ASSUME NEW d, NEW e, Tables(d)
  PROVE  Tables(ProjectEvent(d, e))
<1> DEFINE a == ApplyMessages(d, e)
           b == ApplyPlans(a, e)
           c == ApplySessions(b, e)
           t == ApplyTurns(c, e)
<1>1. Tables(a)
  BY OthersTables
<1>2. Tables(b)
  <2> HIDE DEF a
  <2> QED BY <1>1, OthersTables
<1>3. Tables(c)
  <2> HIDE DEF b
  <2> QED BY <1>2, OthersTables
<1>4. Tables(t)
  <2> HIDE DEF c
  <2> QED BY <1>3, ApplyTurnsTables
<1>5. Tables(ApplyThreads(t, e))
  <2> HIDE DEF t
  <2> QED BY <1>4, OthersTables
<1> QED BY <1>5 DEF ProjectEvent

\* One event through the projector a bootstrap runs.
LEMMA ApplyTables ==
  ASSUME NEW d, NEW e, NEW k \in DOMAIN Projectors, Tables(d)
  PROVE  Tables(Apply(Projectors[k], d, e))
<1>1. Projectors[k] \in {"threadMessages", "threadProposedPlans", "threadSessions",
                         "threadTurns", "threads"}
  BY DEF Projectors
<1> QED BY <1>1, OthersTables, ApplyTurnsTables DEF Apply

-------------------------------------------------------------------------------
(* The thread's summary                                                     *)

Summary(d) == [latestTurn |-> d.shell.latestTurn,
               latestUser |-> LatestUser(d.messages),
               actionable |-> Actionable(d.plans, d.shell.latestTurn)]

Fresh(d) == d.shell = Summary(d)

\* The events at which the threads projector refreshes the summary.
Refreshing == {"message-sent", "proposed-plan-upserted", "session-set",
               "turn-diff-completed", "reverted"}

\* A summary is fresh if refreshing it changes nothing.
LEMMA FreshIsRefreshed ==
  ASSUME NEW d, Tables(d)
  PROVE  Fresh(d) <=> RefreshShell(d, d.shell.latestTurn) = d
<1> DEFINE r == RefreshShell(d, d.shell.latestTurn)
<1>1. r = [d EXCEPT !.shell = Summary(d)]
  BY DEF RefreshShell, Summary
<1>2. "shell" \in DOMAIN d /\ d = [f \in DOMAIN d |-> d[f]]
  BY DEF Tables
<1> HIDE DEF r
<1>3. r.shell = Summary(d)
  BY <1>1, <1>2
<1>4. ASSUME d.shell = Summary(d) PROVE r = d
  BY <1>1, <1>2, <1>4
<1> QED BY <1>3, <1>4 DEF Fresh, r

\* refreshThreadShellSummary makes the summary fresh.
LEMMA RefreshedIsFresh ==
  ASSUME NEW d, NEW t, Tables(d)
  PROVE  Fresh(RefreshShell(d, t))
<1>1. "shell" \in DOMAIN d /\ d = [f \in DOMAIN d |-> d[f]]
  BY DEF Tables
<1> DEFINE r == RefreshShell(d, t)
<1>2. /\ r.shell = [latestTurn |-> t, latestUser |-> LatestUser(d.messages),
                    actionable |-> Actionable(d.plans, t)]
      /\ r.messages = d.messages /\ r.plans = d.plans
  BY <1>1 DEF RefreshShell
<1> HIDE DEF r
<1>3. r.shell.latestTurn = t
  BY <1>2
<1>4. Summary(r) = [latestTurn |-> t, latestUser |-> LatestUser(d.messages),
                    actionable |-> Actionable(d.plans, t)]
  BY <1>2, <1>3 DEF Summary
<1> QED BY <1>2, <1>4 DEF Fresh, r

\* Two states of the tables with the same messages, plans and summary.
Same(c, d) == c.messages = d.messages /\ c.plans = d.plans /\ c.shell = d.shell

\* Freshness depends on messages, plans and summary only.
LEMMA SameFresh ==
  ASSUME NEW c, NEW d, Same(c, d), Fresh(c)
  PROVE  Fresh(d)
BY DEF Same, Fresh, Summary

\* The sessions and turns projectors leave alone what is summarised.
LEMMA TurnsSame ==
  ASSUME NEW d, NEW e, Tables(d)
  PROVE  Same(d, ApplySessions(d, e)) /\ Same(d, ApplyTurns(d, e))
<1>1. d = [f \in DOMAIN d |-> d[f]]
  BY DEF Tables
<1>2. \A x, y : /\ Same(d, [d EXCEPT !.session = x]) /\ Same(d, [d EXCEPT !.turns = x])
                /\ Same(d, [d EXCEPT !.pending = x])
                /\ Same(d, [d EXCEPT !.turns = x, !.pending = y])
                /\ Same(d, d)
  BY <1>1 DEF Same
<1>3. Same(d, ApplySessions(d, e))
  BY <1>2 DEF ApplySessions
<1>4. Same(d, StartTurnRow(d, e)) /\ Same(d, AssistantTurnRow(d, e)) /\ Same(d, DiffTurnRow(d, e))
  BY <1>2 DEF StartTurnRow, AssistantTurnRow, DiffTurnRow
<1>5. Same(d, ApplyTurns(d, e))
  <2> HIDE DEF Same
  <2> QED BY <1>2, <1>4 DEF ApplyTurns
<1> QED BY <1>3, <1>5

\* Every projector but the last leaves a summary fresh at any other event.
LEMMA OthersSame ==
  ASSUME NEW d, NEW e, e.type \notin Refreshing
  PROVE  ApplyMessages(d, e) = d /\ ApplyPlans(d, e) = d /\ ApplyThreads(d, e) = d
BY DEF Refreshing, ApplyMessages, ApplyPlans, ApplyThreads

\* The threads projector makes it fresh, or leaves the tables alone.
LEMMA ThreadsFresh ==
  ASSUME NEW d, NEW e, Tables(d), e.type \in Refreshing
  PROVE  Fresh(ApplyThreads(d, e))
<1>1. \A t : Fresh(RefreshShell(d, t))
  BY RefreshedIsFresh
<1> QED BY <1>1 DEF Refreshing, ApplyThreads

\* One event through the pipeline leaves the summary fresh.
LEMMA ProjectEventFresh ==
  ASSUME NEW d, NEW e, Tables(d), Fresh(d)
  PROVE  Fresh(ProjectEvent(d, e))
<1> DEFINE a == ApplyMessages(d, e)
           b == ApplyPlans(a, e)
           c == ApplySessions(b, e)
           t == ApplyTurns(c, e)
<1>1. Tables(a)
  BY OthersTables
<1>2. Tables(b)
  <2> HIDE DEF a
  <2> QED BY <1>1, OthersTables
<1>3. Tables(c)
  <2> HIDE DEF b
  <2> QED BY <1>2, OthersTables
<1>4. Tables(t)
  <2> HIDE DEF c
  <2> QED BY <1>3, ApplyTurnsTables
<1>5. ASSUME e.type \in Refreshing PROVE Fresh(ApplyThreads(t, e))
  <2> HIDE DEF t
  <2> QED BY <1>4, <1>5, ThreadsFresh
<1>6. ASSUME e.type \notin Refreshing PROVE Fresh(ApplyThreads(t, e))
  <2>1. a = d
    BY <1>6, OthersSame
  <2>2. b = d
    <3> HIDE DEF a
    <3> QED BY <1>6, <2>1, OthersSame
  <2>3. Same(d, c)
    <3> HIDE DEF b
    <3> QED BY <2>2, TurnsSame
  <2>4. Same(c, t)
    <3> HIDE DEF c
    <3> QED BY <1>3, TurnsSame
  <2>5. Fresh(t)
    <3> HIDE DEF c, t
    <3>1. Fresh(c)
      BY <2>3, SameFresh
    <3> QED BY <3>1, <2>4, SameFresh
  <2>6. ApplyThreads(t, e) = t
    <3> HIDE DEF t
    <3> QED BY <1>6, OthersSame
  <2> HIDE DEF t
  <2> QED BY <2>5, <2>6
<1> HIDE DEF t
<1> QED BY <1>5, <1>6 DEF ProjectEvent, t

\* The summary of empty tables is fresh.
LEMMA EmptyIsFresh == Fresh(EmptyDb)
<1>1. LatestUser(<<>>) = NoMessage
  BY DEF LatestUser
<1>2. Actionable(<<>>, NoTurn) = FALSE
  BY DEF Actionable
<1> QED BY <1>1, <1>2 DEF Fresh, Summary, EmptyDb

-------------------------------------------------------------------------------
(* Columns                                                                  *)

Columns == {"messages", "plans", "session", "turns", "pending", "shell"}

Shape(d) == d = [f \in DOMAIN d |-> d[f]] /\ Columns \subseteq DOMAIN d

\* c is d but for the columns named.
Changed(c, d, names) == Shape(c) /\ DOMAIN c = DOMAIN d /\ \A f \in DOMAIN d \ names : c[f] = d[f]

\* One column, or two, replaced.
LEMMA Replaced ==
  ASSUME NEW d, Shape(d), NEW x
  PROVE  /\ Changed([d EXCEPT !.messages = x], d, {"messages"}) /\ [d EXCEPT !.messages = x].messages = x
         /\ Changed([d EXCEPT !.plans = x], d, {"plans"})       /\ [d EXCEPT !.plans = x].plans = x
         /\ Changed([d EXCEPT !.session = x], d, {"session"})   /\ [d EXCEPT !.session = x].session = x
         /\ Changed([d EXCEPT !.shell = x], d, {"shell"})       /\ [d EXCEPT !.shell = x].shell = x
         /\ Changed([d EXCEPT !.turns = x], d, {"turns", "pending"}) /\ [d EXCEPT !.turns = x].turns = x
         /\ [d EXCEPT !.turns = x].pending = d.pending
         /\ Changed([d EXCEPT !.pending = x], d, {"turns", "pending"}) /\ [d EXCEPT !.pending = x].pending = x
         /\ [d EXCEPT !.pending = x].turns = d.turns
         /\ \A y : LET c == [d EXCEPT !.turns = x, !.pending = y]
                   IN Changed(c, d, {"turns", "pending"}) /\ c.turns = x /\ c.pending = y
BY DEF Shape, Changed, Columns

LEMMA Unchanged ==
  ASSUME NEW d, Shape(d), NEW names
  PROVE  Changed(d, d, names)
BY DEF Changed

\* What the columns of d are when c is d but for one.
LEMMA ChangedColumns ==
  ASSUME NEW c, NEW d, NEW names, Shape(d), Changed(c, d, names)
  PROVE  /\ Shape(c)
         /\ "messages" \notin names => c.messages = d.messages
         /\ "plans" \notin names => c.plans = d.plans
         /\ "session" \notin names => c.session = d.session
         /\ "turns" \notin names => c.turns = d.turns
         /\ "pending" \notin names => c.pending = d.pending
         /\ "shell" \notin names => c.shell = d.shell
BY DEF Shape, Changed, Columns

\* Each projector writes its own table, and reads besides it only the turns, at a
\* revert; the summary reads messages, plans and turns.
LEMMA OwnTables ==
  ASSUME NEW d, NEW e, Shape(d)
  PROVE  /\ Changed(ApplyMessages(d, e), d, {"messages"})
         /\ Changed(ApplyPlans(d, e), d, {"plans"})
         /\ Changed(ApplySessions(d, e), d, {"session"})
         /\ Changed(ApplyTurns(d, e), d, {"turns", "pending"})
         /\ Changed(ApplyThreads(d, e), d, {"shell"})
<1>1. \A names : Changed(d, d, names)
  BY Unchanged
<1>2. \A x : /\ Changed([d EXCEPT !.messages = x], d, {"messages"})
             /\ Changed([d EXCEPT !.plans = x], d, {"plans"})
             /\ Changed([d EXCEPT !.session = x], d, {"session"})
             /\ Changed([d EXCEPT !.shell = x], d, {"shell"})
             /\ Changed([d EXCEPT !.turns = x], d, {"turns", "pending"})
             /\ Changed([d EXCEPT !.pending = x], d, {"turns", "pending"})
             /\ \A y : Changed([d EXCEPT !.turns = x, !.pending = y], d, {"turns", "pending"})
  BY Replaced
<1>3. \A t : Changed(RefreshShell(d, t), d, {"shell"})
  BY <1>2 DEF RefreshShell
<1>4. /\ Changed(StartTurnRow(d, e), d, {"turns", "pending"})
      /\ Changed(AssistantTurnRow(d, e), d, {"turns", "pending"})
      /\ Changed(DiffTurnRow(d, e), d, {"turns", "pending"})
  BY <1>2 DEF StartTurnRow, AssistantTurnRow, DiffTurnRow
<1>5. Changed(ApplyMessages(d, e), d, {"messages"})
  BY <1>1, <1>2 DEF ApplyMessages
<1>6. Changed(ApplyPlans(d, e), d, {"plans"})
  BY <1>1, <1>2 DEF ApplyPlans
<1>7. Changed(ApplySessions(d, e), d, {"session"})
  BY <1>1, <1>2 DEF ApplySessions
<1>8. Changed(ApplyTurns(d, e), d, {"turns", "pending"})
  BY <1>1, <1>2, <1>4 DEF ApplyTurns
<1>9. Changed(ApplyThreads(d, e), d, {"shell"})
  BY <1>1, <1>3 DEF ApplyThreads
<1> QED BY <1>5, <1>6, <1>7, <1>8, <1>9

\* The columns a projector writes depend on those it reads.
LEMMA SameMessages ==
  ASSUME NEW c, NEW d, NEW e, Shape(c), Shape(d), c.messages = d.messages,
         c.turns = d.turns \/ e.type # "reverted"
  PROVE  ApplyMessages(c, e).messages = ApplyMessages(d, e).messages
<1>1. \A x : [c EXCEPT !.messages = x].messages = x /\ [d EXCEPT !.messages = x].messages = x
  BY DEF Shape, Columns
<1>2. CASE e.type = "message-sent"
  BY <1>1, <1>2 DEF ApplyMessages
<1>3. CASE e.type = "reverted"
  BY <1>1, <1>3 DEF ApplyMessages
<1>4. CASE e.type \notin {"message-sent", "reverted"}
  BY <1>4 DEF ApplyMessages
<1> QED BY <1>2, <1>3, <1>4

LEMMA SamePlans ==
  ASSUME NEW c, NEW d, NEW e, Shape(c), Shape(d), c.plans = d.plans,
         c.turns = d.turns \/ e.type # "reverted"
  PROVE  ApplyPlans(c, e).plans = ApplyPlans(d, e).plans
<1>1. \A x : [c EXCEPT !.plans = x].plans = x /\ [d EXCEPT !.plans = x].plans = x
  BY DEF Shape, Columns
<1>2. CASE e.type = "proposed-plan-upserted"
  BY <1>1, <1>2 DEF ApplyPlans
<1>3. CASE e.type = "reverted"
  BY <1>1, <1>3 DEF ApplyPlans
<1>4. CASE e.type \notin {"proposed-plan-upserted", "reverted"}
  BY <1>4 DEF ApplyPlans
<1> QED BY <1>2, <1>3, <1>4

LEMMA SameSessions ==
  ASSUME NEW c, NEW d, NEW e, Shape(c), Shape(d), c.session = d.session
  PROVE  ApplySessions(c, e).session = ApplySessions(d, e).session
<1>1. \A x : [c EXCEPT !.session = x].session = x /\ [d EXCEPT !.session = x].session = x
  BY DEF Shape, Columns
<1> QED BY <1>1 DEF ApplySessions

LEMMA SameTurns ==
  ASSUME NEW c, NEW d, NEW e, Shape(c), Shape(d), c.turns = d.turns, c.pending = d.pending
  PROVE  /\ ApplyTurns(c, e).turns = ApplyTurns(d, e).turns
         /\ ApplyTurns(c, e).pending = ApplyTurns(d, e).pending
<1> DEFINE Agree(a, b) == a.turns = b.turns /\ a.pending = b.pending
<1>1. \A x : /\ Agree([c EXCEPT !.turns = x], [d EXCEPT !.turns = x])
             /\ Agree([c EXCEPT !.pending = x], [d EXCEPT !.pending = x])
             /\ \A y : Agree([c EXCEPT !.turns = x, !.pending = y], [d EXCEPT !.turns = x, !.pending = y])
  BY DEF Shape, Columns
<1>2. Agree(c, d)
  OBVIOUS
<1> HIDE DEF Agree
<1>3. Agree(StartTurnRow(c, e), StartTurnRow(d, e))
  BY <1>1 DEF StartTurnRow
<1>4. Agree(AssistantTurnRow(c, e), AssistantTurnRow(d, e))
  BY <1>1 DEF AssistantTurnRow
<1>5. Agree(DiffTurnRow(c, e), DiffTurnRow(d, e))
  BY <1>1 DEF DiffTurnRow
<1>6. Agree(ApplyTurns(c, e), ApplyTurns(d, e))
  BY <1>1, <1>2, <1>3, <1>4, <1>5 DEF ApplyTurns
<1> QED BY <1>6 DEF Agree

\* projectEvent, column by column.
LEMMA ProjectColumns ==
  ASSUME NEW d, NEW e, Shape(d)
  PROVE  LET p == ProjectEvent(d, e)
         IN /\ Shape(p)
            /\ p.messages = ApplyMessages(d, e).messages
            /\ p.plans = ApplyPlans(d, e).plans
            /\ p.session = ApplySessions(d, e).session
            /\ p.turns = ApplyTurns(d, e).turns
            /\ p.pending = ApplyTurns(d, e).pending
<1> DEFINE a == ApplyMessages(d, e)
           b == ApplyPlans(a, e)
           c == ApplySessions(b, e)
           t == ApplyTurns(c, e)
           p == ApplyThreads(t, e)
<1>1. Shape(a) /\ a.plans = d.plans /\ a.session = d.session /\ a.turns = d.turns /\ a.pending = d.pending
  <2>1. Changed(a, d, {"messages"})
    BY OwnTables
  <2> HIDE DEF a
  <2> QED BY <2>1, ChangedColumns
<1>2. /\ Shape(b) /\ b.messages = a.messages /\ b.session = a.session
      /\ b.turns = a.turns /\ b.pending = a.pending
      /\ b.plans = ApplyPlans(d, e).plans
  <2> HIDE DEF a
  <2>1. Changed(b, a, {"plans"})
    BY <1>1, OwnTables
  <2>2. b.plans = ApplyPlans(d, e).plans
    BY <1>1, SamePlans
  <2> HIDE DEF b
  <2> QED BY <1>1, <2>1, <2>2, ChangedColumns
<1>3. /\ Shape(c) /\ c.messages = b.messages /\ c.plans = b.plans
      /\ c.turns = b.turns /\ c.pending = b.pending
      /\ c.session = ApplySessions(d, e).session
  <2> HIDE DEF a, b
  <2>1. Changed(c, b, {"session"})
    BY <1>2, OwnTables
  <2>2. c.session = ApplySessions(d, e).session
    BY <1>1, <1>2, SameSessions
  <2> HIDE DEF c
  <2> QED BY <1>2, <2>1, <2>2, ChangedColumns
<1>4. /\ Shape(t) /\ t.messages = c.messages /\ t.plans = c.plans /\ t.session = c.session
      /\ t.turns = ApplyTurns(d, e).turns /\ t.pending = ApplyTurns(d, e).pending
  <2> HIDE DEF a, b, c
  <2>1. Changed(t, c, {"turns", "pending"})
    BY <1>3, OwnTables
  <2>2. t.turns = ApplyTurns(d, e).turns /\ t.pending = ApplyTurns(d, e).pending
    BY <1>1, <1>2, <1>3, SameTurns
  <2> HIDE DEF t
  <2> QED BY <1>3, <2>1, <2>2, ChangedColumns
<1>5. /\ Shape(p) /\ p.messages = t.messages /\ p.plans = t.plans /\ p.session = t.session
      /\ p.turns = t.turns /\ p.pending = t.pending
  <2> HIDE DEF t
  <2>1. Changed(p, t, {"shell"})
    BY <1>4, OwnTables
  <2> HIDE DEF p
  <2> QED BY <1>4, <2>1, ChangedColumns
<1>6. p = ProjectEvent(d, e)
  BY DEF ProjectEvent
<1> HIDE DEF a, b, c, t, p
<1> QED BY <1>1, <1>2, <1>3, <1>4, <1>5, <1>6 DEF a

-------------------------------------------------------------------------------
(* Types.  T is the set of the turns.                                       *)

EventTyped(e, T) ==
  /\ e.type \in {"message-sent", "turn-start-requested", "session-set", "proposed-plan-upserted",
                 "turn-diff-completed", "turn-interrupt-requested", "reverted"}
  /\ e.type = "message-sent" =>
       \/ e.turn = NoTurn /\ e.id.role = "user"
       \/ e.turn \in T /\ e.id = Message("assistant", e.turn)
  /\ e.type = "turn-start-requested" => e.message.role = "user"
  /\ e.type = "session-set" => e.turn \in T \cup {NoTurn}
  /\ e.type = "proposed-plan-upserted" => e.turn \in T
  /\ e.type = "turn-interrupt-requested" => e.turn \in T
  /\ e.type = "turn-diff-completed" =>
       /\ DOMAIN e = {"type", "turn", "count", "status", "ref", "message"}
       /\ e.turn \in T
       /\ e.count \in Nat \ {NoCount}
       /\ e.status \in {"ready", "missing", "error"}
       /\ e.ref \in {"placeholder", "git"}
       /\ e.message = Message("assistant", e.turn)
  /\ e.type = "reverted" => e.count \in Nat

MessageTyped(m, T) ==
  \/ m.turn = NoTurn /\ m.id.role = "user"
  \/ m.turn \in T /\ m.id = Message("assistant", m.turn)

RowTyped(r, t) ==
  /\ DOMAIN r = {"state", "pendingMessage", "message", "count", "status", "ref"}
  /\ r.state \in {"running", "interrupted", "completed", "error"}
  /\ r.pendingMessage.role \in {"none", "user"}
  /\ r.message \in {NoMessage, Message("assistant", t)}
  /\ r.count \in Nat
  /\ r.status \in {"none", "ready", "missing", "error"}
  /\ r.status = "none" <=> r.count = NoCount
  /\ r.ref = "none" <=> r.count = NoCount

MessagesTyped(messages, T) ==
  /\ IsSequence(messages)
  /\ \A m \in Range(messages) : MessageTyped(m, T)
  /\ Distinct(messages, "id")

PlansTyped(plans, T) == IsSequence(plans) /\ \A p \in Range(plans) : p.turn \in T

RowsTyped(turns, T) == \A t \in DOMAIN turns : t \in T /\ RowTyped(turns[t], t)

Typed(d, T) ==
  /\ Shape(d)
  /\ MessagesTyped(d.messages, T)
  /\ PlansTyped(d.plans, T)
  /\ RowsTyped(d.turns, T)
  /\ d.session.turn \in T \cup {NoTurn}
  /\ d.pending.message.role \in {"none", "user"}

\* The empty tables are typed.
LEMMA EmptyTyped == \A T : Typed(EmptyDb, T)
<1>1. IsSequence(<<>>) /\ Range(<<>>) = {} /\ DOMAIN <<>> = {}
  <2>1. <<>> \in Seq({}) /\ DOMAIN <<>> = {}
    OBVIOUS
  <2> QED BY <2>1 DEF IsSequence, Range
<1>2. Shape(EmptyDb)
  BY DEF Shape, Columns, EmptyDb
<1>3. /\ EmptyDb.messages = <<>> /\ EmptyDb.plans = <<>> /\ EmptyDb.turns = <<>>
      /\ EmptyDb.session.turn = NoTurn /\ EmptyDb.pending.message.role = "none"
  BY DEF EmptyDb, NoStart, NoMessage, Message
<1> QED BY <1>1, <1>2, <1>3 DEF Typed, MessagesTyped, PlansTyped, RowsTyped, Distinct

\* The messages projector keeps the messages typed.
LEMMA MessagesStayTyped ==
  ASSUME NEW d, NEW e, NEW T, Typed(d, T), EventTyped(e, T)
  PROVE  MessagesTyped(ApplyMessages(d, e).messages, T)
<1>1. Shape(d) /\ MessagesTyped(d.messages, T)
  BY DEF Typed
<1>2. \A x : [d EXCEPT !.messages = x].messages = x
  BY <1>1 DEF Shape, Columns
<1>3. CASE e.type = "message-sent"
  <2> DEFINE row == SentMessage(d.messages, e)
             new == Upsert(d.messages, row, "id")
  <2>1. ApplyMessages(d, e).messages = new
    BY <1>2, <1>3 DEF ApplyMessages
  <2>2. row.id = e.id /\ row.turn = e.turn
    BY DEF SentMessage
  <2>3. MessageTyped(row, T)
    <3> HIDE DEF row
    <3> QED BY <1>3, <2>2 DEF EventTyped, MessageTyped
  <2>4. /\ IsSequence(new) /\ Range(new) \subseteq Range(d.messages) \cup {row}
        /\ Distinct(d.messages, "id") => Distinct(new, "id")
    <3> HIDE DEF row
    <3> QED BY <1>1, UpsertRows DEF MessagesTyped
  <2> HIDE DEF new, row
  <2> QED BY <1>1, <2>1, <2>3, <2>4 DEF MessagesTyped
<1>4. CASE e.type = "reverted"
  <2> DEFINE new == RetainMessages(d.messages, d.turns, e.count)
  <2>1. ApplyMessages(d, e).messages = new
    BY <1>2, <1>4 DEF ApplyMessages
  <2>2. /\ IsSequence(new) /\ Range(new) \subseteq Range(d.messages)
        /\ Distinct(d.messages, "id") => Distinct(new, "id")
    BY <1>1, RetainedMessages DEF MessagesTyped
  <2> HIDE DEF new
  <2> QED BY <1>1, <2>1, <2>2 DEF MessagesTyped
<1>5. CASE e.type \notin {"message-sent", "reverted"}
  BY <1>1, <1>5 DEF ApplyMessages
<1> QED BY <1>3, <1>4, <1>5

LEMMA PlansStayTyped ==
  ASSUME NEW d, NEW e, NEW T, Typed(d, T), EventTyped(e, T)
  PROVE  PlansTyped(ApplyPlans(d, e).plans, T)
<1>1. Shape(d) /\ PlansTyped(d.plans, T)
  BY DEF Typed
<1>2. \A x : [d EXCEPT !.plans = x].plans = x
  BY <1>1 DEF Shape, Columns
<1>3. CASE e.type = "proposed-plan-upserted"
  <2> DEFINE row == [turn |-> e.turn, implemented |-> e.implemented]
             new == MoveToEnd(d.plans, row, "turn")
  <2>1. ApplyPlans(d, e).plans = new
    BY <1>2, <1>3 DEF ApplyPlans
  <2>2. row.turn \in T
    BY <1>3 DEF EventTyped
  <2>3. IsSequence(new) /\ Range(new) \subseteq Range(d.plans) \cup {row}
    <3> HIDE DEF row
    <3> QED BY <1>1, MoveToEndRows DEF PlansTyped
  <2> HIDE DEF new, row
  <2> QED BY <1>1, <2>1, <2>2, <2>3 DEF PlansTyped
<1>4. CASE e.type = "reverted"
  <2> DEFINE S == {p \in Range(d.plans) : p.turn \in KeptTurns(d.turns, e.count)}
  <2>1. ApplyPlans(d, e).plans = Only(d.plans, S)
    BY <1>2, <1>4 DEF ApplyPlans, RetainPlans
  <2>2. IsSequence(Only(d.plans, S)) /\ Range(Only(d.plans, S)) \subseteq Range(d.plans)
    <3> HIDE DEF S
    <3> QED BY <1>1, OnlyRows DEF PlansTyped
  <2> QED BY <1>1, <2>1, <2>2 DEF PlansTyped
<1>5. CASE e.type \notin {"proposed-plan-upserted", "reverted"}
  BY <1>1, <1>5 DEF ApplyPlans
<1> QED BY <1>3, <1>4, <1>5

\* A typed row, found or new.
LEMMA TurnRowTyped ==
  ASSUME NEW turns, NEW t, NEW T, RowsTyped(turns, T)
  PROVE  RowTyped(TurnRow(turns, t), t)
<1>1. RowTyped(EmptyTurn, t)
  BY DEF RowTyped, EmptyTurn, NoMessage, Message, NoCount
<1> QED BY <1>1 DEF RowsTyped, TurnRow

LEMMA SetTurnTyped ==
  ASSUME NEW turns, NEW T, NEW t \in T, NEW row, RowsTyped(turns, T), RowTyped(row, t)
  PROVE  RowsTyped(SetTurn(turns, t, row), T)
BY DEF RowsTyped, SetTurn

\* clearCheckpointTurnConflict keeps the rows typed.
LEMMA ClearConflictTyped ==
  ASSUME NEW turns, NEW T, NEW t, NEW count, RowsTyped(turns, T)
  PROVE  RowsTyped(ClearConflict(turns, t, count), T)
<1> DEFINE cleared == ClearConflict(turns, t, count)
<1>1. DOMAIN cleared = DOMAIN turns
  BY DEF ClearConflict
<1>2. ASSUME NEW u \in DOMAIN turns PROVE RowTyped(cleared[u], u)
  <2>1. RowTyped(turns[u], u)
    BY DEF RowsTyped
  <2>2. cleared[u] = IF u # t /\ turns[u].count = count
                     THEN [turns[u] EXCEPT !.count = NoCount, !.status = "none", !.ref = "none"]
                     ELSE turns[u]
    BY DEF ClearConflict
  <2>3. RowTyped([turns[u] EXCEPT !.count = NoCount, !.status = "none", !.ref = "none"], u)
    BY <2>1 DEF RowTyped, NoCount
  <2> HIDE DEF cleared
  <2> QED BY <2>1, <2>2, <2>3
<1> HIDE DEF cleared
<1> QED BY <1>1, <1>2 DEF RowsTyped, cleared

LEMMA TurnsStayTyped ==
  ASSUME NEW d, NEW e, NEW T, NoTurn \notin T, Typed(d, T), EventTyped(e, T)
  PROVE  /\ RowsTyped(ApplyTurns(d, e).turns, T)
         /\ ApplyTurns(d, e).pending.message.role \in {"none", "user"}
<1>1. /\ Shape(d) /\ RowsTyped(d.turns, T) /\ d.session.turn \in T \cup {NoTurn}
      /\ d.pending.message.role \in {"none", "user"}
  BY DEF Typed
<1> DEFINE Fine(c) == RowsTyped(c.turns, T) /\ c.pending.message.role \in {"none", "user"}
<1>2. \A x : RowsTyped(x, T) => Fine([d EXCEPT !.turns = x])
  BY <1>1 DEF Shape, Columns
<1>3. \A x, y : y.message.role \in {"none", "user"} => Fine([d EXCEPT !.pending = y])
  BY <1>1 DEF Shape, Columns
<1>4. \A x, y : RowsTyped(x, T) /\ y.message.role \in {"none", "user"}
                  => Fine([d EXCEPT !.turns = x, !.pending = y])
  BY <1>1 DEF Shape, Columns
<1>5. NoStart.message.role = "none"
  BY DEF NoStart, NoMessage, Message
<1>6. Fine(d)
  BY <1>1
<1> HIDE DEF Fine
<1>7. \A t : RowTyped(TurnRow(d.turns, t), t)
  BY <1>1, TurnRowTyped
<1>8. CASE e.type = "turn-start-requested"
  <2>1. [message |-> e.message, plan |-> e.plan].message.role \in {"none", "user"}
    BY <1>8 DEF EventTyped
  <2>2. Fine([d EXCEPT !.pending = [message |-> e.message, plan |-> e.plan]])
    BY <1>3, <2>1
  <2> QED BY <1>8, <2>2 DEF ApplyTurns, Fine
<1>9. CASE e.type = "session-set" /\ e.turn # NoTurn /\ e.status = "running"
  <2> DEFINE row == TurnRow(d.turns, e.turn)
             started == [row EXCEPT
               !.state = IF @ \in {"completed", "error"} THEN @ ELSE "running",
               !.pendingMessage = IF @ = NoMessage THEN d.pending.message ELSE @]
  <2>1. RowTyped(row, e.turn) /\ e.turn \in T
    BY <1>7, <1>9 DEF EventTyped
  <2>2. RowTyped(started, e.turn)
    <3> HIDE DEF row
    <3> QED BY <1>1, <2>1 DEF RowTyped
  <2>3. RowsTyped(SetTurn(d.turns, e.turn, started), T)
    <3> HIDE DEF started
    <3> QED BY <1>1, <2>1, <2>2, SetTurnTyped
  <2>4. Fine([d EXCEPT !.turns = SetTurn(d.turns, e.turn, started), !.pending = NoStart])
    <3> HIDE DEF started
    <3> QED BY <1>4, <1>5, <2>3
  <2> QED BY <1>9, <2>4 DEF ApplyTurns, StartTurnRow, Fine
<1>10. CASE e.type = "message-sent" /\ e.turn # NoTurn /\ e.id.role = "assistant"
  <2> DEFINE row == TurnRow(d.turns, e.turn)
             sent == [row EXCEPT
               !.message = e.id,
               !.state = IF e.streaming \/ @ \in {"interrupted", "error"} THEN @ ELSE "completed"]
  <2>1. RowTyped(row, e.turn) /\ e.turn \in T /\ e.id = Message("assistant", e.turn)
    BY <1>7, <1>10 DEF EventTyped
  <2>2. RowTyped(sent, e.turn)
    <3> HIDE DEF row
    <3> QED BY <2>1 DEF RowTyped
  <2>3. RowsTyped(SetTurn(d.turns, e.turn, sent), T)
    <3> HIDE DEF sent
    <3> QED BY <1>1, <2>1, <2>2, SetTurnTyped
  <2>4. Fine([d EXCEPT !.turns = SetTurn(d.turns, e.turn, sent)])
    <3> HIDE DEF sent
    <3> QED BY <1>2, <2>3
  <2> QED BY <1>10, <2>4 DEF ApplyTurns, AssistantTurnRow, Fine
<1>11. CASE e.type = "turn-interrupt-requested"
  <2> DEFINE row == TurnRow(d.turns, e.turn)
             stopped == [row EXCEPT !.state = "interrupted"]
  <2>1. RowTyped(row, e.turn) /\ e.turn \in T
    BY <1>7, <1>11 DEF EventTyped
  <2>2. RowTyped(stopped, e.turn)
    <3> HIDE DEF row
    <3> QED BY <2>1 DEF RowTyped
  <2>3. RowsTyped(SetTurn(d.turns, e.turn, stopped), T)
    <3> HIDE DEF stopped
    <3> QED BY <1>1, <2>1, <2>2, SetTurnTyped
  <2>4. Fine([d EXCEPT !.turns = SetTurn(d.turns, e.turn, stopped)])
    <3> HIDE DEF stopped
    <3> QED BY <1>2, <2>3
  <2> QED BY <1>11, <2>4 DEF ApplyTurns, Fine
<1>12. CASE e.type = "turn-diff-completed"
  <2> DEFINE row == TurnRow(d.turns, e.turn)
             done == [row EXCEPT
               !.message = e.message,
               !.state = IF e.status = "error" THEN "error" ELSE "completed",
               !.count = e.count,
               !.status = e.status,
               !.ref = e.ref]
             turns == SetTurn(ClearConflict(d.turns, e.turn, e.count), e.turn, done)
  <2>1. /\ RowTyped(row, e.turn) /\ e.turn \in T /\ e.count \in Nat \ {NoCount}
        /\ e.status \in {"ready", "missing", "error"} /\ e.ref \in {"placeholder", "git"}
        /\ e.message = Message("assistant", e.turn)
    BY <1>7, <1>12 DEF EventTyped
  <2>2. RowTyped(done, e.turn)
    <3> HIDE DEF row
    <3> QED BY <2>1 DEF RowTyped
  <2>3. RowsTyped(turns, T)
    <3> HIDE DEF done
    <3> QED BY <1>1, <2>1, <2>2, SetTurnTyped, ClearConflictTyped
  <2>4. Fine([d EXCEPT !.turns = turns])
    <3> HIDE DEF turns
    <3> QED BY <1>2, <2>3
  <2> QED BY <1>12, <2>4 DEF ApplyTurns, DiffTurnRow, Fine
<1>13. CASE e.type = "reverted"
  <2> DEFINE kept == [t \in KeptTurns(d.turns, e.count) |-> d.turns[t]]
  <2>1. RowsTyped(kept, T)
    BY <1>1 DEF RowsTyped, KeptTurns
  <2>2. Fine([d EXCEPT !.turns = kept, !.pending = NoStart])
    <3> HIDE DEF kept
    <3> QED BY <1>4, <1>5, <2>1
  <2> QED BY <1>13, <2>2 DEF ApplyTurns, Fine
<1>14. ASSUME /\ e.type \notin {"turn-start-requested", "turn-interrupt-requested",
                                "turn-diff-completed", "reverted"}
              /\ ~ (e.type = "session-set" /\ e.turn # NoTurn /\ e.status = "running")
              /\ ~ (e.type = "message-sent" /\ e.turn # NoTurn /\ e.id.role = "assistant")
       PROVE  ApplyTurns(d, e) = d
  BY <1>14 DEF ApplyTurns
<1> QED BY <1>6, <1>8, <1>9, <1>10, <1>11, <1>12, <1>13, <1>14 DEF Fine

\* One event through a projector.
LEMMA ApplyTyped ==
  ASSUME NEW d, NEW e, NEW T, NoTurn \notin T, Typed(d, T), EventTyped(e, T)
  PROVE  /\ Typed(ApplyMessages(d, e), T) /\ Typed(ApplyPlans(d, e), T)
         /\ Typed(ApplySessions(d, e), T) /\ Typed(ApplyTurns(d, e), T)
         /\ Typed(ApplyThreads(d, e), T)
<1>1. Shape(d)
  BY DEF Typed
<1>2. Typed(ApplyMessages(d, e), T)
  <2> DEFINE c == ApplyMessages(d, e)
  <2>1. Changed(c, d, {"messages"}) /\ MessagesTyped(c.messages, T)
    BY <1>1, OwnTables, MessagesStayTyped
  <2> HIDE DEF c
  <2> QED BY <1>1, <2>1, ChangedColumns DEF Typed, c
<1>3. Typed(ApplyPlans(d, e), T)
  <2> DEFINE c == ApplyPlans(d, e)
  <2>1. Changed(c, d, {"plans"}) /\ PlansTyped(c.plans, T)
    BY <1>1, OwnTables, PlansStayTyped
  <2> HIDE DEF c
  <2> QED BY <1>1, <2>1, ChangedColumns DEF Typed, c
<1>4. Typed(ApplySessions(d, e), T)
  <2> DEFINE c == ApplySessions(d, e)
  <2>1. Changed(c, d, {"session"})
    BY <1>1, OwnTables
  <2>2. c.session.turn \in T \cup {NoTurn}
    BY <1>1 DEF ApplySessions, EventTyped, Typed, Shape, Columns
  <2> HIDE DEF c
  <2> QED BY <1>1, <2>1, <2>2, ChangedColumns DEF Typed, c
<1>5. Typed(ApplyTurns(d, e), T)
  <2> DEFINE c == ApplyTurns(d, e)
  <2>1. /\ Changed(c, d, {"turns", "pending"}) /\ RowsTyped(c.turns, T)
        /\ c.pending.message.role \in {"none", "user"}
    BY <1>1, OwnTables, TurnsStayTyped
  <2> HIDE DEF c
  <2> QED BY <1>1, <2>1, ChangedColumns DEF Typed, c
<1>6. Typed(ApplyThreads(d, e), T)
  <2> DEFINE c == ApplyThreads(d, e)
  <2>1. Changed(c, d, {"shell"})
    BY <1>1, OwnTables
  <2> HIDE DEF c
  <2> QED BY <1>1, <2>1, ChangedColumns DEF Typed, c
<1> QED BY <1>2, <1>3, <1>4, <1>5, <1>6

\* One event through the pipeline.
LEMMA ProjectTyped ==
  ASSUME NEW d, NEW e, NEW T, NoTurn \notin T, Typed(d, T), EventTyped(e, T)
  PROVE  Typed(ProjectEvent(d, e), T)
<1> DEFINE p == ProjectEvent(d, e)
<1>1. /\ Typed(ApplyMessages(d, e), T) /\ Typed(ApplyPlans(d, e), T)
      /\ Typed(ApplySessions(d, e), T) /\ Typed(ApplyTurns(d, e), T)
  BY ApplyTyped
<1>2. /\ Shape(p)
      /\ p.messages = ApplyMessages(d, e).messages
      /\ p.plans = ApplyPlans(d, e).plans
      /\ p.session = ApplySessions(d, e).session
      /\ p.turns = ApplyTurns(d, e).turns
      /\ p.pending = ApplyTurns(d, e).pending
  BY ProjectColumns DEF Typed
<1> HIDE DEF p
<1> QED BY <1>1, <1>2 DEF Typed, p

\* A number more in a set of numbers up to n.
LEMMA OneMore ==
  ASSUME NEW n \in Nat, NEW S, S \subseteq 1..n
  PROVE  /\ Cardinality(S) \in Nat
         /\ Cardinality(S \cup {n + 1}) = Cardinality(S) + 1
<1>1. IsFiniteSet(S)
  <2>1. IsFiniteSet(1..n)
    BY FS_Interval
  <2> QED BY <2>1, FS_Subset
<1>2. n + 1 \notin S
  OBVIOUS
<1> QED BY <1>1, <1>2, FS_AddElement, FS_CardinalityType

Below(turns, n) == \A t \in DOMAIN turns : turns[t].count <= n

\* A count in the table is that of an event.
LEMMA CountsStayBelow ==
  ASSUME NEW d, NEW e, NEW T, NoTurn \notin T, Typed(d, T), EventTyped(e, T), NEW n \in Nat,
         Below(d.turns, n), e.type = "turn-diff-completed" => e.count <= n
  PROVE  Below(ApplyTurns(d, e).turns, n)
<1>1. Shape(d) /\ RowsTyped(d.turns, T)
  BY DEF Typed
<1>2. \A x : /\ [d EXCEPT !.turns = x].turns = x /\ [d EXCEPT !.pending = x].turns = d.turns
             /\ \A y : [d EXCEPT !.turns = x, !.pending = y].turns = x
  BY <1>1 DEF Shape, Columns
<1>3. ASSUME NEW turns, Below(turns, n), NEW t, NEW row, row.count <= n
      PROVE  Below(SetTurn(turns, t, row), n)
  BY <1>3 DEF Below, SetTurn
<1>4. \A t : /\ RowTyped(TurnRow(d.turns, t), t) /\ TurnRow(d.turns, t).count <= n
  <2>1. EmptyTurn.count = 0
    BY DEF EmptyTurn, NoCount
  <2>2. \A t : TurnRow(d.turns, t).count <= n
    BY <2>1 DEF TurnRow, Below
  <2> QED BY <1>1, <2>2, TurnRowTyped
<1>5. CASE e.type = "session-set" /\ e.turn # NoTurn /\ e.status = "running"
  <2> DEFINE row == TurnRow(d.turns, e.turn)
             started == [row EXCEPT
               !.state = IF @ \in {"completed", "error"} THEN @ ELSE "running",
               !.pendingMessage = IF @ = NoMessage THEN d.pending.message ELSE @]
             turns == SetTurn(d.turns, e.turn, started)
  <2>1. started.count <= n
    BY <1>4 DEF RowTyped
  <2>2. Below(turns, n)
    <3> HIDE DEF started
    <3> QED BY <1>3, <2>1
  <2>3. ApplyTurns(d, e) = [d EXCEPT !.turns = turns, !.pending = NoStart]
    BY <1>5 DEF ApplyTurns, StartTurnRow
  <2> HIDE DEF turns
  <2> QED BY <1>2, <2>2, <2>3
<1>6. CASE e.type = "message-sent" /\ e.turn # NoTurn /\ e.id.role = "assistant"
  <2> DEFINE row == TurnRow(d.turns, e.turn)
             sent == [row EXCEPT
               !.message = e.id,
               !.state = IF e.streaming \/ @ \in {"interrupted", "error"} THEN @ ELSE "completed"]
             turns == SetTurn(d.turns, e.turn, sent)
  <2>1. sent.count <= n
    BY <1>4 DEF RowTyped
  <2>2. Below(turns, n)
    <3> HIDE DEF sent
    <3> QED BY <1>3, <2>1
  <2>3. ApplyTurns(d, e) = [d EXCEPT !.turns = turns]
    BY <1>6 DEF ApplyTurns, AssistantTurnRow
  <2> HIDE DEF turns
  <2> QED BY <1>2, <2>2, <2>3
<1>7. CASE e.type = "turn-interrupt-requested"
  <2> DEFINE row == TurnRow(d.turns, e.turn)
             stopped == [row EXCEPT !.state = "interrupted"]
             turns == SetTurn(d.turns, e.turn, stopped)
  <2>1. stopped.count <= n
    BY <1>4 DEF RowTyped
  <2>2. Below(turns, n)
    <3> HIDE DEF stopped
    <3> QED BY <1>3, <2>1
  <2>3. ApplyTurns(d, e) = [d EXCEPT !.turns = turns]
    BY <1>7 DEF ApplyTurns
  <2> HIDE DEF turns
  <2> QED BY <1>2, <2>2, <2>3
<1>8. CASE e.type = "turn-diff-completed"
  <2> DEFINE row == TurnRow(d.turns, e.turn)
             done == [row EXCEPT
               !.message = e.message,
               !.state = IF e.status = "error" THEN "error" ELSE "completed",
               !.count = e.count,
               !.status = e.status,
               !.ref = e.ref]
             cleared == ClearConflict(d.turns, e.turn, e.count)
             turns == SetTurn(cleared, e.turn, done)
  <2>1. done.count <= n
    BY <1>4, <1>8 DEF RowTyped
  <2>2. Below(cleared, n)
    <3>1. DOMAIN cleared = DOMAIN d.turns
      BY DEF ClearConflict
    <3>2. ASSUME NEW u \in DOMAIN d.turns PROVE cleared[u].count <= n
      <4>1. cleared[u] = IF u # e.turn /\ d.turns[u].count = e.count
                         THEN [d.turns[u] EXCEPT !.count = NoCount, !.status = "none", !.ref = "none"]
                         ELSE d.turns[u]
        BY DEF ClearConflict
      <4>2. "count" \in DOMAIN d.turns[u] /\ d.turns[u].count <= n
        BY <1>1 DEF RowsTyped, RowTyped, Below
      <4>3. [d.turns[u] EXCEPT !.count = NoCount, !.status = "none", !.ref = "none"].count <= n
        BY <4>2 DEF NoCount
      <4> HIDE DEF cleared
      <4> QED BY <4>1, <4>2, <4>3
    <3> HIDE DEF cleared
    <3> QED BY <3>1, <3>2 DEF Below
  <2>3. Below(turns, n)
    <3> HIDE DEF done, cleared
    <3> QED BY <1>3, <2>1, <2>2
  <2>4. ApplyTurns(d, e) = [d EXCEPT !.turns = turns]
    BY <1>8 DEF ApplyTurns, DiffTurnRow
  <2> HIDE DEF turns
  <2> QED BY <1>2, <2>3, <2>4
<1>9. CASE e.type = "reverted"
  <2> DEFINE kept == [t \in KeptTurns(d.turns, e.count) |-> d.turns[t]]
  <2>1. Below(kept, n)
    BY DEF Below, KeptTurns
  <2>2. ApplyTurns(d, e) = [d EXCEPT !.turns = kept, !.pending = NoStart]
    BY <1>9 DEF ApplyTurns
  <2> HIDE DEF kept
  <2> QED BY <1>2, <2>1, <2>2
<1>10. ASSUME /\ e.type \notin {"turn-interrupt-requested", "turn-diff-completed", "reverted"}
              /\ ~ (e.type = "session-set" /\ e.turn # NoTurn /\ e.status = "running")
              /\ ~ (e.type = "message-sent" /\ e.turn # NoTurn /\ e.id.role = "assistant")
       PROVE  ApplyTurns(d, e).turns = d.turns
  BY <1>2, <1>10 DEF ApplyTurns
<1> QED BY <1>5, <1>6, <1>7, <1>8, <1>9, <1>10

\* And in every table, whichever projector applies the event.
LEMMA AppliedBelow ==
  ASSUME NEW d, NEW e, NEW T, NoTurn \notin T, Typed(d, T), EventTyped(e, T), NEW n \in Nat,
         Below(d.turns, n), e.type = "turn-diff-completed" => e.count <= n
  PROVE  /\ Below(ProjectEvent(d, e).turns, n)
         /\ \A k \in DOMAIN Projectors : /\ Typed(Apply(Projectors[k], d, e), T)
                                         /\ Below(Apply(Projectors[k], d, e).turns, n)
<1>1. Shape(d)
  BY DEF Typed
<1>2. Below(ApplyTurns(d, e).turns, n)
  BY CountsStayBelow
<1>3. ProjectEvent(d, e).turns = ApplyTurns(d, e).turns
  BY <1>1, ProjectColumns
<1>4. /\ ApplyMessages(d, e).turns = d.turns /\ ApplyPlans(d, e).turns = d.turns
      /\ ApplySessions(d, e).turns = d.turns /\ ApplyThreads(d, e).turns = d.turns
  <2> DEFINE m == ApplyMessages(d, e)
             p == ApplyPlans(d, e)
             s == ApplySessions(d, e)
             h == ApplyThreads(d, e)
  <2>1. Changed(m, d, {"messages"}) /\ Changed(p, d, {"plans"}) /\ Changed(s, d, {"session"}) /\ Changed(h, d, {"shell"})
    BY <1>1, OwnTables
  <2> HIDE DEF m, p, s, h
  <2>2. m.turns = d.turns /\ p.turns = d.turns /\ s.turns = d.turns /\ h.turns = d.turns
    BY <1>1, <2>1, ChangedColumns
  <2> QED BY <2>2 DEF m, p, s, h
<1>5. ASSUME NEW p \in {"threadMessages", "threadProposedPlans", "threadSessions", "threadTurns", "threads"}
      PROVE  Typed(Apply(p, d, e), T) /\ Below(Apply(p, d, e).turns, n)
  BY <1>2, <1>4, <1>5, ApplyTyped DEF Apply
<1>6. \A k \in DOMAIN Projectors :
        Projectors[k] \in {"threadMessages", "threadProposedPlans", "threadSessions", "threadTurns", "threads"}
  BY DEF Projectors
<1> QED BY <1>2, <1>3, <1>5, <1>6

-------------------------------------------------------------------------------
(* Messages and their turns                                                 *)

Owned(messages, turns) == \A m \in Range(messages) : m.turn \in DOMAIN turns \cup {NoTurn}

\* Only a revert takes turns from the table, and a message of a turn brings it there.
LEMMA TurnsGrow ==
  ASSUME NEW d, NEW e, NEW T, Shape(d), EventTyped(e, T)
  PROVE  /\ e.type # "reverted" => DOMAIN d.turns \subseteq DOMAIN ApplyTurns(d, e).turns
         /\ e.type = "reverted" => /\ DOMAIN ApplyTurns(d, e).turns = KeptTurns(d.turns, e.count)
                                   /\ \A t \in KeptTurns(d.turns, e.count) :
                                        ApplyTurns(d, e).turns[t] = d.turns[t]
         /\ e.type = "message-sent" => e.turn \in DOMAIN ApplyTurns(d, e).turns \cup {NoTurn}
<1> DEFINE More(c) == DOMAIN c.turns = DOMAIN d.turns \cup {e.turn}
<1>1. \A x : [d EXCEPT !.turns = x].turns = x /\ [d EXCEPT !.pending = x].turns = d.turns
  BY DEF Shape, Columns
<1>2. \A x, y : [d EXCEPT !.turns = x, !.pending = y].turns = x
  BY DEF Shape, Columns
<1>3. \A turns, row : DOMAIN SetTurn(turns, e.turn, row) = DOMAIN turns \cup {e.turn}
  BY DEF SetTurn
<1>4. \A row, y : More([d EXCEPT !.turns = SetTurn(@, e.turn, row), !.pending = y])
  <2> SUFFICES ASSUME NEW row, NEW y PROVE More([d EXCEPT !.turns = SetTurn(@, e.turn, row), !.pending = y])
    OBVIOUS
  <2> DEFINE x == SetTurn(d.turns, e.turn, row)
  <2>1. DOMAIN x = DOMAIN d.turns \cup {e.turn}
    BY <1>3
  <2> HIDE DEF x
  <2>2. [d EXCEPT !.turns = x, !.pending = y].turns = x
    BY <1>2
  <2> QED BY <2>1, <2>2 DEF x
<1>5. \A row : More([d EXCEPT !.turns = SetTurn(@, e.turn, row)])
  BY <1>1, <1>3
<1>6. \A row : More([d EXCEPT !.turns = SetTurn(ClearConflict(@, e.turn, e.count), e.turn, row)])
  <2>1. DOMAIN ClearConflict(d.turns, e.turn, e.count) = DOMAIN d.turns
    BY DEF ClearConflict
  <2> SUFFICES ASSUME NEW row
               PROVE  More([d EXCEPT !.turns = SetTurn(ClearConflict(@, e.turn, e.count), e.turn, row)])
    OBVIOUS
  <2> DEFINE x == SetTurn(ClearConflict(d.turns, e.turn, e.count), e.turn, row)
  <2>2. DOMAIN x = DOMAIN d.turns \cup {e.turn}
    BY <1>3, <2>1
  <2> HIDE DEF x
  <2>3. [d EXCEPT !.turns = x].turns = x
    BY <1>1
  <2> QED BY <2>2, <2>3 DEF x
<1> HIDE DEF More
<1>7. More(StartTurnRow(d, e)) /\ More(AssistantTurnRow(d, e)) /\ More(DiffTurnRow(d, e))
  BY <1>4, <1>5, <1>6 DEF StartTurnRow, AssistantTurnRow, DiffTurnRow
<1>8. ASSUME e.type = "reverted"
      PROVE  /\ DOMAIN ApplyTurns(d, e).turns = KeptTurns(d.turns, e.count)
             /\ \A t \in KeptTurns(d.turns, e.count) : ApplyTurns(d, e).turns[t] = d.turns[t]
  <2> DEFINE kept == [t \in KeptTurns(d.turns, e.count) |-> d.turns[t]]
  <2>1. ApplyTurns(d, e) = [d EXCEPT !.turns = kept, !.pending = NoStart]
    BY <1>8 DEF ApplyTurns
  <2>2. ApplyTurns(d, e).turns = kept
    <3> HIDE DEF kept
    <3> QED BY <1>2, <2>1
  <2> QED BY <2>2
<1>9. ASSUME e.type # "reverted" PROVE DOMAIN d.turns \subseteq DOMAIN ApplyTurns(d, e).turns
  <2>1. \/ \E y : ApplyTurns(d, e) = [d EXCEPT !.pending = y]
        \/ More(ApplyTurns(d, e))
        \/ ApplyTurns(d, e) = d
    BY <1>5, <1>7, <1>9 DEF ApplyTurns
  <2> QED BY <1>1, <2>1 DEF More
<1>10. ASSUME e.type = "message-sent", e.turn # NoTurn PROVE e.turn \in DOMAIN ApplyTurns(d, e).turns
  <2>1. e.id.role = "assistant"
    BY <1>10 DEF EventTyped, Message
  <2>2. ApplyTurns(d, e) = AssistantTurnRow(d, e)
    BY <1>10, <2>1 DEF ApplyTurns
  <2> QED BY <1>7, <2>2 DEF More
<1> QED BY <1>8, <1>9, <1>10

\* The messages a revert retains are of kept turns or of none.
LEMMA RetainedAreOwned ==
  ASSUME NEW messages, NEW turns, NEW T, NEW n, MessagesTyped(messages, T), RowsTyped(turns, T)
  PROVE  \A m \in Range(RetainMessages(messages, turns, n)) : m.turn \in KeptTurns(turns, n) \cup {NoTurn}
<1> DEFINE kept == KeptTurns(turns, n)
           new  == RetainMessages(messages, turns, n)
<1>1. /\ Range(new) \subseteq Range(messages)
      /\ \A m \in Range(new) :
           \/ m.turn \in kept \cup {NoTurn}
           \/ \E t \in kept : m.id = turns[t].pendingMessage \/ m.id = turns[t].message
  BY RetainedMessages DEF MessagesTyped
<1>2. kept \subseteq DOMAIN turns
  BY DEF KeptTurns
<1> HIDE DEF new, kept
<1>3. ASSUME NEW m \in Range(new), NEW t \in kept,
             m.id = turns[t].pendingMessage \/ m.id = turns[t].message
      PROVE  m.turn \in kept \cup {NoTurn}
  <2>1. MessageTyped(m, T) /\ RowTyped(turns[t], t)
    BY <1>1, <1>2 DEF MessagesTyped, RowsTyped
  <2>2. CASE m.turn # NoTurn
    <3>1. m.id = Message("assistant", m.turn)
      BY <2>1, <2>2 DEF MessageTyped
    <3>2. m.id.role = "assistant" /\ m.id.n = m.turn
      BY <3>1 DEF Message
    <3>3. m.id = Message("assistant", t)
      BY <1>3, <2>1, <3>2 DEF RowTyped, NoMessage, Message
    <3>4. m.turn = t
      BY <3>2, <3>3 DEF Message
    <3> QED BY <3>4
  <2> QED BY <2>2
<1> QED BY <1>1, <1>3 DEF new, kept

\* The messages projector leaves messages that the turns projector has turns for:
\* with the turns next to them, and also in a rebuild, with none yet.
LEMMA MessagesStayOwned ==
  ASSUME NEW d, NEW l, NEW e, NEW T, NoTurn \notin T, Typed(d, T), Typed(l, T), EventTyped(e, T),
         d.turns = l.turns \/ DOMAIN d.turns = {}, Owned(d.messages, l.turns)
  PROVE  Owned(ApplyMessages(d, e).messages, ApplyTurns(l, e).turns)
<1> DEFINE turns == ApplyTurns(l, e).turns
<1>1. Shape(d) /\ Shape(l) /\ MessagesTyped(d.messages, T) /\ RowsTyped(d.turns, T)
  BY DEF Typed
<1>2. /\ e.type # "reverted" => DOMAIN l.turns \subseteq DOMAIN turns
      /\ e.type = "reverted" => DOMAIN turns = KeptTurns(l.turns, e.count)
      /\ e.type = "message-sent" => e.turn \in DOMAIN turns \cup {NoTurn}
  BY <1>1, TurnsGrow
<1>3. \A x : [d EXCEPT !.messages = x].messages = x
  BY <1>1 DEF Shape, Columns
<1> HIDE DEF turns
<1>4. CASE e.type = "message-sent"
  <2> DEFINE row == SentMessage(d.messages, e)
             new == Upsert(d.messages, row, "id")
  <2>1. ApplyMessages(d, e).messages = new
    BY <1>3, <1>4 DEF ApplyMessages
  <2>2. row.turn = e.turn
    BY DEF SentMessage
  <2>3. Range(new) \subseteq Range(d.messages) \cup {row}
    <3> HIDE DEF row
    <3> QED BY <1>1, UpsertRows DEF MessagesTyped
  <2> HIDE DEF new, row
  <2> QED BY <1>2, <1>4, <2>1, <2>2, <2>3 DEF Owned, turns
<1>5. CASE e.type = "reverted"
  <2> DEFINE new == RetainMessages(d.messages, d.turns, e.count)
  <2>1. ApplyMessages(d, e).messages = new
    BY <1>3, <1>5 DEF ApplyMessages
  <2>2. \A m \in Range(new) : m.turn \in KeptTurns(d.turns, e.count) \cup {NoTurn}
    BY <1>1, RetainedAreOwned
  <2>3. KeptTurns(d.turns, e.count) \subseteq KeptTurns(l.turns, e.count)
    BY DEF KeptTurns
  <2> HIDE DEF new
  <2> QED BY <1>2, <1>5, <2>1, <2>2, <2>3 DEF Owned, turns
<1>6. CASE e.type \notin {"message-sent", "reverted"}
  <2>1. ApplyMessages(d, e) = d
    BY <1>6 DEF ApplyMessages
  <2> QED BY <1>2, <1>6, <2>1 DEF Owned, turns
<1> QED BY <1>4, <1>5, <1>6

\* What the pipeline leaves of a thread at a revert is of the turns it keeps.
LEMMA RevertedIsPruned ==
  ASSUME NEW d, NEW e, NEW T, NoTurn \notin T, Typed(d, T), EventTyped(e, T), e.type = "reverted"
  PROVE  LET p == ProjectEvent(d, e)
             turns == DOMAIN p.turns \cup {NoTurn}
         IN /\ \A i \in DOMAIN p.messages : p.messages[i].turn \in turns
            /\ \A i \in DOMAIN p.plans : p.plans[i].turn \in turns
            /\ p.shell.latestTurn \in turns
<1> DEFINE p    == ProjectEvent(d, e)
           kept == KeptTurns(d.turns, e.count)
<1>1. /\ Shape(d) /\ MessagesTyped(d.messages, T) /\ RowsTyped(d.turns, T) /\ IsSequence(d.plans)
      /\ e.count \in Nat
  BY DEF Typed, PlansTyped, EventTyped
<1>2. /\ p.messages = ApplyMessages(d, e).messages /\ p.plans = ApplyPlans(d, e).plans
      /\ p.turns = ApplyTurns(d, e).turns
  BY <1>1, ProjectColumns
<1>3. DOMAIN p.turns = kept /\ \A t \in kept : p.turns[t] = d.turns[t]
  BY <1>1, <1>2, TurnsGrow
<1>4. \A m \in Range(p.messages) : m.turn \in kept \cup {NoTurn}
  <2>1. p.messages = RetainMessages(d.messages, d.turns, e.count)
    BY <1>1, <1>2 DEF ApplyMessages, Shape, Columns
  <2> QED BY <1>1, <2>1, RetainedAreOwned
<1>5. \A q \in Range(p.plans) : q.turn \in kept
  <2>1. p.plans = Only(d.plans, {q \in Range(d.plans) : q.turn \in kept})
    BY <1>1, <1>2 DEF ApplyPlans, RetainPlans, Shape, Columns
  <2>2. Range(p.plans) \subseteq {q \in Range(d.plans) : q.turn \in kept}
    <3> DEFINE S == {q \in Range(d.plans) : q.turn \in kept}
    <3> HIDE DEF S, kept
    <3> QED BY <1>1, <2>1, OnlyRows DEF S
  <2> QED BY <2>2
<1>6. p.shell.latestTurn \in kept \cup {NoTurn}
  <2>1. PICK t : Shape(t) /\ t.turns = p.turns /\ p = ApplyThreads(t, e)
    <3> DEFINE a == ApplyMessages(d, e)
               b == ApplyPlans(a, e)
               c == ApplySessions(b, e)
               t == ApplyTurns(c, e)
    <3>1. Shape(a)
      BY <1>1, OwnTables DEF Changed
    <3>2. Shape(b)
      <4> HIDE DEF a
      <4> QED BY <3>1, OwnTables DEF Changed
    <3>3. Shape(c)
      <4> HIDE DEF b
      <4> QED BY <3>2, OwnTables DEF Changed
    <3>4. Shape(t)
      <4> HIDE DEF c
      <4> QED BY <3>3, OwnTables DEF Changed
    <3>5. Changed(ApplyThreads(t, e), t, {"shell"})
      <4> HIDE DEF t
      <4> QED BY <3>4, OwnTables
    <3>6. p = ApplyThreads(t, e)
      BY DEF ProjectEvent
    <3> HIDE DEF t, p
    <3>7. p.turns = t.turns
      BY <3>4, <3>5, <3>6, ChangedColumns
    <3> QED BY <3>4, <3>6, <3>7
  <2>2. KeptTurns(t.turns, e.count) = kept
    BY <1>3, <2>1 DEF KeptTurns
  <2>3. p.shell.latestTurn = LatestKept(t.turns, e.count)
    <3>1. p = RefreshShell(t, LatestKept(t.turns, e.count))
      BY <2>1 DEF ApplyThreads
    <3> HIDE DEF p
    <3> QED BY <2>1, <3>1 DEF RefreshShell, Shape, Columns
  <2>4. kept # {} => \E x \in kept : \A u \in kept : t.turns[u].count <= t.turns[x].count
    <3> DEFINE S == {t.turns[u].count : u \in kept}
    <3>1. S \subseteq 0..e.count
      BY <1>1, <1>3, <2>1 DEF KeptTurns, RowsTyped, RowTyped
    <3>2. ASSUME kept # {} PROVE \E x \in S : \A y \in S : y <= x
      <4>1. S # {}
        BY <3>2
      <4> HIDE DEF S
      <4> QED BY <1>1, <3>1, <4>1, Greatest
    <3> QED BY <3>2
  <2>5. LatestKept(t.turns, e.count) \in kept \cup {NoTurn}
    BY <2>2, <2>4 DEF LatestKept
  <2> QED BY <2>3, <2>5
<1> HIDE DEF p
<1> QED BY <1>3, <1>4, <1>5, <1>6 DEF p, Range

-------------------------------------------------------------------------------
(* The tables as the live pipeline would have them                          *)

Fold(log, n, h) ==
  h = [k \in 0..n |-> IF k = 0 THEN EmptyDb ELSE ProjectEvent(h[k - 1], log[k])]

\* The tables after the first n events.
After(log, n) == (CHOOSE h : Fold(log, n, h))[n]

LEMMA FoldExists ==
  ASSUME NEW log, NEW N \in Nat
  PROVE  \E h : Fold(log, N, h)
<1> DEFINE G == {n \in 0..N : \E h : Fold(log, n, h)}
<1>1. 0 \in G
  <2>1. Fold(log, 0, [k \in 0..0 |-> EmptyDb])
    BY DEF Fold
  <2> QED BY <2>1
<1>2. ASSUME NEW n \in 1..N, n - 1 \in G PROVE n \in G
  <2>1. PICK f : Fold(log, n - 1, f)
    BY <1>2
  <2> DEFINE next == ProjectEvent(f[n - 1], log[n])
             g    == [k \in 0..n |-> IF k = n THEN next ELSE f[k]]
  <2>2. \A k \in 0..(n - 1) : f[k] = IF k = 0 THEN EmptyDb ELSE ProjectEvent(f[k - 1], log[k])
    BY <2>1 DEF Fold
  <2>3. g[n] = next /\ \A k \in 0..(n - 1) : g[k] = f[k]
    OBVIOUS
  <2>4. \A k \in 0..n : g[k] = IF k = 0 THEN EmptyDb ELSE ProjectEvent(g[k - 1], log[k])
    <3> SUFFICES ASSUME NEW k \in 0..n
                 PROVE  g[k] = IF k = 0 THEN EmptyDb ELSE ProjectEvent(g[k - 1], log[k])
      OBVIOUS
    <3>1. k # 0 => g[k - 1] = f[k - 1]
      BY <2>3
    <3>2. CASE k = n
      <4>1. g[k] = next /\ k # 0
        BY <2>3, <3>2
      <4>2. next = ProjectEvent(f[k - 1], log[k])
        BY <3>2
      <4> HIDE DEF g, next
      <4> QED BY <3>1, <4>1, <4>2
    <3>3. CASE k # n
      <4>1. k \in 0..(n - 1)
        BY <3>3
      <4> HIDE DEF g, next
      <4> QED BY <2>2, <2>3, <3>1, <4>1
    <3> QED BY <3>2, <3>3
  <2>5. Fold(log, n, g)
    BY <2>4 DEF Fold
  <2> QED BY <2>5
<1>3. N \in G
  <2> HIDE DEF G
  <2> QED BY <1>1, <1>2, UpTo
<1> QED BY <1>3

Agree(log, more, n) == \A k \in 1..n : log[k] = more[k]

\* Two logs that agree on n events fold to the same.
LEMMA FoldAgrees ==
  ASSUME NEW log, NEW more, NEW n \in Nat, NEW m \in Nat, n <= m, Agree(log, more, n),
         NEW g, NEW h, Fold(log, n, g), Fold(more, m, h)
  PROVE  g[n] = h[n]
<1> DEFINE G == {k \in 0..n : g[k] = h[k]}
<1>1. \A k \in 0..n : /\ g[k] = IF k = 0 THEN EmptyDb ELSE ProjectEvent(g[k - 1], log[k])
                      /\ h[k] = IF k = 0 THEN EmptyDb ELSE ProjectEvent(h[k - 1], more[k])
  BY DEF Fold
<1>2. 0 \in G
  BY <1>1
<1>3. ASSUME NEW k \in 1..n, k - 1 \in G PROVE k \in G
  BY <1>1, <1>3 DEF Agree
<1>4. n \in G
  <2> HIDE DEF G
  <2> QED BY <1>2, <1>3, UpTo
<1> QED BY <1>4

\* After is a fold: from the empty tables, event by event.
LEMMA AfterFolds ==
  ASSUME NEW log, NEW n \in Nat
  PROVE  /\ After(log, 0) = EmptyDb
         /\ n # 0 => After(log, n) = ProjectEvent(After(log, n - 1), log[n])
<1>1. ASSUME NEW k \in Nat PROVE Fold(log, k, CHOOSE h : Fold(log, k, h))
  <2>1. \E h : Fold(log, k, h)
    BY FoldExists
  <2> QED BY <2>1
<1>2. After(log, 0) = EmptyDb
  <2>1. PICK h : Fold(log, 0, h) /\ After(log, 0) = h[0]
    BY <1>1 DEF After
  <2> QED BY <2>1 DEF Fold
<1>3. ASSUME n # 0 PROVE After(log, n) = ProjectEvent(After(log, n - 1), log[n])
  <2>1. n - 1 \in Nat
    BY <1>3
  <2>2. PICK h : Fold(log, n, h) /\ After(log, n) = h[n]
    BY <1>1 DEF After
  <2>3. PICK g : Fold(log, n - 1, g) /\ After(log, n - 1) = g[n - 1]
    BY <1>1, <2>1 DEF After
  <2>4. h[n] = ProjectEvent(h[n - 1], log[n])
    BY <1>3, <2>2 DEF Fold
  <2>5. g[n - 1] = h[n - 1]
    <3> DEFINE m == n - 1
    <3>1. m \in Nat /\ m <= n /\ Agree(log, log, m)
      BY <2>1 DEF Agree
    <3> HIDE DEF m
    <3>2. Fold(log, m, g)
      BY <2>3 DEF m
    <3>3. g[m] = h[m]
      BY <2>2, <3>1, <3>2, FoldAgrees
    <3> QED BY <3>3 DEF m
  <2> QED BY <2>2, <2>3, <2>4, <2>5
<1> QED BY <1>2, <1>3

\* And it looks at the first n events only.
LEMMA AfterAgrees ==
  ASSUME NEW log, NEW more, NEW n \in Nat, Agree(log, more, n)
  PROVE  After(log, n) = After(more, n)
<1>1. ASSUME NEW w PROVE Fold(w, n, CHOOSE h : Fold(w, n, h))
  <2>1. \E h : Fold(w, n, h)
    BY FoldExists
  <2> QED BY <2>1
<1>2. PICK g : Fold(log, n, g) /\ After(log, n) = g[n]
  BY <1>1 DEF After
<1>3. PICK h : Fold(more, n, h) /\ After(more, n) = h[n]
  BY <1>1 DEF After
<1>4. g[n] = h[n]
  BY <1>2, <1>3, FoldAgrees
<1> QED BY <1>2, <1>3, <1>4

\* The folded tables are typed and summarised.
LEMMA AfterTyped ==
  ASSUME NEW log, NEW T, NEW N \in Nat, NoTurn \notin T, \A k \in 1..N : EventTyped(log[k], T)
  PROVE  \A n \in 0..N : Typed(After(log, n), T) /\ Tables(After(log, n)) /\ Fresh(After(log, n))
<1> DEFINE Fine(d) == Typed(d, T) /\ Tables(d) /\ Fresh(d)
           G == {n \in 0..N : Fine(After(log, n))}
<1>1. Fine(EmptyDb)
  BY EmptyTyped, EmptyTables, EmptyIsFresh
<1>2. \A d, e : Fine(d) /\ EventTyped(e, T) => Fine(ProjectEvent(d, e))
  BY ProjectTyped, ProjectEventTables, ProjectEventFresh
<1> HIDE DEF Fine
<1>3. 0 \in G
  BY <1>1, AfterFolds
<1>4. ASSUME NEW n \in 1..N, n - 1 \in G PROVE n \in G
  <2>1. After(log, n) = ProjectEvent(After(log, n - 1), log[n])
    BY AfterFolds
  <2> QED BY <1>2, <1>4, <2>1
<1>5. \A n \in 0..N : n \in G
  <2> HIDE DEF G
  <2> QED BY <1>3, <1>4, UpTo
<1> QED BY <1>5 DEF Fine

-------------------------------------------------------------------------------
(* Tables that are those of the live pipeline, all columns of them or some  *)

Full(d) == Shape(d) /\ DOMAIN d = Columns

\* The tables of d are those of l; if nothing was reverted, the messages, the plans
\* and the latest turn of the summary are, too.
Matches(d, l, clean) ==
  /\ d.turns = l.turns /\ d.pending = l.pending /\ d.session = l.session
  /\ Owned(d.messages, l.turns)
  /\ clean => /\ d.messages = l.messages /\ d.plans = l.plans
              /\ d.shell.latestTurn = l.shell.latestTurn

\* A projector adds no column.
LEMMA ApplyFull ==
  ASSUME NEW d, NEW e, Full(d)
  PROVE  /\ Full(ApplyMessages(d, e)) /\ Full(ApplyPlans(d, e)) /\ Full(ApplySessions(d, e))
         /\ Full(ApplyTurns(d, e)) /\ Full(ApplyThreads(d, e))
BY OwnTables DEF Full, Changed

LEMMA ProjectFull ==
  ASSUME NEW d, NEW e, Full(d)
  PROVE  Full(ProjectEvent(d, e))
<1> DEFINE a == ApplyMessages(d, e)
           b == ApplyPlans(a, e)
           c == ApplySessions(b, e)
           t == ApplyTurns(c, e)
<1>1. Full(a)
  BY ApplyFull
<1>2. Full(b)
  <2> HIDE DEF a
  <2> QED BY <1>1, ApplyFull
<1>3. Full(c)
  <2> HIDE DEF b
  <2> QED BY <1>2, ApplyFull
<1>4. Full(t)
  <2> HIDE DEF c
  <2> QED BY <1>3, ApplyFull
<1> HIDE DEF t
<1> QED BY <1>4, ApplyFull DEF ProjectEvent, t

\* The latest turn follows the events, but for reverts.
LEMMA SameLatest ==
  ASSUME NEW c, NEW d, NEW e, Shape(c), Shape(d), c.shell.latestTurn = d.shell.latestTurn,
         e.type # "reverted"
  PROVE  ApplyThreads(c, e).shell.latestTurn = ApplyThreads(d, e).shell.latestTurn
<1>1. \A t : /\ RefreshShell(c, t).shell.latestTurn = t
             /\ RefreshShell(d, t).shell.latestTurn = t
  <2> SUFFICES ASSUME NEW t, NEW x, Shape(x) PROVE RefreshShell(x, t).shell.latestTurn = t
    OBVIOUS
  <2> DEFINE shell == [latestTurn |-> t, latestUser |-> LatestUser(x.messages),
                       actionable |-> Actionable(x.plans, t)]
  <2>1. RefreshShell(x, t) = [x EXCEPT !.shell = shell] /\ shell.latestTurn = t
    BY DEF RefreshShell
  <2> HIDE DEF shell
  <2> QED BY <2>1 DEF Shape, Columns
<1>2. CASE e.type \in {"message-sent", "proposed-plan-upserted"}
  BY <1>1, <1>2 DEF ApplyThreads
<1>3. CASE e.type \in {"session-set", "turn-diff-completed"}
  BY <1>1, <1>3 DEF ApplyThreads
<1>4. CASE e.type \notin {"message-sent", "proposed-plan-upserted", "session-set",
                          "turn-diff-completed", "reverted"}
  BY <1>4 DEF ApplyThreads
<1> QED BY <1>2, <1>3, <1>4

LEMMA ProjectLatest ==
  ASSUME NEW d, NEW e, Shape(d), e.type # "reverted"
  PROVE  ProjectEvent(d, e).shell.latestTurn = ApplyThreads(d, e).shell.latestTurn
<1> DEFINE a == ApplyMessages(d, e)
           b == ApplyPlans(a, e)
           c == ApplySessions(b, e)
           t == ApplyTurns(c, e)
<1>1. Shape(a) /\ a.shell = d.shell
  <2>1. Changed(a, d, {"messages"})
    BY OwnTables
  <2> HIDE DEF a
  <2> QED BY <2>1, ChangedColumns
<1>2. Shape(b) /\ b.shell = d.shell
  <2> HIDE DEF a
  <2>1. Changed(b, a, {"plans"})
    BY <1>1, OwnTables
  <2> HIDE DEF b
  <2> QED BY <1>1, <2>1, ChangedColumns
<1>3. Shape(c) /\ c.shell = d.shell
  <2> HIDE DEF b
  <2>1. Changed(c, b, {"session"})
    BY <1>2, OwnTables
  <2> HIDE DEF c
  <2> QED BY <1>2, <2>1, ChangedColumns
<1>4. Shape(t) /\ t.shell = d.shell
  <2> HIDE DEF c
  <2>1. Changed(t, c, {"turns", "pending"})
    BY <1>3, OwnTables
  <2> HIDE DEF t
  <2> QED BY <1>3, <2>1, ChangedColumns
<1>5. ProjectEvent(d, e) = ApplyThreads(t, e)
  BY DEF ProjectEvent
<1> HIDE DEF t
<1> QED BY <1>4, <1>5, SameLatest

\* Tables that match go on to match, event by event.
LEMMA MatchesProject ==
  ASSUME NEW d, NEW l, NEW e, NEW T, NoTurn \notin T, Typed(d, T), Typed(l, T), EventTyped(e, T),
         NEW clean, Matches(d, l, clean)
  PROVE  Matches(ProjectEvent(d, e), ProjectEvent(l, e), clean /\ e.type # "reverted")
<1> DEFINE p == ProjectEvent(d, e)
           q == ProjectEvent(l, e)
<1>1. Shape(d) /\ Shape(l)
  BY DEF Typed
<1>2. /\ p.messages = ApplyMessages(d, e).messages /\ p.plans = ApplyPlans(d, e).plans
      /\ p.session = ApplySessions(d, e).session
      /\ p.turns = ApplyTurns(d, e).turns /\ p.pending = ApplyTurns(d, e).pending
  BY <1>1, ProjectColumns
<1>3. /\ q.messages = ApplyMessages(l, e).messages /\ q.plans = ApplyPlans(l, e).plans
      /\ q.session = ApplySessions(l, e).session
      /\ q.turns = ApplyTurns(l, e).turns /\ q.pending = ApplyTurns(l, e).pending
  BY <1>1, ProjectColumns
<1>4. e.type # "reverted" => /\ p.shell.latestTurn = ApplyThreads(d, e).shell.latestTurn
                             /\ q.shell.latestTurn = ApplyThreads(l, e).shell.latestTurn
  BY <1>1, ProjectLatest
<1> HIDE DEF p, q
<1>5. p.turns = q.turns /\ p.pending = q.pending /\ p.session = q.session
  BY <1>1, <1>2, <1>3, SameTurns, SameSessions DEF Matches
<1>6. Owned(p.messages, q.turns)
  BY <1>2, <1>3, MessagesStayOwned DEF Matches
<1>7. ASSUME clean, e.type # "reverted"
      PROVE  p.messages = q.messages /\ p.plans = q.plans /\ p.shell.latestTurn = q.shell.latestTurn
  BY <1>1, <1>2, <1>3, <1>4, <1>7, SameMessages, SamePlans, SameLatest DEF Matches
<1> QED BY <1>5, <1>6, <1>7 DEF Matches, p, q

\* The tables with the columns of the live ones, and a fresh summary as these
\* have, are the live ones.
LEMMA MatchesAll ==
  ASSUME NEW d, NEW l, Full(d), Full(l), Fresh(d), Fresh(l), Matches(d, l, TRUE)
  PROVE  d = l
<1>1. /\ d.turns = l.turns /\ d.pending = l.pending /\ d.session = l.session
      /\ d.messages = l.messages /\ d.plans = l.plans
  BY DEF Matches
<1>2. d.shell = l.shell
  BY DEF Matches, Fresh, Summary
<1> QED BY <1>1, <1>2 DEF Full, Shape, Columns

\* All columns, after any number of events.
LEMMA AfterFull ==
  ASSUME NEW log, NEW N \in Nat
  PROVE  \A n \in 0..N : Full(After(log, n))
<1> DEFINE G == {n \in 0..N : Full(After(log, n))}
<1>1. 0 \in G
  <2>1. Full(EmptyDb)
    BY DEF Full, Shape, Columns, EmptyDb
  <2> QED BY <2>1, AfterFolds
<1>2. ASSUME NEW n \in 1..N, n - 1 \in G PROVE n \in G
  <2>1. After(log, n) = ProjectEvent(After(log, n - 1), log[n])
    BY AfterFolds
  <2> QED BY <1>2, <2>1, ProjectFull
<1>3. \A n \in 0..N : n \in G
  <2> HIDE DEF G
  <2> QED BY <1>1, <1>2, UpTo
<1> QED BY <1>3

-------------------------------------------------------------------------------
(* Counts and plans, event by event                                         *)

\* The checkpoint of turn t has count n.
Counted(turns, t, n) == t \in DOMAIN turns /\ turns[t].count = n

\* A row with the count of the one it replaces.
LEMMA CountsStay ==
  ASSUME NEW turns, NEW t, NEW row, row.count = TurnRow(turns, t).count, NEW u, NEW n, n # NoCount
  PROVE  Counted(SetTurn(turns, t, row), u, n) <=> Counted(turns, u, n)
<1> DEFINE set == SetTurn(turns, t, row)
<1>1. DOMAIN set = DOMAIN turns \cup {t} /\ set[t] = row /\ \A v \in DOMAIN turns : v # t => set[v] = turns[v]
  BY DEF SetTurn
<1>2. row.count = IF t \in DOMAIN turns THEN turns[t].count ELSE NoCount
  BY DEF TurnRow, EmptyTurn
<1> HIDE DEF set
<1>3. Counted(set, u, n) <=> Counted(turns, u, n)
  <2>1. CASE u = t
    BY <1>1, <1>2, <2>1 DEF Counted
  <2>2. CASE u # t
    BY <1>1, <2>2 DEF Counted
  <2> QED BY <2>1, <2>2
<1> QED BY <1>3 DEF set

\* What an event makes of the counts: a checkpoint gives its turn a count that no
\* other turn keeps, a revert drops the higher ones.
LEMMA CountsFollow ==
  ASSUME NEW d, NEW e, NEW T, Typed(d, T), EventTyped(e, T), NEW t, NEW n \in Nat \ {NoCount}
  PROVE  LET p == ProjectEvent(d, e).turns
         IN /\ e.type \notin {"turn-diff-completed", "reverted"} =>
                 (Counted(p, t, n) <=> Counted(d.turns, t, n))
            /\ e.type = "turn-diff-completed" =>
                 (Counted(p, t, n) <=> IF t = e.turn THEN n = e.count
                                       ELSE n # e.count /\ Counted(d.turns, t, n))
            /\ e.type = "reverted" =>
                 (Counted(p, t, n) <=> Counted(d.turns, t, n) /\ n <= e.count)
<1> DEFINE p == ProjectEvent(d, e).turns
           row == TurnRow(d.turns, e.turn)
<1>1. Shape(d) /\ RowsTyped(d.turns, T)
  BY DEF Typed
<1>2. p = ApplyTurns(d, e).turns
  BY <1>1, ProjectColumns
<1>3. DOMAIN row = {"state", "pendingMessage", "message", "count", "status", "ref"}
  BY <1>1 DEF TurnRow, EmptyTurn, RowsTyped, RowTyped
<1>4. \A x : /\ [d EXCEPT !.turns = x].turns = x
             /\ [d EXCEPT !.pending = x].turns = d.turns
             /\ \A y : [d EXCEPT !.turns = x, !.pending = y].turns = x
  BY <1>1 DEF Shape, Columns
<1> HIDE DEF p
<1>5. ASSUME e.type = "session-set", e.turn # NoTurn, e.status = "running"
      PROVE  Counted(p, t, n) <=> Counted(d.turns, t, n)
  <2> DEFINE started == [row EXCEPT
               !.state = IF @ \in {"completed", "error"} THEN @ ELSE "running",
               !.pendingMessage = IF @ = NoMessage THEN d.pending.message ELSE @]
  <2>1. started.count = row.count
    <3> HIDE DEF row
    <3> QED BY <1>3
  <2>2. p = SetTurn(d.turns, e.turn, started)
    <3>1. ApplyTurns(d, e) = StartTurnRow(d, e)
      BY <1>5 DEF ApplyTurns
    <3>2. StartTurnRow(d, e) = [d EXCEPT !.turns = SetTurn(d.turns, e.turn, started), !.pending = NoStart]
      BY DEF StartTurnRow
    <3> HIDE DEF started
    <3> QED BY <1>2, <1>4, <3>1, <3>2
  <2> HIDE DEF started
  <2> QED BY <2>1, <2>2, CountsStay
<1>6. ASSUME e.type = "message-sent", e.turn # NoTurn, e.id.role = "assistant"
      PROVE  Counted(p, t, n) <=> Counted(d.turns, t, n)
  <2> DEFINE sent == [row EXCEPT
               !.message = e.id,
               !.state = IF e.streaming \/ @ \in {"interrupted", "error"} THEN @ ELSE "completed"]
  <2>1. sent.count = row.count
    <3> HIDE DEF row
    <3> QED BY <1>3
  <2>2. p = SetTurn(d.turns, e.turn, sent)
    BY <1>2, <1>4, <1>6 DEF ApplyTurns, AssistantTurnRow
  <2> HIDE DEF sent
  <2> QED BY <2>1, <2>2, CountsStay
<1>7. ASSUME e.type = "turn-interrupt-requested"
      PROVE  Counted(p, t, n) <=> Counted(d.turns, t, n)
  <2> DEFINE stopped == [row EXCEPT !.state = "interrupted"]
  <2>1. stopped.count = row.count
    <3> HIDE DEF row
    <3> QED BY <1>3
  <2>2. p = SetTurn(d.turns, e.turn, stopped)
    BY <1>2, <1>4, <1>7 DEF ApplyTurns
  <2> HIDE DEF stopped
  <2> QED BY <2>1, <2>2, CountsStay
<1>8. ASSUME e.type = "turn-diff-completed"
      PROVE  Counted(p, t, n) <=> IF t = e.turn THEN n = e.count
                                  ELSE n # e.count /\ Counted(d.turns, t, n)
  <2> DEFINE cleared == ClearConflict(d.turns, e.turn, e.count)
             done == [row EXCEPT
               !.message = e.message,
               !.state = IF e.status = "error" THEN "error" ELSE "completed",
               !.count = e.count,
               !.status = e.status,
               !.ref = e.ref]
  <2>1. done.count = e.count
    <3> HIDE DEF row
    <3> QED BY <1>3
  <2>2. p = SetTurn(cleared, e.turn, done)
    <3>1. TurnRow(d.turns, e.turn) = row
      OBVIOUS
    <3> QED BY <1>2, <1>4, <1>8 DEF ApplyTurns, DiffTurnRow
  <2>3. /\ DOMAIN cleared = DOMAIN d.turns
        /\ \A u \in DOMAIN d.turns :
             IF u # e.turn /\ d.turns[u].count = e.count
             THEN cleared[u].count = NoCount ELSE cleared[u] = d.turns[u]
    BY <1>1 DEF ClearConflict, RowsTyped, RowTyped
  <2> HIDE DEF cleared, done
  <2>4. DOMAIN p = DOMAIN d.turns \cup {e.turn} /\ p[e.turn] = done
        /\ \A u \in DOMAIN d.turns : u # e.turn => p[u] = cleared[u]
    BY <2>2, <2>3 DEF SetTurn
  <2>5. CASE t = e.turn
    BY <2>1, <2>4, <2>5 DEF Counted
  <2>6. CASE t # e.turn
    BY <2>3, <2>4, <2>6 DEF Counted
  <2> QED BY <2>5, <2>6
<1>9. ASSUME e.type = "reverted"
      PROVE  Counted(p, t, n) <=> Counted(d.turns, t, n) /\ n <= e.count
  <2>1. p = [u \in KeptTurns(d.turns, e.count) |-> d.turns[u]]
    BY <1>2, <1>4, <1>9 DEF ApplyTurns
  <2> QED BY <2>1 DEF Counted, KeptTurns
<1>10. ASSUME ~ (e.type = "session-set" /\ e.turn # NoTurn /\ e.status = "running"),
              ~ (e.type = "message-sent" /\ e.turn # NoTurn /\ e.id.role = "assistant"),
              e.type \notin {"turn-interrupt-requested", "turn-diff-completed", "reverted"}
       PROVE  Counted(p, t, n) <=> Counted(d.turns, t, n)
  <2>1. p = d.turns
    BY <1>2, <1>4, <1>10 DEF ApplyTurns
  <2> QED BY <2>1
<1> QED BY <1>5, <1>6, <1>7, <1>8, <1>9, <1>10 DEF p

\* The turns that have a plan.
Planned(plans) == {plans[i].turn : i \in DOMAIN plans}

LEMMA PlannedTurns ==
  ASSUME NEW plans, IsSequence(plans)
  PROVE  /\ \A t, implemented :
              LET more == MoveToEnd(plans, [turn |-> t, implemented |-> implemented], "turn")
              IN IsSequence(more) /\ Planned(more) = Planned(plans) \cup {t}
         /\ \A kept : /\ IsSequence(RetainPlans(plans, kept))
                      /\ Planned(RetainPlans(plans, kept)) = Planned(plans) \cap kept
<1>1. \A rows : Planned(rows) = {r.turn : r \in Range(rows)}
  BY DEF Planned, Range
<1>2. ASSUME NEW t, NEW implemented
      PROVE  LET more == MoveToEnd(plans, [turn |-> t, implemented |-> implemented], "turn")
             IN IsSequence(more) /\ Planned(more) = Planned(plans) \cup {t}
  <2> DEFINE row == [turn |-> t, implemented |-> implemented]
             more == MoveToEnd(plans, row, "turn")
  <2>1. row.turn = t
    OBVIOUS
  <2> HIDE DEF row
  <2>2. IsSequence(more) /\ Range(more) = {r \in Range(plans) : r.turn # row.turn} \cup {row}
    BY MoveToEndRows
  <2> HIDE DEF more
  <2>3. Planned(more) = Planned(plans) \cup {t}
    BY <1>1, <2>1, <2>2
  <2> QED BY <2>2, <2>3 DEF more, row
<1>3. ASSUME NEW kept
      PROVE  /\ IsSequence(RetainPlans(plans, kept))
             /\ Planned(RetainPlans(plans, kept)) = Planned(plans) \cap kept
  <2> DEFINE rows == RetainPlans(plans, kept)
  <2>1. IsSequence(rows) /\ Range(rows) = Range(plans) \cap {q \in Range(plans) : q.turn \in kept}
    BY OnlyRows DEF RetainPlans
  <2> HIDE DEF rows
  <2>2. Planned(rows) = Planned(plans) \cap kept
    BY <1>1, <2>1
  <2> QED BY <2>1, <2>2 DEF rows
<1> QED BY <1>2, <1>3

\* What an event makes of the plans, and of the turn the session runs.
LEMMA PlansFollow ==
  ASSUME NEW d, NEW e, NEW T, Typed(d, T)
  PROVE  LET p == ProjectEvent(d, e)
         IN /\ e.type = "proposed-plan-upserted" => Planned(p.plans) = Planned(d.plans) \cup {e.turn}
            /\ e.type = "reverted" => Planned(p.plans) = Planned(d.plans) \cap KeptTurns(d.turns, e.count)
            /\ e.type \notin {"proposed-plan-upserted", "reverted"} => p.plans = d.plans
            /\ p.session.turn = IF e.type = "session-set" THEN e.turn ELSE d.session.turn
<1> DEFINE p == ProjectEvent(d, e)
<1>1. Shape(d) /\ IsSequence(d.plans)
  BY DEF Typed, PlansTyped
<1>2. p.plans = ApplyPlans(d, e).plans /\ p.session = ApplySessions(d, e).session
  BY <1>1, ProjectColumns
<1> HIDE DEF p
<1>3. \A x : [d EXCEPT !.plans = x].plans = x /\ [d EXCEPT !.session = x].session = x
  BY <1>1 DEF Shape, Columns
<1>4. e.type = "proposed-plan-upserted" => Planned(p.plans) = Planned(d.plans) \cup {e.turn}
  <2> SUFFICES ASSUME e.type = "proposed-plan-upserted"
               PROVE  Planned(p.plans) = Planned(d.plans) \cup {e.turn}
    OBVIOUS
  <2>1. p.plans = MoveToEnd(d.plans, [turn |-> e.turn, implemented |-> e.implemented], "turn")
    BY <1>2, <1>3 DEF ApplyPlans
  <2> QED BY <1>1, <2>1, PlannedTurns
<1>5. e.type = "reverted" => Planned(p.plans) = Planned(d.plans) \cap KeptTurns(d.turns, e.count)
  <2> SUFFICES ASSUME e.type = "reverted"
               PROVE  Planned(p.plans) = Planned(d.plans) \cap KeptTurns(d.turns, e.count)
    OBVIOUS
  <2>1. p.plans = RetainPlans(d.plans, KeptTurns(d.turns, e.count))
    BY <1>2, <1>3 DEF ApplyPlans
  <2> QED BY <1>1, <2>1, PlannedTurns
<1>6. e.type \notin {"proposed-plan-upserted", "reverted"} => p.plans = d.plans
  BY <1>2 DEF ApplyPlans
<1>7. p.session.turn = IF e.type = "session-set" THEN e.turn ELSE d.session.turn
  <2>1. CASE e.type = "session-set"
    <3>1. p.session = [status |-> e.status, turn |-> e.turn]
      BY <1>2, <1>3, <2>1 DEF ApplySessions
    <3> QED BY <2>1, <3>1
  <2>2. CASE e.type # "session-set"
    BY <1>2, <2>2 DEF ApplySessions
  <2> QED BY <2>1, <2>2
<1> QED BY <1>4, <1>5, <1>6, <1>7 DEF p

-------------------------------------------------------------------------------
(* The read model                                                           *)

ThreadShape(th) == th = [plans |-> th.plans, checkpoints |-> th.checkpoints] /\ IsSequence(th.plans)

Has(cs, t, n) == \E c \in cs : c.turn = t /\ c.count = n

\* If e is a placeholder, it has the count of the capture that it does not replace.
Consistent(cs, e) ==
  e.status = "missing" => \A c \in cs : c.turn = e.turn /\ c.status # "missing" => c.count = e.count

\* What projectEvent of projector.ts makes of the thread.
LEMMA ThreadFollows ==
  ASSUME NEW th, NEW e, ThreadShape(th)
  PROVE  LET p == ProjectThread(th, e)
             new == [turn |-> e.turn, count |-> e.count, status |-> e.status]
         IN /\ ThreadShape(p)
            /\ e.type = "proposed-plan-upserted" =>
                 Planned(p.plans) = Planned(th.plans) \cup {e.turn} /\ p.checkpoints = th.checkpoints
            /\ e.type = "turn-diff-completed" =>
                 /\ p.plans = th.plans
                 /\ p.checkpoints = IF Supersedes(th, e)
                                    THEN {c \in th.checkpoints : c.turn # e.turn} \cup {new}
                                    ELSE th.checkpoints
            /\ e.type = "reverted" =>
                 LET kept == CheckpointsUpTo(th, e.count)
                 IN p.checkpoints = kept /\ Planned(p.plans) = Planned(th.plans) \cap {c.turn : c \in kept}
            /\ e.type \notin {"proposed-plan-upserted", "turn-diff-completed", "reverted"} => p = th
<1> DEFINE p == ProjectThread(th, e)
           new == [turn |-> e.turn, count |-> e.count, status |-> e.status]
           kept == CheckpointsUpTo(th, e.count)
<1>1. \A x, y : /\ [th EXCEPT !.plans = x] = [plans |-> x, checkpoints |-> th.checkpoints]
                /\ [th EXCEPT !.checkpoints = x] = [plans |-> th.plans, checkpoints |-> x]
                /\ [th EXCEPT !.checkpoints = x, !.plans = y] = [plans |-> y, checkpoints |-> x]
  <2>1. PICK a, b : th = [plans |-> a, checkpoints |-> b]
    BY DEF ThreadShape
  <2>2. th.plans = a /\ th.checkpoints = b
    BY <2>1
  <2>3. \A x : [th EXCEPT !.plans = x] = [plans |-> x, checkpoints |-> b]
    BY <2>1
  <2>4. \A x : [th EXCEPT !.checkpoints = x] = [plans |-> a, checkpoints |-> x]
    BY <2>1
  <2>5. ASSUME NEW x, NEW y
        PROVE  [th EXCEPT !.checkpoints = x, !.plans = y] = [plans |-> y, checkpoints |-> x]
    <3> DEFINE f == [th EXCEPT !.checkpoints = x, !.plans = y]
    <3>1. DOMAIN th = {"plans", "checkpoints"}
      BY <2>1
    <3>2. DOMAIN f = {"plans", "checkpoints"} /\ f = [c \in DOMAIN f |-> f[c]]
      BY <3>1
    <3>3. f.plans = y /\ f.checkpoints = x
      BY <3>1
    <3> HIDE DEF f
    <3>4. f = [plans |-> y, checkpoints |-> x]
      BY <3>2, <3>3
    <3> QED BY <3>4 DEF f
  <2> QED BY <2>2, <2>3, <2>4, <2>5
<1>2. CASE e.type = "proposed-plan-upserted"
  <2> DEFINE x == MoveToEnd(th.plans, [turn |-> e.turn, implemented |-> e.implemented], "turn")
  <2>1. p = [plans |-> x, checkpoints |-> th.checkpoints]
    BY <1>1, <1>2 DEF ProjectThread
  <2>2. IsSequence(x) /\ Planned(x) = Planned(th.plans) \cup {e.turn}
    BY PlannedTurns DEF ThreadShape
  <2> HIDE DEF x, p
  <2>3. ThreadShape(p) /\ p.plans = x /\ p.checkpoints = th.checkpoints
    BY <2>1, <2>2 DEF ThreadShape
  <2> QED BY <1>2, <2>2, <2>3 DEF p
<1>3. CASE e.type = "turn-diff-completed"
  <2> DEFINE x == IF Supersedes(th, e) THEN {c \in th.checkpoints : c.turn # e.turn} \cup {new}
                  ELSE th.checkpoints
  <2>1. p = [plans |-> th.plans, checkpoints |-> x]
    <3>1. CASE Supersedes(th, e)
      BY <1>1, <1>3, <3>1 DEF ProjectThread
    <3>2. CASE ~ Supersedes(th, e)
      <4>1. p = th
        BY <1>3, <3>2 DEF ProjectThread
      <4> QED BY <3>2, <4>1 DEF ThreadShape
    <3> QED BY <3>1, <3>2
  <2> HIDE DEF x, p
  <2>2. ThreadShape(p) /\ p.plans = th.plans /\ p.checkpoints = x
    BY <2>1 DEF ThreadShape
  <2> QED BY <1>3, <2>2 DEF p, x
<1>4. CASE e.type = "reverted"
  <2> DEFINE x == RetainPlans(th.plans, {c.turn : c \in kept})
  <2>1. p = [plans |-> x, checkpoints |-> kept]
    BY <1>1, <1>4 DEF ProjectThread
  <2>2. IsSequence(x) /\ Planned(x) = Planned(th.plans) \cap {c.turn : c \in kept}
    <3> HIDE DEF kept
    <3> QED BY PlannedTurns DEF ThreadShape
  <2> HIDE DEF x, p, kept
  <2>3. ThreadShape(p) /\ p.plans = x /\ p.checkpoints = kept
    BY <2>1, <2>2 DEF ThreadShape
  <2> QED BY <1>4, <2>2, <2>3 DEF p, kept
<1>5. CASE e.type \notin {"proposed-plan-upserted", "turn-diff-completed", "reverted"}
  <2>1. p = th
    BY <1>5 DEF ProjectThread
  <2> QED BY <1>5, <2>1
<1> QED BY <1>2, <1>3, <1>4, <1>5

\* The read model has the checkpoints of the tables, and plans of the same turns.
Alike(d, th) ==
  /\ \A t : \A n \in Nat \ {NoCount} : Counted(d.turns, t, n) <=> Has(th.checkpoints, t, n)
  /\ \A c \in th.checkpoints : c.count \in Nat \ {NoCount}
  /\ Planned(d.plans) = Planned(th.plans)

\* And they go on to be alike: although the tables take every placeholder and the
\* read model only those of turns it has no capture of, and although the tables
\* take a count from the turn that had it and the read model does not.
LEMMA AlikeProject ==
  ASSUME NEW d, NEW th, NEW e, NEW T, Typed(d, T), EventTyped(e, T), ThreadShape(th), Alike(d, th),
         e.type = "turn-diff-completed" =>
           /\ Consistent(th.checkpoints, e)
           /\ \A u : Counted(d.turns, u, e.count) => u = e.turn
  PROVE  Alike(ProjectEvent(d, e), ProjectThread(th, e))
<1> DEFINE p == ProjectEvent(d, e)
           q == ProjectThread(th, e)
<1>1. \A t : \A n \in Nat \ {NoCount} :
        /\ e.type \notin {"turn-diff-completed", "reverted"} =>
             (Counted(p.turns, t, n) <=> Counted(d.turns, t, n))
        /\ e.type = "turn-diff-completed" =>
             (Counted(p.turns, t, n) <=> IF t = e.turn THEN n = e.count
                                         ELSE n # e.count /\ Counted(d.turns, t, n))
        /\ e.type = "reverted" =>
             (Counted(p.turns, t, n) <=> Counted(d.turns, t, n) /\ n <= e.count)
  BY CountsFollow
<1>2. /\ e.type = "proposed-plan-upserted" => Planned(p.plans) = Planned(d.plans) \cup {e.turn}
      /\ e.type = "reverted" => Planned(p.plans) = Planned(d.plans) \cap KeptTurns(d.turns, e.count)
      /\ e.type \notin {"proposed-plan-upserted", "reverted"} => p.plans = d.plans
  BY PlansFollow
<1> DEFINE new == [turn |-> e.turn, count |-> e.count, status |-> e.status]
           kept == CheckpointsUpTo(th, e.count)
<1>3. /\ e.type = "proposed-plan-upserted" =>
           Planned(q.plans) = Planned(th.plans) \cup {e.turn} /\ q.checkpoints = th.checkpoints
      /\ e.type = "turn-diff-completed" =>
           /\ q.plans = th.plans
           /\ q.checkpoints = IF Supersedes(th, e)
                              THEN {c \in th.checkpoints : c.turn # e.turn} \cup {new}
                              ELSE th.checkpoints
      /\ e.type = "reverted" =>
           q.checkpoints = kept /\ Planned(q.plans) = Planned(th.plans) \cap {c.turn : c \in kept}
      /\ e.type \notin {"proposed-plan-upserted", "turn-diff-completed", "reverted"} => q = th
  BY ThreadFollows
<1> SUFFICES Alike(p, q)
  OBVIOUS
<1> HIDE DEF p, q
<1>4. CASE e.type \notin {"turn-diff-completed", "reverted"}
  BY <1>1, <1>2, <1>3, <1>4 DEF Alike
<1>5. CASE e.type = "turn-diff-completed"
  <2>1. /\ e.count \in Nat \ {NoCount} /\ Consistent(th.checkpoints, e)
        /\ \A u : Counted(d.turns, u, e.count) => u = e.turn
    BY <1>5 DEF EventTyped
  <2>2. \A t : \A n \in Nat \ {NoCount} :
          Counted(p.turns, t, n) <=> \/ t = e.turn /\ n = e.count
                                     \/ t # e.turn /\ Counted(d.turns, t, n)
    BY <1>1, <1>5, <2>1
  <2>3. CASE Supersedes(th, e)
    <3>1. q.checkpoints = {c \in th.checkpoints : c.turn # e.turn} \cup {new}
      BY <1>3, <1>5, <2>3
    <3>2. \A t, n : Has(q.checkpoints, t, n) <=>
                      (t = e.turn /\ n = e.count) \/ (t # e.turn /\ Has(th.checkpoints, t, n))
      <4>1. new.turn = e.turn /\ new.count = e.count
        OBVIOUS
      <4> HIDE DEF new
      <4>2. \A c : c \in q.checkpoints <=> (c \in th.checkpoints /\ c.turn # e.turn) \/ c = new
        BY <3>1
      <4>3. ASSUME NEW t, NEW n, Has(q.checkpoints, t, n)
            PROVE  (t = e.turn /\ n = e.count) \/ (t # e.turn /\ Has(th.checkpoints, t, n))
        BY <4>1, <4>2, <4>3 DEF Has
      <4>4. Has(q.checkpoints, e.turn, e.count)
        BY <4>1, <4>2 DEF Has
      <4>5. ASSUME NEW t, NEW n, t # e.turn, Has(th.checkpoints, t, n) PROVE Has(q.checkpoints, t, n)
        BY <4>2, <4>5 DEF Has
      <4> QED BY <4>3, <4>4, <4>5
    <3>3. \A c \in q.checkpoints : c.count \in Nat \ {NoCount}
      BY <2>1, <3>1 DEF Alike
    <3> QED BY <1>2, <1>3, <1>5, <2>2, <3>2, <3>3 DEF Alike
  <2>4. CASE ~ Supersedes(th, e)
    <3>1. q.checkpoints = th.checkpoints
      BY <1>3, <1>5, <2>4
    <3>2. PICK c \in th.checkpoints : c.turn = e.turn /\ c.status # "missing" /\ e.status = "missing"
      BY <2>4 DEF Supersedes
    <3>3. Has(th.checkpoints, e.turn, e.count)
      BY <2>1, <3>2 DEF Consistent, Has
    <3>4. Counted(d.turns, e.turn, e.count)
      BY <2>1, <3>3 DEF Alike
    <3>5. \A n : Counted(d.turns, e.turn, n) <=> n = e.count
      BY <3>4 DEF Counted
    <3>6. \A t : \A n \in Nat \ {NoCount} : Counted(p.turns, t, n) <=> Counted(d.turns, t, n)
      BY <2>2, <3>5
    <3> QED BY <1>2, <1>3, <1>5, <3>1, <3>6 DEF Alike
  <2> QED BY <2>3, <2>4
<1>6. CASE e.type = "reverted"
  <2>1. q.checkpoints = {c \in th.checkpoints : c.count <= e.count}
    BY <1>3, <1>6 DEF CheckpointsUpTo
  <2>2. \A t, n : Has(q.checkpoints, t, n) <=> Has(th.checkpoints, t, n) /\ n <= e.count
    BY <2>1 DEF Has
  <2>3. \A t : \A n \in Nat \ {NoCount} : Counted(p.turns, t, n) <=> Has(q.checkpoints, t, n)
    BY <1>1, <1>6, <2>2 DEF Alike
  <2>4. {c.turn : c \in kept} = KeptTurns(d.turns, e.count)
    <3>1. \A t \in DOMAIN d.turns : d.turns[t].count \in Nat
      BY DEF Typed, RowsTyped, RowTyped
    <3>2. \A t : t \in KeptTurns(d.turns, e.count) <=>
                   \E n \in Nat \ {NoCount} : Counted(d.turns, t, n) /\ n <= e.count
      BY <3>1 DEF KeptTurns, Counted
    <3>3. \A t : t \in {c.turn : c \in kept} <=>
                   \E n \in Nat \ {NoCount} : Has(th.checkpoints, t, n) /\ n <= e.count
      BY DEF CheckpointsUpTo, Has, Alike
    <3>4. \A t : t \in {c.turn : c \in kept} <=> t \in KeptTurns(d.turns, e.count)
      BY <3>2, <3>3 DEF Alike
    <3> HIDE DEF kept
    <3> QED BY <3>4 DEF KeptTurns
  <2>5. Planned(p.plans) = Planned(q.plans)
    BY <1>2, <1>3, <1>6, <2>4 DEF Alike
  <2> QED BY <2>1, <2>3, <2>5 DEF Alike
<1> QED BY <1>4, <1>5, <1>6

===============================================================================
