------------------------- MODULE DoltEditsProofs -------------------------
(***************************************************************************)
(* What DoltSavepoints keeps of one map of edits, for any keys and rows:     *)
(* View is what the map held before a savepoint level began, and an edit,    *)
(* a rollback and a release keep the view of every level that stays.         *)
(* DoltSavepointsProofs builds on it.                                        *)
(***************************************************************************)
EXTENDS DoltSavepoints, SequenceTheorems, WellFoundedInduction, TLAPS

-------------------------------------------------------------------------------
(* Numbers                                                                  *)

\* A set of numbers has a least one.
LEMMA LeastExists ==
  ASSUME NEW S \in SUBSET Nat, S # {}
  PROVE  Min(S) \in S /\ \A y \in S : Min(S) <= y
<1>1. IsWellFoundedOn({ss \in Nat \X Nat : ss[1] < ss[2]}, Nat)
  BY NatLessThanWellFounded DEF OpToRel
<1>2. PICK b \in S : \A y \in S : ~(<<y, b>> \in {ss \in Nat \X Nat : ss[1] < ss[2]})
  BY <1>1, WFMin
<1>3. \A y \in S : y \in Nat /\ b \in Nat /\ ~(y < b)
  BY <1>2
<1>4. \E x \in S : \A y \in S : x =< y
  BY <1>2, <1>3
<1>5. QED
  BY <1>4 DEF Min

\* It is the only one.
LEMMA LeastIs ==
  ASSUME NEW S \in SUBSET Nat, NEW n \in S, \A y \in S : n <= y
  PROVE  Min(S) = n
<1>1. Min(S) \in S /\ \A y \in S : Min(S) <= y
  BY LeastExists
<1> DEFINE l == Min(S)
<1>2. l \in Nat /\ n \in Nat /\ l <= n /\ n <= l
  BY <1>1
<1> HIDE DEF l
<1>3. l = n
  BY <1>2
<1>4. QED
  BY <1>3 DEF l

\* A bounded one has a greatest.
LEMMA GreatestExists ==
  ASSUME NEW n \in Nat, NEW S \in SUBSET (0..n), S # {}
  PROVE  Max(S) \in S /\ \A y \in S : Max(S) >= y
<1> DEFINE B == {b \in Nat : \A y \in S : y <= b}
<1>1. n \in B /\ B \in SUBSET Nat /\ B # {}
  OBVIOUS
<1>2. Min(B) \in B /\ \A y \in B : Min(B) <= y
  BY <1>1, LeastExists
<1> DEFINE b == Min(B)
<1>3. b \in S
  <2>1. SUFFICES ASSUME b \notin S
                 PROVE  FALSE
    OBVIOUS
  <2>2. b \in Nat /\ \A y \in S : y \in Nat /\ y <= b
    BY <1>2
  <2> HIDE DEF b
  <2>3. \A y \in S : y \in Nat /\ y <= b - 1 /\ b >= 1
    BY <2>1, <2>2
  <2>4. PICK y \in S : TRUE
    OBVIOUS
  <2>5. b - 1 \in Nat
    BY <2>2, <2>3, <2>4
  <2>6. b - 1 \in B
    BY <2>3, <2>5
  <2>7. b <= b - 1
    BY <1>2, <2>6 DEF b
  <2>8. QED
    BY <2>2, <2>7
<1>4. \E x \in S : \A y \in S : x >= y
  BY <1>2, <1>3
<1>5. QED
  BY <1>4 DEF Max

\* The greater of two.
LEMMA GreaterOf ==
  ASSUME NEW a \in Nat, NEW b \in Nat
  PROVE  Max({a, b}) = IF a >= b THEN a ELSE b
<1>1. \E x \in {a, b} : \A y \in {a, b} : x >= y
  OBVIOUS
<1>2. Max({a, b}) \in {a, b} /\ \A y \in {a, b} : Max({a, b}) >= y
  BY <1>1 DEF Max
<1>3. QED
  BY <1>2

-------------------------------------------------------------------------------
(* One map: what it was before a level                                      *)

Sorted(m) == \A n, o \in DOMAIN m.undo : n <= o => m.undo[n].level <= m.undo[o].level

\* Record n is the oldest of k at level i or above; there is none.
First(m, k, i, n) ==
  /\ n \in DOMAIN m.undo /\ m.undo[n].key = k /\ m.undo[n].level >= i
  /\ \A o \in DOMAIN m.undo : o < n /\ m.undo[o].key = k => m.undo[o].level < i
None(m, k, i) == \A n \in DOMAIN m.undo : m.undo[n].key = k => m.undo[n].level < i

BornAt(m, k, i) == Decode(m, Undone(m, k, i).born)
Kept(m, i)      == {k \in DOMAIN m.edits : BornAt(m, k, i) < i}
View(m, i)      == [k \in Kept(m, i) |-> Undone(m, k, i).row]
RowsOf(m)       == [k \in DOMAIN m.edits |-> m.edits[k].row]

\* A record of an edit that was made inside an older record's level is no older
\* than that level; and what has a record from before a level was there before it.
Dated(m) ==
  /\ \A n, o \in DOMAIN m.undo :
       n < o /\ m.undo[n].key = m.undo[o].key => m.undo[o].born >= m.undo[n].level
  /\ \A n \in DOMAIN m.undo, i \in 1 .. m.level :
       m.undo[n].level < i => BornAt(m, m.undo[n].key, i) < i

Good(m) ==
  /\ IsMap(m) /\ LogFits(m) /\ Dated(m)
  /\ \A k \in DOMAIN m.edits : Level(m, k) <= m.level
  /\ m.made \/ m = NoMap

\* The shape of a map.
LEMMA Shape ==
  ASSUME NEW m, IsMap(m)
  PROVE  /\ m.undo \in Seq(Undos) /\ DOMAIN m.undo = 1..Len(m.undo) /\ Len(m.undo) \in Nat
         /\ m.level \in Nat /\ m.base \in Nat /\ m.made \in BOOLEAN
         /\ m = [edits |-> m.edits, undo |-> m.undo, level |-> m.level, base |-> m.base, made |-> m.made]
         /\ \A n \in DOMAIN m.undo :
              /\ m.undo[n] \in Undos /\ m.undo[n].level \in Nat \ {0} /\ m.undo[n].born \in Nat
              /\ m.undo[n].key \in Keys /\ m.undo[n].row \in Rows \cup {NoRow}
         /\ DOMAIN m.edits \subseteq Keys
         /\ \A k \in DOMAIN m.edits :
              /\ m.edits[k] \in Edits /\ m.edits[k].born \in Nat /\ m.edits[k].row \in Rows \cup {NoRow}
              /\ Level(m, k) \in Nat
         /\ m.edits \in [DOMAIN m.edits -> Edits]
<1>1. m.undo \in Seq(Undos) /\ m.level \in Nat /\ m.base \in Nat /\ m.made \in BOOLEAN
  BY DEF IsMap
<1>2. m = [edits |-> m.edits, undo |-> m.undo, level |-> m.level, base |-> m.base, made |-> m.made]
  BY DEF IsMap
<1>3. DOMAIN m.undo = 1..Len(m.undo) /\ Len(m.undo) \in Nat
  BY <1>1
<1>4. \A n \in DOMAIN m.undo : m.undo[n] \in Undos
  BY <1>1, <1>3
<1>5. \A n \in DOMAIN m.undo :
         /\ m.undo[n].level \in Nat \ {0} /\ m.undo[n].born \in Nat
         /\ m.undo[n].key \in Keys /\ m.undo[n].row \in Rows \cup {NoRow}
  BY <1>4 DEF Undos
<1>6. /\ DOMAIN m.edits \subseteq Keys /\ \A k \in DOMAIN m.edits : m.edits[k] \in Edits
      /\ m.edits \in [DOMAIN m.edits -> Edits]
  BY DEF IsMap
<1>7. \A k \in DOMAIN m.edits :
        /\ m.edits[k].born \in Nat /\ m.edits[k].row \in Rows \cup {NoRow}
        /\ Level(m, k) \in Nat
  BY <1>1, <1>6 DEF Edits, Level, Decode
<1>8. QED
  BY <1>1, <1>2, <1>3, <1>4, <1>5, <1>6, <1>7

\* decodeLevel undoes encodeLevel.
LEMMA DecodeEncode ==
  ASSUME NEW m, m.base \in Nat, NEW l \in Nat
  PROVE  Decode(m, Encode(m, l)) = l /\ Encode(m, l) \in Nat
BY DEF Decode, Encode

\* The records to keep are those below the level.
LEMMA OlderIsBelow ==
  ASSUME NEW m, IsMap(m), Sorted(m), NEW i \in Nat
  PROVE  /\ Older(m, i) \in 0..Len(m.undo)
         /\ \A n \in DOMAIN m.undo : n <= Older(m, i) <=> m.undo[n].level < i
<1> DEFINE S == {n \in DOMAIN m.undo : m.undo[n].level < i}
           T == {0} \cup S
<1>1. DOMAIN m.undo = 1..Len(m.undo) /\ Len(m.undo) \in Nat
  BY Shape
<1>2. T \in SUBSET (0..Len(m.undo)) /\ T # {}
  BY <1>1
<1>3. Max(T) \in T /\ \A y \in T : Max(T) >= y
  BY <1>1, <1>2, GreatestExists
<1>4. Older(m, i) = Max(T)
  BY DEF Older
<1>5. \A n \in DOMAIN m.undo : m.undo[n].level \in Nat
  BY Shape
<1>6. Older(m, i) \in T /\ \A n \in S : n <= Older(m, i)
  BY <1>2, <1>3, <1>4
<1> HIDE DEF T
<1>7. Older(m, i) \in 0..Len(m.undo)
  BY <1>2, <1>6
<1>8. ASSUME NEW n \in DOMAIN m.undo, n <= Older(m, i)
      PROVE  m.undo[n].level < i
  <2>1. Older(m, i) \in S
    BY <1>1, <1>6, <1>8 DEF T
  <2>2. m.undo[n].level <= m.undo[Older(m, i)].level /\ m.undo[Older(m, i)].level < i
    BY <1>8, <2>1 DEF Sorted
  <2>3. QED
    BY <1>5, <2>1, <2>2
<1>9. QED
  BY <1>6, <1>7, <1>8

\* What an edit was before a level: its first record says it, or it is as it is.
LEMMA UndoneIs ==
  ASSUME NEW m, IsMap(m), Sorted(m), NEW k, NEW i \in Nat
  PROVE  /\ None(m, k, i) => Undone(m, k, i) = m.edits[k]
         /\ \A n : First(m, k, i, n) =>
              Undone(m, k, i) = [row |-> m.undo[n].row, born |-> Encode(m, m.undo[n].born)]
         /\ None(m, k, i) \/ \E n \in DOMAIN m.undo : First(m, k, i, n)
<1> DEFINE N == {n \in Older(m, i) + 1 .. Len(m.undo) : m.undo[n].key = k}
           F == {n \in DOMAIN m.undo : m.undo[n].key = k /\ m.undo[n].level >= i}
<1>1. DOMAIN m.undo = 1..Len(m.undo) /\ Len(m.undo) \in Nat
      /\ \A n \in DOMAIN m.undo : m.undo[n].level \in Nat
  BY Shape
<1>2. Older(m, i) \in 0..Len(m.undo) /\ \A n \in DOMAIN m.undo : n <= Older(m, i) <=> m.undo[n].level < i
  BY OlderIsBelow
<1>3. N = F
  <2>1. \A n \in N : n \in F
    BY <1>1, <1>2
  <2>2. \A n \in F : n \in N
    BY <1>1, <1>2
  <2>3. QED
    BY <2>1, <2>2
<1>4. Undone(m, k, i) = IF N = {} THEN m.edits[k]
                        ELSE [row |-> m.undo[Min(N)].row, born |-> Encode(m, m.undo[Min(N)].born)]
  BY DEF Undone
<1>5. None(m, k, i) <=> F = {}
  BY <1>1 DEF None
<1>6. ASSUME NEW n, First(m, k, i, n)
      PROVE  Min(N) = n /\ N # {}
  <2>1. n \in F /\ \A o \in F : n <= o
    BY <1>1, <1>6 DEF First
  <2>2. F \in SUBSET Nat /\ F # {}
    BY <1>1, <2>1
  <2> HIDE DEF F
  <2>3. Min(F) = n
    BY <2>1, <2>2, LeastIs
  <2>4. QED
    BY <1>3, <2>2, <2>3
<1>7. ASSUME F # {}
      PROVE  First(m, k, i, Min(F)) /\ Min(F) \in DOMAIN m.undo
  <2>1. F \in SUBSET Nat
    BY <1>1
  <2>2. Min(F) \in F /\ \A y \in F : Min(F) <= y
    BY <1>7, <2>1, LeastExists
  <2> DEFINE l == Min(F)
  <2> HIDE DEF l
  <2>3. l \in F /\ \A y \in F : l <= y
    BY <2>2 DEF l
  <2>4. First(m, k, i, l) /\ l \in DOMAIN m.undo
    BY <1>1, <2>3 DEF First
  <2>5. QED
    BY <2>4 DEF l
<1> HIDE DEF N, F
<1>8. QED
  BY <1>3, <1>4, <1>5, <1>6, <1>7

\* What makes a map.
LEMMA MapIs ==
  ASSUME NEW e, DOMAIN e \subseteq Keys, e \in [DOMAIN e -> Edits], NEW u \in Seq(Undos),
         NEW l \in Nat, NEW b \in Nat, NEW d \in BOOLEAN
  PROVE  IsMap([made |-> d, edits |-> e, undo |-> u, level |-> l, base |-> b])
<1> DEFINE o == [made |-> d, edits |-> e, undo |-> u, level |-> l, base |-> b]
<1>1. o.edits = e /\ o.undo = u /\ o.level = l /\ o.base = b /\ o.made = d
  OBVIOUS
<1>2. o \in [edits : {e}, undo : Seq(Undos), level : Nat, base : Nat, made : BOOLEAN]
  OBVIOUS
<1> HIDE DEF o
<1>3. IsMap(o)
  BY <1>1, <1>2 DEF IsMap
<1>4. QED
  BY <1>3 DEF o

\* How old an edit was before a level, and the row it had.
LEMMA BeforeIs ==
  ASSUME NEW m, IsMap(m), Sorted(m), NEW k \in DOMAIN m.edits, NEW i \in Nat
  PROVE  /\ BornAt(m, k, i) \in Nat
         /\ None(m, k, i) => /\ Undone(m, k, i) = m.edits[k]
                             /\ BornAt(m, k, i) = Level(m, k)
         /\ \A n : First(m, k, i, n) =>
              /\ Undone(m, k, i) = [row |-> m.undo[n].row, born |-> Encode(m, m.undo[n].born)]
              /\ Undone(m, k, i).row = m.undo[n].row
              /\ BornAt(m, k, i) = m.undo[n].born
         /\ None(m, k, i) \/ \E n \in DOMAIN m.undo : First(m, k, i, n)
<1>1. /\ m.base \in Nat /\ Level(m, k) \in Nat
      /\ \A n \in DOMAIN m.undo : m.undo[n].born \in Nat
  BY Shape
<1>2. None(m, k, i) => Undone(m, k, i) = m.edits[k] /\ BornAt(m, k, i) = Level(m, k)
  BY UndoneIs DEF BornAt, Level
<1>3. ASSUME NEW n, First(m, k, i, n)
      PROVE  /\ Undone(m, k, i) = [row |-> m.undo[n].row, born |-> Encode(m, m.undo[n].born)]
             /\ Undone(m, k, i).row = m.undo[n].row
             /\ BornAt(m, k, i) = m.undo[n].born
             /\ BornAt(m, k, i) \in Nat
  <2>1. Undone(m, k, i) = [row |-> m.undo[n].row, born |-> Encode(m, m.undo[n].born)]
    BY <1>3, UndoneIs
  <2>2. n \in DOMAIN m.undo
    BY <1>3 DEF First
  <2>3. Decode(m, Encode(m, m.undo[n].born)) = m.undo[n].born
    BY <1>1, <2>2, DecodeEncode
  <2>4. Undone(m, k, i).born = Encode(m, m.undo[n].born) /\ Undone(m, k, i).row = m.undo[n].row
    BY <2>1
  <2>5. QED
    BY <1>1, <2>1, <2>2, <2>3, <2>4 DEF BornAt
<1>4. None(m, k, i) \/ \E n \in DOMAIN m.undo : First(m, k, i, n)
  BY UndoneIs
<1>5. QED
  BY <1>1, <1>2, <1>3, <1>4

\* Above the level of a map nothing has happened yet.
LEMMA AboveLevel ==
  ASSUME NEW m, Good(m), NEW i \in Nat, i > m.level
  PROVE  /\ \A k \in DOMAIN m.edits : BornAt(m, k, i) = Level(m, k) /\ BornAt(m, k, i) < i
         /\ View(m, i) = RowsOf(m)
<1>1. IsMap(m) /\ Sorted(m) /\ m.level \in Nat /\ \A n \in DOMAIN m.undo : m.undo[n].level \in Nat
  BY Shape DEF Good, LogFits, Sorted
<1>2. \A k : None(m, k, i)
  BY <1>1 DEF Good, LogFits, None
<1>3. \A k \in DOMAIN m.edits : Undone(m, k, i) = m.edits[k] /\ BornAt(m, k, i) = Level(m, k)
  BY <1>1, <1>2, BeforeIs
<1>4. \A k \in DOMAIN m.edits : Level(m, k) \in Nat /\ Level(m, k) <= m.level
  BY <1>1, Shape DEF Good
<1>5. \A k \in DOMAIN m.edits : BornAt(m, k, i) < i
  BY <1>1, <1>3, <1>4
<1>6. Kept(m, i) = DOMAIN m.edits
  BY <1>5 DEF Kept
<1>7. QED
  BY <1>3, <1>5, <1>6 DEF View, RowsOf

\* A map without edits has none before any level.
LEMMA NoEdits ==
  ASSUME NEW m, DOMAIN m.edits = {}, NEW i
  PROVE  View(m, i) = NoRows /\ RowsOf(m) = NoRows
BY DEF View, Kept, RowsOf, NoRows

\* Two maps look the same before a level if the same edits are older than it, with the same rows.
LEMMA SameView ==
  ASSUME NEW m, NEW o, NEW i, Kept(m, i) = Kept(o, i),
         \A k \in Kept(m, i) : Undone(m, k, i).row = Undone(o, k, i).row
  PROVE  View(m, i) = View(o, i)
BY DEF View

\* The empty maps.
LEMMA EmptyGood ==
  ASSUME NEW l \in Nat
  PROVE  /\ Good(EmptyMap(l)) /\ DOMAIN EmptyMap(l).edits = {}
         /\ EmptyMap(l).level = l /\ EmptyMap(l).made /\ EmptyMap(l) # NoMap
         /\ Good(NoMap) /\ DOMAIN NoMap.edits = {} /\ NoMap.made = FALSE
<1>1. <<>> \in Seq(Undos) /\ DOMAIN <<>> = {}
  OBVIOUS
<1>2. NoRows \in [DOMAIN NoRows -> Edits] /\ DOMAIN NoRows = {}
  BY DEF NoRows
<1>3. NoMap = [made |-> FALSE, edits |-> NoRows, undo |-> <<>>, level |-> 0, base |-> 0]
  <2> DEFINE a == EmptyMap(0)
             R == [made : BOOLEAN, edits : {NoRows}, undo : {<<>>}, level : {0}, base : {0}]
  <2>1. a \in R
    BY DEF EmptyMap
  <2> HIDE DEF a
  <2>2. [a EXCEPT !.made = FALSE] \in R /\ [a EXCEPT !.made = FALSE].made = FALSE
    BY <2>1
  <2>3. NoMap \in R /\ NoMap.made = FALSE
    BY <2>2 DEF NoMap, a
  <2>4. QED
    BY <2>3
<1>4. EmptyMap(l) = [made |-> TRUE, edits |-> NoRows, undo |-> <<>>, level |-> l, base |-> 0]
  BY DEF EmptyMap
<1>5. IsMap(NoMap)
  <2>1. 0 \in Nat /\ FALSE \in BOOLEAN /\ DOMAIN NoRows \subseteq Keys
    BY <1>2
  <2>2. IsMap([made |-> FALSE, edits |-> NoRows, undo |-> <<>>, level |-> 0, base |-> 0])
    BY <1>1, <1>2, <2>1, MapIs
  <2>3. QED
    BY <1>3, <2>2
<1>6. IsMap(EmptyMap(l))
  <2>1. 0 \in Nat /\ TRUE \in BOOLEAN /\ DOMAIN NoRows \subseteq Keys
    BY <1>2
  <2>2. IsMap([made |-> TRUE, edits |-> NoRows, undo |-> <<>>, level |-> l, base |-> 0])
    BY <1>1, <1>2, <2>1, MapIs
  <2>3. QED
    BY <1>4, <2>2
<1>7. /\ NoMap.undo = <<>> /\ NoMap.edits = NoRows /\ NoMap.made = FALSE
      /\ EmptyMap(l).undo = <<>> /\ EmptyMap(l).edits = NoRows /\ EmptyMap(l).made
      /\ EmptyMap(l).level = l
  BY <1>3, <1>4
<1>8. \A m : m.undo = <<>> /\ m.edits = NoRows /\ IsMap(m) /\ (m.made \/ m = NoMap) => Good(m)
  BY <1>1, <1>2 DEF Good, LogFits, Dated
<1>9. QED
  BY <1>2, <1>5, <1>6, <1>7, <1>8

\* Nothing but its edits, its records and its base counts.
LEMMA SameEdits ==
  ASSUME NEW m, NEW o, o.edits = m.edits, o.undo = m.undo, o.base = m.base
  PROVE  /\ \A k : Level(o, k) = Level(m, k)
         /\ \A k, i : Undone(o, k, i) = Undone(m, k, i) /\ BornAt(o, k, i) = BornAt(m, k, i)
         /\ \A i : View(o, i) = View(m, i)
         /\ RowsOf(o) = RowsOf(m)
<1>1. \A l : Encode(o, l) = Encode(m, l) /\ Decode(o, l) = Decode(m, l)
  BY DEF Encode, Decode
<1>2. \A i : Older(o, i) = Older(m, i)
  BY DEF Older
<1>3. ASSUME NEW k, NEW i
      PROVE  Undone(o, k, i) = Undone(m, k, i)
  <2> DEFINE N(x) == {n \in Older(x, i) + 1 .. Len(x.undo) : x.undo[n].key = k}
             U(x) == x.undo[Min(N(x))]
  <2>1. N(o) = N(m)
    BY <1>2
  <2>2. U(o) = U(m)
    BY <2>1
  <2>3. Encode(o, U(m).born) = Encode(m, U(m).born)
    BY <1>1
  <2>4. \A x : Undone(x, k, i) = IF N(x) = {} THEN x.edits[k]
                                  ELSE [row |-> U(x).row, born |-> Encode(x, U(x).born)]
    BY DEF Undone
  <2> HIDE DEF N, U
  <2>5. QED
    BY <2>1, <2>2, <2>3, <2>4
<1>4. \A k, i : BornAt(o, k, i) = BornAt(m, k, i)
  BY <1>1, <1>3 DEF BornAt
<1>5. \A i : Kept(o, i) = Kept(m, i)
  BY <1>4 DEF Kept
<1>6. QED
  BY <1>1, <1>3, <1>4, <1>5 DEF View, RowsOf, Level

\* Map o is m at another level.
LevelDone(m, o, l) ==
  /\ IsMap(o) /\ o.level = l
  /\ o.edits = m.edits /\ o.undo = m.undo /\ o.base = m.base /\ o.made = m.made

\* The level of a map can be changed.
LEMMA LevelSet ==
  ASSUME NEW m, IsMap(m), NEW l \in Nat, NEW o, o = [m EXCEPT !.level = l]
  PROVE  LevelDone(m, o, l)
<1> DEFINE R == [edits : {m.edits}, undo : Seq(Undos), level : Nat, base : Nat, made : BOOLEAN]
<1>1. m \in R /\ DOMAIN m.edits \subseteq Keys /\ m.edits \in [DOMAIN m.edits -> Edits]
  BY DEF IsMap
<1>2. o \in R /\ o.undo = m.undo /\ o.level = l /\ o.base = m.base /\ o.made = m.made
  BY <1>1
<1>3. o.edits = m.edits
  BY <1>2
<1>4. IsMap(o)
  BY <1>1, <1>2, <1>3 DEF IsMap
<1>5. QED
  BY <1>2, <1>3, <1>4 DEF LevelDone

\* A savepoint that is pushed raises the level, and sees the table as it is.
LEMMA RaisedKeeps ==
  ASSUME NEW m, Good(m), NEW o, IsMap(o), m.made, o.made, m.level <= o.level,
         o.edits = m.edits, o.undo = m.undo, o.base = m.base
  PROVE  Good(o) /\ (\A i : View(o, i) = View(m, i)) /\ RowsOf(o) = RowsOf(m)
<1>1. /\ m.level \in Nat /\ o.level \in Nat
      /\ \A n \in DOMAIN m.undo : m.undo[n].level \in Nat
      /\ \A k \in DOMAIN m.edits : Level(m, k) \in Nat
  BY Shape DEF Good
<1>2. /\ \A k : Level(o, k) = Level(m, k)
      /\ \A k, i : BornAt(o, k, i) = BornAt(m, k, i)
      /\ \A i : View(o, i) = View(m, i)
      /\ RowsOf(o) = RowsOf(m)
  BY SameEdits
<1>3. LogFits(o)
  BY <1>1, <1>2 DEF Good, LogFits
<1>4. ASSUME NEW n \in DOMAIN m.undo, NEW i \in 1 .. o.level, m.undo[n].level < i
      PROVE  BornAt(m, m.undo[n].key, i) < i
  <2>1. CASE i <= m.level
    BY <1>1, <1>4, <2>1 DEF Good, Dated
  <2>2. CASE i > m.level
    <3>1. m.undo[n].key \in DOMAIN m.edits
      BY DEF Good, LogFits
    <3>2. QED
      BY <2>2, <3>1, AboveLevel
  <2>3. QED
    BY <1>1, <2>1, <2>2
<1>5. Dated(o)
  BY <1>2, <1>4 DEF Good, Dated
<1>6. \A k \in DOMAIN o.edits : Level(o, k) <= o.level
  BY <1>1, <1>2 DEF Good
<1>7. QED
  BY <1>2, <1>3, <1>5, <1>6 DEF Good

\* A deletion of what is deleted.
Again(m, k, row) == k \in DOMAIN m.edits /\ row = NoRow /\ m.edits[k].row = NoRow

\* Map o is m with another edit of k.
EditDone(m, o, k, row) ==
  /\ IsMap(o)
  /\ DOMAIN o.edits = DOMAIN m.edits \cup {k}
  /\ o.edits[k].row = row /\ Level(o, k) = m.level
  /\ \A j \in DOMAIN m.edits : j # k => o.edits[j] = m.edits[j] /\ Level(o, j) = Level(m, j)
  /\ o.level = m.level /\ o.base = m.base /\ o.made = m.made
  /\ \/ o.undo = m.undo /\ (k \in DOMAIN m.edits => Level(m, k) = m.level)
     \/ /\ k \in DOMAIN m.edits /\ m.level > 0 /\ Level(m, k) < m.level
        /\ o.undo = Append(m.undo, [level |-> m.level, key |-> k, born |-> Level(m, k), row |-> m.edits[k].row])

\* What an edit does to a map, unless it deletes what is deleted.
LEMMA EditedIs ==
  ASSUME NEW m, Good(m), NEW k \in Keys, NEW row \in Rows \cup {NoRow},
         ~Again(m, k, row), NEW o, o = Edited(m, k, row)
  PROVE  EditDone(m, o, k, row)
<1> DEFINE u == IF k \in DOMAIN m.edits THEN Undo(m, k) ELSE m.undo
           e == [j \in DOMAIN m.edits \cup {k} |->
                   IF j = k THEN [row |-> row, born |-> Encode(m, m.level)] ELSE m.edits[j]]
           r == [level |-> m.level, key |-> k, born |-> Level(m, k), row |-> m.edits[k].row]
           R == [edits : {m.edits}, undo : Seq(Undos), level : Nat, base : Nat, made : BOOLEAN]
<1>1. /\ m \in R /\ m.undo \in Seq(Undos) /\ m.level \in Nat /\ m.base \in Nat /\ m.made \in BOOLEAN
      /\ DOMAIN m.edits \subseteq Keys /\ m.edits \in [DOMAIN m.edits -> Edits]
      /\ \A j \in DOMAIN m.edits : /\ m.edits[j] \in Edits /\ m.edits[j].row \in Rows \cup {NoRow}
                                  /\ Level(m, j) \in Nat /\ Level(m, j) <= m.level
  <2>1. m \in R
    BY DEF Good, IsMap
  <2>2. QED
    BY <2>1, Shape DEF Good
<1>2. o = [[m EXCEPT !.undo = u] EXCEPT !.edits = e]
  <2>1. o = [m EXCEPT !.undo = u, !.edits = e]
    BY DEF Edited, Again
  <2>2. QED
    BY <2>1
<1>3. Decode(m, Encode(m, m.level)) = m.level /\ Encode(m, m.level) \in Nat
  BY <1>1, DecodeEncode
<1>4. /\ DOMAIN e = DOMAIN m.edits \cup {k}
      /\ e[k] = [row |-> row, born |-> Encode(m, m.level)]
      /\ \A j \in DOMAIN m.edits : j # k => e[j] = m.edits[j]
  OBVIOUS
<1>5. e \in [DOMAIN e -> Edits] /\ DOMAIN e \subseteq Keys /\ e[k].row = row /\ e[k].born = Encode(m, m.level)
  <2>1. e[k] \in Edits
    BY <1>3, <1>4 DEF Edits
  <2>2. \A j \in DOMAIN e : e[j] \in Edits
    BY <1>1, <1>4, <2>1
  <2>3. QED
    BY <1>1, <1>4, <2>2
<1>6. \/ u = m.undo /\ (k \in DOMAIN m.edits => Level(m, k) = m.level)
      \/ k \in DOMAIN m.edits /\ m.level > 0 /\ Level(m, k) < m.level /\ u = Append(m.undo, r)
  <2>1. k \in DOMAIN m.edits => Level(m, k) \in Nat /\ Level(m, k) <= m.level
    BY <1>1
  <2>2. QED
    BY <1>1, <2>1 DEF Undo
<1>7. u \in Seq(Undos)
  <2>1. ASSUME k \in DOMAIN m.edits, m.level > 0
        PROVE  r \in Undos
    BY <1>1, <2>1 DEF Undos
  <2> HIDE DEF u, r
  <2>2. r \in Undos => Append(m.undo, r) \in Seq(Undos)
    BY <1>1
  <2>3. QED
    BY <1>1, <1>6, <2>1, <2>2
<1> HIDE DEF e, u, r
<1>8. o \in [edits : {e}, undo : Seq(Undos), level : Nat, base : Nat, made : BOOLEAN]
      /\ o.undo = u /\ o.level = m.level /\ o.base = m.base /\ o.made = m.made
  BY <1>1, <1>2, <1>7
<1>9. o.edits = e
  BY <1>8
<1>10. IsMap(o)
  BY <1>5, <1>8, <1>9 DEF IsMap
<1>11. Level(o, k) = m.level
  BY <1>3, <1>5, <1>8, <1>9 DEF Level, Decode
<1>12. \A j \in DOMAIN m.edits : j # k => Level(o, j) = Level(m, j)
  BY <1>4, <1>8, <1>9 DEF Level, Decode
<1>13. QED
  BY <1>4, <1>5, <1>6, <1>8, <1>9, <1>10, <1>11, <1>12 DEF EditDone, r

\* An edit is one of the innermost savepoint: no view of a savepoint changes.
LEMMA EditedKeeps ==
  ASSUME NEW m, Good(m), m.made, NEW k \in Keys, NEW row \in Rows \cup {NoRow},
         NEW o, o = Edited(m, k, row)
  PROVE  /\ Good(o) /\ o.made /\ o.level = m.level
         /\ DOMAIN o.edits = DOMAIN m.edits \cup {k} /\ o.edits[k].row = row
         /\ \A j \in DOMAIN m.edits : j # k => o.edits[j] = m.edits[j]
         /\ \A i \in 1 .. m.level : View(o, i) = View(m, i)
<1>1. CASE Again(m, k, row)
  <2>1. o = m
    BY <1>1 DEF Edited, Again
  <2>2. QED
    BY <1>1, <2>1 DEF Again
<1>2. CASE ~Again(m, k, row)
  <2> DEFINE r == [level |-> m.level, key |-> k, born |-> Level(m, k), row |-> m.edits[k].row]
             N == Len(m.undo)
             Same  == o.undo = m.undo /\ (k \in DOMAIN m.edits => Level(m, k) = m.level)
             Inner == k \in DOMAIN m.edits /\ m.level > 0 /\ Level(m, k) < m.level
             One   == DOMAIN o.undo = 1 .. N + 1 /\ o.undo[N + 1] = r /\ \A n \in 1 .. N : o.undo[n] = m.undo[n]
  <2>1. /\ IsMap(o)
        /\ DOMAIN o.edits = DOMAIN m.edits \cup {k}
        /\ o.edits[k].row = row /\ Level(o, k) = m.level
        /\ \A j \in DOMAIN m.edits : j # k => o.edits[j] = m.edits[j] /\ Level(o, j) = Level(m, j)
        /\ o.level = m.level /\ o.base = m.base /\ o.made = m.made
        /\ Same \/ (Inner /\ o.undo = Append(m.undo, r))
    <3>1. EditDone(m, o, k, row)
      BY <1>2, EditedIs
    <3>2. QED
      BY <3>1 DEF EditDone
  <2>2. IsMap(m) /\ Sorted(m) /\ IsMap(o)
    BY <2>1 DEF Good, LogFits, Sorted
  <2>3. m.undo \in Seq(Undos) /\ N \in Nat /\ DOMAIN m.undo = 1 .. N /\ m.level \in Nat
    BY <2>2, Shape
  <2>4. \A n \in 1 .. N : /\ m.undo[n].level \in Nat /\ m.undo[n].level <= m.level
                          /\ m.undo[n].key \in DOMAIN m.edits /\ m.undo[n].born \in Nat
                          /\ m.undo[n].level <= Level(m, m.undo[n].key)
    BY <2>2, <2>3, Shape DEF Good, LogFits
  <2>5. \A j \in DOMAIN m.edits : Level(m, j) \in Nat /\ Level(m, j) <= m.level
    BY <2>2, Shape DEF Good
  <2> HIDE DEF r, N
  <2>6. Same \/ (Inner /\ One)
    <3>1. o.undo = Append(m.undo, r) => One
      BY <2>3 DEF N
    <3>2. QED
      BY <2>1, <3>1
  <2>7. r.level = m.level /\ r.key = k /\ r.born = Level(m, k) /\ r.row = m.edits[k].row
    BY DEF r
  <2>8. LogFits(o)
    <3>1. \A j \in DOMAIN m.edits : Level(o, j) >= Level(m, j)
      BY <2>1, <2>3, <2>5
    <3>2. \A n \in 1 .. N : /\ m.undo[n].level <= o.level
                            /\ m.undo[n].key \in DOMAIN o.edits
                            /\ Level(o, m.undo[n].key) >= m.undo[n].level
      <4>1. SUFFICES ASSUME NEW n \in 1 .. N
                     PROVE  /\ m.undo[n].level <= o.level
                            /\ m.undo[n].key \in DOMAIN o.edits
                            /\ Level(o, m.undo[n].key) >= m.undo[n].level
        OBVIOUS
      <4> DEFINE j == m.undo[n].key
      <4>2. j \in DOMAIN m.edits /\ m.undo[n].level \in Nat /\ m.undo[n].level <= Level(m, j)
        BY <2>4
      <4>3. Level(o, j) >= Level(m, j) /\ Level(m, j) \in Nat
        BY <2>5, <3>1, <4>2
      <4>4. Level(o, j) \in Nat
        BY <2>1, <2>3, <2>5, <4>2
      <4>5. Level(o, j) >= m.undo[n].level
        BY <4>2, <4>3, <4>4
      <4>6. QED
        BY <2>1, <2>4, <4>2, <4>5
    <3>3. \A n, p \in 1 .. N : n <= p => m.undo[n].level <= m.undo[p].level
      BY <2>2, <2>3 DEF Sorted
    <3>4. CASE Same
      BY <2>3, <3>2, <3>3, <3>4 DEF LogFits
    <3>5. CASE Inner /\ One
      <4>1. ASSUME NEW n \in 1 .. N + 1
            PROVE  /\ o.undo[n].level <= o.level /\ o.undo[n].key \in DOMAIN o.edits
                   /\ Level(o, o.undo[n].key) >= o.undo[n].level
        <5>1. CASE n = N + 1
          BY <2>1, <2>3, <2>7, <3>5, <5>1
        <5>2. CASE n \in 1 .. N
          BY <3>2, <3>5, <5>2
        <5>3. QED
          BY <2>3, <5>1, <5>2
      <4>2. ASSUME NEW n \in 1 .. N + 1, NEW p \in 1 .. N + 1, n <= p
            PROVE  o.undo[n].level <= o.undo[p].level
        <5>1. CASE p = N + 1
          BY <2>1, <2>3, <2>7, <3>5, <4>1, <5>1
        <5>2. CASE p \in 1 .. N
          <6>1. n \in 1 .. N
            BY <2>3, <4>2, <5>2
          <6>2. QED
            BY <3>3, <3>5, <4>2, <5>2, <6>1
        <5>3. QED
          BY <2>3, <5>1, <5>2
      <4>3. QED
        BY <3>5, <4>1, <4>2 DEF LogFits
    <3>6. QED
      BY <2>6, <3>4, <3>5
  <2>9. Sorted(o)
    BY <2>8 DEF LogFits, Sorted
  <2>10. ASSUME NEW j \in DOMAIN m.edits, NEW i \in 1 .. m.level
         PROVE  /\ BornAt(o, j, i) = BornAt(m, j, i)
                /\ BornAt(m, j, i) < i => Undone(o, j, i).row = Undone(m, j, i).row
    <3>1. i \in Nat /\ i <= m.level /\ j \in DOMAIN o.edits
      BY <2>1, <2>3
    <3>2. CASE \E n \in DOMAIN m.undo : First(m, j, i, n)
      <4>1. PICK n \in DOMAIN m.undo : First(m, j, i, n)
        BY <3>2
      <4>2. First(o, j, i, n) /\ m.undo[n] = o.undo[n]
        <5>1. CASE Same
          BY <4>1, <5>1 DEF First
        <5>2. CASE One
          <6>1. N \in Nat /\ DOMAIN m.undo = 1 .. N
            BY <2>3
          <6>2. /\ n \in 1 .. N /\ \A a \in 1 .. N + 1 : a < n => a \in 1 .. N
                /\ \A a \in 1 .. N : a \in 1 .. N + 1
            BY <6>1
          <6>3. DOMAIN o.undo = 1 .. N + 1 /\ \A a \in 1 .. N : o.undo[a] = m.undo[a]
            BY <5>2
          <6>4. QED
            BY <4>1, <6>1, <6>2, <6>3 DEF First
        <5>3. QED
          BY <2>6, <5>1, <5>2
      <4>3. BornAt(m, j, i) = m.undo[n].born /\ Undone(m, j, i).row = m.undo[n].row
        BY <2>2, <3>1, <4>1, BeforeIs
      <4>4. BornAt(o, j, i) = o.undo[n].born /\ Undone(o, j, i).row = o.undo[n].row
        BY <2>2, <2>9, <3>1, <4>2, BeforeIs
      <4>5. QED
        BY <4>2, <4>3, <4>4
    <3>3. CASE None(m, j, i)
      <4>1. Undone(m, j, i) = m.edits[j] /\ BornAt(m, j, i) = Level(m, j)
        BY <2>2, <3>1, <3>3, BeforeIs
      <4>2. None(o, j, i) => Undone(o, j, i) = o.edits[j] /\ BornAt(o, j, i) = Level(o, j)
        BY <2>2, <2>9, <3>1, BeforeIs
      <4>3. CASE j # k
        <5>1. None(o, j, i)
          <6>1. CASE Same
            BY <3>3, <6>1 DEF None
          <6>2. CASE One
            <7>1. ASSUME NEW n \in 1 .. N + 1, o.undo[n].key = j
                  PROVE  o.undo[n].level < i
              <8>1. n # N + 1
                BY <2>7, <4>3, <6>2, <7>1
              <8>2. n \in 1 .. N /\ o.undo[n] = m.undo[n]
                BY <2>3, <6>2, <8>1
              <8>3. QED
                BY <2>3, <3>3, <7>1, <8>2 DEF None
            <7>2. QED
              BY <6>2, <7>1 DEF None
          <6>3. QED
            BY <2>6, <6>1, <6>2
        <5>2. QED
          BY <2>1, <4>1, <4>2, <4>3, <5>1
      <4>4. CASE j = k /\ Same
        <5>1. None(o, j, i)
          BY <3>3, <4>4 DEF None
        <5>2. BornAt(o, j, i) = m.level /\ BornAt(m, j, i) = m.level
          BY <2>1, <4>1, <4>2, <4>4, <5>1
        <5>3. QED
          BY <2>3, <3>1, <5>2
      <4>5. CASE j = k /\ One
        <5>1. First(o, j, i, N + 1) /\ o.undo[N + 1] = r
          <6>1. o.undo[N + 1].key = j /\ o.undo[N + 1].level >= i /\ N + 1 \in DOMAIN o.undo
            BY <2>3, <2>7, <3>1, <4>5
          <6>2. ASSUME NEW p \in DOMAIN o.undo, p < N + 1, o.undo[p].key = j
                PROVE  o.undo[p].level < i
            <7>1. p \in 1 .. N /\ o.undo[p] = m.undo[p]
              BY <2>3, <4>5, <6>2
            <7>2. QED
              BY <2>3, <3>3, <6>2, <7>1 DEF None
          <6>3. QED
            BY <4>5, <6>1, <6>2 DEF First
        <5>2. BornAt(o, j, i) = o.undo[N + 1].born /\ Undone(o, j, i).row = o.undo[N + 1].row
          BY <2>2, <2>9, <3>1, <5>1, BeforeIs
        <5>3. QED
          BY <2>7, <4>1, <4>5, <5>1, <5>2
      <4>6. QED
        BY <2>6, <4>3, <4>4, <4>5
    <3>4. QED
      BY <2>2, <3>1, <3>2, <3>3, BeforeIs
  <2>11. Dated(o)
    <3>1. ASSUME NEW n \in DOMAIN o.undo, NEW p \in DOMAIN o.undo, n < p, o.undo[n].key = o.undo[p].key
          PROVE  o.undo[p].born >= o.undo[n].level
      <4>1. CASE Same
        BY <3>1, <4>1 DEF Good, Dated
      <4>2. CASE One
        <5>1. n \in 1 .. N /\ o.undo[n] = m.undo[n]
          BY <2>3, <3>1, <4>2
        <5>2. CASE p = N + 1
          BY <2>4, <2>5, <2>7, <3>1, <4>2, <5>1, <5>2
        <5>3. CASE p \in 1 .. N
          BY <2>3, <3>1, <4>2, <5>1, <5>3 DEF Good, Dated
        <5>4. QED
          BY <2>3, <3>1, <4>2, <5>2, <5>3
      <4>3. QED
        BY <2>6, <4>1, <4>2
    <3>2. ASSUME NEW n \in DOMAIN o.undo, NEW i \in 1 .. m.level, o.undo[n].level < i
          PROVE  BornAt(o, o.undo[n].key, i) < i
      <4>1. n \in DOMAIN m.undo /\ o.undo[n] = m.undo[n]
        <5>1. CASE One
          <6>1. n # N + 1
            BY <2>3, <2>7, <3>2, <5>1
          <6>2. QED
            BY <2>3, <5>1, <6>1
        <5>2. QED
          BY <2>6, <5>1
      <4>2. o.undo[n].key \in DOMAIN m.edits
        BY <2>3, <2>4, <4>1
      <4>3. BornAt(m, o.undo[n].key, i) < i
        BY <3>2, <4>1 DEF Good, Dated
      <4>4. QED
        BY <2>10, <4>2, <4>3
    <3>3. QED
      BY <2>1, <3>1, <3>2 DEF Dated
  <2>12. Good(o)
    <3>1. \A j \in DOMAIN o.edits : Level(o, j) <= o.level
      BY <2>1, <2>3, <2>5
    <3>2. QED
      BY <2>1, <2>8, <2>11, <3>1 DEF Good
  <2>13. ASSUME NEW i \in 1 .. m.level
         PROVE  View(o, i) = View(m, i)
    <3>1. ASSUME k \notin DOMAIN m.edits
          PROVE  ~(BornAt(o, k, i) < i)
      <4>1. None(o, k, i)
        <5>1. Same
          BY <2>6, <3>1
        <5>2. QED
          BY <2>3, <2>4, <3>1, <5>1 DEF None
      <4>2. BornAt(o, k, i) = m.level
        BY <2>1, <2>9, <4>1, BeforeIs
      <4>3. QED
        BY <2>3, <4>2
    <3>2. Kept(o, i) = Kept(m, i)
      BY <2>1, <2>10, <3>1 DEF Kept
    <3>3. \A j \in Kept(o, i) : Undone(o, j, i).row = Undone(m, j, i).row
      BY <2>10, <3>2 DEF Kept
    <3>4. QED
      BY <3>2, <3>3, SameView
  <2>14. QED
    BY <2>1, <2>12, <2>13
<1>3. QED
  BY <1>1, <1>2

\* What an edit was before a level is an edit.
LEMMA UndoneTyped ==
  ASSUME NEW m, IsMap(m), Sorted(m), NEW k \in DOMAIN m.edits, NEW i \in Nat
  PROVE  Undone(m, k, i) \in Edits
<1>1. CASE None(m, k, i)
  <2>1. Undone(m, k, i) = m.edits[k]
    BY <1>1, BeforeIs
  <2>2. QED
    BY <2>1, Shape
<1>2. CASE \E n \in DOMAIN m.undo : First(m, k, i, n)
  <2>1. PICK n \in DOMAIN m.undo : First(m, k, i, n)
    BY <1>2
  <2>2. Undone(m, k, i) = [row |-> m.undo[n].row, born |-> Encode(m, m.undo[n].born)]
    BY <2>1, BeforeIs
  <2>3. m.base \in Nat /\ m.undo[n].row \in Rows \cup {NoRow} /\ m.undo[n].born \in Nat
    BY Shape
  <2>4. Encode(m, m.undo[n].born) \in Nat
    BY <2>3, DecodeEncode
  <2>5. QED
    BY <2>2, <2>3, <2>4 DEF Edits
<1>3. QED
  BY <1>1, <1>2, BeforeIs

\* Map o is m with the levels from r on rolled back.
RollDone(m, o, r) ==
  /\ IsMap(o)
  /\ DOMAIN o.edits = Kept(m, r)
  /\ \A k \in Kept(m, r) : o.edits[k] = Undone(m, k, r) /\ Level(o, k) = BornAt(m, k, r)
  /\ o.level = r - 1 /\ o.base = m.base /\ o.made = m.made
  /\ DOMAIN o.undo = 1 .. Older(m, r) /\ \A n \in 1 .. Older(m, r) : o.undo[n] = m.undo[n]

\* What rolling back does to a map.
LEMMA RolledBackIs ==
  ASSUME NEW m, Good(m), m.made, NEW r \in 1 .. m.level, NEW o, o = RolledBack(m, r)
  PROVE  RollDone(m, o, r)
<1> DEFINE u == SubSeq(m.undo, 1, Older(m, r))
           e == [k \in Kept(m, r) |-> Undone(m, k, r)]
           R == [edits : {m.edits}, undo : Seq(Undos), level : Nat, base : Nat, made : BOOLEAN]
<1>1. /\ IsMap(m) /\ Sorted(m) /\ m \in R /\ m.undo \in Seq(Undos) /\ m.level \in Nat /\ m.base \in Nat
      /\ m.made \in BOOLEAN /\ DOMAIN m.edits \subseteq Keys /\ Len(m.undo) \in Nat
      /\ DOMAIN m.undo = 1 .. Len(m.undo)
  <2>1. IsMap(m) /\ m \in R /\ Sorted(m)
    BY DEF Good, IsMap, LogFits, Sorted
  <2>2. QED
    BY <2>1, Shape
<1>2. r \in Nat /\ r - 1 \in Nat /\ m # NoMap
  <2>1. r \in Nat /\ r - 1 \in Nat
    BY <1>1
  <2>2. NoMap.made = FALSE
    BY <1>1, EmptyGood
  <2>3. QED
    BY <2>1, <2>2
<1>3. o = [[[m EXCEPT !.edits = e] EXCEPT !.undo = u] EXCEPT !.level = r - 1]
  <2>1. Kept(m, r) = {k \in DOMAIN m.edits : Decode(m, Undone(m, k, r).born) < r}
    BY DEF Kept, BornAt
  <2>2. o = [m EXCEPT !.edits = e, !.undo = u, !.level = r - 1]
    BY <1>2, <2>1 DEF RolledBack
  <2>3. QED
    BY <2>2
<1>4. Older(m, r) \in 0 .. Len(m.undo)
  BY <1>1, <1>2, OlderIsBelow
<1>5. u \in Seq(Undos) /\ DOMAIN u = 1 .. Older(m, r) /\ \A n \in 1 .. Older(m, r) : u[n] = m.undo[n]
  <2> DEFINE N == Older(m, r)
  <2> HIDE DEF N
  <2>1. N \in Nat /\ N <= Len(m.undo)
    BY <1>1, <1>4 DEF N
  <2>2. SubSeq(m.undo, 1, N) \in Seq(Undos) /\ DOMAIN SubSeq(m.undo, 1, N) = 1 .. N
    BY <1>1, <2>1
  <2>3. \A n \in 1 .. N : SubSeq(m.undo, 1, N)[n] = m.undo[n]
    BY <1>1, <2>1
  <2>4. QED
    BY <2>2, <2>3 DEF N
<1>6. e \in [Kept(m, r) -> Edits] /\ DOMAIN e = Kept(m, r) /\ Kept(m, r) \subseteq Keys
  <2>1. Kept(m, r) \subseteq DOMAIN m.edits
    BY DEF Kept
  <2>2. \A k \in Kept(m, r) : Undone(m, k, r) \in Edits
    BY <1>1, <1>2, <2>1, UndoneTyped
  <2>3. QED
    BY <1>1, <2>1, <2>2
<1>7. \A k \in Kept(m, r) : e[k] = Undone(m, k, r)
  OBVIOUS
<1> HIDE DEF e, u
<1>8. o \in [edits : {e}, undo : Seq(Undos), level : Nat, base : Nat, made : BOOLEAN]
      /\ o.undo = u /\ o.level = r - 1 /\ o.base = m.base /\ o.made = m.made
  BY <1>1, <1>2, <1>3, <1>5
<1>9. o.edits = e
  BY <1>8
<1>10. IsMap(o)
  BY <1>6, <1>8, <1>9 DEF IsMap
<1>11. \A k \in Kept(m, r) : Level(o, k) = BornAt(m, k, r)
  BY <1>7, <1>8, <1>9 DEF Level, BornAt, Decode
<1>12. QED
  BY <1>5, <1>6, <1>7, <1>8, <1>9, <1>10, <1>11 DEF RollDone

\* Rolling back brings back what was before the level, and keeps what was before the levels below.
LEMMA RolledBackKeeps ==
  ASSUME NEW m, Good(m), m.made, NEW r \in 1 .. m.level, NEW o, o = RolledBack(m, r)
  PROVE  /\ Good(o) /\ o.made /\ o.level = r - 1
         /\ RowsOf(o) = View(m, r)
         /\ \A i \in 1 .. r - 1 : View(o, i) = View(m, i)
<1> DEFINE N == Older(m, r)
           M == Len(m.undo)
<1>1. RollDone(m, o, r)
  BY RolledBackIs
<1>2. IsMap(m) /\ Sorted(m) /\ IsMap(o)
  BY <1>1 DEF Good, LogFits, Sorted, RollDone
<1>3. /\ DOMAIN m.undo = 1 .. M /\ M \in Nat /\ m.level \in Nat /\ r \in Nat
      /\ \A n \in 1 .. M : m.undo[n].level \in Nat /\ m.undo[n].level > 0 /\ m.undo[n].born \in Nat
  BY <1>2, Shape
<1>4. N \in 0 .. M /\ \A n \in 1 .. M : n <= N <=> m.undo[n].level < r
  BY <1>2, <1>3, OlderIsBelow
<1> HIDE DEF N, M
<1>5. DOMAIN o.undo = 1 .. N /\ \A n \in 1 .. N : o.undo[n] = m.undo[n] /\ n \in 1 .. M /\ m.undo[n].level < r
  <2>1. DOMAIN o.undo = 1 .. N /\ \A n \in 1 .. N : o.undo[n] = m.undo[n]
    BY <1>1 DEF RollDone, N
  <2>2. QED
    BY <1>3, <1>4, <2>1
<1>6. \A n \in 1 .. N : m.undo[n].key \in Kept(m, r)
  <2>1. SUFFICES ASSUME NEW n \in 1 .. N
                 PROVE  m.undo[n].key \in Kept(m, r)
    OBVIOUS
  <2>2. n \in DOMAIN m.undo /\ m.undo[n].level < r
    BY <1>3, <1>5
  <2>3. BornAt(m, m.undo[n].key, r) < r /\ m.undo[n].key \in DOMAIN m.edits
    BY <2>2 DEF Good, Dated, LogFits
  <2>4. QED
    BY <2>3 DEF Kept
<1>7. \A k \in Kept(m, r) : /\ o.edits[k] = Undone(m, k, r) /\ Level(o, k) = BornAt(m, k, r)
                            /\ k \in DOMAIN m.edits /\ BornAt(m, k, r) < r /\ BornAt(m, k, r) \in Nat
  BY <1>1, <1>2, <1>3, BeforeIs DEF RollDone, Kept
<1>8. DOMAIN o.edits = Kept(m, r) /\ o.level = r - 1 /\ o.base = m.base /\ o.made
  BY <1>1 DEF RollDone
<1>9. LogFits(o)
  <2>1. ASSUME NEW n \in 1 .. N
        PROVE  /\ o.undo[n].level <= o.level /\ o.undo[n].key \in DOMAIN o.edits
               /\ Level(o, o.undo[n].key) >= o.undo[n].level
    <3> DEFINE k == m.undo[n].key
    <3>1. o.undo[n] = m.undo[n] /\ n \in 1 .. M /\ m.undo[n].level < r /\ k \in Kept(m, r)
      BY <1>5, <1>6
    <3>2. m.undo[n].level <= r - 1
      BY <1>3, <3>1
    <3>3. BornAt(m, k, r) >= m.undo[n].level
      <4>1. k \in DOMAIN m.edits
        BY <1>7, <3>1
      <4> HIDE DEF k
      <4>2. CASE None(m, k, r)
        <5>1. BornAt(m, k, r) = Level(m, k)
          BY <1>2, <1>3, <4>1, <4>2, BeforeIs
        <5>2. QED
          BY <1>3, <3>1, <5>1 DEF Good, LogFits, k
      <4>3. CASE \E p \in DOMAIN m.undo : First(m, k, r, p)
        <5>1. PICK p \in DOMAIN m.undo : First(m, k, r, p)
          BY <4>3
        <5>2. BornAt(m, k, r) = m.undo[p].born
          <6>1. IsMap(m) /\ Sorted(m) /\ r \in Nat
            BY <1>2, <1>3
          <6>2. QED
            BY <4>1, <5>1, <6>1, BeforeIs
        <5>3. n < p /\ m.undo[p].key = m.undo[n].key
          <6>1. p \in 1 .. M /\ m.undo[p].level >= r /\ m.undo[p].key = k
            BY <1>3, <5>1 DEF First
          <6>2. ~(p <= N)
            BY <1>3, <1>4, <6>1
          <6>3. QED
            BY <1>4, <6>1, <6>2 DEF k
        <5>4. QED
          BY <1>3, <3>1, <5>2, <5>3 DEF Good, Dated
      <4>4. QED
        BY <1>2, <1>3, <4>1, <4>2, <4>3, BeforeIs
    <3>4. QED
      BY <1>7, <1>8, <3>1, <3>2, <3>3
  <2>2. ASSUME NEW n \in 1 .. N, NEW p \in 1 .. N, n <= p
        PROVE  o.undo[n].level <= o.undo[p].level
    BY <1>2, <1>3, <1>5, <2>2 DEF Sorted
  <2>3. QED
    BY <1>5, <2>1, <2>2 DEF LogFits
<1>10. Sorted(o)
  BY <1>9 DEF LogFits, Sorted
<1>11. ASSUME NEW i \in 1 .. r - 1, NEW k \in DOMAIN m.edits
       PROVE  /\ k \in Kept(m, r) => /\ BornAt(o, k, i) = BornAt(m, k, i)
                                     /\ Undone(o, k, i).row = Undone(m, k, i).row
              /\ k \notin Kept(m, r) => ~(BornAt(m, k, i) < i)
  <2>1. i \in Nat /\ r \in Nat /\ i < r
    BY <1>3
  <2>2. CASE \E n \in DOMAIN m.undo : First(m, k, i, n) /\ m.undo[n].level < r
    <3>1. PICK n \in DOMAIN m.undo : First(m, k, i, n) /\ m.undo[n].level < r
      BY <2>2
    <3>2. n \in 1 .. N /\ n \in 1 .. M
      BY <1>3, <1>4, <3>1
    <3>3. k \in Kept(m, r)
      BY <1>6, <3>1, <3>2 DEF First
    <3>4. First(o, k, i, n)
      BY <1>3, <1>5, <3>1, <3>2 DEF First
    <3>5. BornAt(m, k, i) = m.undo[n].born /\ Undone(m, k, i).row = m.undo[n].row
      BY <1>2, <2>1, <3>1, BeforeIs
    <3>6. BornAt(o, k, i) = o.undo[n].born /\ Undone(o, k, i).row = o.undo[n].row
      BY <1>2, <1>8, <1>10, <2>1, <3>3, <3>4, BeforeIs
    <3>7. QED
      BY <1>5, <3>2, <3>3, <3>5, <3>6
  <2>3. CASE /\ Undone(m, k, i) = Undone(m, k, r)
             /\ \A n \in 1 .. N : m.undo[n].key = k => m.undo[n].level < i
    <3>1. BornAt(m, k, i) = BornAt(m, k, r)
      BY <2>3 DEF BornAt
    <3>2. ASSUME k \in Kept(m, r)
          PROVE  /\ BornAt(o, k, i) = BornAt(m, k, i)
                 /\ Undone(o, k, i).row = Undone(m, k, i).row
      <4>1. None(o, k, i)
        BY <1>5, <2>3 DEF None
      <4>2. Undone(o, k, i) = o.edits[k] /\ BornAt(o, k, i) = Level(o, k)
        BY <1>2, <1>8, <1>10, <2>1, <3>2, <4>1, BeforeIs
      <4>3. QED
        BY <1>7, <2>3, <3>1, <3>2, <4>2
    <3>3. ASSUME k \notin Kept(m, r)
          PROVE  ~(BornAt(m, k, i) < i)
      <4>1. ~(BornAt(m, k, r) < r) /\ BornAt(m, k, r) \in Nat
        BY <1>2, <1>3, <3>3, BeforeIs DEF Kept
      <4>2. QED
        BY <1>3, <2>1, <3>1, <4>1
    <3>4. QED
      BY <3>2, <3>3
  <2>4. CASE None(m, k, i)
    <3>1. None(m, k, r)
      BY <1>3, <2>1, <2>4 DEF None
    <3>2. Undone(m, k, i) = Undone(m, k, r)
      BY <1>2, <1>3, <2>1, <2>4, <3>1, BeforeIs
    <3>3. \A n \in 1 .. N : m.undo[n].key = k => m.undo[n].level < i
      BY <1>3, <1>5, <2>4 DEF None
    <3>4. QED
      BY <2>3, <3>2, <3>3
  <2>5. CASE \E n \in DOMAIN m.undo : First(m, k, i, n) /\ ~(m.undo[n].level < r)
    <3>1. PICK n \in DOMAIN m.undo : First(m, k, i, n) /\ ~(m.undo[n].level < r)
      BY <2>5
    <3>2. n \in 1 .. M /\ ~(n <= N) /\ m.undo[n].level >= r
      BY <1>3, <1>4, <3>1
    <3>3. First(m, k, r, n)
      <4>1. \A p \in DOMAIN m.undo : p < n /\ m.undo[p].key = k => m.undo[p].level < r
        <5>1. SUFFICES ASSUME NEW p \in DOMAIN m.undo, p < n, m.undo[p].key = k
                       PROVE  m.undo[p].level < r
          OBVIOUS
        <5>2. m.undo[p].level < i /\ m.undo[p].level \in Nat
          BY <1>3, <3>1, <5>1 DEF First
        <5>3. QED
          BY <1>3, <2>1, <5>2
      <4>2. QED
        BY <3>1, <3>2, <4>1 DEF First
    <3>4. Undone(m, k, i) = Undone(m, k, r)
      <4> DEFINE was == [row |-> m.undo[n].row, born |-> Encode(m, m.undo[n].born)]
      <4>1. Undone(m, k, i) = was
        BY <1>2, <2>1, <3>1, BeforeIs
      <4>2. Undone(m, k, r) = was
        BY <1>2, <2>1, <3>3, BeforeIs
      <4>3. QED
        BY <4>1, <4>2
    <3>5. \A p \in 1 .. N : m.undo[p].key = k => m.undo[p].level < i
      <4>1. \A p \in 1 .. N : p \in DOMAIN m.undo /\ p < n
        BY <1>3, <1>4, <3>2
      <4>2. QED
        BY <3>1, <4>1 DEF First
    <3>6. QED
      BY <2>3, <3>4, <3>5
  <2>6. QED
    BY <1>2, <2>1, <2>2, <2>4, <2>5, BeforeIs
<1>12. Dated(o)
  <2>1. ASSUME NEW n \in 1 .. N, NEW p \in 1 .. N, n < p, o.undo[n].key = o.undo[p].key
        PROVE  o.undo[p].born >= o.undo[n].level
    BY <1>3, <1>5, <2>1 DEF Good, Dated
  <2>2. ASSUME NEW n \in 1 .. N, NEW i \in 1 .. r - 1, o.undo[n].level < i
        PROVE  BornAt(o, o.undo[n].key, i) < i
    <3>1. o.undo[n] = m.undo[n] /\ m.undo[n].key \in Kept(m, r) /\ n \in DOMAIN m.undo
      BY <1>3, <1>5, <1>6
    <3>2. i \in 1 .. m.level
      BY <1>3
    <3>3. BornAt(m, m.undo[n].key, i) < i
      BY <2>2, <3>1, <3>2 DEF Good, Dated
    <3>4. m.undo[n].key \in DOMAIN m.edits
      BY <1>7, <3>1
    <3>5. QED
      BY <1>11, <3>1, <3>3, <3>4
  <2>3. QED
    BY <1>5, <1>8, <2>1, <2>2 DEF Dated
<1>13. Good(o)
  <2>1. \A k \in DOMAIN o.edits : Level(o, k) <= o.level
    BY <1>3, <1>7, <1>8
  <2>2. QED
    BY <1>2, <1>8, <1>9, <1>12, <2>1 DEF Good
<1>14. RowsOf(o) = View(m, r)
  BY <1>7, <1>8 DEF RowsOf, View
<1>15. ASSUME NEW i \in 1 .. r - 1
       PROVE  View(o, i) = View(m, i)
  <2>1. \A k \in Kept(m, i) : k \in Kept(m, r) /\ k \in Kept(o, i)
    <3>1. SUFFICES ASSUME NEW k \in Kept(m, i)
                   PROVE  k \in Kept(m, r) /\ k \in Kept(o, i)
      OBVIOUS
    <3>2. k \in DOMAIN m.edits /\ BornAt(m, k, i) < i
      BY DEF Kept
    <3>3. k \in Kept(m, r) /\ BornAt(o, k, i) < i
      BY <1>11, <3>2
    <3>4. QED
      BY <1>8, <3>3 DEF Kept
  <2>2. \A k \in Kept(o, i) : k \in Kept(m, i) /\ Undone(o, k, i).row = Undone(m, k, i).row
    <3>1. SUFFICES ASSUME NEW k \in Kept(o, i)
                   PROVE  k \in Kept(m, i) /\ Undone(o, k, i).row = Undone(m, k, i).row
      OBVIOUS
    <3>2. k \in Kept(m, r) /\ BornAt(o, k, i) < i
      BY <1>8 DEF Kept
    <3>3. k \in DOMAIN m.edits
      BY <1>7, <3>2
    <3>4. BornAt(m, k, i) < i /\ Undone(o, k, i).row = Undone(m, k, i).row
      BY <1>11, <3>2, <3>3
    <3>5. QED
      BY <3>3, <3>4 DEF Kept
  <2>3. Kept(m, i) = Kept(o, i)
    BY <2>1, <2>2
  <2>4. \A k \in Kept(m, i) : Undone(m, k, i).row = Undone(o, k, i).row
    BY <2>2, <2>3
  <2>5. QED
    BY <2>3, <2>4, SameView
<1>16. QED
  BY <1>8, <1>13, <1>14, <1>15

\* Map o is m with the levels from l on released.
ReleaseDone(m, o, l) ==
  /\ IsMap(o)
  /\ DOMAIN o.edits = DOMAIN m.edits
  /\ \A k \in DOMAIN m.edits : o.edits[k].row = m.edits[k].row /\ Level(o, k) = Lower(Level(m, k), l)
  /\ o.level = l - 1 /\ o.base = m.base /\ o.made = m.made
  /\ DOMAIN o.undo = DOMAIN m.undo
  /\ \A n \in DOMAIN m.undo :
       /\ o.undo[n].key = m.undo[n].key /\ o.undo[n].born = m.undo[n].born /\ o.undo[n].row = m.undo[n].row
       /\ o.undo[n].level = Lower(m.undo[n].level, l)

\* What releasing an inner level does to a map.
LEMMA ReleasedIs ==
  ASSUME NEW m, Good(m), m.made, NEW l \in Nat, l >= 2, NEW o, o = Released(m, l)
  PROVE  ReleaseDone(m, o, l)
<1> DEFINE U(n) == [m.undo[n] EXCEPT !.level = Lower(m.undo[n].level, l)]
           E(k) == IF Level(m, k) < l THEN m.edits[k] ELSE [m.edits[k] EXCEPT !.born = Encode(m, l - 1)]
           u == [n \in DOMAIN m.undo |-> U(n)]
           e == [k \in DOMAIN m.edits |-> E(k)]
<1>1. /\ m \in [edits : {m.edits}, undo : Seq(Undos), level : Nat, base : Nat, made : BOOLEAN]
      /\ m.undo \in Seq(Undos) /\ m.base \in Nat /\ m.made \in BOOLEAN /\ DOMAIN m.edits \subseteq Keys
      /\ Len(m.undo) \in Nat /\ DOMAIN m.undo = 1 .. Len(m.undo)
  <2>1. m \in [edits : {m.edits}, undo : Seq(Undos), level : Nat, base : Nat, made : BOOLEAN] /\ IsMap(m)
    BY DEF Good, IsMap
  <2>2. QED
    BY <2>1, Shape
<1>2. l - 1 \in Nat \ {0} /\ m # NoMap /\ l # 1
  <2>1. NoMap.made = FALSE
    BY EmptyGood
  <2>2. QED
    BY <2>1
<1>3. o = [[[m EXCEPT !.undo = u] EXCEPT !.edits = e] EXCEPT !.level = l - 1]
  <2>1. o = [m EXCEPT !.undo = u, !.edits = e, !.level = l - 1]
    BY <1>2 DEF Released
  <2>2. QED
    BY <2>1
<1>4. \A n \in DOMAIN m.undo :
        /\ U(n) \in Undos
        /\ U(n).key = m.undo[n].key /\ U(n).born = m.undo[n].born /\ U(n).row = m.undo[n].row
        /\ U(n).level = Lower(m.undo[n].level, l)
  <2>1. SUFFICES ASSUME NEW n \in DOMAIN m.undo
                 PROVE  /\ U(n) \in Undos
                        /\ U(n).key = m.undo[n].key /\ U(n).born = m.undo[n].born /\ U(n).row = m.undo[n].row
                        /\ U(n).level = Lower(m.undo[n].level, l)
    OBVIOUS
  <2> DEFINE v == m.undo[n]
  <2>2. v \in Undos
    BY <1>1
  <2> HIDE DEF v
  <2>3. [v EXCEPT !.level = Lower(v.level, l)] \in Undos
    BY <1>2, <2>2 DEF Undos, Lower
  <2>4. LET w == [v EXCEPT !.level = Lower(v.level, l)]
        IN  w.key = v.key /\ w.born = v.born /\ w.row = v.row /\ w.level = Lower(v.level, l)
    BY <2>2 DEF Undos
  <2>5. QED
    BY <2>3, <2>4 DEF v
<1>5. \A k \in DOMAIN m.edits :
        /\ E(k) \in Edits /\ E(k).row = m.edits[k].row
        /\ Decode(m, E(k).born) = Lower(Level(m, k), l)
  <2>1. SUFFICES ASSUME NEW k \in DOMAIN m.edits
                 PROVE  /\ E(k) \in Edits /\ E(k).row = m.edits[k].row
                        /\ Decode(m, E(k).born) = Lower(Level(m, k), l)
    OBVIOUS
  <2> DEFINE v == m.edits[k]
             b == Encode(m, l - 1)
  <2>2. v \in Edits
    BY Shape DEF Good
  <2>3. b \in Nat /\ Decode(m, b) = l - 1
    BY <1>1, <1>2, DecodeEncode
  <2>4. Level(m, k) = Decode(m, v.born)
    BY DEF Level
  <2>5. Level(m, k) \in Nat
    BY Shape DEF Good
  <2> HIDE DEF v, b
  <2>6. LET w == [v EXCEPT !.born = b] IN w \in Edits /\ w.row = v.row /\ w.born = b
    BY <2>2, <2>3 DEF Edits
  <2>7. CASE ~(Level(m, k) < l)
    <3>1. E(k) = [v EXCEPT !.born = b]
      BY <2>7 DEF v, b
    <3>2. E(k) \in Edits /\ E(k).row = v.row /\ E(k).born = b
      BY <2>6, <3>1
    <3>3. Lower(Level(m, k), l) = l - 1
      BY <2>7, <2>5 DEF Lower
    <3>4. QED
      BY <2>3, <3>2, <3>3 DEF v
  <2>8. CASE Level(m, k) < l
    <3>1. E(k) = v
      BY <2>8 DEF v
    <3>2. Lower(Level(m, k), l) = Level(m, k)
      BY <2>8, <2>5 DEF Lower
    <3>3. QED
      BY <2>2, <2>4, <3>1, <3>2 DEF v
  <2>9. QED
    BY <2>7, <2>8
<1> HIDE DEF U, E
<1>6. u \in Seq(Undos) /\ DOMAIN u = DOMAIN m.undo /\ \A n \in DOMAIN m.undo : u[n] = U(n)
  BY <1>1, <1>4
<1>7. e \in [DOMAIN e -> Edits] /\ DOMAIN e = DOMAIN m.edits /\ \A k \in DOMAIN m.edits : e[k] = E(k)
  BY <1>5
<1> HIDE DEF e, u
<1>8. o \in [edits : {e}, undo : Seq(Undos), level : Nat, base : Nat, made : BOOLEAN]
      /\ o.undo = u /\ o.level = l - 1 /\ o.base = m.base /\ o.made = m.made
  BY <1>1, <1>2, <1>3, <1>6
<1>9. o.edits = e
  BY <1>8
<1>10. IsMap(o)
  BY <1>1, <1>7, <1>8, <1>9 DEF IsMap
<1>11. \A k \in DOMAIN m.edits : Level(o, k) = Decode(m, E(k).born)
  BY <1>7, <1>8, <1>9 DEF Level, Decode
<1>12. QED
  BY <1>4, <1>5, <1>6, <1>7, <1>8, <1>9, <1>10, <1>11 DEF ReleaseDone

\* Releasing an inner level keeps the table, and what was before the levels below.
LEMMA ReleasedKeeps ==
  ASSUME NEW m, Good(m), m.made, NEW l \in Nat, l >= 2, NEW o, o = Released(m, l)
  PROVE  /\ Good(o) /\ o.made /\ o.level = l - 1
         /\ RowsOf(o) = RowsOf(m)
         /\ \A i \in 1 .. l - 1 : View(o, i) = View(m, i)
<1>1. ReleaseDone(m, o, l)
  BY ReleasedIs
<1>2. IsMap(m) /\ Sorted(m) /\ IsMap(o)
  BY <1>1 DEF Good, LogFits, Sorted, ReleaseDone
<1>3. /\ DOMAIN m.undo = 1 .. Len(m.undo) /\ Len(m.undo) \in Nat
      /\ \A n \in DOMAIN m.undo : m.undo[n].level \in Nat /\ m.undo[n].born \in Nat
      /\ \A k \in DOMAIN m.edits : Level(m, k) \in Nat
  BY <1>2, Shape
<1>4. /\ DOMAIN o.edits = DOMAIN m.edits
      /\ \A k \in DOMAIN m.edits : o.edits[k].row = m.edits[k].row /\ Level(o, k) = Lower(Level(m, k), l)
      /\ o.level = l - 1 /\ o.made
      /\ DOMAIN o.undo = DOMAIN m.undo
      /\ \A n \in DOMAIN m.undo :
           /\ o.undo[n].key = m.undo[n].key /\ o.undo[n].born = m.undo[n].born /\ o.undo[n].row = m.undo[n].row
           /\ o.undo[n].level = Lower(m.undo[n].level, l)
  BY <1>1 DEF ReleaseDone
<1>5. \A x \in Nat : Lower(x, l) \in Nat /\ Lower(x, l) <= l - 1 /\ Lower(x, l) <= x
                     /\ \A y \in Nat : x <= y => Lower(x, l) <= Lower(y, l)
  BY DEF Lower
<1>6. \A x \in Nat, i \in 1 .. l - 1 : Lower(x, l) < i <=> x < i
  BY DEF Lower
<1>7. LogFits(o)
  <2>1. ASSUME NEW n \in DOMAIN m.undo
        PROVE  /\ o.undo[n].level <= o.level
               /\ o.undo[n].key \in DOMAIN o.edits
               /\ Level(o, o.undo[n].key) >= o.undo[n].level
    <3> DEFINE k == m.undo[n].key
    <3>1. k \in DOMAIN m.edits /\ Level(m, k) >= m.undo[n].level /\ o.undo[n].key = k
      BY <1>4 DEF Good, LogFits
    <3>2. Level(m, k) \in Nat /\ m.undo[n].level \in Nat
      BY <1>3, <3>1
    <3>3. Lower(m.undo[n].level, l) <= Lower(Level(m, k), l) /\ Lower(m.undo[n].level, l) <= l - 1
          /\ Lower(m.undo[n].level, l) \in Nat /\ Lower(Level(m, k), l) \in Nat
      BY <1>5, <3>1, <3>2
    <3> HIDE DEF k
    <3>4. QED
      BY <1>4, <3>1, <3>3
  <2>2. ASSUME NEW n \in DOMAIN m.undo, NEW p \in DOMAIN m.undo, n <= p
        PROVE  o.undo[n].level <= o.undo[p].level
    <3>1. m.undo[n].level <= m.undo[p].level
      BY <1>2, <2>2 DEF Sorted
    <3>2. QED
      BY <1>3, <1>4, <1>5, <3>1
  <2>3. QED
    BY <1>4, <2>1, <2>2 DEF LogFits
<1>8. Sorted(o)
  BY <1>7 DEF LogFits, Sorted
<1>9. ASSUME NEW k \in DOMAIN m.edits, NEW i \in 1 .. l - 1
      PROVE  /\ BornAt(o, k, i) < i <=> BornAt(m, k, i) < i
             /\ Undone(o, k, i).row = Undone(m, k, i).row
  <2>1. i \in Nat /\ k \in DOMAIN o.edits
    BY <1>4
  <2>2. CASE None(m, k, i)
    <3>1. None(o, k, i)
      BY <1>3, <1>4, <1>6, <2>2 DEF None
    <3>2. Undone(m, k, i) = m.edits[k] /\ BornAt(m, k, i) = Level(m, k)
      BY <1>2, <2>1, <2>2, BeforeIs
    <3>3. Undone(o, k, i) = o.edits[k] /\ BornAt(o, k, i) = Level(o, k)
      BY <1>2, <1>8, <2>1, <3>1, BeforeIs
    <3>4. Lower(Level(m, k), l) < i <=> Level(m, k) < i
      BY <1>3, <1>6
    <3>5. QED
      BY <1>4, <3>2, <3>3, <3>4
  <2>3. CASE \E n \in DOMAIN m.undo : First(m, k, i, n)
    <3>1. PICK n \in DOMAIN m.undo : First(m, k, i, n)
      BY <2>3
    <3>2. First(o, k, i, n)
      <4>1. \A p \in DOMAIN m.undo : o.undo[p].level < i <=> m.undo[p].level < i
        BY <1>3, <1>4, <1>6
      <4>2. \A p \in DOMAIN m.undo : o.undo[p].level \in Nat /\ m.undo[p].level \in Nat
        BY <1>3, <1>4, <1>5
      <4>3. o.undo[n].level >= i
        BY <2>1, <3>1, <4>1, <4>2 DEF First
      <4>4. QED
        BY <1>4, <3>1, <4>1, <4>3 DEF First
    <3>3. BornAt(m, k, i) = m.undo[n].born /\ Undone(m, k, i).row = m.undo[n].row
      BY <1>2, <2>1, <3>1, BeforeIs
    <3>4. BornAt(o, k, i) = o.undo[n].born /\ Undone(o, k, i).row = o.undo[n].row
      BY <1>2, <1>8, <2>1, <3>2, BeforeIs
    <3>5. QED
      BY <1>4, <3>3, <3>4
  <2>4. QED
    BY <1>2, <2>1, <2>2, <2>3, BeforeIs
<1>10. Dated(o)
  <2>1. ASSUME NEW n \in DOMAIN m.undo, NEW p \in DOMAIN m.undo, n < p, o.undo[n].key = o.undo[p].key
        PROVE  o.undo[p].born >= o.undo[n].level
    <3>1. m.undo[p].born >= m.undo[n].level
      BY <1>4, <2>1 DEF Good, Dated
    <3>2. o.undo[n].level <= m.undo[n].level /\ o.undo[n].level \in Nat
      BY <1>3, <1>4, <1>5
    <3>3. o.undo[p].born = m.undo[p].born /\ m.undo[p].born \in Nat /\ m.undo[n].level \in Nat
      BY <1>3, <1>4
    <3>4. QED
      BY <3>1, <3>2, <3>3
  <2>2. ASSUME NEW n \in DOMAIN m.undo, NEW i \in 1 .. l - 1, o.undo[n].level < i
        PROVE  BornAt(o, o.undo[n].key, i) < i
    <3> DEFINE k == m.undo[n].key
    <3>1. m.undo[n].level < i
      BY <1>3, <1>4, <1>6, <2>2
    <3>2. k \in DOMAIN m.edits
      BY DEF Good, LogFits
    <3>3. BornAt(m, k, i) < i
      <4>1. CASE i \in 1 .. m.level
        BY <3>1, <4>1 DEF Good, Dated
      <4>2. CASE i > m.level
        BY <3>2, <4>2, AboveLevel
      <4>3. m.level \in Nat
        BY <1>2, Shape
      <4>4. QED
        BY <4>1, <4>2, <4>3
    <3> HIDE DEF k
    <3>4. BornAt(o, k, i) < i
      BY <1>9, <3>2, <3>3
    <3>5. QED
      BY <1>4, <3>4 DEF k
  <2>3. QED
    BY <1>4, <2>1, <2>2 DEF Dated
<1>11. Good(o)
  <2>1. \A k \in DOMAIN o.edits : Level(o, k) <= o.level
    BY <1>3, <1>4, <1>5
  <2>2. QED
    BY <1>2, <1>4, <1>7, <1>10, <2>1 DEF Good
<1>12. RowsOf(o) = RowsOf(m)
  BY <1>4 DEF RowsOf
<1>13. ASSUME NEW i \in 1 .. l - 1
       PROVE  View(o, i) = View(m, i)
  <2>1. Kept(o, i) = Kept(m, i)
    BY <1>4, <1>9 DEF Kept
  <2>2. \A k \in Kept(o, i) : Undone(o, k, i).row = Undone(m, k, i).row
    BY <1>4, <1>9 DEF Kept
  <2>3. QED
    BY <2>1, <2>2, SameView
<1>14. QED
  BY <1>4, <1>11, <1>12, <1>13

\* Releasing the outermost level, with none inside it, keeps the table.
LEMMA ReleasedOutermost ==
  ASSUME NEW m, Good(m), m.made, m.level <= 1, NEW o, o = Released(m, 1)
  PROVE  Good(o) /\ o.made /\ o.level = 0 /\ RowsOf(o) = RowsOf(m)
<1> DEFINE b == IF HasEdits(m) THEN m.base + 1 ELSE 0
           u == <<>>
<1>1. /\ m \in [edits : {m.edits}, undo : Seq(Undos), level : Nat, base : Nat, made : BOOLEAN]
      /\ DOMAIN m.edits \subseteq Keys /\ m.edits \in [DOMAIN m.edits -> Edits]
      /\ m.level \in Nat /\ m.base \in Nat /\ IsMap(m)
      /\ \A k \in DOMAIN m.edits : Level(m, k) \in Nat /\ Level(m, k) <= m.level /\ m.edits[k].born \in Nat
  <2>1. m \in [edits : {m.edits}, undo : Seq(Undos), level : Nat, base : Nat, made : BOOLEAN] /\ IsMap(m)
    BY DEF Good, IsMap
  <2>2. QED
    BY <2>1, Shape DEF Good
<1>2. b \in Nat /\ m # NoMap
  <2>1. NoMap.made = FALSE
    BY EmptyGood
  <2>2. QED
    BY <1>1, <2>1
<1>3. o = [[[m EXCEPT !.undo = u] EXCEPT !.base = b] EXCEPT !.level = 0]
  <2>1. o = [m EXCEPT !.undo = <<>>, !.base = b, !.level = 0]
    BY <1>2 DEF Released
  <2>2. QED
    BY <2>1
<1>4. u \in Seq(Undos) /\ DOMAIN u = {}
  OBVIOUS
<1> HIDE DEF b, u
<1>5. o \in [edits : {m.edits}, undo : Seq(Undos), level : Nat, base : Nat, made : BOOLEAN]
      /\ o.undo = u /\ o.level = 0 /\ o.base = b /\ o.made = m.made
  <2>1. m \in [edits : {m.edits}, undo : Seq(Undos), level : Nat, base : Nat, made : BOOLEAN]
    BY <1>1
  <2> DEFINE e == m.edits
             R == [edits : {e}, undo : Seq(Undos), level : Nat, base : Nat, made : BOOLEAN]
             p == [m EXCEPT !.undo = u]
             q == [p EXCEPT !.base = b]
  <2>2. m \in R
    BY <2>1
  <2> HIDE DEF e
  <2>3. p \in R /\ p.undo = u /\ p.made = m.made
    BY <1>4, <2>2
  <2>4. o = [q EXCEPT !.level = 0]
    BY <1>3
  <2> HIDE DEF p
  <2>5. q \in R /\ q.undo = u /\ q.base = b /\ q.made = m.made
    BY <1>2, <2>3
  <2> DEFINE s == [q EXCEPT !.level = 0]
  <2> HIDE DEF q
  <2>6. s \in R
    BY <2>5
  <2>7. s.undo = u /\ s.level = 0 /\ s.base = b /\ s.made = m.made
    BY <2>5
  <2>8. o = s
    BY <2>4
  <2> HIDE DEF s
  <2>9. QED
    BY <2>6, <2>7, <2>8 DEF e
<1>6. o.edits = m.edits
  BY <1>5
<1>7. IsMap(o)
  BY <1>1, <1>5, <1>6 DEF IsMap
<1>8. ASSUME NEW k \in DOMAIN o.edits
      PROVE  Level(o, k) <= o.level
  <2> DEFINE x == m.edits[k].born
  <2>1. b = m.base + 1
    BY <1>6 DEF b, HasEdits
  <2>2. Decode(m, x) <= 1 /\ x \in Nat
    BY <1>1, <1>6 DEF Level
  <2> HIDE DEF x
  <2>3. x <= m.base + 1
    BY <1>1, <2>2 DEF Decode
  <2>4. Decode(o, x) = 0
    BY <1>5, <2>1, <2>3 DEF Decode
  <2>5. QED
    BY <1>5, <1>6, <2>4 DEF Level, x
<1>9. LogFits(o) /\ Dated(o)
  BY <1>4, <1>5 DEF LogFits, Dated
<1>10. RowsOf(o) = RowsOf(m)
  BY <1>6 DEF RowsOf
<1>11. QED
  BY <1>5, <1>7, <1>8, <1>9, <1>10 DEF Good
===============================================================================
