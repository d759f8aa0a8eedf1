---------------------- MODULE KeyedCoalescingWorkerProofs ----------------------
(***************************************************************************)
(* KeyedCoalescingWorker loses, repeats and strands no value and keeps the  *)
(* promise of CoalescingMailbox, for every set of keys, any number of       *)
(* values and any pattern of failures.                                      *)
(***************************************************************************)
EXTENDS KeyedCoalescingWorker, SequenceTheorems, TLAPS

Within(q, k) == \E i \in DOMAIN q : q[i] = k
Distinct(q)  == \A i, j \in DOMAIN q : q[i] = q[j] => i = j

\* What the marks of the state mean: a queued key is in the queue or in the
\* fiber's hands, never both, and the active key is the one in process.
Marks ==
  /\ \A k \in Keys : k \in queued <=> Within(queue, k) \/ Holds(k)
  /\ \A k \in Keys : ~ (Within(queue, k) /\ Holds(k))
  /\ active = IF pc = "process" THEN {current} ELSE {}
  /\ \A k \in Keys : latest[k] # <<>> => k \in queued \cup active

Inv == TypeOK /\ Marks /\ EachValueOnce

-------------------------------------------------------------------------------
(* Sequences                                                                *)

\* Taking the first key of the queue leaves the others.
LEMMA TailWithin ==
  ASSUME NEW S, NEW q \in Seq(S), q # <<>>, Distinct(q)
  PROVE  /\ Distinct(Tail(q))
         /\ \A k : Within(Tail(q), k) <=> Within(q, k) /\ k # Head(q)
<1>1. /\ Tail(q) \in Seq(S)
      /\ Len(Tail(q)) = Len(q) - 1
      /\ \A i \in 1 .. Len(Tail(q)) : Tail(q)[i] = q[i + 1]
  BY HeadTailProperties
<1>2. /\ Len(q) \in Nat /\ DOMAIN q = 1 .. Len(q)
      /\ DOMAIN Tail(q) = 1 .. Len(q) - 1
  BY <1>1, LenProperties
<1>3. Len(q) # 0 /\ Head(q) = q[1]
  BY EmptySeq
<1>4. Distinct(Tail(q))
  <2> SUFFICES ASSUME NEW i \in 1 .. Len(q) - 1, NEW j \in 1 .. Len(q) - 1,
                      Tail(q)[i] = Tail(q)[j]
               PROVE  i = j
    BY <1>2 DEF Distinct
  <2>1. q[i + 1] = q[j + 1]
    BY <1>1
  <2>2. i + 1 \in DOMAIN q /\ j + 1 \in DOMAIN q
    BY <1>2
  <2> QED BY <2>1, <2>2, <1>2 DEF Distinct
<1>5. ASSUME NEW k, Within(Tail(q), k) PROVE Within(q, k) /\ k # Head(q)
  <2>1. PICK i \in 1 .. Len(q) - 1 : Tail(q)[i] = k
    BY <1>2, <1>5 DEF Within
  <2>2. q[i + 1] = k /\ i + 1 \in DOMAIN q /\ 1 \in DOMAIN q
    BY <2>1, <1>1, <1>2, <1>3
  <2>3. i + 1 # 1
    OBVIOUS
  <2> QED BY <2>2, <2>3, <1>3 DEF Within, Distinct
<1>6. ASSUME NEW k, Within(q, k), k # Head(q) PROVE Within(Tail(q), k)
  <2>1. PICK i \in 1 .. Len(q) : q[i] = k
    BY <1>2, <1>6 DEF Within
  <2>2. i # 1
    BY <2>1, <1>3, <1>6
  <2>3. i - 1 \in 1 .. Len(q) - 1 /\ (i - 1) + 1 = i
    BY <2>2, <1>2
  <2>4. Tail(q)[i - 1] = k
    BY <2>1, <2>3, <1>1
  <2> QED BY <2>3, <2>4, <1>2 DEF Within
<1> QED BY <1>4, <1>5, <1>6

\* Offering a key adds it to the queue.
LEMMA AppendWithin ==
  ASSUME NEW S, NEW q \in Seq(S), NEW e \in S, Distinct(q), ~ Within(q, e)
  PROVE  /\ Distinct(Append(q, e))
         /\ \A k : Within(Append(q, e), k) <=> Within(q, k) \/ k = e
<1>1. /\ Append(q, e) \in Seq(S)
      /\ Len(Append(q, e)) = Len(q) + 1
      /\ \A i \in 1 .. Len(q) : Append(q, e)[i] = q[i]
      /\ Append(q, e)[Len(q) + 1] = e
  BY AppendProperties
<1>2. /\ Len(q) \in Nat /\ DOMAIN q = 1 .. Len(q)
      /\ DOMAIN Append(q, e) = 1 .. Len(q) + 1
  BY <1>1, LenProperties
<1>3. \A i \in 1 .. Len(q) + 1 : i \in 1 .. Len(q) \/ i = Len(q) + 1
  BY <1>2
<1>4. \A i \in 1 .. Len(q) : q[i] # e
  BY <1>2 DEF Within
<1>5. Distinct(Append(q, e))
  <2> SUFFICES ASSUME NEW i \in 1 .. Len(q) + 1, NEW j \in 1 .. Len(q) + 1,
                      Append(q, e)[i] = Append(q, e)[j]
               PROVE  i = j
    BY <1>2 DEF Distinct
  <2>1. CASE i \in 1 .. Len(q) /\ j \in 1 .. Len(q)
    BY <2>1, <1>1, <1>2 DEF Distinct
  <2>2. CASE i = Len(q) + 1 /\ j = Len(q) + 1
    BY <2>2
  <2>3. CASE i \in 1 .. Len(q) /\ j = Len(q) + 1
    BY <2>3, <1>1, <1>4
  <2>4. CASE i = Len(q) + 1 /\ j \in 1 .. Len(q)
    BY <2>4, <1>1, <1>4
  <2> QED BY <1>3, <2>1, <2>2, <2>3, <2>4
<1>6. ASSUME NEW k, Within(Append(q, e), k) PROVE Within(q, k) \/ k = e
  <2>1. PICK i \in 1 .. Len(q) + 1 : Append(q, e)[i] = k
    BY <1>2, <1>6 DEF Within
  <2> QED BY <2>1, <1>1, <1>2, <1>3 DEF Within
<1>7. ASSUME NEW k, Within(q, k) \/ k = e PROVE Within(Append(q, e), k)
  <2>1. CASE Within(q, k)
    <3>1. PICK i \in 1 .. Len(q) : q[i] = k
      BY <1>2, <2>1 DEF Within
    <3>2. i \in 1 .. Len(q) + 1
      BY <1>2
    <3> QED BY <3>1, <3>2, <1>1, <1>2 DEF Within
  <2>2. CASE k = e
    <3>1. Len(q) + 1 \in 1 .. Len(q) + 1
      BY <1>2
    <3> QED BY <2>2, <3>1, <1>1, <1>2 DEF Within
  <2> QED BY <1>7, <2>1, <2>2
<1> QED BY <1>5, <1>6, <1>7

\* The numbers up to n, and the next one.
LEMMA CountAppend ==
  ASSUME NEW n \in Nat
  PROVE  /\ [i \in 1 .. n |-> i] \in Seq(Nat)
         /\ Len([i \in 1 .. n |-> i]) = n
         /\ Append([i \in 1 .. n |-> i], n + 1) = [i \in 1 .. n + 1 |-> i]
<1> DEFINE c(m) == [i \in 1 .. m |-> i]
<1>1. \A m \in Nat : c(m) \in Seq(Nat) /\ Len(c(m)) = m
  OBVIOUS
<1>2. /\ Append(c(n), n + 1) \in Seq(Nat)
      /\ Len(Append(c(n), n + 1)) = n + 1
      /\ \A i \in 1 .. n : Append(c(n), n + 1)[i] = c(n)[i]
      /\ Append(c(n), n + 1)[n + 1] = n + 1
  BY <1>1, AppendProperties
<1>3. \A i \in 1 .. n + 1 : Append(c(n), n + 1)[i] = c(n + 1)[i]
  <2> SUFFICES ASSUME NEW i \in 1 .. n + 1 PROVE Append(c(n), n + 1)[i] = c(n + 1)[i]
    OBVIOUS
  <2>1. CASE i = n + 1
    BY <2>1, <1>2
  <2>2. CASE i \in 1 .. n
    BY <2>2, <1>2
  <2> QED BY <2>1, <2>2
<1>4. n + 1 \in Nat
  OBVIOUS
<1>5. c(n + 1) \in Seq(Nat) /\ Len(c(n + 1)) = n + 1
  BY <1>1, <1>4
<1>6. Append(c(n), n + 1) = c(n + 1)
  <2> HIDE DEF c
  <2> QED BY <1>2, <1>3, <1>5, SeqEqual
<1> QED BY <1>1, <1>6

\* Appending one value and concatenating <<v>> are the same.
LEMMA ConcatAppend ==
  ASSUME NEW S, NEW s \in Seq(S), NEW t \in Seq(S), NEW e \in S
  PROVE  s \o Append(t, e) = Append(s \o t, e)
<1>1. <<e>> \in Seq(S)
  OBVIOUS
<1>2. Append(t, e) = t \o <<e>>
  BY AppendIsConcat
<1>3. (s \o t) \o <<e>> = s \o (t \o <<e>>)
  <2> DEFINE u == <<e>>
  <2> SUFFICES (s \o t) \o u = s \o (t \o u)
    OBVIOUS
  <2>1. u \in Seq(S)
    BY <1>1
  <2> HIDE DEF u
  <2> QED BY <2>1, ConcatAssociative
<1>4. s \o t \in Seq(S)
  BY ConcatProperties
<1>5. Append(s \o t, e) = (s \o t) \o <<e>>
  BY <1>4, AppendIsConcat
<1> QED BY <1>2, <1>3, <1>5

-------------------------------------------------------------------------------
(* The invariant                                                            *)

\* The worker starts with nothing queued, active or waiting.
LEMMA InitInv == Init => Inv
<1> SUFFICES ASSUME Init PROVE Inv
  OBVIOUS
<1>1. TypeOK
  BY DEF Init, TypeOK
<1>2. Marks
  BY DEF Init, Marks, Within, Holds
<1>3. EachValueOnce
  <2> SUFFICES ASSUME NEW k \in Keys PROVE handed[k] \o latest[k] = [n \in 1 .. sent[k] |-> n]
    BY DEF EachValueOnce
  <2>1. handed[k] = <<>> /\ latest[k] = <<>> /\ sent[k] = 0
    BY DEF Init
  <2>2. <<>> \o <<>> = <<>>
    BY EmptySeq, ConcatEmptySeq
  <2>3. [n \in 1 .. 0 |-> n] = <<>>
    OBVIOUS
  <2> QED BY <2>1, <2>2, <2>3
<1> QED BY <1>1, <1>2, <1>3 DEF Inv

\* An enqueued value joins those that wait.
LEMMA EnqueueInv ==
  ASSUME Inv, NEW k \in Keys, Enqueue(k)
  PROVE  Inv'
<1> USE DEF Inv
<1>1. /\ sent' = [sent EXCEPT ![k] = @ + 1]
      /\ latest' = [latest EXCEPT ![k] = Append(@, sent[k] + 1)]
      /\ UNCHANGED <<active, pc, current, handed, draining>>
  BY DEF Enqueue, fiber
<1>2. sent[k] \in Nat /\ sent[k] + 1 \in Nat /\ latest[k] \in Seq(Nat) /\ handed[k] \in Seq(Nat)
  BY DEF TypeOK
<1>3. Append(latest[k], sent[k] + 1) \in Seq(Nat) /\ Append(latest[k], sent[k] + 1) # <<>>
  BY <1>2, AppendProperties, SMTT(30)
<1>4. sent' \in [Keys -> Nat] /\ latest' \in [Keys -> Seq(Nat)]
  BY <1>1, <1>2, <1>3 DEF TypeOK
<1>5. EachValueOnce'
  <2> SUFFICES ASSUME NEW l \in Keys
               PROVE  handed[l] \o latest'[l] = [n \in 1 .. sent'[l] |-> n]
    BY <1>1 DEF EachValueOnce
  <2>1. CASE l # k
    BY <2>1, <1>1, <1>4 DEF EachValueOnce, TypeOK
  <2>2. CASE l = k
    <3>1. latest'[k] = Append(latest[k], sent[k] + 1) /\ sent'[k] = sent[k] + 1
      BY <1>1 DEF TypeOK
    <3>2. \A s, t \in Seq(Nat), e \in Nat : s \o Append(t, e) = Append(s \o t, e)
      BY ConcatAppend
    <3>3. handed[k] \o Append(latest[k], sent[k] + 1) = Append(handed[k] \o latest[k], sent[k] + 1)
      <4> HIDE DEF Inv
      <4> QED BY <1>2, <3>2, Zenon
    <3>7. handed[k] \o latest[k] = [n \in 1 .. sent[k] |-> n]
      BY DEF EachValueOnce
    <3>8. Append([n \in 1 .. sent[k] |-> n], sent[k] + 1) = [n \in 1 .. sent[k] + 1 |-> n]
      BY <1>2, CountAppend
    <3> QED BY <2>2, <3>1, <3>3, <3>7, <3>8
  <2> QED BY <2>1, <2>2
<1>6. CASE k \in queued \cup active
  <2>1. UNCHANGED <<queue, queued>>
    BY <1>6 DEF Enqueue, Scheduled
  <2>2. TypeOK'
    BY <1>1, <1>4, <2>1 DEF TypeOK
  <2>3. Marks'
    <3>1. \A l \in Keys : latest'[l] # <<>> => l \in queued \cup active
      BY <1>1, <1>6 DEF Marks, TypeOK
    <3> QED BY <1>1, <2>1, <3>1 DEF Marks, Holds
  <2> QED BY <1>5, <2>2, <2>3
<1>7. CASE k \notin queued \cup active
  <2>1. queued' = queued \cup {k} /\ queue' = Append(queue, k)
    BY <1>7 DEF Enqueue, Scheduled
  <2>2. ~ Within(queue, k) /\ ~ Holds(k)
    BY <1>7 DEF Marks
  <2>3. queue \in Seq(Keys) /\ Distinct(queue)
    BY DEF TypeOK, Distinct
  <2>4. /\ Distinct(queue')
        /\ \A l : Within(queue', l) <=> Within(queue, l) \/ l = k
    BY <2>1, <2>2, <2>3, AppendWithin
  <2>5. queue' \in Seq(Keys)
    BY <2>1, <2>3, AppendProperties
  <2>6. TypeOK'
    BY <1>1, <1>4, <2>1, <2>4, <2>5 DEF TypeOK, Distinct
  <2>7. Marks'
    <3>1. \A l \in Keys : latest'[l] # <<>> => l \in queued' \cup active
      BY <1>1, <2>1 DEF Marks, TypeOK
    <3>2. \A l \in Keys : Holds(l)' <=> Holds(l)
      BY <1>1 DEF Holds
    <3> QED BY <1>1, <2>1, <2>2, <2>4, <3>1, <3>2 DEF Marks
  <2> QED BY <1>5, <2>6, <2>7
<1> QED BY <1>6, <1>7

\* Handing over moves what waits behind what has been handed over.
LEMMA HandOverValues ==
  ASSUME Inv, current \in Keys, HandOver, UNCHANGED sent
  PROVE  /\ latest' \in [Keys -> Seq(Nat)] /\ handed' \in [Keys -> Seq(Nat)]
         /\ latest'[current] = <<>>
         /\ \A k \in Keys : k # current => latest'[k] = latest[k] /\ handed'[k] = handed[k]
         /\ EachValueOnce'
<1>1. /\ handed' = [handed EXCEPT ![current] = @ \o latest[current]]
      /\ latest' = [latest EXCEPT ![current] = <<>>]
  BY DEF HandOver, RemoveLatest
<1>2. /\ latest \in [Keys -> Seq(Nat)] /\ handed \in [Keys -> Seq(Nat)]
      /\ handed[current] \in Seq(Nat) /\ latest[current] \in Seq(Nat)
  BY DEF Inv, TypeOK
<1>3. handed[current] \o latest[current] \in Seq(Nat) /\ <<>> \in Seq(Nat)
  BY <1>2, ConcatProperties, EmptySeq
<1>4. latest' \in [Keys -> Seq(Nat)] /\ handed' \in [Keys -> Seq(Nat)]
  BY <1>1, <1>2, <1>3
<1>5. /\ latest'[current] = <<>>
      /\ handed'[current] = handed[current] \o latest[current]
      /\ \A k \in Keys : k # current => latest'[k] = latest[k] /\ handed'[k] = handed[k]
  BY <1>1, <1>2
<1>6. handed'[current] \o <<>> = handed'[current]
  BY <1>3, <1>5, ConcatEmptySeq
<1>7. EachValueOnce'
  <2> SUFFICES ASSUME NEW k \in Keys
               PROVE  handed'[k] \o latest'[k] = [n \in 1 .. sent[k] |-> n]
    BY DEF EachValueOnce
  <2>1. handed[k] \o latest[k] = [n \in 1 .. sent[k] |-> n]
    BY DEF Inv, EachValueOnce
  <2>2. CASE k = current
    BY <2>1, <2>2, <1>5, <1>6
  <2>3. CASE k # current
    BY <2>1, <2>3, <1>5
  <2> QED BY <2>2, <2>3
<1> QED BY <1>4, <1>5, <1>7

\* The take loop activates a key and leaves its values where they are.
LEMMA TakeInv ==
  ASSUME Inv, Take
  PROVE  Inv'
<1> USE DEF Inv
<1>1. /\ pc = "take" /\ queue # <<>> /\ current' = Head(queue) /\ queue' = Tail(queue)
      /\ pc' = "taken"
      /\ UNCHANGED <<latest, queued, active, sent, handed, draining>>
  BY DEF Take, state
<1>2. queue \in Seq(Keys) /\ Distinct(queue)
  BY DEF TypeOK, Distinct
<1>3. /\ Distinct(queue')
      /\ \A k : Within(queue', k) <=> Within(queue, k) /\ k # current'
  BY <1>1, <1>2, TailWithin
<1>4. queue' \in Seq(Keys) /\ current' \in Keys
  BY <1>1, <1>2, HeadTailProperties
<1>5. Within(queue, current')
  <2>1. 1 \in DOMAIN queue /\ Head(queue) = queue[1]
    BY <1>1, <1>2, EmptySeq, LenProperties
  <2> QED BY <2>1, <1>1 DEF Within
<1>6. TypeOK'
  BY <1>1, <1>3, <1>4 DEF TypeOK, Distinct
<1>7. Marks'
  <2>1. \A k \in Keys : Holds(k)' <=> k = current'
    BY <1>1 DEF Holds
  <2>2. \A k \in Keys : ~ Holds(k)
    BY <1>1 DEF Holds
  <2>3. active' = {}
    BY <1>1 DEF Marks
  <2> QED BY <1>1, <1>3, <1>5, <2>1, <2>2, <2>3 DEF Marks
<1>8. EachValueOnce'
  BY <1>1 DEF EachValueOnce
<1> QED BY <1>6, <1>7, <1>8

\* processKey takes the latest state of the active key, or lets the key go.
LEMMA StartInv ==
  ASSUME Inv, Start
  PROVE  Inv'
<1> USE DEF Inv
<1>1. pc = "taken" /\ queued' = queued \ {current} /\ UNCHANGED <<queue, sent, draining>>
  BY DEF Start
<1>2. current \in Keys /\ Holds(current) /\ ~ Within(queue, current)
  BY <1>1 DEF TypeOK, Marks, Holds
<1>3. \A k \in Keys : ~ Holds(k)'
  BY DEF Start, HandOver, GoOn, Holds
<1>4. \A k \in Keys : k \in queued' <=> Within(queue', k)
  <2>1. \A k \in Keys : k # current => ~ Holds(k)
    BY DEF Holds
  <2>2. \A k \in Keys : Within(queue', k) <=> Within(queue, k)
    BY <1>1 DEF Within
  <2> QED BY <1>1, <1>2, <2>1, <2>2 DEF Marks
<1>5. CASE latest[current] = <<>>
  <2>1. pc' = "take" /\ current' = NoKey /\ UNCHANGED <<latest, active, handed>>
    BY <1>5 DEF Start, GoOn
  <2>2. TypeOK'
    BY <1>1, <2>1 DEF TypeOK
  <2>3. active' = {}
    BY <1>1, <2>1 DEF Marks
  <2>4. \A k \in Keys : latest'[k] # <<>> => k \in queued' \cup active'
    BY <1>1, <1>5, <2>1 DEF Marks
  <2>5. Marks'
    BY <1>3, <1>4, <2>1, <2>3, <2>4 DEF Marks
  <2>6. EachValueOnce'
    BY <1>1, <2>1 DEF EachValueOnce
  <2> QED BY <2>2, <2>5, <2>6
<1>6. CASE latest[current] # <<>>
  <2>1. HandOver
    BY <1>6 DEF Start
  <2>2. active' = active \cup {current} /\ pc' = "process" /\ current' = current
    BY <2>1 DEF HandOver
  <2>3. /\ latest' \in [Keys -> Seq(Nat)] /\ handed' \in [Keys -> Seq(Nat)]
        /\ latest'[current] = <<>>
        /\ \A k \in Keys : k # current => latest'[k] = latest[k] /\ handed'[k] = handed[k]
        /\ EachValueOnce'
    BY <1>1, <1>2, <2>1, HandOverValues
  <2>4. TypeOK'
    BY <1>1, <1>2, <2>2, <2>3 DEF TypeOK
  <2>5. active' = {current}
    BY <1>1, <2>2 DEF Marks
  <2>6. \A k \in Keys : latest'[k] # <<>> => k \in queued' \cup active'
    BY <1>1, <2>2, <2>3 DEF Marks
  <2>7. Marks'
    BY <1>3, <1>4, <2>2, <2>5, <2>6 DEF Marks
  <2> QED BY <2>3, <2>4, <2>7
<1> QED BY <1>5, <1>6

\* After a value was processed the key stays active exactly if another waits.
LEMMA ProcessSucceedsInv ==
  ASSUME Inv, ProcessSucceeds
  PROVE  Inv'
<1> USE DEF Inv
<1>1. pc = "process" /\ UNCHANGED <<queue, queued, sent, draining>>
  BY DEF ProcessSucceeds
<1>2. current \in Keys /\ active = {current}
  BY <1>1 DEF TypeOK, Marks
<1>3. \A k \in Keys : ~ Holds(k) /\ ~ Holds(k)'
  BY <1>1 DEF ProcessSucceeds, HandOver, GoOn, Holds
<1>4. \A k \in Keys : k \in queued' <=> Within(queue', k)
  BY <1>1, <1>3 DEF Marks, Within
<1>5. CASE latest[current] = <<>>
  <2>1. /\ pc' = "take" /\ current' = NoKey /\ active' = active \ {current}
        /\ UNCHANGED <<latest, handed>>
    BY <1>5 DEF ProcessSucceeds, GoOn, Released
  <2>2. TypeOK'
    BY <1>1, <2>1 DEF TypeOK
  <2>3. \A k \in Keys : latest'[k] # <<>> => k \in queued' \cup active'
    BY <1>1, <1>5, <2>1 DEF Marks
  <2>4. Marks'
    BY <1>2, <1>3, <1>4, <2>1, <2>3 DEF Marks
  <2>5. EachValueOnce'
    BY <1>1, <2>1 DEF EachValueOnce
  <2> QED BY <2>2, <2>4, <2>5
<1>6. CASE latest[current] # <<>>
  <2>1. HandOver
    BY <1>6 DEF ProcessSucceeds
  <2>2. active' = active \cup {current} /\ pc' = "process" /\ current' = current
    BY <2>1 DEF HandOver
  <2>3. /\ latest' \in [Keys -> Seq(Nat)] /\ handed' \in [Keys -> Seq(Nat)]
        /\ latest'[current] = <<>>
        /\ \A k \in Keys : k # current => latest'[k] = latest[k] /\ handed'[k] = handed[k]
        /\ EachValueOnce'
    BY <1>1, <1>2, <2>1, HandOverValues
  <2>4. TypeOK'
    BY <1>1, <1>2, <2>2, <2>3 DEF TypeOK
  <2>5. \A k \in Keys : latest'[k] # <<>> => k \in queued' \cup active'
    BY <1>1, <2>2, <2>3 DEF Marks
  <2>6. Marks'
    BY <1>2, <1>3, <1>4, <2>2, <2>5 DEF Marks
  <2> QED BY <2>3, <2>4, <2>6
<1> QED BY <1>5, <1>6

\* cleanupFailedKey requeues a key that has a value and releases one that has not.
LEMMA ProcessFailsInv ==
  ASSUME Inv, ProcessFails
  PROVE  Inv'
<1> USE DEF Inv
<1>1. /\ pc = "process" /\ active' = active \ {current}
      /\ UNCHANGED <<queue, latest, sent, handed, draining>>
  BY DEF ProcessFails, Released
<1>2. current \in Keys /\ active = {current} /\ active' = {}
  BY <1>1 DEF TypeOK, Marks
<1>3. \A k \in Keys : ~ Holds(k)
  BY <1>1 DEF Holds
<1>4. \A k \in Keys : k \in queued <=> Within(queue', k)
  BY <1>1, <1>3 DEF Marks, Within
<1>5. EachValueOnce'
  BY <1>1 DEF EachValueOnce
<1>6. CASE ShouldRequeue(current)
  <2>1. queued' = queued \cup {current} /\ pc' = "requeue" /\ current' = current
    BY <1>6 DEF ProcessFails
  <2>2. TypeOK'
    BY <1>1, <1>2, <2>1 DEF TypeOK
  <2>3. current \notin queued
    BY <1>6 DEF ShouldRequeue
  <2>4. \A k \in Keys : Holds(k)' <=> k = current
    BY <2>1 DEF Holds
  <2>5. \A k \in Keys : latest'[k] # <<>> => k \in queued' \cup active'
    BY <1>1, <1>2, <2>1 DEF Marks
  <2>6. Marks'
    BY <1>2, <1>4, <2>1, <2>3, <2>4, <2>5 DEF Marks
  <2> QED BY <1>5, <2>2, <2>6
<1>7. CASE ~ ShouldRequeue(current)
  <2>1. pc' = "take" /\ current' = NoKey /\ UNCHANGED queued
    BY <1>7 DEF ProcessFails, GoOn
  <2>2. TypeOK'
    BY <1>1, <2>1 DEF TypeOK
  <2>3. \A k \in Keys : ~ Holds(k)'
    BY <2>1 DEF Holds
  <2>4. \A k \in Keys : latest'[k] # <<>> => k \in queued' \cup active'
    BY <1>1, <1>2, <1>7, <2>1 DEF Marks, ShouldRequeue
  <2>5. Marks'
    BY <1>2, <1>4, <2>1, <2>3, <2>4 DEF Marks
  <2> QED BY <1>5, <2>2, <2>5
<1> QED BY <1>6, <1>7

\* A requeued key is in the queue before anybody can offer it again.
LEMMA RequeueInv ==
  ASSUME Inv, Requeue
  PROVE  Inv'
<1> USE DEF Inv
<1>1. /\ pc = "requeue" /\ queue' = Append(queue, current) /\ pc' = "take" /\ current' = NoKey
      /\ UNCHANGED <<latest, queued, active, sent, handed, draining>>
  BY DEF Requeue, state, GoOn
<1>2. current \in Keys /\ Holds(current) /\ ~ Within(queue, current)
  BY <1>1 DEF TypeOK, Marks, Holds
<1>3. queue \in Seq(Keys) /\ Distinct(queue)
  BY DEF TypeOK, Distinct
<1>4. /\ Distinct(queue')
      /\ \A k : Within(queue', k) <=> Within(queue, k) \/ k = current
  BY <1>1, <1>2, <1>3, AppendWithin
<1>5. queue' \in Seq(Keys)
  BY <1>1, <1>2, <1>3, AppendProperties
<1>6. TypeOK'
  BY <1>1, <1>4, <1>5 DEF TypeOK, Distinct
<1>7. Marks'
  <2>1. \A k \in Keys : Holds(k) <=> k = current
    BY <1>1 DEF Holds
  <2>2. \A k \in Keys : ~ Holds(k)'
    BY <1>1 DEF Holds
  <2>3. active' = {}
    BY <1>1 DEF Marks
  <2> QED BY <1>1, <1>4, <2>1, <2>2, <2>3 DEF Marks
<1>8. EachValueOnce'
  BY <1>1 DEF EachValueOnce
<1> QED BY <1>6, <1>7, <1>8

\* Calls and answers of drainKey change nothing of the worker.
LEMMA CallersInv ==
  ASSUME Inv, NEW k \in Keys, DrainKey(k) \/ DrainReturns(k)
  PROVE  Inv'
<1>1. UNCHANGED <<queue, latest, queued, active, pc, current, sent, handed>>
  BY DEF DrainKey, DrainReturns, state, fiber
<1>2. draining' \subseteq Keys
  BY DEF DrainKey, DrainReturns, Inv, TypeOK
<1>3. TypeOK'
  BY <1>1, <1>2 DEF Inv, TypeOK
<1>4. Marks'
  BY <1>1 DEF Inv, Marks, Within, Holds
<1>5. EachValueOnce'
  BY <1>1 DEF Inv, EachValueOnce
<1> QED BY <1>3, <1>4, <1>5 DEF Inv

\* Inv is inductive.
THEOREM Invariance == Spec => []Inv
<1>1. Init => Inv
  BY InitInv
<1>2. Inv /\ [Next]_vars => Inv'
  <2> SUFFICES ASSUME Inv, [Next]_vars PROVE Inv'
    OBVIOUS
  <2>1. CASE Take
    BY <2>1, TakeInv
  <2>2. CASE Start
    BY <2>2, StartInv
  <2>3. CASE ProcessSucceeds
    BY <2>3, ProcessSucceedsInv
  <2>4. CASE ProcessFails
    BY <2>4, ProcessFailsInv
  <2>5. CASE Requeue
    BY <2>5, RequeueInv
  <2>6. ASSUME NEW k \in Keys, Enqueue(k) PROVE Inv'
    BY <2>6, EnqueueInv
  <2>7. ASSUME NEW k \in Keys, DrainKey(k) \/ DrainReturns(k) PROVE Inv'
    BY <2>7, CallersInv
  <2>8. CASE UNCHANGED vars
    BY <2>8 DEF vars, state, fiber, Inv, TypeOK, Marks, Within, Holds, EachValueOnce
  <2> QED BY <2>1, <2>2, <2>3, <2>4, <2>5, <2>6, <2>7, <2>8 DEF Next
<1> QED BY <1>1, <1>2, PTL DEF Spec

-------------------------------------------------------------------------------
(* What follows from it                                                     *)

\* TypeOK holds of every reachable state; in particular enqueue, which offers a
\* key only when it is neither queued nor active, never has a key queued twice.
THEOREM TypeCorrect == Spec => []TypeOK
<1>1. Inv => TypeOK
  BY DEF Inv
<1> QED BY <1>1, Invariance, PTL

\* EachValueOnce: whatever fails and whoever enqueues in between, processKey hands
\* over every value once and in order.
THEOREM ValuesAreHandedOnce == Spec => []EachValueOnce
<1>1. Inv => EachValueOnce
  BY DEF Inv
<1> QED BY <1>1, Invariance, PTL

\* NothingStranded: a key with a value left is one the fiber will come to, also
\* between the two transactions of a take and of a requeue.
THEOREM NothingIsStranded == Spec => []NothingStranded
<1>1. Inv => NothingStranded
  <2> SUFFICES ASSUME Inv, NEW k \in Keys
               PROVE  /\ latest[k] # <<>> => k \in queued \cup active
                      /\ k \in queued => InQueue(k) \/ Holds(k)
                      /\ k \in active => pc = "process" /\ current = k
    BY DEF NothingStranded
  <2> QED BY DEF Inv, Marks, Within, InQueue
<1> QED BY <1>1, Invariance, PTL

-------------------------------------------------------------------------------
(* The mailbox                                                              *)

Handed == [k \in Keys |-> Len(handed[k])]
Busy   == {k \in Keys : pc = "process" /\ current = k}

\* What has been handed over and what waits are all that was enqueued.
LEMMA Lengths ==
  ASSUME Inv, NEW k \in Keys
  PROVE  /\ Len(handed[k]) \in Nat /\ Len(latest[k]) \in Nat /\ sent[k] \in Nat
         /\ Len(handed[k]) + Len(latest[k]) = sent[k]
<1>1. handed[k] \in Seq(Nat) /\ latest[k] \in Seq(Nat) /\ sent[k] \in Nat
  BY DEF Inv, TypeOK
<1>2. Len(handed[k]) \in Nat /\ Len(latest[k]) \in Nat
  BY <1>1, LenProperties
<1>3. Len(handed[k] \o latest[k]) = Len(handed[k]) + Len(latest[k])
  BY <1>1, ConcatProperties
<1>4. handed[k] \o latest[k] = [n \in 1 .. sent[k] |-> n]
  BY DEF Inv, EachValueOnce
<1>5. Len([n \in 1 .. sent[k] |-> n]) = sent[k]
  BY <1>1, CountAppend
<1> QED BY <1>1, <1>2, <1>3, <1>4, <1>5

\* A key of which nothing waits has been handed everything.
LEMMA NothingLeft ==
  ASSUME Inv, NEW k \in Keys, latest[k] = <<>>
  PROVE  Len(handed[k]) = sent[k]
<1>1. Len(latest[k]) = 0
  BY EmptySeq
<1>2. Len(handed[k]) \in Nat /\ sent[k] \in Nat /\ Len(handed[k]) + Len(latest[k]) = sent[k]
  BY Lengths
<1> QED BY <1>1, <1>2

\* Handing over is the step Hand of the mailbox.
LEMMA HandOverHands ==
  ASSUME Inv, NEW k \in Keys, k = current, latest[current] # <<>>, HandOver,
         UNCHANGED <<sent, draining>>
  PROVE  Mailbox!Hand(k)
<1>1. latest[current] \in Seq(Nat)
  BY DEF Inv, TypeOK
<1>2. Len(latest[current]) # 0 /\ Len(latest[current]) \in Nat
  BY <1>1, EmptySeq, LenProperties
<1>3. Len(handed[current]) < sent[current]
  <2>1. \A m, n, s \in Nat : m + n = s /\ n # 0 => m < s
    OBVIOUS
  <2>2. /\ Len(handed[current]) \in Nat /\ sent[current] \in Nat
        /\ Len(handed[current]) + Len(latest[current]) = sent[current]
    BY Lengths
  <2> QED BY <1>2, <2>1, <2>2, Zenon
<1>4. /\ latest'[current] = <<>> /\ current' = current /\ pc' = "process"
      /\ \A l \in Keys : l # current => handed'[l] = handed[l]
  BY HandOverValues DEF HandOver
<1>5. Len(handed'[current]) = sent[current]
  <2>1. handed'[current] = handed[current] \o latest[current]
    BY DEF HandOver, Inv, TypeOK
  <2>2. Len(handed[current] \o latest[current]) = Len(handed[current]) + Len(latest[current])
    BY <1>1, ConcatProperties DEF Inv, TypeOK
  <2> QED BY <2>1, <2>2, Lengths
<1>6. Handed' = [Handed EXCEPT ![current] = sent[current]]
  BY <1>4, <1>5 DEF Handed
<1>7. Busy' = Busy \cup {current}
  BY <1>4 DEF Busy
<1>8. Handed[current] < sent[current]
  BY <1>3 DEF Handed
<1> QED BY <1>6, <1>7, <1>8 DEF Mailbox!Hand, Handed, Busy

\* The worker starts as an empty mailbox.
LEMMA InitMailbox == Init => Mailbox!Init
<1> SUFFICES ASSUME Init PROVE Mailbox!Init
  OBVIOUS
<1>1. \A k \in Keys : handed[k] = <<>>
  BY DEF Init
<1>2. [k \in Keys |-> Len(handed[k])] = [k \in Keys |-> 0]
  BY <1>1, EmptySeq
<1>3. {k \in Keys : pc = "process" /\ current = k} = {}
  BY DEF Init
<1> QED BY <1>2, <1>3 DEF Init, Mailbox!Init

\* Each step of the worker is one of the mailbox or changes nothing of it.
LEMMA StepMailbox ==
  ASSUME Inv, [Next]_vars
  PROVE  [Mailbox!Next]_(Mailbox!vars)
<1> DEFINE Stutter == Handed' = Handed /\ Busy' = Busy /\ UNCHANGED <<sent, draining>>
<1>1. Stutter => UNCHANGED Mailbox!vars
  BY DEF Mailbox!vars, Handed, Busy
<1>2. pc # "take" => current \in Keys
  BY DEF Inv, TypeOK
<1>3. CASE Take
  <2>1. Handed' = Handed /\ UNCHANGED <<sent, draining>>
    BY <1>3 DEF Take, Handed
  <2>2. Busy = {} /\ Busy' = {}
    BY <1>3 DEF Take, Busy
  <2> QED BY <1>1, <2>1, <2>2
<1>4. CASE Requeue
  <2>1. Handed' = Handed /\ UNCHANGED <<sent, draining>>
    BY <1>4 DEF Requeue, Handed
  <2>2. Busy = {} /\ Busy' = {}
    BY <1>4 DEF Requeue, GoOn, Busy
  <2> QED BY <1>1, <2>1, <2>2
<1>5. CASE Start /\ latest[current] = <<>>
  <2>1. Handed' = Handed /\ UNCHANGED <<sent, draining>>
    BY <1>5 DEF Start, Handed
  <2>2. Busy = {} /\ Busy' = {}
    BY <1>5 DEF Start, GoOn, Busy
  <2> QED BY <1>1, <2>1, <2>2
<1>6. CASE Start /\ latest[current] # <<>>
  <2>1. HandOver /\ UNCHANGED <<sent, draining>>
    BY <1>6 DEF Start
  <2>2. PICK k \in Keys : k = current
    BY <1>2, <1>6 DEF Start
  <2>3. Mailbox!Hand(k)
    BY <1>6, <2>1, <2>2, HandOverHands
  <2> QED BY <2>3 DEF Mailbox!Next
<1>7. CASE ProcessSucceeds /\ latest[current] # <<>>
  <2>1. HandOver /\ UNCHANGED <<sent, draining>>
    BY <1>7 DEF ProcessSucceeds
  <2>2. PICK k \in Keys : k = current
    BY <1>2, <1>7 DEF ProcessSucceeds
  <2>3. Mailbox!Hand(k)
    BY <1>7, <2>1, <2>2, HandOverHands
  <2> QED BY <2>3 DEF Mailbox!Next
<1>8. CASE (ProcessSucceeds /\ latest[current] = <<>>) \/ ProcessFails
  <2>1. pc = "process" /\ UNCHANGED <<handed, sent, draining>> /\ pc' # "process"
    BY <1>8 DEF ProcessSucceeds, ProcessFails, GoOn
  <2>2. Handed' = Handed
    BY <2>1 DEF Handed
  <2>. PICK k \in Keys : k = current
    BY <1>2, <2>1
  <2>3. k \in Busy /\ Busy' = Busy \ {k}
    BY <2>1 DEF Busy
  <2>4. Mailbox!Finish(k)
    BY <2>1, <2>2, <2>3 DEF Mailbox!Finish, Handed, Busy
  <2> QED BY <2>4 DEF Mailbox!Next
<1>9. ASSUME NEW k \in Keys, Enqueue(k) PROVE Mailbox!Next
  <2>1. Handed' = Handed /\ Busy' = Busy
    BY <1>9 DEF Enqueue, fiber, Handed, Busy
  <2>2. Mailbox!Put(k)
    BY <1>9, <2>1 DEF Enqueue, Mailbox!Put, Handed, Busy
  <2> QED BY <2>2 DEF Mailbox!Next
<1>10. ASSUME NEW k \in Keys, DrainKey(k) PROVE Mailbox!Next
  <2>1. Handed' = Handed /\ Busy' = Busy
    BY <1>10 DEF DrainKey, fiber, Handed, Busy
  <2>2. Mailbox!Drain(k)
    BY <1>10, <2>1 DEF DrainKey, Mailbox!Drain, Handed, Busy
  <2> QED BY <2>2 DEF Mailbox!Next
<1>11. ASSUME NEW k \in Keys, DrainReturns(k) PROVE Mailbox!Next
  <2>1. Handed' = Handed /\ Busy' = Busy
    BY <1>11 DEF DrainReturns, fiber, Handed, Busy
  <2>2. Handed[k] = sent[k]
    BY <1>11, NothingLeft DEF DrainReturns, Drained, Handed
  <2>3. k \notin Busy
    BY <1>11 DEF DrainReturns, Drained, Inv, Marks, Busy
  <2>4. Mailbox!Drained(k)
    BY <1>11, <2>1, <2>2, <2>3 DEF DrainReturns, Mailbox!Drained, Handed, Busy
  <2> QED BY <2>4 DEF Mailbox!Next
<1>12. CASE UNCHANGED vars
  <2>1. Stutter
    BY <1>12 DEF vars, fiber, Handed, Busy
  <2> QED BY <1>1, <2>1
<1> QED BY <1>3, <1>4, <1>5, <1>6, <1>7, <1>8, <1>9, <1>10, <1>11, <1>12 DEF Next

\* ImplementsMailbox: for those who enqueue and drain, KeyedCoalescingWorker is a
\* mailbox per key.
THEOREM WorkerIsMailbox == Spec => ImplementsMailbox
<1>1. Init => Mailbox!Init
  BY InitMailbox
<1>2. Inv /\ [Next]_vars => [Mailbox!Next]_(Mailbox!vars)
  BY StepMailbox
<1> QED BY <1>1, <1>2, Invariance, PTL DEF Spec, ImplementsMailbox, Mailbox!Spec

===============================================================================
