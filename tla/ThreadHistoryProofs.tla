-------------------------- MODULE ThreadHistoryProofs --------------------------
(***************************************************************************)
(* The safety properties of ThreadHistory, for every number of turns, late  *)
(* reports, failures, reverts, crashes and rebuilds: the tables by themselves*)
(* (checkpoint counts, the summary, types, what a revert leaves), the tables *)
(* and the log (rebuilds), and, for a server that has not crashed, the tables*)
(* and the read model.                                                       *)
(***************************************************************************)
EXTENDS ThreadHistory, ThreadProjectionsProofs

-------------------------------------------------------------------------------
(* What a step does to the tables                                           *)

\* A running server projects what it appends, one event or two.
Emits ==
  /\ mode = "running" /\ mode' = "running"
  /\ \/ \E e : log' = Append(log, e) /\ db' = ProjectEvent(db, e)
     \/ \E e, f : log' = log \o <<e, f>> /\ db' = ProjectEvent(ProjectEvent(db, e), f)
  /\ \E n : cursor' = [p \in Names |-> Len(log) + n] /\ Len(log') = Len(log) + n

\* Neither the log nor the tables change.
Idles ==
  /\ UNCHANGED stored
  /\ \/ mode' = mode
     \/ mode' \in {"down", "booting"}
     \/ mode = "booting" /\ \A p \in Names : cursor[p] = Len(log)

\* Emit and EmitBoth are what Emits says.
LEMMA EmitEmits ==
  ASSUME mode = "running", mode' = mode, IsSequence(log)
  PROVE  /\ \A e : Emit(e) => Emits
         /\ \A e, f : EmitBoth(e, f) => Emits
<1>1. PICK S : log \in Seq(S)
  BY DEF IsSequence
<1>2. ASSUME NEW e, Emit(e) PROVE Emits
  <2>1. log' = Append(log, e) /\ db' = ProjectEvent(db, e) /\ cursor' = [p \in Names |-> Len(log) + 1]
    BY <1>2 DEF Emit
  <2>2. log \in Seq(S \cup {e})
    BY <1>1
  <2>3. Len(Append(log, e)) = Len(log) + 1
    BY <2>2
  <2> QED BY <2>1, <2>3 DEF Emits
<1>3. ASSUME NEW e, NEW f, EmitBoth(e, f) PROVE Emits
  <2>1. /\ log' = log \o <<e, f>> /\ db' = ProjectEvent(ProjectEvent(db, e), f)
        /\ cursor' = [p \in Names |-> Len(log) + 2]
    BY <1>3 DEF EmitBoth
  <2>2. log \in Seq(S \cup {e, f}) /\ <<e, f>> \in Seq(S \cup {e, f})
    BY <1>1
  <2>3. Len(log \o <<e, f>>) = Len(log) + 2
    BY <2>2
  <2> QED BY <2>1, <2>3 DEF Emits
<1> QED BY <1>2, <1>3

\* Only a running server appends, only a bootstrap applies one projector, and
\* only a lost file empties the tables.
LEMMA Steps ==
  ASSUME [Next]_vars, IsSequence(log)
  PROVE  Emits \/ Idles \/ DropTables \/ \E k \in DOMAIN Projectors : BootstrapEvent(k)
<1>1. ASSUME NEW p, StartTurn(p) PROVE Emits
  BY <1>1, EmitEmits DEF StartTurn
<1>2. ASSUME Interrupt PROVE Emits
  BY <1>2, EmitEmits DEF Interrupt
<1>3. ASSUME NEW n, RequestRevert(n) PROVE Idles
  BY <1>3 DEF RequestRevert, Idles
<1>4. ASSUME BindSession PROVE Emits
  BY <1>4, EmitEmits DEF BindSession
<1>5. ASSUME TurnStarted \/ AuxiliaryStarted PROVE Idles
  BY <1>5 DEF TurnStarted, AuxiliaryStarted, Ingest, Idles
<1>6. ASSUME NEW t, \/ Complete(t) \/ AssistantDelta(t) \/ PlanCompleted(t)
                    \/ DiffUpdated(t) \/ TurnCompleted(t)
      PROVE  Idles
  BY <1>6 DEF Complete, AssistantDelta, PlanCompleted, DiffUpdated, TurnCompleted, Ingest, Idles
<1>7. ASSUME IngestionDispatch PROVE Emits
  BY <1>7, EmitEmits DEF IngestionDispatch
<1>8. ASSUME ReactorTake \/ ReactorFails \/ IngestionFails PROVE Idles
  BY <1>8 DEF ReactorTake, ReactorFails, IngestionFails, Idles
<1>9. ASSUME ReactorDispatch PROVE Emits
  BY <1>9, EmitEmits DEF ReactorDispatch
<1>10. ASSUME Crash \/ StartBootstrap PROVE Idles
  BY <1>10 DEF Crash, StartBootstrap, Idles, stored
<1>11. ASSUME StartEngine PROVE Idles
  BY <1>11 DEF StartEngine, Idles
<1>12. ASSUME UNCHANGED vars PROVE Idles
  BY <1>12 DEF vars, Idles
<1> QED
  BY <1>1, <1>2, <1>3, <1>4, <1>5, <1>6, <1>7, <1>8, <1>9, <1>10, <1>11, <1>12 DEF Next

-------------------------------------------------------------------------------
(* Checkpoint counts                                                        *)

TablesInv == IsSequence(log) /\ Tables(db)

\* The tables and the log are empty at first.
LEMMA TablesInvInit == Init => TablesInv
<1>1. <<>> \in Seq({})
  OBVIOUS
<1> QED BY <1>1, EmptyTables DEF Init, TablesInv, IsSequence

\* TablesInv is inductive.
LEMMA TablesInvNext == TablesInv /\ [Next]_vars => TablesInv'
<1> SUFFICES ASSUME TablesInv, [Next]_vars PROVE TablesInv'
  OBVIOUS
<1>1. IsSequence(log) /\ Tables(db)
  BY DEF TablesInv
<1>2. PICK S : log \in Seq(S)
  BY <1>1 DEF IsSequence
<1>3. CASE Emits
  <2>1. IsSequence(log')
    <3>1. ASSUME NEW e, log' = Append(log, e) PROVE IsSequence(log')
      <4>1. log \in Seq(S \cup {e})
        BY <1>2
      <4>2. log' \in Seq(S \cup {e})
        BY <3>1, <4>1
      <4> QED BY <4>2 DEF IsSequence
    <3>2. ASSUME NEW e, NEW f, log' = log \o <<e, f>> PROVE IsSequence(log')
      <4>1. log \in Seq(S \cup {e, f}) /\ <<e, f>> \in Seq(S \cup {e, f})
        BY <1>2
      <4>2. log' \in Seq(S \cup {e, f})
        BY <3>2, <4>1
      <4> QED BY <4>2 DEF IsSequence
    <3> QED BY <1>3, <3>1, <3>2 DEF Emits
  <2>2. Tables(db')
    <3>1. \A e : Tables(ProjectEvent(db, e))
      BY <1>1, ProjectEventTables
    <3>2. \A e, f : Tables(ProjectEvent(ProjectEvent(db, e), f))
      BY <3>1, ProjectEventTables
    <3> QED BY <1>3, <3>1, <3>2 DEF Emits
  <2> QED BY <2>1, <2>2 DEF TablesInv
<1>4. CASE Idles
  BY <1>1, <1>4 DEF Idles, stored, TablesInv
<1>5. CASE DropTables
  BY <1>1, <1>5, EmptyTables DEF DropTables, TablesInv
<1>6. ASSUME NEW k \in DOMAIN Projectors, BootstrapEvent(k) PROVE TablesInv'
  <2>1. log' = log /\ db' = Apply(Projectors[k], db, EventAfter(Projectors[k]))
    BY <1>6 DEF BootstrapEvent
  <2>2. Tables(db')
    BY <1>1, <2>1, ApplyTables
  <2> QED BY <1>1, <2>1, <2>2 DEF TablesInv
<1> QED BY <1>1, <1>3, <1>4, <1>5, <1>6, Steps

\* TablesInv holds of every reachable state.
LEMMA TablesInvariant == Spec => []TablesInv
BY TablesInvInit, TablesInvNext, PTL DEF Spec

\* CheckpointsDistinct: however the workers' stale reads, reverts, crashes and
\* rebuilds interleave, upsertByTurnId after clearCheckpointTurnConflict leaves a
\* checkpoint count with one turn.
THEOREM CheckpointsAreDistinct == Spec => []CheckpointsDistinct
<1>1. TablesInv => CheckpointsDistinct
  BY DEF TablesInv, Tables, Counts, CheckpointsDistinct, Checkpoints
<1> QED BY <1>1, TablesInvariant, PTL

-------------------------------------------------------------------------------
(* The summary in a rebuild                                                 *)

\* No projector is behind the last one.
CursorInv ==
  /\ cursor \in [Range(Projectors) -> 0..Len(log)]
  /\ \A p \in Names : cursor["threads"] <= cursor[p]
  /\ mode = "running" => cursor["threads"] = Len(log)

\* A summary that is not fresh is one the threads projector will still refresh.
ToRefresh == \E j \in cursor["threads"] + 1 .. Len(log) : log[j].type \in Refreshing

FreshInv == TablesInv /\ CursorInv /\ (Fresh(db) \/ ToRefresh)

\* The projectors by their places in the pipeline.
LEMMA ProjectorNames ==
  /\ Range(Projectors) = {"threadMessages", "threadProposedPlans", "threadSessions",
                          "threadTurns", "threads"}
  /\ DOMAIN Projectors = 1..5
  /\ Projectors[5] = "threads"
  /\ \A k \in 1..4 : Projectors[k] # "threads"
  /\ \A k \in 1..5 : Projectors[k] \in Range(Projectors)
<1>1. DOMAIN Projectors = 1..5
  BY DEF Projectors
<1>2. /\ Projectors[1] = "threadMessages" /\ Projectors[2] = "threadProposedPlans"
      /\ Projectors[3] = "threadSessions" /\ Projectors[4] = "threadTurns"
      /\ Projectors[5] = "threads"
  BY DEF Projectors
<1>3. 1..5 = {1, 2, 3, 4, 5} /\ 1..4 = {1, 2, 3, 4}
  OBVIOUS
<1>4. Range(Projectors) = {Projectors[k] : k \in {1, 2, 3, 4, 5}}
  BY <1>1, <1>3 DEF Range
<1> QED BY <1>1, <1>2, <1>3, <1>4

\* The initial tables are fresh.
LEMMA FreshInvInit == Init => FreshInv
<1> SUFFICES ASSUME Init PROVE FreshInv
  OBVIOUS
<1>1. TablesInv /\ Fresh(db)
  BY TablesInvInit, EmptyIsFresh DEF Init
<1>2. cursor = [p \in Range(Projectors) |-> 0] /\ Len(log) = 0
  BY DEF Init
<1>3. CursorInv
  BY <1>2, ProjectorNames DEF CursorInv, Names
<1> QED BY <1>1, <1>3 DEF FreshInv

\* A bootstrap leaves the summary fresh or still to be refreshed.
LEMMA FreshInvBootstrap ==
  ASSUME FreshInv, TablesInv', NEW k \in DOMAIN Projectors, BootstrapEvent(k)
  PROVE  FreshInv'
<1> DEFINE p == Projectors[k]
           e == EventAfter(p)
<1>1. k \in 1..5 /\ p \in Range(Projectors)
  BY ProjectorNames
<1>2. /\ cursor \in [Range(Projectors) -> 0..Len(log)] /\ Len(log) \in Nat
      /\ "threads" \in Range(Projectors)
  <2>1. PICK S : log \in Seq(S)
    BY DEF FreshInv, TablesInv, IsSequence
  <2> QED BY <2>1, ProjectorNames DEF FreshInv, CursorInv
<1>3. /\ mode = "booting" /\ mode' = mode /\ log' = log /\ cursor[p] < Len(log)
      /\ \A j \in 1..(k - 1) : cursor[Projectors[j]] = Len(log)
      /\ db' = Apply(p, db, e) /\ cursor' = [cursor EXCEPT ![p] = @ + 1]
  BY DEF BootstrapEvent
<1>4. e = log[cursor[p] + 1]
  BY DEF EventAfter
<1>5. Tables(db) /\ \A q \in Range(Projectors) : cursor["threads"] <= cursor[q]
  BY <1>2 DEF FreshInv, TablesInv, CursorInv, Names
<1> HIDE DEF p, e
<1>6. cursor' \in [Range(Projectors) -> 0..Len(log)] /\ cursor'[p] = cursor[p] + 1
  BY <1>1, <1>2, <1>3
<1>7. CASE k \in 1..4
  <2>1. p # "threads"
    BY <1>7, ProjectorNames DEF p
  <2>2. cursor'["threads"] = cursor["threads"]
    BY <1>1, <1>2, <1>3, <2>1
  <2>3. \A q \in Range(Projectors) : cursor'["threads"] <= cursor'[q]
    BY <1>1, <1>2, <1>3, <1>5, <2>2
  <2>4. CursorInv'
    BY <1>2, <1>3, <1>6, <2>2, <2>3 DEF CursorInv, Names
  <2>5. ASSUME e.type \in Refreshing PROVE ToRefresh'
    <3>1. cursor[p] + 1 \in cursor["threads"] + 1 .. Len(log)
      BY <1>1, <1>2, <1>3, <1>5
    <3> QED BY <1>3, <1>4, <2>2, <2>5, <3>1 DEF ToRefresh
  <2>6. ASSUME e.type \notin Refreshing PROVE Same(db, db')
    <3>1. Same(db, db)
      BY DEF Same
    <3>2. p \in {"threadMessages", "threadProposedPlans", "threadSessions", "threadTurns"}
      BY <1>1, <2>1, ProjectorNames
    <3> QED BY <1>3, <1>5, <2>6, <3>1, <3>2, OthersSame, TurnsSame DEF Apply
  <2>7. Fresh(db)' \/ ToRefresh'
    <3>1. CASE e.type \in Refreshing
      BY <2>5, <3>1
    <3>2. CASE e.type \notin Refreshing /\ Fresh(db)
      BY <2>6, <3>2, SameFresh
    <3>3. CASE ToRefresh
      BY <1>3, <2>2, <3>3 DEF ToRefresh
    <3> QED BY <3>1, <3>2, <3>3 DEF FreshInv
  <2> QED BY <2>4, <2>7 DEF FreshInv
<1>8. CASE k = 5
  <2>1. p = "threads" /\ db' = ApplyThreads(db, e)
    BY <1>3, <1>8, ProjectorNames DEF Apply, p
  <2>2. \A q \in Range(Projectors) : q # p => cursor[q] = Len(log)
    <3>1. \A j \in 1..4 : cursor[Projectors[j]] = Len(log)
      BY <1>3, <1>8
    <3>2. cursor["threadMessages"] = Len(log) /\ cursor["threadProposedPlans"] = Len(log)
          /\ cursor["threadSessions"] = Len(log) /\ cursor["threadTurns"] = Len(log)
      BY <3>1 DEF Projectors
    <3> QED BY <2>1, <3>2, ProjectorNames
  <2>3. \A q \in Range(Projectors) : cursor'["threads"] <= cursor'[q]
    BY <1>1, <1>2, <1>3, <2>1, <2>2
  <2>4. CursorInv'
    BY <1>2, <1>3, <1>6, <2>3 DEF CursorInv, Names
  <2>5. ASSUME e.type \in Refreshing PROVE Fresh(db)'
    BY <1>5, <2>1, <2>5, ThreadsFresh
  <2>6. ASSUME e.type \notin Refreshing PROVE Fresh(db)' \/ ToRefresh'
    <3>1. db' = db
      BY <2>1, <2>6, OthersSame
    <3>2. ASSUME ToRefresh PROVE ToRefresh'
      <4>1. PICK j \in cursor["threads"] + 1 .. Len(log) : log[j].type \in Refreshing
        BY <3>2 DEF ToRefresh
      <4>2. j # cursor["threads"] + 1
        BY <1>4, <2>1, <2>6, <4>1
      <4>3. j \in cursor'["threads"] + 1 .. Len(log)
        BY <1>2, <1>6, <2>1, <4>1, <4>2
      <4> QED BY <1>3, <4>1, <4>3 DEF ToRefresh
    <3> QED BY <3>1, <3>2 DEF FreshInv
  <2> QED BY <2>4, <2>5, <2>6 DEF FreshInv
<1> QED BY <1>1, <1>7, <1>8

\* FreshInv is inductive.
LEMMA FreshInvNext == FreshInv /\ [Next]_vars => FreshInv'
<1> SUFFICES ASSUME FreshInv, [Next]_vars PROVE FreshInv'
  OBVIOUS
<1>1. TablesInv /\ TablesInv' /\ IsSequence(log) /\ Tables(db) /\ IsSequence(log)'
  BY TablesInvNext DEF FreshInv, TablesInv
<1>2. Len(log) \in Nat /\ Len(log)' \in Nat
  <2>1. PICK S : log \in Seq(S)
    BY <1>1 DEF IsSequence
  <2>2. PICK T : log' \in Seq(T)
    BY <1>1 DEF IsSequence
  <2> QED BY <2>1, <2>2
<1>3. Names = Range(Projectors) /\ "threads" \in Names
  BY ProjectorNames DEF FreshInv, CursorInv, Names
<1>4. CASE Emits
  <2>1. Fresh(db)
    <3>1. cursor["threads"] = Len(log)
      BY <1>4 DEF Emits, FreshInv, CursorInv
    <3> QED BY <1>2, <3>1 DEF FreshInv, ToRefresh
  <2>2. \A e : Tables(ProjectEvent(db, e)) /\ Fresh(ProjectEvent(db, e))
    BY <1>1, <2>1, ProjectEventTables, ProjectEventFresh
  <2>3. \A e, f : Fresh(ProjectEvent(ProjectEvent(db, e), f))
    BY <2>2, ProjectEventFresh
  <2>4. Fresh(db')
    BY <1>4, <2>2, <2>3 DEF Emits
  <2>5. cursor' = [p \in Names |-> Len(log')]
    BY <1>4 DEF Emits
  <2>6. CursorInv'
    <3>1. DOMAIN cursor' = Range(Projectors)
      BY <1>3, <2>5
    <3> QED BY <1>2, <1>3, <2>5, <3>1 DEF CursorInv, Names
  <2> QED BY <1>1, <2>4, <2>6 DEF FreshInv
<1>5. CASE Idles
  <2>1. UNCHANGED <<log, db, cursor>>
    BY <1>5 DEF Idles, stored
  <2>2. mode' = "running" => cursor["threads"] = Len(log)
    BY <1>3, <1>5 DEF Idles, FreshInv, CursorInv
  <2>3. CursorInv'
    BY <2>1, <2>2 DEF FreshInv, CursorInv, Names
  <2> QED BY <1>1, <2>1, <2>3 DEF FreshInv, ToRefresh
<1>6. CASE DropTables
  <2>1. db' = EmptyDb /\ cursor' = [p \in Names |-> 0] /\ log' = log /\ mode' # "running"
    BY <1>6 DEF DropTables, FreshCursors
  <2>2. CursorInv'
    <3>1. DOMAIN cursor' = Range(Projectors)
      BY <1>3, <2>1
    <3> QED BY <1>2, <1>3, <2>1, <3>1 DEF CursorInv, Names
  <2> QED BY <1>1, <2>1, <2>2, EmptyIsFresh DEF FreshInv
<1>7. ASSUME NEW k \in DOMAIN Projectors, BootstrapEvent(k) PROVE FreshInv'
  BY <1>1, <1>7, FreshInvBootstrap
<1> QED BY <1>1, <1>4, <1>5, <1>6, <1>7, Steps

\* ShellIsFresh: the summary of a running server is that of its tables, also when
\* crashes cut off the bootstrap and lost tables are rebuilt projector by projector.
THEOREM SummaryIsFresh == Spec => []ShellIsFresh
<1>1. FreshInv => ShellIsFresh
  <2> SUFFICES ASSUME FreshInv, mode = "running"
               PROVE  RefreshShell(db, db.shell.latestTurn) = db
    BY DEF ShellIsFresh
  <2>1. PICK S : log \in Seq(S)
    BY DEF FreshInv, TablesInv, IsSequence
  <2>2. Fresh(db)
    BY <2>1 DEF FreshInv, CursorInv, ToRefresh
  <2> QED BY <2>2, FreshIsRefreshed DEF FreshInv, TablesInv
<1> QED BY <1>1, FreshInvInit, FreshInvNext, PTL DEF Spec

-------------------------------------------------------------------------------
(* Types                                                                    *)

\* An event of the thread with a count up to n, if it has one.
Fits(e, n) == EventTyped(e, Turns) /\ (e.type = "turn-diff-completed" => e.count <= n)

\* What the reactor may hear of.
HeardFits(e, n) ==
  \/ e.type = "turn.completed" /\ e.turn \in Turns /\ e.status \in {"ready", "missing", "error"}
  \/ e.type = "turn-diff-completed" /\ Fits(e, n)
  \/ e.type = "checkpoint-revert-requested" /\ e.count \in Nat

\* The turns requested.
IsStart(e) == e.type = "turn-start-requested"
Starts(l)  == {i \in DOMAIN l : IsStart(l[i])}

\* A count belongs to an event, so there are no more counts than events.
LogFits ==
  /\ IsSequence(log)
  /\ Len(log) <= MaxEvents
  /\ \A i \in DOMAIN log : Fits(log[i], Len(log))

DbFits == Typed(db, Turns) /\ Below(db.turns, Len(log))

IngestFits ==
  /\ IsSequence(ingest)
  /\ Len(ingest) <= 2
  /\ \A i \in DOMAIN ingest : Fits(ingest[i], Len(log) + 1) /\ ~ IsStart(ingest[i])

CaptureFits ==
  /\ IsSequence(capture)
  /\ Len(capture) <= 1
  /\ \A i \in DOMAIN capture : /\ Fits(capture[i], Len(log) + 1)
                               /\ capture[i].type \in {"turn-diff-completed", "reverted"}

InboxFits == IsSequence(inbox) /\ \A i \in DOMAIN inbox : HeardFits(inbox[i], Len(log) + 1)

\* The provider takes no request that was not made.
RequestsFit ==
  /\ requests \in Nat
  /\ requests <= Cardinality(Starts(log))
  /\ Cardinality(Starts(log)) <= MaxRequests

ProcessFits ==
  /\ mode \in {"down", "booting", "running"}
  /\ attached \in BOOLEAN
  /\ ran \in Seq({"running", "completed", "over"}) /\ Len(ran) <= MaxTurns
  /\ failures \in Seq(Turns \cup {NoTurn}) /\ Len(failures) <= MaxFailures

TypeInv == LogFits /\ DbFits /\ IngestFits /\ CaptureFits /\ InboxFits /\ RequestsFit /\ ProcessFits

\* What fits goes on to fit.
LEMMA FitsLater ==
  ASSUME NEW e, NEW n \in Nat, NEW m \in Nat, n <= m
  PROVE  (Fits(e, n) => Fits(e, m)) /\ (HeardFits(e, n) => HeardFits(e, m))
<1>1. Fits(e, n) => Fits(e, m)
  BY DEF Fits, EventTyped
<1> QED BY <1>1 DEF HeardFits

\* No turn is NoTurn.
LEMMA TurnsArePositive ==
  /\ NoTurn \notin Turns
  /\ MaxTurns \in Nat /\ MaxEvents \in Nat /\ MaxRequests \in Nat /\ MaxFailures \in Nat
BY HistoryAssumption DEF Turns, NoTurn

\* UserTurns counts the requests.
LEMMA CountedTurns == UserTurns = Cardinality(Starts(log))
BY DEF UserTurns, Count, Starts, IsStart

\* An event appended to a log.
LEMMA Appended ==
  ASSUME NEW l, NEW e, IsSequence(l)
  PROVE  /\ IsSequence(Append(l, e)) /\ Len(l) \in Nat /\ Len(Append(l, e)) = Len(l) + 1
         /\ DOMAIN l = 1..Len(l) /\ DOMAIN Append(l, e) = 1..(Len(l) + 1)
         /\ \A i \in DOMAIN l : Append(l, e)[i] = l[i]
         /\ Append(l, e)[Len(l) + 1] = e
<1>1. PICK S : l \in Seq(S)
  BY DEF IsSequence
<1>2. l \in Seq(S \cup {e})
  BY <1>1
<1>3. Append(l, e) \in Seq(S \cup {e})
  BY <1>2
<1> QED BY <1>1, <1>2, <1>3 DEF IsSequence

\* It counts, if it is a request.
LEMMA AppendedCounts ==
  ASSUME NEW l, NEW e, IsSequence(l)
  PROVE  /\ Cardinality(Starts(l)) \in Nat
         /\ Cardinality(Starts(Append(l, e))) = Cardinality(Starts(l)) + (IF IsStart(e) THEN 1 ELSE 0)
<1> DEFINE m == Append(l, e)
           n == Len(l)
<1>1. /\ n \in Nat /\ DOMAIN l = 1..n /\ DOMAIN m = 1..(n + 1)
      /\ (\A i \in 1..n : m[i] = l[i]) /\ m[n + 1] = e
  BY Appended
<1> HIDE DEF m, n
<1>2. /\ Starts(l) \subseteq 1..n
      /\ Starts(m) = IF IsStart(e) THEN Starts(l) \cup {n + 1} ELSE Starts(l)
  BY <1>1 DEF Starts
<1>3. /\ Cardinality(Starts(l)) \in Nat
      /\ Cardinality(Starts(l) \cup {n + 1}) = Cardinality(Starts(l)) + 1
  BY <1>1, <1>2, OneMore
<1> QED BY <1>2, <1>3 DEF m

\* The tail of a sequence, and one with a few more.
LEMMA Parts ==
  ASSUME NEW s, IsSequence(s)
  PROVE  /\ DOMAIN s = 1..Len(s) /\ Len(s) \in Nat
         /\ s # <<>> => /\ IsSequence(Tail(s)) /\ Len(Tail(s)) = Len(s) - 1
                        /\ DOMAIN Tail(s) = 1..(Len(s) - 1)
                        /\ \A i \in DOMAIN Tail(s) : Tail(s)[i] = s[i + 1]
                        /\ 1 \in DOMAIN s /\ Head(s) = s[1]
<1>1. PICK S : s \in Seq(S)
  BY DEF IsSequence
<1>2. DOMAIN s = 1..Len(s) /\ Len(s) \in Nat
  BY <1>1
<1>3. ASSUME s # <<>>
      PROVE  /\ Tail(s) \in Seq(S) /\ Len(Tail(s)) = Len(s) - 1
             /\ \A i \in 1..(Len(s) - 1) : Tail(s)[i] = s[i + 1]
             /\ Len(s) # 0 /\ Head(s) = s[1]
  BY <1>1, <1>3
<1>4. ASSUME s # <<>> PROVE DOMAIN Tail(s) = 1..(Len(s) - 1)
  BY <1>2, <1>3, <1>4
<1> QED BY <1>2, <1>3, <1>4 DEF IsSequence

LEMMA ShortSequences ==
  /\ IsSequence(<<>>) /\ DOMAIN <<>> = {} /\ Len(<<>>) = 0
  /\ \A x : /\ IsSequence(<<x>>) /\ DOMAIN <<x>> = {1} /\ Len(<<x>>) = 1 /\ <<x>>[1] = x
  /\ \A x, y : /\ IsSequence(<<x, y>>) /\ DOMAIN <<x, y>> = {1, 2} /\ Len(<<x, y>>) = 2
               /\ <<x, y>>[1] = x /\ <<x, y>>[2] = y
<1>1. IsSequence(<<>>) /\ DOMAIN <<>> = {} /\ Len(<<>>) = 0
  <2>1. <<>> \in Seq({})
    OBVIOUS
  <2> QED BY <2>1 DEF IsSequence
<1>2. ASSUME NEW x PROVE IsSequence(<<x>>) /\ DOMAIN <<x>> = {1} /\ Len(<<x>>) = 1 /\ <<x>>[1] = x
  <2>1. <<x>> \in Seq({x})
    OBVIOUS
  <2>2. IsSequence(<<x>>)
    BY <2>1 DEF IsSequence
  <2>3. Len(<<x>>) = 1 /\ <<x>>[1] = x
    OBVIOUS
  <2>4. DOMAIN <<x>> = 1..1
    BY <2>1, <2>3
  <2> QED BY <2>2, <2>3, <2>4
<1>3. ASSUME NEW x, NEW y
      PROVE  /\ IsSequence(<<x, y>>) /\ DOMAIN <<x, y>> = {1, 2} /\ Len(<<x, y>>) = 2
             /\ <<x, y>>[1] = x /\ <<x, y>>[2] = y
  <2>1. <<x, y>> \in Seq({x, y})
    OBVIOUS
  <2>2. IsSequence(<<x, y>>)
    BY <2>1 DEF IsSequence
  <2>3. Len(<<x, y>>) = 2 /\ <<x, y>>[1] = x /\ <<x, y>>[2] = y
    OBVIOUS
  <2>4. DOMAIN <<x, y>> = 1..2
    BY <2>1, <2>3
  <2> QED BY <2>2, <2>3, <2>4
<1> QED BY <1>1, <1>2, <1>3

LEMMA ShortlyJoined ==
  /\ <<>> \o <<>> = <<>>
  /\ \A x : <<>> \o <<x>> = <<x>> /\ <<x>> \o <<>> = <<x>>
  /\ \A x, y : <<x>> \o <<y>> = <<x, y>>
<1>1. \A S : \A s \in Seq(S) : <<>> \o s = s /\ s \o <<>> = s
  OBVIOUS
<1>2. \A x : <<x>> \in Seq({x}) /\ <<>> \in Seq({x})
  OBVIOUS
<1>3. ASSUME NEW x, NEW y PROVE <<x>> \o <<y>> = <<x, y>>
  <2>1. <<x>> \in Seq({x, y}) /\ <<y>> \in Seq({x, y}) /\ <<x, y>> \in Seq({x, y})
    OBVIOUS
  <2>2. <<x>> \o <<y>> \in Seq({x, y}) /\ Len(<<x>> \o <<y>>) = 2
    BY <2>1
  <2>3. (<<x>> \o <<y>>)[1] = x /\ (<<x>> \o <<y>>)[2] = y
    BY <2>1
  <2>4. Len(<<x, y>>) = 2 /\ <<x, y>>[1] = x /\ <<x, y>>[2] = y
    OBVIOUS
  <2>5. \A s, t \in Seq({x, y}) : Len(s) = 2 /\ Len(t) = 2 /\ s[1] = t[1] /\ s[2] = t[2] => s = t
    OBVIOUS
  <2> QED BY <2>1, <2>2, <2>3, <2>4, <2>5
<1> QED BY <1>1, <1>2, <1>3

\* The inbox grows by what the reactor hears.
LEMMA InboxGrows ==
  ASSUME NEW s, NEW e, NEW n, IsSequence(s), \A i \in DOMAIN s : HeardFits(s[i], n), Fits(e, n)
  PROVE  LET more == s \o Heard(e)
         IN IsSequence(more) /\ \A i \in DOMAIN more : HeardFits(more[i], n)
<1> DEFINE h == Heard(e)
<1>1. IsSequence(h) /\ \A i \in DOMAIN h : HeardFits(h[i], n)
  <2>1. CASE h = <<>>
    BY <2>1, ShortSequences
  <2>2. CASE h # <<>>
    <3>1. h = <<e>> /\ e.type = "turn-diff-completed"
      BY <2>2 DEF Heard
    <3> QED BY <3>1, ShortSequences DEF HeardFits
  <2> QED BY <2>1, <2>2
<1> HIDE DEF h
<1>2. PICK S : s \in Seq(S)
  BY DEF IsSequence
<1>3. PICK R : h \in Seq(R)
  BY <1>1 DEF IsSequence
<1>4. s \in Seq(S \cup R) /\ h \in Seq(S \cup R)
  BY <1>2, <1>3
<1>5. s \o h \in Seq(S \cup R)
  BY <1>4
<1>6. /\ DOMAIN s = 1..Len(s) /\ DOMAIN h = 1..Len(h) /\ Len(s) \in Nat /\ Len(h) \in Nat
      /\ DOMAIN (s \o h) = 1..(Len(s) + Len(h))
      /\ \A i \in 1..(Len(s) + Len(h)) : (s \o h)[i] = IF i <= Len(s) THEN s[i] ELSE h[i - Len(s)]
  BY <1>4
<1>7. ASSUME NEW i \in DOMAIN (s \o h) PROVE HeardFits((s \o h)[i], n)
  <2>1. CASE i <= Len(s)
    BY <1>6, <2>1
  <2>2. CASE ~ i <= Len(s)
    <3>1. i - Len(s) \in DOMAIN h
      BY <1>6, <2>2
    <3> QED BY <1>1, <1>6, <2>2, <3>1
  <2> QED BY <2>1, <2>2
<1> QED BY <1>5, <1>7 DEF IsSequence, h

\* The log and the tables after an event that fits.
LEMMA EmitFits ==
  ASSUME LogFits, DbFits, NEW e, Fits(e, Len(log) + 1), Len(log) < MaxEvents,
         log' = Append(log, e), db' = ProjectEvent(db, e)
  PROVE  LogFits' /\ DbFits' /\ Len(log') = Len(log) + 1 /\ Len(log) \in Nat
<1>1. /\ IsSequence(log') /\ Len(log) \in Nat /\ Len(log') = Len(log) + 1
      /\ DOMAIN log = 1..Len(log) /\ DOMAIN log' = 1..(Len(log) + 1)
      /\ \A i \in DOMAIN log : log'[i] = log[i]
      /\ log'[Len(log) + 1] = e
  BY Appended DEF LogFits
<1>2. LogFits'
  <2>1. ASSUME NEW i \in 1..(Len(log) + 1) PROVE Fits(log'[i], Len(log) + 1)
    <3>1. CASE i = Len(log) + 1
      BY <1>1, <3>1
    <3>2. CASE i \in 1..Len(log)
      BY <1>1, <3>2, FitsLater DEF LogFits
    <3> QED BY <1>1, <3>1, <3>2
  <2>2. Len(log') <= MaxEvents
    BY <1>1, TurnsArePositive
  <2> QED BY <1>1, <2>1, <2>2 DEF LogFits, Fits
<1>3. DbFits'
  <2>1. Typed(db, Turns) /\ NoTurn \notin Turns /\ EventTyped(e, Turns) /\ Len(log) + 1 \in Nat
    BY <1>1, TurnsArePositive DEF DbFits, Fits
  <2>2. Below(db.turns, Len(log) + 1)
    BY <1>1 DEF DbFits, Typed, RowsTyped, RowTyped, Below
  <2>3. Typed(ProjectEvent(db, e), Turns)
    BY <2>1, ProjectTyped
  <2>4. Below(ProjectEvent(db, e).turns, Len(log) + 1)
    BY <2>1, <2>2, AppliedBelow DEF Fits
  <2> QED BY <1>1, <2>3, <2>4 DEF DbFits
<1> QED BY <1>1, <1>2, <1>3

\* What waits goes on to fit, as the log grows.
LEMMA WaitingFits ==
  ASSUME TypeInv, Len(log') \in Nat, Len(log) <= Len(log')
  PROVE  /\ UNCHANGED ingest => IngestFits'
         /\ UNCHANGED capture => CaptureFits'
         /\ UNCHANGED inbox => InboxFits'
         /\ \A i \in DOMAIN inbox : HeardFits(inbox[i], Len(log') + 1)
<1>1. Len(log) \in Nat
  BY Parts DEF TypeInv, LogFits
<1>2. \A e : (Fits(e, Len(log) + 1) => Fits(e, Len(log') + 1))
             /\ (HeardFits(e, Len(log) + 1) => HeardFits(e, Len(log') + 1))
  BY <1>1, FitsLater
<1>3. UNCHANGED ingest => IngestFits'
  BY <1>2 DEF TypeInv, IngestFits, Fits, IsStart
<1>4. UNCHANGED capture => CaptureFits'
  BY <1>2 DEF TypeInv, CaptureFits, Fits
<1>5. \A i \in DOMAIN inbox : HeardFits(inbox[i], Len(log') + 1)
  BY <1>2 DEF TypeInv, InboxFits
<1>6. UNCHANGED inbox => InboxFits'
  BY <1>5 DEF TypeInv, InboxFits, HeardFits, Fits
<1> QED BY <1>3, <1>4, <1>5, <1>6

\* The types hold at first.
LEMMA TypeInvInit == Init => TypeInv
<1> SUFFICES ASSUME Init PROVE TypeInv
  OBVIOUS
<1>1. /\ log = <<>> /\ db = EmptyDb /\ mode = "running" /\ requests = 0 /\ attached = TRUE
      /\ ran = <<>> /\ inbox = <<>> /\ ingest = <<>> /\ capture = <<>> /\ failures = <<>>
  BY DEF Init
<1>2. IsSequence(<<>>) /\ DOMAIN <<>> = {} /\ Len(<<>>) = 0
  BY ShortSequences
<1>3. LogFits /\ IngestFits /\ CaptureFits /\ InboxFits /\ ProcessFits
  BY <1>1, <1>2, TurnsArePositive DEF LogFits, IngestFits, CaptureFits, InboxFits, ProcessFits
<1>4. DbFits
  <2>1. DOMAIN EmptyDb.turns = {}
    BY <1>2 DEF EmptyDb
  <2> QED BY <1>1, <2>1, EmptyTyped DEF DbFits, Below
<1>5. RequestsFit
  <2>1. Starts(log) = {}
    BY <1>1, <1>2 DEF Starts
  <2>2. Cardinality(Starts(log)) = 0
    BY <2>1, FS_EmptySet
  <2> QED BY <1>1, <2>2, TurnsArePositive DEF RequestsFit
<1> QED BY <1>3, <1>4, <1>5 DEF TypeInv

\* The highest count, and the counts of new checkpoints.
LEMMA CountsFit ==
  ASSUME TypeInv, NEW t
  PROVE  /\ MaxCount + 1 \in Nat \ {NoCount} /\ MaxCount + 1 <= Len(log) + 1
         /\ CaptureCount(t) \in Nat \ {NoCount} /\ CaptureCount(t) <= Len(log) + 1
<1> DEFINE S == {0} \cup {db.turns[u].count : u \in Checkpoints}
<1>1. Len(log) \in Nat
  BY Parts DEF TypeInv, LogFits
<1>2. \A u \in Checkpoints : db.turns[u].count \in 1..Len(log)
  BY <1>1 DEF Checkpoints, TypeInv, DbFits, Below, Typed, RowsTyped, RowTyped, NoCount
<1>3. S \subseteq 0..Len(log) /\ S # {}
  BY <1>1, <1>2
<1>4. MaxCount \in 0..Len(log)
  <2>1. MaxCount = Max(S)
    BY DEF MaxCount
  <2> HIDE DEF S
  <2>2. Max(S) \in S
    BY <1>1, <1>3, MaxIsGreatest
  <2> QED BY <1>3, <2>1, <2>2
<1>5. MaxCount + 1 \in Nat \ {NoCount} /\ MaxCount + 1 <= Len(log) + 1
  BY <1>1, <1>4 DEF NoCount
<1> QED BY <1>1, <1>2, <1>5 DEF CaptureCount, NoCount

\* A step that appends an event.
LEMMA OneEvent ==
  ASSUME TypeInv, NEW e, Fits(e, Len(log) + 1), Emit(e)
  PROVE  /\ LogFits' /\ DbFits' /\ Len(log') = Len(log) + 1 /\ Len(log) \in Nat /\ Len(log') \in Nat
         /\ Cardinality(Starts(log)) \in Nat
         /\ Cardinality(Starts(log')) = Cardinality(Starts(log)) + (IF IsStart(e) THEN 1 ELSE 0)
<1>1. LogFits /\ DbFits /\ IsSequence(log)
  BY DEF TypeInv, LogFits
<1>2. Len(log) < MaxEvents /\ log' = Append(log, e) /\ db' = ProjectEvent(db, e)
  BY DEF Emit
<1>3. LogFits' /\ DbFits' /\ Len(log') = Len(log) + 1 /\ Len(log) \in Nat
  BY <1>1, <1>2, EmitFits
<1> QED BY <1>1, <1>2, <1>3, AppendedCounts

\* A turn start appends two and is one more turn requested.
LEMMA StartTurnFits ==
  ASSUME TypeInv, NEW plan, StartTurn(plan)
  PROVE  TypeInv'
<1> DEFINE id == Message("user", UserTurns + 1)
           e  == MessageSent(id, NoTurn, 1, FALSE)
           f  == TurnStartRequested(id, plan)
           once == Append(log, e)
<1>1. /\ UserTurns < MaxRequests /\ requests' = requests + 1
      /\ UNCHANGED <<mode, attached, ran, inbox, ingest, capture, failures>>
      /\ Len(log) + 1 < MaxEvents /\ log' = log \o <<e, f>>
      /\ db' = ProjectEvent(ProjectEvent(db, e), f)
  BY DEF StartTurn, EmitBoth, bounds
<1>2. /\ e.type = "message-sent" /\ e.turn = NoTurn /\ e.id.role = "user"
      /\ f.type = "turn-start-requested" /\ f.message.role = "user"
  BY DEF MessageSent, TurnStartRequested, Message
<1> HIDE DEF e, f
<1>3. \A n : Fits(e, n) /\ Fits(f, n)
  <2>1. EventTyped(e, Turns)
    BY <1>2 DEF EventTyped
  <2>2. EventTyped(f, Turns)
    BY <1>2 DEF EventTyped
  <2> QED BY <1>2, <2>1, <2>2 DEF Fits
<1>4. IsSequence(log) /\ Len(log) \in Nat
  BY Parts DEF TypeInv, LogFits
<1>5. IsSequence(once) /\ Len(once) = Len(log) + 1
  BY <1>4, Appended
<1>6. log' = Append(once, f)
  <2>1. PICK S : log \in Seq(S)
    BY <1>4 DEF IsSequence
  <2>2. log \in Seq(S \cup {e, f}) /\ <<e, f>> \in Seq(S \cup {e, f})
    BY <2>1
  <2>3. log \o <<e, f>> = Append(Append(log, e), f)
    BY <2>2
  <2> QED BY <1>1, <2>3
<1>7. Len(log') = Len(log) + 2
  BY <1>4, <1>5, <1>6, Appended
<1>8. LogFits'
  <2>1. /\ IsSequence(log') /\ DOMAIN log' = 1..(Len(log) + 2)
        /\ \A i \in 1..Len(log) : log'[i] = log[i]
        /\ log'[Len(log) + 1] = e /\ log'[Len(log) + 2] = f
    <3>1. /\ DOMAIN once = 1..(Len(log) + 1) /\ once[Len(log) + 1] = e
          /\ \A i \in 1..Len(log) : once[i] = log[i]
      BY <1>4, Appended
    <3> HIDE DEF once
    <3>2. /\ IsSequence(log') /\ DOMAIN log' = 1..(Len(once) + 1)
          /\ \A i \in DOMAIN once : log'[i] = once[i]
          /\ log'[Len(once) + 1] = f
      BY <1>5, <1>6, Appended
    <3> QED BY <1>4, <1>5, <3>1, <3>2
  <2>2. ASSUME NEW i \in 1..(Len(log) + 2) PROVE Fits(log'[i], Len(log) + 2)
    <3>1. i \in 1..Len(log) \/ i = Len(log) + 1 \/ i = Len(log) + 2
      BY <1>4
    <3>2. i \in 1..Len(log) => Fits(log[i], Len(log) + 2)
      BY <1>4, FitsLater, Parts DEF TypeInv, LogFits
    <3> QED BY <1>3, <2>1, <3>1, <3>2
  <2>3. Len(log') <= MaxEvents
    BY <1>1, <1>4, <1>7, TurnsArePositive
  <2> QED BY <1>7, <2>1, <2>2, <2>3 DEF LogFits, Fits
<1>9. DbFits'
  <2>1. /\ Typed(db, Turns) /\ NoTurn \notin Turns /\ EventTyped(e, Turns) /\ EventTyped(f, Turns)
        /\ Below(db.turns, Len(log) + 2) /\ Len(log) + 2 \in Nat
    BY <1>3, <1>4, TurnsArePositive DEF TypeInv, DbFits, Fits, Typed, RowsTyped, RowTyped, Below
  <2> DEFINE d == ProjectEvent(db, e)
  <2>2. Typed(d, Turns)
    BY <2>1, ProjectTyped
  <2>3. Below(d.turns, Len(log) + 2)
    BY <1>2, <2>1, AppliedBelow
  <2> HIDE DEF d
  <2>4. Typed(ProjectEvent(d, f), Turns)
    BY <2>1, <2>2, ProjectTyped
  <2>5. Below(ProjectEvent(d, f).turns, Len(log) + 2)
    BY <1>2, <2>1, <2>2, <2>3, AppliedBelow
  <2> QED BY <1>1, <1>7, <2>4, <2>5 DEF DbFits, d
<1>10. IngestFits' /\ CaptureFits' /\ InboxFits'
  BY <1>1, <1>4, <1>7, WaitingFits
<1>11. RequestsFit'
  <2>1. /\ Cardinality(Starts(log)) \in Nat
        /\ Cardinality(Starts(once)) = Cardinality(Starts(log))
    BY <1>2, <1>4, AppendedCounts DEF IsStart
  <2> HIDE DEF once
  <2>2. Cardinality(Starts(Append(once, f))) = Cardinality(Starts(once)) + 1
    BY <1>2, <1>5, AppendedCounts DEF IsStart
  <2>3. Cardinality(Starts(log)) < MaxRequests
    BY <1>1, CountedTurns
  <2>4. requests \in Nat /\ requests <= Cardinality(Starts(log))
    BY DEF TypeInv, RequestsFit
  <2>5. Cardinality(Starts(log')) = Cardinality(Starts(log)) + 1
    BY <1>6, <2>1, <2>2
  <2> QED BY <1>1, <2>1, <2>3, <2>4, <2>5, TurnsArePositive DEF RequestsFit
<1>12. ProcessFits'
  BY <1>1 DEF TypeInv, ProcessFits
<1> QED BY <1>8, <1>9, <1>10, <1>11, <1>12 DEF TypeInv

\* A step that appends one event which is no turn start, and leaves ingestion alone.
LEMMA SingleFits ==
  ASSUME TypeInv, NEW e, Fits(e, Len(log) + 1), Emit(e), ~ IsStart(e),
         UNCHANGED <<mode, requests, ran, ingest, failures>>, attached' \in BOOLEAN,
         UNCHANGED inbox \/ inbox' = inbox \o Heard(e),
         UNCHANGED capture \/ capture' = <<>>
  PROVE  TypeInv'
<1>1. /\ LogFits' /\ DbFits' /\ Len(log') = Len(log) + 1 /\ Len(log) \in Nat /\ Len(log') \in Nat
      /\ Cardinality(Starts(log)) \in Nat
      /\ Cardinality(Starts(log')) = Cardinality(Starts(log))
  BY OneEvent
<1>2. /\ IngestFits' /\ (UNCHANGED capture => CaptureFits')
      /\ (UNCHANGED inbox => InboxFits') /\ \A i \in DOMAIN inbox : HeardFits(inbox[i], Len(log') + 1)
  BY <1>1, WaitingFits
<1>3. CaptureFits'
  BY <1>2, ShortSequences DEF CaptureFits
<1>4. InboxFits'
  <2>1. IsSequence(inbox) /\ Fits(e, Len(log') + 1)
    BY <1>1, FitsLater DEF TypeInv, InboxFits
  <2>2. LET more == inbox \o Heard(e)
        IN IsSequence(more) /\ \A i \in DOMAIN more : HeardFits(more[i], Len(log') + 1)
    BY <1>2, <2>1, InboxGrows
  <2>3. inbox' = inbox \o Heard(e) => InboxFits'
    BY <2>2 DEF InboxFits, HeardFits, Fits
  <2> QED BY <1>2, <2>3
<1>5. RequestsFit'
  BY <1>1 DEF TypeInv, RequestsFit
<1>6. ProcessFits'
  BY DEF TypeInv, ProcessFits
<1> QED BY <1>1, <1>2, <1>3, <1>4, <1>5, <1>6 DEF TypeInv

\* What is dispatched is the first of what ingestion is about to have appended.
LEMMA IngestionFits ==
  ASSUME TypeInv, IngestionDispatch
  PROVE  TypeInv'
<1> DEFINE e == Head(ingest)
<1>1. /\ ingest # <<>> /\ Emit(e) /\ inbox' = inbox \o Heard(e) /\ ingest' = Tail(ingest)
      /\ UNCHANGED <<mode, requests, attached, ran, capture, failures>>
  BY DEF IngestionDispatch, provider, bounds
<1>2. /\ DOMAIN ingest = 1..Len(ingest) /\ Len(ingest) \in Nat /\ Len(ingest) <= 2
      /\ IsSequence(Tail(ingest)) /\ Len(Tail(ingest)) = Len(ingest) - 1
      /\ DOMAIN Tail(ingest) = 1..(Len(ingest) - 1)
      /\ \A i \in DOMAIN Tail(ingest) : Tail(ingest)[i] = ingest[i + 1]
      /\ 1 \in DOMAIN ingest /\ e = ingest[1]
  BY <1>1, Parts DEF TypeInv, IngestFits
<1>3. Fits(e, Len(log) + 1) /\ ~ IsStart(e)
  BY <1>2 DEF TypeInv, IngestFits
<1> HIDE DEF e
<1>4. /\ LogFits' /\ DbFits' /\ Len(log') = Len(log) + 1 /\ Len(log) \in Nat /\ Len(log') \in Nat
      /\ Cardinality(Starts(log)) \in Nat
      /\ Cardinality(Starts(log')) = Cardinality(Starts(log))
  BY <1>1, <1>3, OneEvent
<1>5. CaptureFits' /\ \A i \in DOMAIN inbox : HeardFits(inbox[i], Len(log') + 1)
  BY <1>1, <1>4, WaitingFits
<1>6. InboxFits'
  <2>1. IsSequence(inbox) /\ Fits(e, Len(log') + 1)
    BY <1>3, <1>4, FitsLater DEF TypeInv, InboxFits
  <2>2. LET more == inbox \o Heard(e)
        IN IsSequence(more) /\ \A i \in DOMAIN more : HeardFits(more[i], Len(log') + 1)
    BY <1>5, <2>1, InboxGrows
  <2> QED BY <1>1, <2>2 DEF InboxFits, HeardFits, Fits
<1>7. \A i \in DOMAIN ingest' : /\ i + 1 \in DOMAIN ingest /\ ingest'[i] = ingest[i + 1]
                                /\ i \in Nat
  BY <1>1, <1>2
<1>8. IngestFits'
  <2>1. ASSUME NEW i \in DOMAIN ingest'
        PROVE  Fits(ingest'[i], Len(log') + 1) /\ ~ IsStart(ingest'[i])
    <3>1. Fits(ingest[i + 1], Len(log) + 1) /\ ~ IsStart(ingest[i + 1])
      BY <1>7 DEF TypeInv, IngestFits
    <3> QED BY <1>4, <1>7, <3>1, FitsLater
  <2>2. IsSequence(ingest') /\ Len(ingest') <= 2
    BY <1>1, <1>2
  <2> QED BY <2>1, <2>2 DEF IngestFits, Fits, IsStart
<1>9. RequestsFit'
  BY <1>1, <1>4 DEF TypeInv, RequestsFit
<1>10. ProcessFits'
  BY <1>1 DEF TypeInv, ProcessFits
<1> QED BY <1>4, <1>5, <1>6, <1>8, <1>9, <1>10 DEF TypeInv

\* A step that appends nothing, when what it leaves waiting fits.
LEMMA QuietFits ==
  ASSUME TypeInv, UNCHANGED stored, IngestFits', CaptureFits', InboxFits',
         requests' \in Nat, requests' <= requests, ProcessFits'
  PROVE  TypeInv'
<1>1. UNCHANGED <<log, db>>
  BY DEF stored
<1>2. LogFits' /\ DbFits'
  BY <1>1 DEF TypeInv, LogFits, DbFits, Fits
<1>3. RequestsFit'
  <2>1. IsSequence(log)
    BY DEF TypeInv, LogFits
  <2>2. Cardinality(Starts(log)) \in Nat
    BY <2>1, AppendedCounts
  <2>3. Cardinality(Starts(log))' = Cardinality(Starts(log))
    BY <1>1 DEF Starts, IsStart
  <2>4. requests \in Nat /\ requests <= Cardinality(Starts(log)) /\ Cardinality(Starts(log)) <= MaxRequests
    BY DEF TypeInv, RequestsFit
  <2>5. requests' <= Cardinality(Starts(log))
    BY <2>2, <2>4
  <2> QED BY <2>3, <2>4, <2>5 DEF RequestsFit
<1> QED BY <1>2, <1>3 DEF TypeInv

\* Ingestion takes a report.
LEMMA ReportFits ==
  ASSUME TypeInv, NEW events, Ingest(events), requests' \in Nat, requests' <= requests,
         ran' \in Seq({"running", "completed", "over"}), Len(ran') <= MaxTurns,
         IsSequence(events), Len(events) <= 2,
         \A i \in DOMAIN events : Fits(events[i], Len(log) + 1) /\ ~ IsStart(events[i])
  PROVE  TypeInv'
<1>1. /\ ingest' = events /\ UNCHANGED stored
      /\ UNCHANGED <<log, mode, attached, inbox, capture, failures>>
  BY DEF Ingest, stored, bounds
<1>2. IngestFits'
  BY <1>1 DEF IngestFits, Fits, IsStart
<1>3. CaptureFits' /\ InboxFits' /\ ProcessFits'
  BY <1>1 DEF TypeInv, CaptureFits, InboxFits, ProcessFits, Fits, HeardFits
<1> QED BY <1>1, <1>2, <1>3, QuietFits

\* The events that ingestion and the reactor make are typed.
LEMMA MadeEvents ==
  ASSUME NEW t \in Turns
  PROVE  /\ \A n, text, streaming :
              LET e == MessageSent(Message("assistant", t), t, text, streaming)
              IN Fits(e, n) /\ ~ IsStart(e)
         /\ \A n, implemented : LET e == PlanUpserted(t, implemented)
                                IN Fits(e, n) /\ ~ IsStart(e)
         /\ \A n : Fits(SessionSet("running", t), n) /\ ~ IsStart(SessionSet("running", t))
         /\ \A n : LET e == SessionSet("ready", NoTurn)
                   IN Fits(e, n) /\ ~ IsStart(e)
         /\ \A n : LET e == InterruptRequested(t)
                   IN Fits(e, n) /\ ~ IsStart(e)
         /\ \A n : \A count \in Nat \ {NoCount}, status \in {"ready", "missing", "error"},
                     ref \in {"placeholder", "git"} :
              LET e == TurnDiffCompleted(t, count, status, ref, Message("assistant", t))
              IN (count <= n => Fits(e, n)) /\ ~ IsStart(e)
<1>1. ASSUME NEW n, NEW text, NEW streaming
      PROVE  LET e == MessageSent(Message("assistant", t), t, text, streaming)
             IN Fits(e, n) /\ ~ IsStart(e)
  BY DEF MessageSent, Fits, EventTyped, IsStart
<1>2. ASSUME NEW n, NEW implemented
      PROVE  LET e == PlanUpserted(t, implemented)
             IN Fits(e, n) /\ ~ IsStart(e)
  BY DEF PlanUpserted, Fits, EventTyped, IsStart
<1>3. \A n : Fits(SessionSet("running", t), n) /\ ~ IsStart(SessionSet("running", t))
  BY DEF SessionSet, Fits, EventTyped, IsStart
<1>4. \A n : LET e == SessionSet("ready", NoTurn)
             IN Fits(e, n) /\ ~ IsStart(e)
  BY DEF SessionSet, Fits, EventTyped, IsStart
<1>5. \A n : LET e == InterruptRequested(t)
             IN Fits(e, n) /\ ~ IsStart(e)
  BY DEF InterruptRequested, Fits, EventTyped, IsStart
<1>6. ASSUME NEW count \in Nat \ {NoCount}, NEW status \in {"ready", "missing", "error"},
             NEW ref \in {"placeholder", "git"}, NEW n
      PROVE  LET e == TurnDiffCompleted(t, count, status, ref, Message("assistant", t))
             IN (count <= n => Fits(e, n)) /\ ~ IsStart(e)
  BY DEF TurnDiffCompleted, Fits, EventTyped, IsStart
<1> QED BY <1>1, <1>2, <1>3, <1>4, <1>5, <1>6

\* The turn that begins is one more.
LEMMA OneMoreRan ==
  ASSUME TypeInv, Len(ran) < MaxTurns, ran' = Append(ran, "running")
  PROVE  /\ ran' \in Seq({"running", "completed", "over"}) /\ Len(ran') <= MaxTurns
         /\ Len(ran) + 1 \in Turns
<1>1. ran \in Seq({"running", "completed", "over"})
  BY DEF TypeInv, ProcessFits
<1>2. Len(ran) \in Nat /\ Len(ran') = Len(ran) + 1
  BY <1>1
<1> QED BY <1>1, <1>2, TurnsArePositive DEF Turns

\* Ingestion of what the provider reports.
LEMMA TurnStartedFits == TypeInv /\ TurnStarted => TypeInv'
<1> SUFFICES ASSUME TypeInv, TurnStarted PROVE TypeInv'
  OBVIOUS
<1> DEFINE source == [turn |-> db.pending.plan, implemented |-> FALSE]
           run    == SessionSet("running", Len(ran) + 1)
           mark   == PlanUpserted(source.turn, TRUE)
           events == IF source \in Range(db.plans) THEN <<mark, run>> ELSE <<run>>
<1>1. /\ requests > 0 /\ requests' = requests - 1 /\ Ingest(events)
      /\ Len(ran) < MaxTurns /\ ran' = Append(ran, "running")
  BY DEF TurnStarted
<1>2. /\ ran' \in Seq({"running", "completed", "over"}) /\ Len(ran') <= MaxTurns
      /\ Len(ran) + 1 \in Turns
  BY <1>1, OneMoreRan
<1>3. \A n : Fits(run, n) /\ ~ IsStart(run)
  BY <1>2, MadeEvents
<1>4. source \in Range(db.plans) => \A n : Fits(mark, n) /\ ~ IsStart(mark)
  <2>1. source \in Range(db.plans) => source.turn \in Turns
    BY DEF TypeInv, DbFits, Typed, PlansTyped
  <2> HIDE DEF source
  <2> QED BY <2>1, MadeEvents
<1> HIDE DEF run, mark, source
<1>5. /\ IsSequence(events) /\ Len(events) <= 2
      /\ \A i \in DOMAIN events : Fits(events[i], Len(log) + 1) /\ ~ IsStart(events[i])
  <2>1. CASE source \in Range(db.plans)
    <3>1. events = <<mark, run>>
      BY <2>1
    <3> QED BY <1>3, <1>4, <2>1, <3>1, ShortSequences
  <2>2. CASE source \notin Range(db.plans)
    <3>1. events = <<run>>
      BY <2>2
    <3> QED BY <1>3, <3>1, ShortSequences
  <2> QED BY <2>1, <2>2
<1>6. requests' \in Nat /\ requests' <= requests
  BY <1>1 DEF TypeInv, RequestsFit
<1> HIDE DEF events
<1> QED BY <1>1, <1>2, <1>5, <1>6, ReportFits

LEMMA AuxiliaryStartedFits == TypeInv /\ AuxiliaryStarted => TypeInv'
<1> SUFFICES ASSUME TypeInv, AuxiliaryStarted PROVE TypeInv'
  OBVIOUS
<1>1. PICK taken \in 0..1 : taken <= requests /\ requests' = requests - taken
  BY DEF AuxiliaryStarted
<1>2. requests' \in Nat /\ requests' <= requests
  BY <1>1 DEF TypeInv, RequestsFit
<1>3. /\ Len(ran) < MaxTurns /\ ran' = Append(ran, "running")
      /\ \A none : none = <<>> => Ingest(none)
  BY DEF AuxiliaryStarted
<1>4. ran' \in Seq({"running", "completed", "over"}) /\ Len(ran') <= MaxTurns
  BY <1>3, OneMoreRan
<1> QED BY <1>2, <1>3, <1>4, ShortSequences, ReportFits

LEMMA ReportsFit ==
  ASSUME TypeInv, NEW t \in Turns,
         AssistantDelta(t) \/ PlanCompleted(t) \/ DiffUpdated(t) \/ TurnCompleted(t)
  PROVE  TypeInv'
<1>1. requests' = requests /\ requests' \in Nat /\ requests' <= requests
  BY DEF AssistantDelta, PlanCompleted, DiffUpdated, TurnCompleted, TypeInv, RequestsFit
<1>2. ran' \in Seq({"running", "completed", "over"}) /\ Len(ran') <= MaxTurns
  <2>1. ran \in Seq({"running", "completed", "over"}) /\ Len(ran) <= MaxTurns
    BY DEF TypeInv, ProcessFits
  <2>2. ran' = ran \/ (t \in DOMAIN ran /\ ran' = [ran EXCEPT ![t] = "over"])
    BY DEF AssistantDelta, PlanCompleted, DiffUpdated, TurnCompleted
  <2> QED BY <2>1, <2>2
<1>3. ASSUME NEW e, Ingest(<<e>>), Fits(e, Len(log) + 1), ~ IsStart(e) PROVE TypeInv'
  <2> DEFINE events == <<e>>
  <2>1. /\ IsSequence(events) /\ Len(events) <= 2
        /\ \A i \in DOMAIN events : Fits(events[i], Len(log) + 1) /\ ~ IsStart(events[i])
    BY <1>3, ShortSequences
  <2>2. Ingest(events)
    BY <1>3
  <2> HIDE DEF events
  <2> QED BY <1>1, <1>2, <2>1, <2>2, ReportFits
<1>4. CASE AssistantDelta(t)
  <2>1. Ingest(<<MessageSent(Message("assistant", t), t, 1, TRUE)>>)
    BY <1>4 DEF AssistantDelta
  <2> QED BY <1>3, <2>1, MadeEvents
<1>5. CASE PlanCompleted(t)
  <2>1. Ingest(<<PlanUpserted(t, [turn |-> t, implemented |-> TRUE] \in Range(db.plans))>>)
    BY <1>5 DEF PlanCompleted
  <2> QED BY <1>3, <2>1, MadeEvents
<1>6. CASE DiffUpdated(t)
  <2> DEFINE count == MaxCount + 1
  <2>1. Ingest(<<TurnDiffCompleted(t, count, "missing", "placeholder", Message("assistant", t))>>)
    BY <1>6 DEF DiffUpdated
  <2>2. count \in Nat \ {NoCount} /\ count <= Len(log) + 1
    BY CountsFit
  <2> HIDE DEF count
  <2> DEFINE e == TurnDiffCompleted(t, count, "missing", "placeholder", Message("assistant", t))
  <2>3. Fits(e, Len(log) + 1) /\ ~ IsStart(e)
    BY <2>2, MadeEvents
  <2> HIDE DEF e
  <2> QED BY <1>3, <2>1, <2>3 DEF e
<1>7. CASE TurnCompleted(t)
  <2> DEFINE id    == Message("assistant", t)
             set   == SessionSet("ready", NoTurn)
             sent  == MessageSent(id, t, 0, FALSE)
             ready == IF Conflicts(t) THEN <<>> ELSE <<set>>
             final == IF \E m \in Range(db.messages) : m.id = id /\ m.streaming THEN <<sent>> ELSE <<>>
             events == ready \o final
  <2>1. Ingest(events)
    BY <1>7 DEF TurnCompleted
  <2>2. \A n : Fits(set, n) /\ ~ IsStart(set)
    BY MadeEvents
  <2>3. \A n : Fits(sent, n) /\ ~ IsStart(sent)
    BY MadeEvents
  <2>4. events \in {<<>>, <<set>>, <<sent>>, <<set, sent>>}
    <3>1. ready \in {<<>>, <<set>>} /\ final \in {<<>>, <<sent>>}
      OBVIOUS
    <3> HIDE DEF set, sent
    <3> HIDE DEF ready, final
    <3> QED BY <3>1, ShortlyJoined
  <2> HIDE DEF events, set, sent
  <2>5. /\ IsSequence(events) /\ Len(events) <= 2
        /\ \A i \in DOMAIN events : Fits(events[i], Len(log) + 1) /\ ~ IsStart(events[i])
    BY <2>2, <2>3, <2>4, ShortSequences
  <2> QED BY <1>1, <1>2, <2>1, <2>5, ReportFits
<1> QED BY <1>4, <1>5, <1>6, <1>7

\* What fails is counted, and what waits is less.
LEMMA IngestionFailsFits == TypeInv /\ IngestionFails => TypeInv'
<1> SUFFICES ASSUME TypeInv, IngestionFails PROVE TypeInv'
  OBVIOUS
<1>1. /\ ingest # <<>> /\ ingest' \in {Tail(ingest), <<>>}
      /\ Len(failures) < MaxFailures /\ failures' = Append(failures, NoTurn)
      /\ UNCHANGED stored /\ log' = log
      /\ UNCHANGED <<mode, requests, attached, ran, inbox, capture>>
  BY DEF IngestionFails, stored, provider
<1>2. /\ DOMAIN ingest = 1..Len(ingest) /\ Len(ingest) \in Nat /\ Len(ingest) <= 2
      /\ IsSequence(Tail(ingest)) /\ Len(Tail(ingest)) = Len(ingest) - 1
      /\ DOMAIN Tail(ingest) = 1..(Len(ingest) - 1)
      /\ \A i \in DOMAIN Tail(ingest) : Tail(ingest)[i] = ingest[i + 1]
  BY <1>1, Parts DEF TypeInv, IngestFits
<1>3. IngestFits'
  <2>1. CASE ingest' = <<>>
    BY <2>1, ShortSequences DEF IngestFits
  <2>2. CASE ingest' = Tail(ingest)
    <3>1. ASSUME NEW i \in DOMAIN ingest' PROVE Fits(ingest'[i], Len(log) + 1) /\ ~ IsStart(ingest'[i])
      <4>1. i + 1 \in DOMAIN ingest /\ ingest'[i] = ingest[i + 1]
        BY <1>2, <2>2
      <4> QED BY <4>1 DEF TypeInv, IngestFits
    <3>2. IsSequence(ingest') /\ Len(ingest') <= 2
      BY <1>2, <2>2
    <3> QED BY <1>1, <3>1, <3>2 DEF IngestFits, Fits, IsStart
  <2> QED BY <1>1, <2>1, <2>2
<1>4. CaptureFits' /\ InboxFits' /\ requests' \in Nat /\ requests' <= requests
  BY <1>1 DEF TypeInv, CaptureFits, InboxFits, RequestsFit, Fits, HeardFits
<1>5. ProcessFits'
  <2>1. failures \in Seq(Turns \cup {NoTurn})
    BY DEF TypeInv, ProcessFits
  <2>2. failures' \in Seq(Turns \cup {NoTurn}) /\ Len(failures') <= MaxFailures
    BY <1>1, <2>1, TurnsArePositive
  <2> QED BY <1>1, <2>2 DEF TypeInv, ProcessFits
<1> QED BY <1>1, <1>3, <1>4, <1>5, QuietFits

LEMMA ReactorFailsFits == TypeInv /\ ReactorFails => TypeInv'
<1> SUFFICES ASSUME TypeInv, ReactorFails PROVE TypeInv'
  OBVIOUS
<1> DEFINE e == Head(capture)
           turn == IF e.type = "reverted" THEN NoTurn ELSE e.turn
<1>1. /\ capture # <<>> /\ capture' = <<>>
      /\ Len(failures) < MaxFailures /\ failures' = Append(failures, turn)
      /\ UNCHANGED stored /\ log' = log
      /\ UNCHANGED <<mode, requests, attached, ran, inbox, ingest>>
  BY DEF ReactorFails, stored, provider
<1>2. e = capture[1] /\ 1 \in DOMAIN capture
  BY <1>1, Parts DEF TypeInv, CaptureFits
<1>3. Fits(e, Len(log) + 1) /\ e.type \in {"turn-diff-completed", "reverted"}
  BY <1>2 DEF TypeInv, CaptureFits
<1> HIDE DEF e
<1>4. turn \in Turns \cup {NoTurn}
  BY <1>3 DEF Fits, EventTyped
<1> HIDE DEF turn
<1>5. ProcessFits'
  <2>1. failures \in Seq(Turns \cup {NoTurn})
    BY DEF TypeInv, ProcessFits
  <2>2. failures' \in Seq(Turns \cup {NoTurn}) /\ Len(failures') <= MaxFailures
    BY <1>1, <1>4, <2>1, TurnsArePositive
  <2> QED BY <1>1, <2>2 DEF TypeInv, ProcessFits
<1>6. CaptureFits'
  BY <1>1, ShortSequences DEF CaptureFits
<1>7. IngestFits' /\ InboxFits' /\ requests' \in Nat /\ requests' <= requests
  BY <1>1 DEF TypeInv, IngestFits, InboxFits, RequestsFit, Fits, HeardFits, IsStart
<1> QED BY <1>1, <1>5, <1>6, <1>7, QuietFits

\* A step that only appends to the inbox.
LEMMA HeardMore ==
  ASSUME TypeInv, NEW e, HeardFits(e, Len(log) + 1), inbox' = Append(inbox, e)
  PROVE  IsSequence(inbox') /\ \A i \in DOMAIN inbox' : HeardFits(inbox'[i], Len(log) + 1)
<1>1. IsSequence(inbox) /\ \A i \in DOMAIN inbox : HeardFits(inbox[i], Len(log) + 1)
  BY DEF TypeInv, InboxFits
<1>2. /\ IsSequence(inbox') /\ Len(inbox) \in Nat /\ DOMAIN inbox = 1..Len(inbox)
      /\ DOMAIN inbox' = 1..(Len(inbox) + 1)
      /\ \A i \in DOMAIN inbox : inbox'[i] = inbox[i]
      /\ inbox'[Len(inbox) + 1] = e
  BY <1>1, Appended
<1>3. ASSUME NEW i \in DOMAIN inbox' PROVE HeardFits(inbox'[i], Len(log) + 1)
  <2>1. CASE i = Len(inbox) + 1
    BY <1>2, <2>1
  <2>2. CASE i \in 1..Len(inbox)
    BY <1>1, <1>2, <2>2
  <2> QED BY <1>2, <2>1, <2>2
<1> QED BY <1>2, <1>3

LEMMA RequestRevertFits ==
  ASSUME TypeInv, NEW n \in 0..MaxTurns, RequestRevert(n)
  PROVE  TypeInv'
<1>1. /\ inbox' = Append(inbox, Requested(n)) /\ UNCHANGED stored /\ log' = log
      /\ UNCHANGED <<mode, requests, attached, ran, ingest, capture, failures>>
  BY DEF RequestRevert, stored, provider, bounds
<1>2. HeardFits(Requested(n), Len(log) + 1)
  BY TurnsArePositive DEF HeardFits, Requested
<1>3. IsSequence(inbox') /\ \A i \in DOMAIN inbox' : HeardFits(inbox'[i], Len(log) + 1)
  <2> DEFINE e == Requested(n)
  <2> HIDE DEF e
  <2> QED BY <1>1, <1>2, HeardMore DEF e
<1>4. IngestFits' /\ CaptureFits' /\ InboxFits' /\ ProcessFits' /\ requests' \in Nat /\ requests' <= requests
  BY <1>1, <1>3 DEF TypeInv, IngestFits, CaptureFits, InboxFits, ProcessFits, RequestsFit,
                    Fits, HeardFits, IsStart
<1> QED BY <1>1, <1>4, QuietFits

LEMMA CompleteFits ==
  ASSUME TypeInv, NEW t \in Turns, Complete(t)
  PROVE  TypeInv'
<1>1. PICK status \in {"ready", "missing", "error"} :
        inbox' = Append(inbox, [type |-> "turn.completed", turn |-> t, status |-> status])
  BY HistoryAssumption DEF Complete
<1>2. /\ UNCHANGED stored /\ log' = log
      /\ t \in DOMAIN ran /\ ran' = [ran EXCEPT ![t] = "completed"]
      /\ UNCHANGED <<mode, requests, attached, ingest, capture, failures>>
  BY DEF Complete, stored, bounds
<1> DEFINE e == [type |-> "turn.completed", turn |-> t, status |-> status]
<1>3. HeardFits(e, Len(log) + 1)
  BY DEF HeardFits
<1> HIDE DEF e
<1>4. IsSequence(inbox') /\ \A i \in DOMAIN inbox' : HeardFits(inbox'[i], Len(log) + 1)
  BY <1>1, <1>3, HeardMore DEF e
<1>5. IngestFits' /\ CaptureFits' /\ InboxFits' /\ requests' \in Nat /\ requests' <= requests
  BY <1>2, <1>4 DEF TypeInv, IngestFits, CaptureFits, InboxFits, RequestsFit, Fits, HeardFits, IsStart
<1>6. ProcessFits'
  <2>1. ran \in Seq({"running", "completed", "over"}) /\ Len(ran) <= MaxTurns
    BY DEF TypeInv, ProcessFits
  <2>2. ran' \in Seq({"running", "completed", "over"}) /\ Len(ran') <= MaxTurns
    BY <1>2, <2>1
  <2> QED BY <1>2, <2>2 DEF TypeInv, ProcessFits
<1> QED BY <1>2, <1>5, <1>6, QuietFits

\* The reactor's capture, from a completion, a placeholder or a revert.
LEMMA ReactorTakeFits == TypeInv /\ ReactorTake => TypeInv'
<1> SUFFICES ASSUME TypeInv, ReactorTake PROVE TypeInv'
  OBVIOUS
<1> DEFINE e == Head(inbox)
           Good(x) == Fits(x, Len(log) + 1) /\ x.type \in {"turn-diff-completed", "reverted"}
<1>1. /\ inbox # <<>> /\ inbox' = Tail(inbox) /\ UNCHANGED stored /\ log' = log
      /\ UNCHANGED <<mode, requests, attached, ran, ingest, failures>>
  BY DEF ReactorTake, stored, provider, bounds
<1>2. /\ IsSequence(Tail(inbox)) /\ DOMAIN inbox = 1..Len(inbox) /\ Len(inbox) \in Nat
      /\ DOMAIN Tail(inbox) = 1..(Len(inbox) - 1)
      /\ \A i \in DOMAIN Tail(inbox) : Tail(inbox)[i] = inbox[i + 1]
      /\ 1 \in DOMAIN inbox /\ e = inbox[1]
  BY <1>1, Parts DEF TypeInv, InboxFits
<1>3. HeardFits(e, Len(log) + 1)
  BY <1>2 DEF TypeInv, InboxFits
<1>4. capture' = CASE e.type = "turn.completed"              -> CaptureCompleted(e)
                   [] e.type = "turn-diff-completed"         -> CapturePlaceholder(e)
                   [] e.type = "checkpoint-revert-requested" -> HandleRevert(e)
  BY DEF ReactorTake
<1> HIDE DEF e
<1>5. ASSUME e.type = "turn.completed" PROVE capture' = <<>> \/ \E x : Good(x) /\ capture' = <<x>>
  <2> DEFINE count == CaptureCount(e.turn)
             x == TurnDiffCompleted(e.turn, count, e.status, "git", Message("assistant", e.turn))
  <2>1. e.turn \in Turns /\ e.status \in {"ready", "missing", "error"}
    BY <1>3, <1>5 DEF HeardFits
  <2>2. count \in Nat \ {NoCount} /\ count <= Len(log) + 1
    BY CountsFit
  <2>3. Good(x)
    <3> HIDE DEF count
    <3> QED BY <2>1, <2>2, MadeEvents DEF TurnDiffCompleted
  <2>4. capture' \in {<<>>, <<x>>}
    BY <1>4, <1>5 DEF CaptureCompleted
  <2> HIDE DEF x
  <2> QED BY <2>3, <2>4
<1>6. ASSUME e.type = "turn-diff-completed" PROVE capture' = <<>> \/ \E x : Good(x) /\ capture' = <<x>>
  <2> DEFINE x == [e EXCEPT !.status = "ready", !.ref = "git"]
  <2>1. Fits(e, Len(log) + 1)
    BY <1>3, <1>6 DEF HeardFits
  <2>2. /\ DOMAIN x = DOMAIN e /\ x.type = e.type /\ x.turn = e.turn /\ x.count = e.count
        /\ x.message = e.message /\ x.status = "ready" /\ x.ref = "git"
    BY <1>6, <2>1 DEF Fits, EventTyped
  <2> HIDE DEF x
  <2>3. Good(x)
    BY <1>6, <2>1, <2>2 DEF Fits, EventTyped
  <2>4. capture' \in {<<>>, <<x>>}
    BY <1>4, <1>6 DEF CapturePlaceholder, x
  <2> QED BY <2>3, <2>4
<1>7. ASSUME e.type = "checkpoint-revert-requested"
      PROVE  capture' = <<>> \/ \E x : Good(x) /\ capture' = <<x>>
  <2> DEFINE x == Reverted(e.count)
  <2>1. Good(x)
    BY <1>3, <1>7 DEF HeardFits, Fits, EventTyped, Reverted
  <2>2. capture' \in {<<>>, <<x>>}
    BY <1>4, <1>7 DEF HandleRevert
  <2> HIDE DEF x
  <2> QED BY <2>1, <2>2
<1>8. capture' = <<>> \/ \E x : Good(x) /\ capture' = <<x>>
  BY <1>3, <1>5, <1>6, <1>7 DEF HeardFits
<1>9. CaptureFits'
  <2>1. CASE capture' = <<>>
    BY <2>1, ShortSequences DEF CaptureFits
  <2>2. ASSUME NEW x, Good(x), capture' = <<x>> PROVE CaptureFits'
    BY <1>1, <2>2, ShortSequences DEF CaptureFits, Fits
  <2> QED BY <1>8, <2>1, <2>2
<1>10. InboxFits'
  <2>1. ASSUME NEW i \in DOMAIN inbox' PROVE HeardFits(inbox'[i], Len(log) + 1)
    <3>1. i + 1 \in DOMAIN inbox /\ inbox'[i] = inbox[i + 1]
      BY <1>1, <1>2
    <3> QED BY <3>1 DEF TypeInv, InboxFits
  <2> QED BY <1>1, <1>2, <2>1 DEF InboxFits, HeardFits, Fits
<1>11. IngestFits' /\ ProcessFits' /\ requests' \in Nat /\ requests' <= requests
  BY <1>1 DEF TypeInv, IngestFits, ProcessFits, RequestsFit, Fits, IsStart
<1> QED BY <1>1, <1>9, <1>10, <1>11, QuietFits

\* A crash forgets what waits.
LEMMA CrashFits == TypeInv /\ Crash => TypeInv'
<1> SUFFICES ASSUME TypeInv, Crash PROVE TypeInv'
  OBVIOUS
<1>1. /\ mode' = "down" /\ requests' = 0 /\ attached' = FALSE /\ ran' = [t \in DOMAIN ran |-> "over"]
      /\ inbox' = <<>> /\ ingest' = <<>> /\ capture' = <<>> /\ UNCHANGED stored /\ failures' = failures
  BY DEF Crash
<1>2. /\ IsSequence(ingest') /\ DOMAIN ingest' = {} /\ Len(ingest') = 0
      /\ IsSequence(capture') /\ DOMAIN capture' = {} /\ Len(capture') = 0
      /\ IsSequence(inbox') /\ DOMAIN inbox' = {}
  BY <1>1, ShortSequences
<1>3. IngestFits' /\ CaptureFits' /\ InboxFits'
  BY <1>2 DEF IngestFits, CaptureFits, InboxFits
<1>4. ProcessFits'
  <2>1. ran \in Seq({"running", "completed", "over"}) /\ Len(ran) <= MaxTurns
    BY DEF TypeInv, ProcessFits
  <2>2. ran' \in Seq({"running", "completed", "over"}) /\ Len(ran') = Len(ran)
    BY <1>1, <2>1
  <2> QED BY <1>1, <2>1, <2>2 DEF TypeInv, ProcessFits
<1>5. requests' \in Nat /\ requests' <= requests
  BY <1>1 DEF TypeInv, RequestsFit
<1> QED BY <1>1, <1>3, <1>4, <1>5, QuietFits

\* The tables of a rebuild are typed at every event of it.
LEMMA BootstrapFits ==
  ASSUME TypeInv, CursorInv, NEW k \in DOMAIN Projectors, BootstrapEvent(k)
  PROVE  DbFits'
<1> DEFINE p == Projectors[k]
           e == EventAfter(p)
<1>1. cursor[p] < Len(log) /\ db' = Apply(p, db, e) /\ log' = log
  BY DEF BootstrapEvent
<1>2. cursor[p] \in 0..Len(log) /\ Len(log) \in Nat /\ DOMAIN log = 1..Len(log)
  BY Parts, ProjectorNames DEF TypeInv, LogFits, CursorInv
<1>3. e = log[cursor[p] + 1] /\ cursor[p] + 1 \in DOMAIN log
  BY <1>1, <1>2 DEF EventAfter
<1>4. Fits(e, Len(log)) /\ Typed(db, Turns) /\ Below(db.turns, Len(log)) /\ NoTurn \notin Turns
  BY <1>3, TurnsArePositive DEF TypeInv, LogFits, DbFits
<1> HIDE DEF e
<1>5. Typed(Apply(p, db, e), Turns) /\ Below(Apply(p, db, e).turns, Len(log))
  BY <1>2, <1>4, AppliedBelow DEF Fits
<1> QED BY <1>1, <1>5 DEF DbFits

\* The steps of a process that starts.
LEMMA ProcessStepsFit ==
  ASSUME TypeInv, CursorInv,
         DropTables \/ StartBootstrap \/ StartEngine \/ \E k \in DOMAIN Projectors : BootstrapEvent(k)
  PROVE  TypeInv'
<1>1. /\ log' = log /\ mode' \in {"down", "booting", "running"}
      /\ UNCHANGED <<requests, attached, ran, inbox, ingest, capture, failures>>
  BY DEF TypeInv, ProcessFits, DropTables, StartBootstrap, StartEngine, BootstrapEvent, provider, stored, bounds
<1>2. DbFits'
  <2>1. CASE DropTables
    <3>1. db' = EmptyDb /\ DOMAIN EmptyDb.turns = {}
      BY <2>1, ShortSequences DEF DropTables, EmptyDb
    <3> QED BY <1>1, <3>1, EmptyTyped DEF DbFits, Below
  <2>2. CASE StartBootstrap \/ StartEngine
    BY <1>1, <2>2 DEF StartBootstrap, StartEngine, stored, TypeInv, DbFits
  <2>3. ASSUME NEW k \in DOMAIN Projectors, BootstrapEvent(k) PROVE DbFits'
    BY <2>3, BootstrapFits
  <2> QED BY <2>1, <2>2, <2>3
<1>3. LogFits' /\ IngestFits' /\ CaptureFits' /\ InboxFits' /\ ProcessFits'
  BY <1>1 DEF TypeInv, LogFits, IngestFits, CaptureFits, InboxFits, ProcessFits,
              Fits, HeardFits, IsStart
<1>4. RequestsFit'
  BY <1>1 DEF TypeInv, RequestsFit
<1> QED BY <1>2, <1>3, <1>4 DEF TypeInv

\* TypeInv is inductive.
LEMMA TypeInvNext == TypeInv /\ CursorInv /\ [Next]_vars => TypeInv'
<1> SUFFICES ASSUME TypeInv, CursorInv, [Next]_vars PROVE TypeInv'
  OBVIOUS
<1>1. ASSUME NEW p, StartTurn(p) PROVE TypeInv'
  BY <1>1, StartTurnFits
<1>2. ASSUME Interrupt PROVE TypeInv'
  <2> DEFINE e == InterruptRequested(db.session.turn)
  <2>1. /\ Emit(e) /\ db.session.turn # NoTurn
        /\ UNCHANGED <<mode, requests, attached, ran, ingest, inbox, capture, failures>>
    BY <1>2 DEF Interrupt, provider, bounds
  <2>2. db.session.turn \in Turns /\ attached' \in BOOLEAN
    BY <2>1 DEF TypeInv, DbFits, Typed, ProcessFits
  <2>3. Fits(e, Len(log) + 1) /\ ~ IsStart(e)
    BY <2>2, MadeEvents
  <2> HIDE DEF e
  <2> QED BY <2>1, <2>2, <2>3, SingleFits
<1>3. ASSUME NEW n \in 0..MaxTurns, RequestRevert(n) PROVE TypeInv'
  BY <1>3, RequestRevertFits
<1>4. ASSUME BindSession PROVE TypeInv'
  <2> DEFINE e == SessionSet("ready", NoTurn)
  <2>1. /\ Emit(e) /\ attached' = TRUE
        /\ UNCHANGED <<mode, requests, ran, ingest, inbox, capture, failures>>
    BY <1>4 DEF BindSession, bounds
  <2>2. Fits(e, Len(log) + 1) /\ ~ IsStart(e)
    BY DEF SessionSet, Fits, EventTyped, IsStart
  <2> HIDE DEF e
  <2> QED BY <2>1, <2>2, SingleFits
<1>5. ASSUME TurnStarted \/ AuxiliaryStarted PROVE TypeInv'
  BY <1>5, TurnStartedFits, AuxiliaryStartedFits
<1>6. ASSUME NEW t \in Turns, Complete(t) PROVE TypeInv'
  BY <1>6, CompleteFits
<1>7. ASSUME NEW t \in Turns, AssistantDelta(t) \/ PlanCompleted(t) \/ DiffUpdated(t) \/ TurnCompleted(t)
      PROVE  TypeInv'
  BY <1>7, ReportsFit
<1>8. ASSUME IngestionDispatch \/ IngestionFails PROVE TypeInv'
  BY <1>8, IngestionFits, IngestionFailsFits
<1>9. ASSUME ReactorTake \/ ReactorFails PROVE TypeInv'
  BY <1>9, ReactorTakeFits, ReactorFailsFits
<1>10. ASSUME ReactorDispatch PROVE TypeInv'
  <2> DEFINE e == Head(capture)
  <2>1. /\ capture # <<>> /\ Emit(e) /\ inbox' = inbox \o Heard(e) /\ capture' = <<>>
        /\ UNCHANGED <<mode, requests, attached, ran, ingest, failures>>
    BY <1>10 DEF ReactorDispatch, provider, bounds
  <2>2. e = capture[1] /\ 1 \in DOMAIN capture /\ attached' \in BOOLEAN
    BY <2>1, Parts DEF TypeInv, CaptureFits, ProcessFits
  <2>3. Fits(e, Len(log) + 1) /\ ~ IsStart(e)
    BY <2>2 DEF TypeInv, CaptureFits, IsStart
  <2> HIDE DEF e
  <2> QED BY <2>1, <2>2, <2>3, SingleFits
<1>11. ASSUME Crash PROVE TypeInv'
  BY <1>11, CrashFits
<1>12. ASSUME DropTables \/ StartBootstrap \/ StartEngine \/ \E k \in DOMAIN Projectors : BootstrapEvent(k)
       PROVE  TypeInv'
  BY <1>12, ProcessStepsFit
<1>13. ASSUME UNCHANGED vars PROVE TypeInv'
  BY <1>13 DEF vars, stored, provider, bounds, TypeInv, LogFits, DbFits, IngestFits, CaptureFits, InboxFits,
               RequestsFit, ProcessFits, Fits, HeardFits, IsStart
<1> QED
  BY <1>1, <1>2, <1>3, <1>4, <1>5, <1>6, <1>7, <1>8, <1>9, <1>10, <1>11, <1>12, <1>13 DEF Next

\* The types and the order of the projectors, together.
Inv == FreshInv /\ TypeInv

LEMMA InvInvariant == Spec => []Inv
<1>1. Init => Inv
  BY FreshInvInit, TypeInvInit DEF Inv
<1>2. Inv /\ [Next]_vars => Inv'
  BY FreshInvNext, TypeInvNext DEF Inv, FreshInv
<1> QED BY <1>1, <1>2, PTL DEF Spec

\* TypeOK: every column of the tables has its type, also while they are rebuilt; a
\* turn has a status and a ref if and only if it has a checkpoint count; no turn is
\* taken from the client that it did not request.
THEOREM TypesAreRight == Spec => []TypeOK
<1>1. Inv => TypeOK
  <2> SUFFICES ASSUME Inv PROVE TypeOK
    OBVIOUS
  <2>1. LogFits /\ DbFits /\ IngestFits /\ CaptureFits /\ RequestsFit /\ ProcessFits /\ CursorInv
    BY DEF Inv, FreshInv, TypeInv
  <2>2. Len(log) \in Nat /\ Len(log) <= MaxEvents
    BY <2>1, Parts DEF LogFits
  <2>3. \A i \in DOMAIN log :
          log[i].type \in {"message-sent", "turn-start-requested", "session-set",
                           "proposed-plan-upserted", "turn-diff-completed",
                           "turn-interrupt-requested", "reverted"}
    BY <2>1 DEF LogFits, Fits, EventTyped
  <2>4. ASSUME NEW t \in DOMAIN db.turns
        PROVE  /\ t \in Turns
               /\ db.turns[t].state \in {"running", "interrupted", "completed", "error"}
               /\ db.turns[t].count \in 0..MaxEvents
               /\ db.turns[t].status = "none" <=> db.turns[t].count = NoCount
               /\ db.turns[t].ref = "none" <=> db.turns[t].count = NoCount
    <3>1. t \in Turns /\ RowTyped(db.turns[t], t) /\ db.turns[t].count <= Len(log)
      BY <2>1 DEF DbFits, Typed, RowsTyped, Below
    <3> QED BY <2>2, <3>1, TurnsArePositive DEF RowTyped
  <2>5. /\ \A i, j \in DOMAIN db.messages : db.messages[i].id = db.messages[j].id => i = j
        /\ db.session.turn \in Turns \cup {NoTurn}
    BY <2>1 DEF DbFits, Typed, MessagesTyped, Distinct
  <2>6. cursor \in [Range(Projectors) -> 0..Len(log)]
    BY <2>1 DEF CursorInv
  <2>7. requests \in 0..MaxRequests
    <3>1. Cardinality(Starts(log)) \in Nat
      BY <2>1, AppendedCounts DEF LogFits
    <3> QED BY <2>1, <3>1, TurnsArePositive DEF RequestsFit
  <2>8. Len(ingest) <= 2 /\ Len(capture) <= 1
    BY <2>1 DEF IngestFits, CaptureFits
  <2> QED BY <2>1, <2>3, <2>4, <2>5, <2>6, <2>7, <2>8 DEF TypeOK, ProcessFits
<1> QED BY <1>1, InvInvariant, PTL

-------------------------------------------------------------------------------
(* Reverts                                                                  *)

\* What is appended is typed.
LEMMA EmittedFits ==
  ASSUME TypeInv, TypeInv'
  PROVE  /\ \A e : log' = Append(log, e) => EventTyped(e, Turns) /\ Last(log') = e
         /\ \A e, f : log' = log \o <<e, f>> =>
              EventTyped(e, Turns) /\ EventTyped(f, Turns) /\ Last(log') = f
         /\ \A i \in DOMAIN log' : EventTyped(log'[i], Turns)
<1>1. PICK S : log \in Seq(S)
  BY DEF TypeInv, LogFits, IsSequence
<1>2. \A i \in DOMAIN log' : EventTyped(log'[i], Turns)
  BY DEF TypeInv, LogFits, Fits
<1>3. ASSUME NEW e, log' = Append(log, e) PROVE EventTyped(e, Turns) /\ Last(log') = e
  <2>1. log \in Seq(S \cup {e})
    BY <1>1
  <2>2. Len(log') = Len(log) + 1 /\ log'[Len(log) + 1] = e /\ Len(log) + 1 \in DOMAIN log'
    BY <1>3, <2>1
  <2> QED BY <1>2, <2>2 DEF Last
<1>4. ASSUME NEW e, NEW f, log' = log \o <<e, f>>
      PROVE  EventTyped(e, Turns) /\ EventTyped(f, Turns) /\ Last(log') = f
  <2>1. log \in Seq(S \cup {e, f}) /\ <<e, f>> \in Seq(S \cup {e, f})
    BY <1>1
  <2>2. /\ Len(log') = Len(log) + 2 /\ log'[Len(log) + 1] = e /\ log'[Len(log) + 2] = f
        /\ Len(log) + 1 \in DOMAIN log' /\ Len(log) + 2 \in DOMAIN log'
    BY <1>4, <2>1
  <2> QED BY <1>2, <2>2 DEF Last
<1> QED BY <1>2, <1>3, <1>4

\* RevertLeavesNothing: when a revert has been projected, no message, plan or
\* summary is of a turn that retainProjectionTurnsAfterRevert has dropped: a message
\* that a kept turn names is of that turn, and the fallback takes no dropped one's.
THEOREM RevertsLeaveNothing == Spec => RevertLeavesNothing
<1> DEFINE Left == LET turns == DOMAIN db'.turns \cup {NoTurn}
                   IN log' # log /\ Last(log').type = "reverted" =>
                        /\ \A i \in DOMAIN db'.messages : db'.messages[i].turn \in turns
                        /\ \A i \in DOMAIN db'.plans : db'.plans[i].turn \in turns
                        /\ db'.shell.latestTurn \in turns
<1>1. Inv /\ Inv' /\ [Next]_vars => Left
  <2> SUFFICES ASSUME Inv, Inv', [Next]_vars, log' # log, Last(log').type = "reverted"
               PROVE  LET turns == DOMAIN db'.turns \cup {NoTurn}
                      IN /\ \A i \in DOMAIN db'.messages : db'.messages[i].turn \in turns
                         /\ \A i \in DOMAIN db'.plans : db'.plans[i].turn \in turns
                         /\ db'.shell.latestTurn \in turns
    OBVIOUS
  <2>1. /\ IsSequence(log) /\ Typed(db, Turns) /\ NoTurn \notin Turns
    BY TurnsArePositive DEF Inv, TypeInv, LogFits, DbFits
  <2>2. Emits
    BY <2>1, Steps DEF Idles, DropTables, BootstrapEvent, stored
  <2>3. PICK d, e : Typed(d, Turns) /\ EventTyped(e, Turns) /\ e.type = "reverted" /\ db' = ProjectEvent(d, e)
    <3>1. ASSUME NEW e, log' = Append(log, e), db' = ProjectEvent(db, e)
          PROVE  \E d, f : Typed(d, Turns) /\ EventTyped(f, Turns) /\ f.type = "reverted" /\ db' = ProjectEvent(d, f)
      BY <2>1, <3>1, EmittedFits DEF Inv
    <3>2. ASSUME NEW e, NEW f, log' = log \o <<e, f>>, db' = ProjectEvent(ProjectEvent(db, e), f)
          PROVE  \E d, g : Typed(d, Turns) /\ EventTyped(g, Turns) /\ g.type = "reverted" /\ db' = ProjectEvent(d, g)
      <4>1. EventTyped(e, Turns) /\ EventTyped(f, Turns) /\ f.type = "reverted"
        BY <3>2, EmittedFits DEF Inv
      <4>2. Typed(ProjectEvent(db, e), Turns)
        BY <2>1, <4>1, ProjectTyped
      <4> QED BY <3>2, <4>1, <4>2
    <3> QED BY <2>2, <3>1, <3>2 DEF Emits
  <2> DEFINE p == ProjectEvent(d, e)
             turns == DOMAIN p.turns \cup {NoTurn}
  <2>4. /\ \A i \in DOMAIN p.messages : p.messages[i].turn \in turns
        /\ \A i \in DOMAIN p.plans : p.plans[i].turn \in turns
        /\ p.shell.latestTurn \in turns
    BY <2>1, <2>3, RevertedIsPruned
  <2>5. db' = p
    BY <2>3
  <2> HIDE DEF p
  <2> QED BY <2>4, <2>5
<1>2. Inv /\ Inv' /\ [Next]_vars => [Left]_vars
  BY <1>1
<1> QED BY <1>2, InvInvariant, PTL DEF Spec, RevertLeavesNothing

-------------------------------------------------------------------------------
(* The tables as the log has them                                           *)

\* A projector starts when the ones before it have finished: it is at the beginning
\* unless they are at the end.
Staged ==
  /\ mode = "running" => \A p \in Range(Projectors) : cursor[p] = Len(log)
  /\ \A k \in 1..5 : \A j \in 1..(k - 1) :
       cursor[Projectors[j]] = Len(log) \/ cursor[Projectors[k]] = 0

Clean(l) == \A i \in DOMAIN l : l[i].type # "reverted"

\* Each table is as the live pipeline would have left it at the cursor of its
\* projector.  Messages are, as long as nothing was reverted: a rebuild prunes them by
\* turns that are not there yet; but none is of a turn that is not there.
Rebuilt ==
  LET live(p) == After(log, cursor[p])
  IN /\ db.turns = live("threadTurns").turns /\ db.pending = live("threadTurns").pending
     /\ db.session = live("threadSessions").session
     /\ Owned(db.messages, live("threadMessages").turns)
     /\ Clean(log) => /\ db.messages = live("threadMessages").messages
                      /\ db.plans = live("threadProposedPlans").plans
                      /\ db.shell.latestTurn = live("threads").shell.latestTurn

RebuildInv == Staged /\ Full(db) /\ Rebuilt

\* The names of the projectors.
LEMMA ProjectorPlaces ==
  /\ Range(Projectors) = {"threadMessages", "threadProposedPlans", "threadSessions",
                          "threadTurns", "threads"}
  /\ DOMAIN Projectors = {1, 2, 3, 4, 5}
  /\ Projectors[1] = "threadMessages" /\ Projectors[2] = "threadProposedPlans"
  /\ Projectors[3] = "threadSessions" /\ Projectors[4] = "threadTurns" /\ Projectors[5] = "threads"
<1>1. 1..5 = {1, 2, 3, 4, 5}
  OBVIOUS
<1> QED BY <1>1, ProjectorNames DEF Projectors

\* Empty tables are those of no event.
LEMMA EmptyRebuilt ==
  /\ Full(EmptyDb) /\ Owned(EmptyDb.messages, EmptyDb.turns)
  /\ \A l : After(l, 0) = EmptyDb
<1>1. Full(EmptyDb)
  BY DEF Full, Shape, Columns, EmptyDb
<1>2. Owned(EmptyDb.messages, EmptyDb.turns)
  <2>1. Range(<<>>) = {}
    BY ShortSequences DEF Range
  <2> QED BY <2>1 DEF Owned, EmptyDb
<1> QED BY <1>1, <1>2, AfterFolds

\* The tables of a running server match those of the whole log.
LEMMA RunningMatches ==
  ASSUME RebuildInv, mode = "running"
  PROVE  Matches(db, After(log, Len(log)), Clean(log))
BY ProjectorPlaces DEF RebuildInv, Staged, Rebuilt, Matches

\* The fold goes on with what is appended.
LEMMA AfterAppend ==
  ASSUME NEW l, NEW e, IsSequence(l)
  PROVE  /\ After(Append(l, e), Len(l) + 1) = ProjectEvent(After(l, Len(l)), e)
         /\ Clean(Append(l, e)) => Clean(l) /\ e.type # "reverted"
<1> DEFINE m == Append(l, e)
           n == Len(l)
<1>1. /\ n \in Nat /\ DOMAIN l = 1..n /\ DOMAIN m = 1..(n + 1)
      /\ (\A i \in 1..n : m[i] = l[i]) /\ m[n + 1] = e
  BY Appended
<1> HIDE DEF m, n
<1>2. After(m, n) = After(l, n)
  <2>1. Agree(m, l, n)
    BY <1>1 DEF Agree
  <2> QED BY <1>1, <2>1, AfterAgrees
<1>3. After(m, n + 1) = ProjectEvent(After(m, n), m[n + 1])
  <2> DEFINE k == n + 1
  <2>1. k \in Nat /\ k # 0 /\ k - 1 = n
    BY <1>1
  <2> HIDE DEF k
  <2>2. After(m, k) = ProjectEvent(After(m, k - 1), m[k])
    BY <2>1, AfterFolds
  <2> QED BY <2>1, <2>2 DEF k
<1>4. Clean(m) => Clean(l) /\ e.type # "reverted"
  <2>1. n + 1 \in DOMAIN m /\ \A i \in DOMAIN l : i \in DOMAIN m /\ m[i] = l[i]
    BY <1>1
  <2> QED BY <1>1, <2>1 DEF Clean
<1> QED BY <1>1, <1>2, <1>3, <1>4 DEF m, n

\* The folded tables of the log, at the cursors and at the end.
LEMMA LiveTyped ==
  ASSUME TypeInv
  PROVE  \A n \in 0..Len(log) :
           LET l == After(log, n)
           IN Typed(l, Turns) /\ Fresh(l) /\ Full(l)
<1>1. /\ Len(log) \in Nat /\ DOMAIN log = 1..Len(log) /\ NoTurn \notin Turns
      /\ \A k \in 1..Len(log) : EventTyped(log[k], Turns)
  BY Parts, TurnsArePositive DEF TypeInv, LogFits, Fits
<1> DEFINE N == Len(log)
<1> HIDE DEF N
<1>2. \A n \in 0..N : Typed(After(log, n), Turns) /\ Fresh(After(log, n))
  BY <1>1, AfterTyped DEF N
<1>3. \A n \in 0..N : Full(After(log, n))
  BY <1>1, AfterFull DEF N
<1> QED BY <1>2, <1>3 DEF N

\* A running server goes on to match the log.
LEMMA EmitsRebuilt ==
  ASSUME TypeInv, TypeInv', CursorInv, RebuildInv, Emits
  PROVE  RebuildInv'
<1> DEFINE l == After(log, Len(log))
<1>1. /\ IsSequence(log) /\ Len(log) \in Nat /\ Typed(db, Turns) /\ NoTurn \notin Turns
      /\ Typed(l, Turns) /\ mode = "running" /\ mode' = "running"
  BY Parts, TurnsArePositive, LiveTyped DEF TypeInv, LogFits, DbFits, Emits
<1>2. Matches(db, l, Clean(log)) /\ Full(db)
  BY <1>1, RunningMatches DEF RebuildInv
<1>3. \A p \in Range(Projectors) : cursor'[p] = Len(log')
  BY DEF Emits, CursorInv, Names
<1> HIDE DEF l
<1>4. ASSUME NEW e, log' = Append(log, e), db' = ProjectEvent(db, e)
      PROVE  Full(db') /\ Matches(db', After(log', Len(log')), Clean(log'))
  <2>1. EventTyped(e, Turns)
    BY <1>4, EmittedFits
  <2>2. Matches(db', ProjectEvent(l, e), Clean(log) /\ e.type # "reverted")
    BY <1>1, <1>2, <1>4, <2>1, MatchesProject
  <2>3. After(log', Len(log')) = ProjectEvent(l, e)
    BY <1>1, <1>4, AfterAppend, Appended DEF l
  <2>4. Clean(log') => Clean(log) /\ e.type # "reverted"
    BY <1>1, <1>4, AfterAppend
  <2> QED BY <1>2, <1>4, <2>2, <2>3, <2>4, ProjectFull DEF Matches
<1>5. ASSUME NEW e, NEW f, log' = log \o <<e, f>>, db' = ProjectEvent(ProjectEvent(db, e), f)
      PROVE  Full(db') /\ Matches(db', After(log', Len(log')), Clean(log'))
  <2> DEFINE once == Append(log, e)
             d == ProjectEvent(db, e)
             c == ProjectEvent(l, e)
             clean == Clean(log) /\ e.type # "reverted"
  <2>1. EventTyped(e, Turns) /\ EventTyped(f, Turns)
    BY <1>5, EmittedFits
  <2>2. Matches(d, c, clean) /\ Typed(d, Turns) /\ Typed(c, Turns) /\ Full(d)
    BY <1>1, <1>2, <2>1, MatchesProject, ProjectTyped, ProjectFull
  <2>3. /\ IsSequence(once) /\ Len(once) = Len(log) + 1
        /\ After(once, Len(once)) = c
        /\ Clean(once) => clean
    BY <1>1, AfterAppend, Appended DEF l
  <2>4. log' = Append(once, f)
    <3>1. PICK S : log \in Seq(S)
      BY <1>1 DEF IsSequence
    <3>2. log \in Seq(S \cup {e, f})
      BY <3>1
    <3> QED BY <1>5, <3>2
  <2> HIDE DEF once, d, c, clean
  <2>5. Matches(ProjectEvent(d, f), ProjectEvent(c, f), clean /\ f.type # "reverted")
    BY <1>1, <2>1, <2>2, MatchesProject
  <2>6. After(log', Len(log')) = ProjectEvent(c, f)
    BY <2>3, <2>4, AfterAppend, Appended
  <2>7. Clean(log') => clean /\ f.type # "reverted"
    BY <2>3, <2>4, AfterAppend
  <2>8. db' = ProjectEvent(d, f)
    BY <1>5 DEF d
  <2> QED BY <2>2, <2>5, <2>6, <2>7, <2>8, ProjectFull DEF Matches
<1>6. Full(db') /\ Matches(db', After(log', Len(log')), Clean(log'))
  BY <1>4, <1>5 DEF Emits
<1>7. Rebuilt'
  BY <1>3, <1>6, ProjectorPlaces DEF Rebuilt, Matches
<1>8. Staged'
  BY <1>1, <1>3, ProjectorPlaces, ProjectorNames DEF Staged
<1> QED BY <1>6, <1>7, <1>8 DEF RebuildInv

\* A bootstrap keeps to the order of the projectors.
LEMMA BootstrapStaged ==
  ASSUME CursorInv, Staged, Len(log) \in Nat, NEW k \in DOMAIN Projectors, BootstrapEvent(k)
  PROVE  Staged'
<1> DEFINE p == Projectors[k]
<1>1. /\ mode' # "running" /\ log' = log /\ cursor[p] < Len(log)
      /\ \A j \in 1..(k - 1) : cursor[Projectors[j]] = Len(log)
      /\ cursor' = [cursor EXCEPT ![p] = @ + 1]
  BY DEF BootstrapEvent
<1>2. k \in 1..5 /\ p \in Range(Projectors) /\ cursor \in [Range(Projectors) -> 0..Len(log)]
  BY ProjectorNames DEF CursorInv
<1>3. \A j \in 1..5 : /\ Projectors[j] \in Range(Projectors)
                      /\ Projectors[j] = p => j = k
  BY <1>2, ProjectorPlaces
<1>4. \A j \in 1..5 : j # k => cursor'[Projectors[j]] = cursor[Projectors[j]]
  BY <1>1, <1>2, <1>3
<1>5. ASSUME NEW i \in 1..5, NEW j \in 1..(i - 1)
      PROVE  cursor'[Projectors[j]] = Len(log) \/ cursor'[Projectors[i]] = 0
  <2>1. j \in 1..5 /\ (cursor[Projectors[j]] = Len(log) \/ cursor[Projectors[i]] = 0)
    BY DEF Staged
  <2>2. CASE i = k
    BY <1>1, <1>4, <2>1, <2>2
  <2>3. CASE j = k
    <3>1. cursor[p] # Len(log)
      BY <1>1, <1>2
    <3> QED BY <1>4, <2>1, <2>3, <3>1
  <2>4. CASE i # k /\ j # k
    BY <1>4, <2>1, <2>4
  <2> QED BY <2>2, <2>3, <2>4
<1> QED BY <1>1, <1>5 DEF Staged

\* Each projector of a bootstrap goes on as the live pipeline did.
LEMMA BootstrapRebuilt ==
  ASSUME TypeInv, TypeInv', CursorInv, RebuildInv, NEW k \in DOMAIN Projectors, BootstrapEvent(k)
  PROVE  RebuildInv'
<1> DEFINE p == Projectors[k]
           e == EventAfter(p)
           n == cursor[p]
           l == After(log, n)
<1>1. /\ log' = log /\ n < Len(log) /\ cursor' = [cursor EXCEPT ![p] = @ + 1]
      /\ \A j \in 1..(k - 1) : cursor[Projectors[j]] = Len(log)
      /\ db' = Apply(p, db, e)
  BY DEF BootstrapEvent
<1>2. /\ IsSequence(log) /\ Len(log) \in Nat /\ DOMAIN log = 1..Len(log) /\ NoTurn \notin Turns
      /\ Typed(db, Turns) /\ Full(db) /\ Shape(db)
      /\ cursor \in [Range(Projectors) -> 0..Len(log)] /\ p \in Range(Projectors)
  BY Parts, TurnsArePositive, ProjectorNames
     DEF TypeInv, LogFits, DbFits, CursorInv, RebuildInv, Full
<1>3. n \in 0..Len(log) /\ n + 1 \in DOMAIN log /\ e = log[n + 1]
  BY <1>1, <1>2 DEF EventAfter
<1>4. EventTyped(e, Turns) /\ (Clean(log) => e.type # "reverted")
  BY <1>3 DEF TypeInv, LogFits, Fits, Clean
<1>5. Typed(l, Turns) /\ Shape(l)
  BY <1>3, LiveTyped DEF Full
<1>6. /\ After(log, n + 1).messages = ApplyMessages(l, e).messages
      /\ After(log, n + 1).plans = ApplyPlans(l, e).plans
      /\ After(log, n + 1).session = ApplySessions(l, e).session
      /\ After(log, n + 1).turns = ApplyTurns(l, e).turns
      /\ After(log, n + 1).pending = ApplyTurns(l, e).pending
      /\ e.type # "reverted" =>
           After(log, n + 1).shell.latestTurn = ApplyThreads(l, e).shell.latestTurn
  <2>1. After(log, n + 1) = ProjectEvent(l, e)
    <3> DEFINE m == n + 1
    <3>1. m \in Nat /\ m # 0 /\ m - 1 = n
      BY <1>3
    <3> HIDE DEF m, n, e
    <3>2. After(log, m) = ProjectEvent(After(log, m - 1), log[m])
      BY <3>1, AfterFolds
    <3> QED BY <1>3, <3>1, <3>2 DEF m
  <2> HIDE DEF l, e, n
  <2> QED BY <1>5, <2>1, ProjectColumns, ProjectLatest
<1>7. /\ cursor'[p] = n + 1
      /\ \A q \in Range(Projectors) : q # p => cursor'[q] = cursor[q]
  BY <1>1, <1>2
<1>8. Staged'
  BY <1>2, BootstrapStaged DEF RebuildInv
<1> HIDE DEF l, e
<1>9. CASE k = 1
  <2>1. p = "threadMessages" /\ db' = ApplyMessages(db, e)
    BY <1>1, <1>9, ProjectorPlaces DEF Apply
  <2>2. Changed(db', db, {"messages"}) /\ Full(db')
    BY <1>2, <2>1, OwnTables, ApplyFull
  <2>3. Owned(db.messages, l.turns) /\ (Clean(log) => db.messages = l.messages)
    BY <2>1 DEF RebuildInv, Rebuilt, l
  <2>4. DOMAIN db.turns = {}
    <3>1. cursor["threadTurns"] = 0
      <4>1. 4 \in 1..5 /\ 1 \in 1..(4 - 1)
        OBVIOUS
      <4>2. cursor[Projectors[1]] = Len(log) \/ cursor[Projectors[4]] = 0
        BY <4>1 DEF RebuildInv, Staged
      <4> QED BY <1>1, <1>2, <2>1, <4>2, ProjectorPlaces
    <3>2. After(log, 0) = EmptyDb
      BY AfterFolds
    <3>3. db.turns = EmptyDb.turns
      BY <3>1, <3>2 DEF RebuildInv, Rebuilt
    <3> QED BY <3>3, ShortSequences DEF EmptyDb
  <2>5. Owned(db'.messages, After(log, n + 1).turns)
    BY <1>2, <1>4, <1>5, <1>6, <2>1, <2>3, <2>4, MessagesStayOwned
  <2>6. Clean(log) => db'.messages = After(log, n + 1).messages
    BY <1>2, <1>4, <1>5, <1>6, <2>1, <2>3, SameMessages
  <2>7. /\ db'.plans = db.plans /\ db'.session = db.session /\ db'.turns = db.turns
        /\ db'.pending = db.pending /\ db'.shell = db.shell
    BY <1>2, <2>2, ChangedColumns
  <2>8. Rebuilt'
    BY <1>1, <1>7, <2>1, <2>5, <2>6, <2>7, ProjectorPlaces DEF RebuildInv, Rebuilt, Clean
  <2> QED BY <1>8, <2>2, <2>8 DEF RebuildInv
<1>10. CASE k = 2
  <2>1. p = "threadProposedPlans" /\ db' = ApplyPlans(db, e)
    BY <1>1, <1>10, ProjectorPlaces DEF Apply
  <2>2. Changed(db', db, {"plans"}) /\ Full(db')
    BY <1>2, <2>1, OwnTables, ApplyFull
  <2>3. Clean(log) => db.plans = l.plans
    BY <2>1 DEF RebuildInv, Rebuilt, l
  <2>4. Clean(log) => db'.plans = After(log, n + 1).plans
    BY <1>2, <1>4, <1>5, <1>6, <2>1, <2>3, SamePlans
  <2>5. /\ db'.messages = db.messages /\ db'.session = db.session /\ db'.turns = db.turns
        /\ db'.pending = db.pending /\ db'.shell = db.shell
    BY <1>2, <2>2, ChangedColumns
  <2>6. Rebuilt'
    BY <1>1, <1>7, <2>1, <2>4, <2>5, ProjectorPlaces DEF RebuildInv, Rebuilt, Clean
  <2> QED BY <1>8, <2>2, <2>6 DEF RebuildInv
<1>11. CASE k = 3
  <2>1. p = "threadSessions" /\ db' = ApplySessions(db, e)
    BY <1>1, <1>11, ProjectorPlaces DEF Apply
  <2>2. Changed(db', db, {"session"}) /\ Full(db')
    BY <1>2, <2>1, OwnTables, ApplyFull
  <2>3. db.session = l.session
    BY <2>1 DEF RebuildInv, Rebuilt, l
  <2>4. db'.session = After(log, n + 1).session
    BY <1>2, <1>5, <1>6, <2>1, <2>3, SameSessions
  <2>5. /\ db'.messages = db.messages /\ db'.plans = db.plans /\ db'.turns = db.turns
        /\ db'.pending = db.pending /\ db'.shell = db.shell
    BY <1>2, <2>2, ChangedColumns
  <2>6. Rebuilt'
    BY <1>1, <1>7, <2>1, <2>4, <2>5, ProjectorPlaces DEF RebuildInv, Rebuilt, Clean
  <2> QED BY <1>8, <2>2, <2>6 DEF RebuildInv
<1>12. CASE k = 4
  <2>1. p = "threadTurns" /\ db' = ApplyTurns(db, e)
    BY <1>1, <1>12, ProjectorPlaces DEF Apply
  <2>2. Changed(db', db, {"turns", "pending"}) /\ Full(db')
    BY <1>2, <2>1, OwnTables, ApplyFull
  <2>3. db.turns = l.turns /\ db.pending = l.pending
    BY <2>1 DEF RebuildInv, Rebuilt, l
  <2>4. db'.turns = After(log, n + 1).turns /\ db'.pending = After(log, n + 1).pending
    BY <1>2, <1>5, <1>6, <2>1, <2>3, SameTurns
  <2>5. /\ db'.messages = db.messages /\ db'.plans = db.plans /\ db'.session = db.session
        /\ db'.shell = db.shell
    BY <1>2, <2>2, ChangedColumns
  <2>6. Rebuilt'
    BY <1>1, <1>7, <2>1, <2>4, <2>5, ProjectorPlaces DEF RebuildInv, Rebuilt, Clean
  <2> QED BY <1>8, <2>2, <2>6 DEF RebuildInv
<1>13. CASE k = 5
  <2>1. p = "threads" /\ db' = ApplyThreads(db, e)
    BY <1>1, <1>13, ProjectorPlaces DEF Apply
  <2>2. Changed(db', db, {"shell"}) /\ Full(db')
    BY <1>2, <2>1, OwnTables, ApplyFull
  <2>3. Clean(log) => db.shell.latestTurn = l.shell.latestTurn
    BY <2>1 DEF RebuildInv, Rebuilt, l
  <2>4. Clean(log) => db'.shell.latestTurn = After(log, n + 1).shell.latestTurn
    BY <1>2, <1>4, <1>5, <1>6, <2>1, <2>3, SameLatest
  <2>5. /\ db'.messages = db.messages /\ db'.plans = db.plans /\ db'.session = db.session
        /\ db'.turns = db.turns /\ db'.pending = db.pending
    BY <1>2, <2>2, ChangedColumns
  <2>6. Rebuilt'
    BY <1>1, <1>7, <2>1, <2>4, <2>5, ProjectorPlaces DEF RebuildInv, Rebuilt, Clean
  <2> QED BY <1>8, <2>2, <2>6 DEF RebuildInv
<1> QED BY <1>9, <1>10, <1>11, <1>12, <1>13, ProjectorPlaces

\* The empty tables are those of the empty log.
LEMMA RebuildInvInit == Init => RebuildInv
<1> SUFFICES ASSUME Init PROVE RebuildInv
  OBVIOUS
<1>1. db = EmptyDb /\ Len(log) = 0 /\ \A p \in Range(Projectors) : cursor[p] = 0
  BY DEF Init
<1>2. Rebuilt
  BY <1>1, EmptyRebuilt, ProjectorPlaces DEF Rebuilt
<1>3. Staged
  BY <1>1, ProjectorNames DEF Staged
<1> QED BY <1>1, <1>2, <1>3, EmptyRebuilt DEF RebuildInv

\* RebuildInv is inductive, relative to the types and the order of the cursors.
LEMMA RebuildInvNext == Inv /\ Inv' /\ RebuildInv /\ [Next]_vars => RebuildInv'
<1> SUFFICES ASSUME Inv, Inv', RebuildInv, [Next]_vars PROVE RebuildInv'
  OBVIOUS
<1>1. /\ TypeInv /\ TypeInv' /\ CursorInv /\ IsSequence(log) /\ Len(log) \in Nat
      /\ Names = Range(Projectors)
  BY Parts DEF Inv, FreshInv, TypeInv, LogFits, CursorInv, Names
<1>2. CASE Emits
  BY <1>1, <1>2, EmitsRebuilt
<1>3. CASE Idles
  <2>1. UNCHANGED <<log, db, cursor>>
    BY <1>3 DEF Idles, stored
  <2>2. mode' = "running" => \A p \in Range(Projectors) : cursor[p] = Len(log)
    BY <1>1, <1>3 DEF Idles, RebuildInv, Staged
  <2>3. Staged'
    BY <2>1, <2>2 DEF RebuildInv, Staged
  <2>4. Rebuilt'
    BY <2>1 DEF RebuildInv, Rebuilt, Clean
  <2> QED BY <2>1, <2>3, <2>4 DEF RebuildInv
<1>4. CASE DropTables
  <2>1. /\ db' = EmptyDb /\ mode' # "running"
        /\ \A p \in Range(Projectors) : cursor'[p] = 0
    BY <1>1, <1>4 DEF DropTables, FreshCursors
  <2>2. Rebuilt'
    BY <2>1, EmptyRebuilt, ProjectorPlaces DEF Rebuilt
  <2>3. Staged'
    BY <2>1, ProjectorNames DEF Staged
  <2> QED BY <2>1, <2>2, <2>3, EmptyRebuilt DEF RebuildInv
<1>5. ASSUME NEW k \in DOMAIN Projectors, BootstrapEvent(k) PROVE RebuildInv'
  BY <1>1, <1>5, BootstrapRebuilt
<1> QED BY <1>1, <1>2, <1>3, <1>4, <1>5, Steps

\* The tables are those of the events the projectors have seen.
LEMMA RebuildInvariant == Spec => [](Inv /\ RebuildInv)
<1>1. Inv /\ RebuildInv /\ [Next]_vars => Inv' /\ RebuildInv'
  <2>1. Inv /\ [Next]_vars => Inv'
    BY FreshInvNext, TypeInvNext DEF Inv, FreshInv
  <2> QED BY <2>1, RebuildInvNext
<1>2. Init => Inv /\ RebuildInv
  BY FreshInvInit, TypeInvInit, RebuildInvInit DEF Inv
<1> QED BY <1>1, <1>2, PTL DEF Spec

\* The live tables are those after the last event.
LEMMA LiveIsAfter == LiveDb = After(log, Len(log))
BY DEF LiveDb, After, Fold

\* MessagesHaveTurns: the turn of a message has a row in the turns table of a running
\* server: a revert that prunes turns prunes their messages, and a rebuild, whose
\* messages projector runs before there are turns, keeps none of a pruned turn.
THEOREM MessagesHaveTheirTurns == Spec => []MessagesHaveTurns
<1>1. RebuildInv => MessagesHaveTurns
  <2> SUFFICES ASSUME RebuildInv, mode = "running",
                      NEW i \in DOMAIN db.messages
               PROVE  db.messages[i].turn \in DOMAIN db.turns \cup {NoTurn}
    BY DEF MessagesHaveTurns
  <2>1. Owned(db.messages, db.turns)
    BY RunningMatches DEF Matches
  <2> QED BY <2>1 DEF Owned, Range
<1> QED BY <1>1, RebuildInvariant, PTL

\* TurnsMatchLive: the turns, the session and the pending start of a running server
\* are what the live pipeline made of the log, also after reverts: their projectors
\* read no other table, so the order in which a bootstrap runs them does not matter.
THEOREM TurnsAreLive == Spec => []TurnsMatchLive
<1>1. RebuildInv => TurnsMatchLive
  BY RunningMatches, LiveIsAfter DEF TurnsMatchLive, Matches
<1> QED BY <1>1, RebuildInvariant, PTL

\* RebuildWithoutRevert: as long as nothing was reverted, a rebuild, however often
\* it was interrupted, gives all tables that the live pipeline gives, the summary
\* included.
THEOREM RebuildsAreLive == Spec => []RebuildWithoutRevert
<1>1. Inv /\ RebuildInv => RebuildWithoutRevert
  <2> SUFFICES ASSUME Inv, RebuildInv, mode = "running",
                      Count(LAMBDA e : e.type = "reverted") = 0
               PROVE  db = LiveDb
    BY DEF RebuildWithoutRevert, RebuildMatchesLive
  <2> DEFINE n == Len(log)
             l == After(log, n)
  <2>1. n \in Nat /\ DOMAIN log = 1..n /\ n \in 0..n /\ TypeInv
    BY Parts DEF Inv, TypeInv, LogFits
  <2>2. Clean(log)
    <3> DEFINE R == {i \in DOMAIN log : log[i].type = "reverted"}
    <3>1. Cardinality(R) = 0
      BY DEF Count
    <3>2. IsFiniteSet(R)
      <4>1. IsFiniteSet(1..n) /\ R \subseteq 1..n
        BY <2>1, FS_Interval
      <4> HIDE DEF R
      <4> QED BY <4>1, FS_Subset
    <3>3. R = {}
      <4> HIDE DEF R
      <4> QED BY <3>1, <3>2, FS_EmptySet
    <3> QED BY <3>3 DEF Clean
  <2>3. Matches(db, l, TRUE)
    BY <2>2, RunningMatches DEF Matches
  <2>4. Full(l) /\ Fresh(l)
    BY <2>1, LiveTyped
  <2>5. Full(db)
    BY DEF RebuildInv
  <2>6. Fresh(db)
    BY <2>1 DEF Inv, FreshInv, CursorInv, ToRefresh
  <2> HIDE DEF l, n
  <2>7. db = l
    BY <2>3, <2>4, <2>5, <2>6, MatchesAll
  <2> QED BY <2>7, LiveIsAfter DEF l, n
<1> QED BY <1>1, RebuildInvariant, PTL

-------------------------------------------------------------------------------
(* The plans, until a crash                                                 *)

IsDiff(e) == e.type = "turn-diff-completed"

\* No revert between the i-th and the j-th event of l drops the count of the i-th.
Stands(l, i, j) == \A k \in DOMAIN l : i <= k /\ k <= j /\ l[k].type = "reverted" => l[i].count <= l[k].count

\* An event of l gives turn t the count n, and no later one drops it.
Gave(l, t, n) ==
  \E i \in DOMAIN l : IsDiff(l[i]) /\ l[i].turn = t /\ l[i].count = n /\ Stands(l, i, Len(l))

\* Counts do not tell the turns of l apart.
Blurred(l) ==
  \E i, j \in DOMAIN l :
    /\ i < j
    /\ IsDiff(l[i]) /\ IsDiff(l[j])
    /\ (l[i].count = l[j].count) # (l[i].turn = l[j].turn)
    /\ Stands(l, i, j)

\* Until a crash, the counts of the table are those of events, and the tables and the
\* read model are alike or counts are blurred, whatever is about to be appended.
PlanInv ==
  /\ crashes \in Nat
  /\ crashes = 0 =>
       /\ mode = "running"
       /\ ThreadShape(thread)
       /\ \A t : \A n \in Nat \ {NoCount} : Counted(db.turns, t, n) => Gave(log, t, n)
       /\ Blurred(log) \/ Alike(db, thread)

\* What an event that is appended gives, and drops.
LEMMA GaveMore ==
  ASSUME NEW l, NEW e, IsSequence(l)
  PROVE  /\ \A t, n : Gave(Append(l, e), t, n) <=>
                      \/ Gave(l, t, n) /\ (e.type = "reverted" => n <= e.count)
                      \/ IsDiff(e) /\ e.turn = t /\ e.count = n
         /\ Blurred(l) => Blurred(Append(l, e))
         /\ \A t, n : Gave(l, t, n) /\ IsDiff(e) /\ (n = e.count) # (t = e.turn) => Blurred(Append(l, e))
<1> DEFINE m == Append(l, e)
<1>1. /\ Len(l) \in Nat /\ DOMAIN l = 1..Len(l) /\ Len(m) = Len(l) + 1
      /\ DOMAIN m = DOMAIN l \cup {Len(l) + 1} /\ m[Len(l) + 1] = e
      /\ \A i \in DOMAIN l : m[i] = l[i]
  BY Appended DEF IsSequence
<1> HIDE DEF m
<1>2. /\ \A i, j \in DOMAIN l : Stands(m, i, j) <=> Stands(l, i, j)
      /\ \A i \in DOMAIN l : Stands(m, i, Len(m)) <=>
                             Stands(l, i, Len(l)) /\ (e.type = "reverted" => l[i].count <= e.count)
      /\ e.type # "reverted" => Stands(m, Len(m), Len(m))
  BY <1>1 DEF Stands
<1>3. \A t, n : Gave(m, t, n) <=>
                \/ Gave(l, t, n) /\ (e.type = "reverted" => n <= e.count)
                \/ IsDiff(e) /\ e.turn = t /\ e.count = n
  BY <1>1, <1>2 DEF Gave, IsDiff
<1>4. Blurred(l) => Blurred(m)
  BY <1>1, <1>2 DEF Blurred
<1>5. ASSUME NEW t, NEW n, Gave(l, t, n), IsDiff(e), (n = e.count) # (t = e.turn) PROVE Blurred(m)
  <2>1. PICK i \in DOMAIN l : IsDiff(l[i]) /\ l[i].turn = t /\ l[i].count = n /\ Stands(l, i, Len(l))
    BY <1>5 DEF Gave
  <2>2. Stands(m, i, Len(m)) /\ i < Len(m) /\ i \in DOMAIN m /\ Len(m) \in DOMAIN m
    BY <1>1, <1>2, <1>5, <2>1 DEF IsDiff
  <2> QED BY <1>1, <1>5, <2>1, <2>2 DEF Blurred
<1> QED BY <1>3, <1>4, <1>5 DEF m

\* Recounted is Blurred of the log.
LEMMA RecountedIsBlurred == IsSequence(log) => (Recounted <=> Blurred(log))
<1> SUFFICES ASSUME IsSequence(log) PROVE Recounted <=> Blurred(log)
  OBVIOUS
<1>1. DOMAIN log = 1..Len(log) /\ Len(log) \in Nat
  BY DEF IsSequence
<1>2. \A j \in DOMAIN log : \A i \in 1..(j - 1) :
        /\ i \in DOMAIN log /\ i < j
        /\ Stands(log, i, j) <=> \A k \in i..j : log[k].type = "reverted" => log[i].count <= log[k].count
  BY <1>1 DEF Stands
<1>3. \A i, j \in DOMAIN log : i < j => i \in 1..(j - 1)
  BY <1>1
<1> QED BY <1>2, <1>3 DEF Recounted, Blurred, IsDiff

\* One event appended to a log and projected, in the tables and in memory.
LEMMA ProjectsAlike ==
  ASSUME NEW l, IsSequence(l), NEW d, Typed(d, Turns), NEW th, ThreadShape(th),
         NEW e, EventTyped(e, Turns),
         \A t : \A n \in Nat \ {NoCount} : Counted(d.turns, t, n) => Gave(l, t, n),
         Blurred(l) \/ Alike(d, th)
  PROVE  LET m == Append(l, e)
             p == ProjectEvent(d, e)
             q == ProjectThread(th, e)
         IN /\ ThreadShape(q)
            /\ \A t : \A n \in Nat \ {NoCount} : Counted(p.turns, t, n) => Gave(m, t, n)
            /\ Blurred(m) \/ Alike(p, q)
<1> DEFINE m == Append(l, e)
           p == ProjectEvent(d, e)
           q == ProjectThread(th, e)
<1>1. /\ \A t, n : Gave(m, t, n) <=>
                   \/ Gave(l, t, n) /\ (e.type = "reverted" => n <= e.count)
                   \/ IsDiff(e) /\ e.turn = t /\ e.count = n
      /\ Blurred(l) => Blurred(m)
      /\ \A t, n : Gave(l, t, n) /\ IsDiff(e) /\ (n = e.count) # (t = e.turn) => Blurred(m)
  BY GaveMore
<1>2. ThreadShape(q)
  BY ThreadFollows
<1>3. ASSUME NEW t, NEW n \in Nat \ {NoCount}, Counted(p.turns, t, n) PROVE Gave(m, t, n)
  <2>1. \/ Counted(d.turns, t, n) /\ (e.type = "reverted" => n <= e.count)
        \/ IsDiff(e) /\ t = e.turn /\ n = e.count
    BY <1>3, CountsFollow DEF IsDiff
  <2> HIDE DEF m
  <2> QED BY <1>1, <2>1
<1>4. ASSUME ~ Blurred(m) PROVE Alike(p, q)
  <2> HIDE DEF m
  <2>1. Alike(d, th)
    BY <1>1, <1>4
  <2>2. ASSUME IsDiff(e)
        PROVE  /\ Consistent(th.checkpoints, e)
               /\ \A u : Counted(d.turns, u, e.count) => u = e.turn
    <3>1. e.count \in Nat \ {NoCount}
      BY <2>2 DEF IsDiff, EventTyped
    <3>2. \A u : \A n \in Nat \ {NoCount} : Counted(d.turns, u, n) => ((n = e.count) <=> (u = e.turn))
      BY <1>1, <1>4, <2>2
    <3>3. \A u : Counted(d.turns, u, e.count) => u = e.turn
      BY <3>1, <3>2
    <3>4. ASSUME NEW c \in th.checkpoints, c.turn = e.turn PROVE c.count = e.count
      <4>1. c.count \in Nat \ {NoCount} /\ Has(th.checkpoints, c.turn, c.count)
        BY <2>1 DEF Alike, Has
      <4>2. Counted(d.turns, c.turn, c.count)
        BY <2>1, <4>1 DEF Alike
      <4> QED BY <3>2, <3>4, <4>1, <4>2
    <3> QED BY <3>3, <3>4 DEF Consistent
  <2> QED BY <2>1, <2>2, AlikeProject DEF IsDiff
<1> QED BY <1>2, <1>3, <1>4

\* A step that appends, one event or two, whoever computed them and from what.
LEMMA EmitsAlike ==
  ASSUME TypeInv, TypeInv', PlanInv, UNCHANGED crashes, mode' = mode,
         \/ \E e : Emit(e)
         \/ \E e, f : EmitBoth(e, f)
  PROVE  PlanInv'
<1> SUFFICES ASSUME crashes = 0
             PROVE  /\ ThreadShape(thread')
                    /\ \A t : \A n \in Nat \ {NoCount} : Counted(db'.turns, t, n) => Gave(log', t, n)
                    /\ Blurred(log') \/ Alike(db', thread')
  BY DEF PlanInv, Gave, IsDiff, Blurred, Stands
<1>1. /\ ThreadShape(thread) /\ IsSequence(log) /\ Typed(db, Turns)
      /\ \A t : \A n \in Nat \ {NoCount} : Counted(db.turns, t, n) => Gave(log, t, n)
      /\ Blurred(log) \/ Alike(db, thread)
      /\ NoTurn \notin Turns
  BY TurnsArePositive DEF PlanInv, TypeInv, LogFits, DbFits
<1>2. CASE \E e : Emit(e)
  <2>1. PICK e : log' = Append(log, e) /\ db' = ProjectEvent(db, e) /\ thread' = ProjectThread(thread, e)
    BY <1>2 DEF Emit
  <2>2. EventTyped(e, Turns)
    BY <2>1, EmittedFits
  <2> QED BY <1>1, <2>1, <2>2, ProjectsAlike
<1>3. CASE \E e, f : EmitBoth(e, f)
  <2>1. PICK e, f : /\ log' = log \o <<e, f>>
                    /\ db' = ProjectEvent(ProjectEvent(db, e), f)
                    /\ thread' = ProjectThread(ProjectThread(thread, e), f)
    BY <1>3 DEF EmitBoth
  <2>2. EventTyped(e, Turns) /\ EventTyped(f, Turns)
    BY <2>1, EmittedFits
  <2> DEFINE once == Append(log, e)
             d    == ProjectEvent(db, e)
             th   == ProjectThread(thread, e)
  <2>3. /\ ThreadShape(th)
        /\ \A t : \A n \in Nat \ {NoCount} : Counted(d.turns, t, n) => Gave(once, t, n)
        /\ Blurred(once) \/ Alike(d, th)
    BY <1>1, <2>2, ProjectsAlike
  <2>4. IsSequence(once) /\ Typed(d, Turns)
    BY <1>1, <2>2, Appended, ProjectTyped
  <2>5. log' = Append(once, f)
    <3>1. PICK S : log \in Seq(S)
      BY <1>1 DEF IsSequence
    <3>2. log \in Seq(S \cup {e, f})
      BY <3>1
    <3> QED BY <2>1, <3>2
  <2>6. db' = ProjectEvent(d, f) /\ thread' = ProjectThread(th, f)
    BY <2>1
  <2> HIDE DEF once, d, th
  <2> QED BY <2>2, <2>3, <2>4, <2>5, <2>6, ProjectsAlike
<1> QED BY <1>2, <1>3

\* Only a crash empties the read model, and only after one is it loaded again.
LEMMA PlanInvNext == TypeInv /\ TypeInv' /\ PlanInv /\ [Next]_vars => PlanInv'
<1> SUFFICES ASSUME TypeInv, TypeInv', PlanInv, [Next]_vars PROVE PlanInv'
  OBVIOUS
<1>1. ASSUME UNCHANGED <<log, db, thread, crashes>>, mode' = mode PROVE PlanInv'
  BY <1>1 DEF PlanInv, Gave, IsDiff, Blurred, Stands
<1>2. ASSUME NEW p, StartTurn(p) PROVE PlanInv'
  BY <1>2, EmitsAlike DEF StartTurn, bounds
<1>3. ASSUME Interrupt \/ BindSession \/ IngestionDispatch \/ ReactorDispatch PROVE PlanInv'
  <2>1. (\E e : Emit(e)) /\ UNCHANGED crashes /\ mode' = mode
    BY <1>3 DEF Interrupt, BindSession, IngestionDispatch, ReactorDispatch, bounds
  <2> QED BY <2>1, EmitsAlike
<1>4. ASSUME TurnStarted \/ AuxiliaryStarted PROVE PlanInv'
  BY <1>1, <1>4 DEF TurnStarted, AuxiliaryStarted, Ingest, stored, bounds
<1>5. ASSUME NEW n, RequestRevert(n) PROVE PlanInv'
  BY <1>1, <1>5 DEF RequestRevert, stored, bounds
<1>6. ASSUME NEW t, \/ Complete(t) \/ AssistantDelta(t) \/ PlanCompleted(t)
                    \/ DiffUpdated(t) \/ TurnCompleted(t)
      PROVE  PlanInv'
  BY <1>1, <1>6 DEF Complete, AssistantDelta, PlanCompleted, DiffUpdated, TurnCompleted, Ingest, stored, bounds
<1>7. ASSUME ReactorTake \/ ReactorFails \/ IngestionFails PROVE PlanInv'
  BY <1>1, <1>7 DEF ReactorTake, ReactorFails, IngestionFails, stored, bounds
<1>8. ASSUME Crash PROVE PlanInv'
  <2>1. crashes \in Nat /\ crashes' = crashes + 1
    BY <1>8 DEF Crash, PlanInv
  <2> QED BY <2>1 DEF PlanInv
<1>9. ASSUME DropTables \/ StartBootstrap \/ StartEngine \/ \E k \in DOMAIN Projectors : BootstrapEvent(k)
      PROVE  PlanInv'
  <2>1. mode # "running" /\ crashes' = crashes
    BY <1>9 DEF DropTables, StartBootstrap, StartEngine, BootstrapEvent, bounds
  <2> QED BY <2>1 DEF PlanInv
<1>10. ASSUME UNCHANGED vars PROVE PlanInv'
  BY <1>1, <1>10 DEF vars, stored, bounds
<1> QED
  BY <1>2, <1>3, <1>4, <1>5, <1>6, <1>7, <1>8, <1>9, <1>10 DEF Next

\* No plan and no checkpoint, in the tables or in memory.
LEMMA PlanInvInit == Init => PlanInv
<1> SUFFICES ASSUME Init PROVE PlanInv
  OBVIOUS
<1>1. db = EmptyDb /\ thread = EmptyThread /\ mode = "running" /\ crashes = 0
  BY DEF Init
<1>2. ThreadShape(EmptyThread) /\ EmptyThread.checkpoints = {} /\ EmptyThread.plans = <<>>
  BY ShortSequences DEF ThreadShape, EmptyThread
<1>3. EmptyDb.plans = <<>> /\ DOMAIN EmptyDb.turns = {}
  BY ShortSequences DEF EmptyDb
<1>4. \A t, n : ~ Counted(EmptyDb.turns, t, n)
  BY <1>3 DEF Counted
<1>5. Alike(EmptyDb, EmptyThread)
  BY <1>2, <1>3, <1>4 DEF Alike, Has
<1> QED BY <1>1, <1>2, <1>4, <1>5 DEF PlanInv

\* PlansAgree: until a restart, and while counts tell the turns apart, the plans in
\* the tables, pruned by the turns table, and those in memory, pruned by the
\* checkpoints there, are of the same turns: with reports that come late or about
\* turns beside the one that runs, stale reads, dispatches and captures that fail, and
\* any number of reverts.
THEOREM PlansAreTheSame == Spec => []PlansAgree
<1>1. Inv /\ PlanInv => PlansAgree
  <2> SUFFICES ASSUME Inv, PlanInv, crashes = 0, ~ Recounted
               PROVE  PlanTurns(db.plans) = PlanTurns(thread.plans)
    BY DEF PlansAgree, PlanInv
  <2>1. ~ Blurred(log)
    BY RecountedIsBlurred DEF Inv, TypeInv, LogFits
  <2>2. Planned(db.plans) = Planned(thread.plans)
    BY <2>1 DEF PlanInv, Alike
  <2> QED BY <2>2 DEF Planned, PlanTurns
<1>2. Init => Inv /\ PlanInv
  BY FreshInvInit, TypeInvInit, PlanInvInit DEF Inv
<1>3. Inv /\ PlanInv /\ [Next]_vars => Inv' /\ PlanInv'
  <2>1. Inv /\ [Next]_vars => Inv'
    BY FreshInvNext, TypeInvNext DEF Inv, FreshInv
  <2> QED BY <2>1, PlanInvNext DEF Inv
<1> QED BY <1>1, <1>2, <1>3, PTL DEF Spec

===============================================================================
