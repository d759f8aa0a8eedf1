--------------------------- MODULE ThreadProjections ---------------------------
(***************************************************************************)
(* What the events of one thread do to the two things that are folded from  *)
(* them: the projection tables of src/apps/server/src/orchestration/Layers/ *)
(* ProjectionPipeline.ts, one projector per table, and the part of the      *)
(* in-memory read model of orchestration/projector.ts that later commands   *)
(* and reverts depend on.                                                   *)
(*                                                                          *)
(* The thread exists.  Its turns are numbered in the order the provider     *)
(* starts them, a plan bears the number of its turn (proposedPlanIdForTurn) *)
(* and a message is named by its role and a number; timestamps follow the   *)
(* log.  A text is the number of chunks it consists of.  A checkpoint ref is  *)
(* the name of a git ref or the placeholder of one, which git does not have. *)
(***************************************************************************)
EXTENDS Integers, Sequences, SequencesExt

NoTurn  == 0  \* turnId null
NoCount == 0  \* checkpointTurnCount null; captured checkpoints count from 1

Message(role, n) == [role |-> role, n |-> n]
NoMessage        == Message("none", 0)
NoStart          == [message |-> NoMessage, plan |-> NoTurn]

-------------------------------------------------------------------------------
(* Events                                                                   *)

MessageSent(id, turn, text, streaming) ==
  [type |-> "message-sent", id |-> id, turn |-> turn, text |-> text, streaming |-> streaming]
TurnStartRequested(id, plan) == [type |-> "turn-start-requested", message |-> id, plan |-> plan]
SessionSet(status, turn)     == [type |-> "session-set", status |-> status, turn |-> turn]
PlanUpserted(turn, implemented) ==
  [type |-> "proposed-plan-upserted", turn |-> turn, implemented |-> implemented]
TurnDiffCompleted(turn, count, status, ref, id) ==
  [type |-> "turn-diff-completed", turn |-> turn, count |-> count, status |-> status,
   ref |-> ref, message |-> id]
InterruptRequested(turn) == [type |-> "turn-interrupt-requested", turn |-> turn]
Reverted(count)          == [type |-> "reverted", count |-> count]

\* The rows that are in a set, in their order (as a function and not by SelectSeq,
\* which takes an operator, to prove about it).
Only(rows, S) ==
  LET only[n \in 0..Len(rows)] ==
        IF n = 0 THEN <<>>
        ELSE IF rows[n] \in S THEN Append(only[n - 1], rows[n]) ELSE only[n - 1]
  IN only[Len(rows)]

\* The row of the same key is replaced where it is; and replaced by one at the end.
Upsert(rows, row, key) ==
  IF \E i \in DOMAIN rows : rows[i][key] = row[key]
  THEN [i \in DOMAIN rows |-> IF rows[i][key] = row[key] THEN row ELSE rows[i]]
  ELSE Append(rows, row)
MoveToEnd(rows, row, key) == Append(Only(rows, {r \in Range(rows) : r[key] # row[key]}), row)

-------------------------------------------------------------------------------
(* Reverts                                                                  *)

\* The turns of a revert to n: those with a checkpoint count up to n.
KeptTurns(turns, n) == {t \in DOMAIN turns : turns[t].count # NoCount /\ turns[t].count <= n}

\* A bug: a revert prunes the turns and not the messages.
RetainAllMessages(messages, turns, n) == messages

\* retainProjectionMessagesAfterRevert: the messages of the kept turns and the
\* ones these name, and if they are fewer than n of a role, the earliest ones
\* of that role that no dropped turn owns.
RetainMessages(messages, turns, n) ==
  LET kept  == KeptTurns(turns, n)
      named == {turns[t].pendingMessage : t \in kept} \cup {turns[t].message : t \in kept}
      retained == {m \in Range(messages) : m.turn \in kept \/ m.id \in named}
      Fallback(role) ==
        LET missing == n - Len(Only(messages, {m \in retained : m.id.role = role}))
            spare   == Only(messages, {m \in Range(messages) \ retained :
                                         m.id.role = role /\ m.turn \in kept \cup {NoTurn}})
        IN {spare[i] : i \in {j \in DOMAIN spare : j <= missing}}
  IN Only(messages, retained \cup Fallback("user") \cup Fallback("assistant"))

\* A bug: a revert prunes the turns and not the plans.
RetainAllPlans(plans, kept) == plans

\* retainProjectionProposedPlansAfterRevert.
RetainPlans(plans, kept) == Only(plans, {p \in Range(plans) : p.turn \in kept})

-------------------------------------------------------------------------------
(* The tables                                                               *)

EmptyTurn == [state |-> "running", pendingMessage |-> NoMessage, message |-> NoMessage,
              count |-> NoCount, status |-> "none", ref |-> "none"]

EmptyDb == [messages |-> <<>>,
            plans    |-> <<>>,
            session  |-> [status |-> "none", turn |-> NoTurn],
            turns    |-> <<>>,      \* turn id -> row
            pending  |-> NoStart,   \* the row without a turn id
            shell    |-> [latestTurn |-> NoTurn, latestUser |-> NoMessage, actionable |-> FALSE]]

TurnRow(turns, t)      == IF t \in DOMAIN turns THEN turns[t] ELSE EmptyTurn
SetTurn(turns, t, row) == [u \in DOMAIN turns \cup {t} |-> IF u = t THEN row ELSE turns[u]]

\* What an existing message becomes: a streamed chunk is appended, a final text
\* replaces what was there and an empty final text keeps it.
SentMessage(messages, e) ==
  LET old  == {m.text : m \in {m \in Range(messages) : m.id = e.id}}
      text == IF old = {} \/ (~ e.streaming /\ e.text # 0) THEN e.text
              ELSE (CHOOSE x \in old : TRUE) + e.text
  IN [id |-> e.id, turn |-> e.turn, text |-> text, streaming |-> e.streaming]

ApplyMessages(db, e) ==
  CASE e.type = "message-sent" ->
         [db EXCEPT !.messages = Upsert(@, SentMessage(@, e), "id")]
    [] e.type = "reverted" ->
         [db EXCEPT !.messages = RetainMessages(@, db.turns, e.count)]
    [] OTHER -> db

ApplyPlans(db, e) ==
  CASE e.type = "proposed-plan-upserted" ->
         [db EXCEPT !.plans = MoveToEnd(@, [turn |-> e.turn, implemented |-> e.implemented], "turn")]
    [] e.type = "reverted" ->
         [db EXCEPT !.plans = RetainPlans(@, KeptTurns(db.turns, e.count))]
    [] OTHER -> db

ApplySessions(db, e) ==
  IF e.type = "session-set"
  THEN [db EXCEPT !.session = [status |-> e.status, turn |-> e.turn]]
  ELSE db

\* The turn the session runs takes over the pending start.
StartTurnRow(db, e) ==
  LET row == TurnRow(db.turns, e.turn)
      started == [row EXCEPT
        !.state = IF @ \in {"completed", "error"} THEN @ ELSE "running",
        !.pendingMessage = IF @ = NoMessage THEN db.pending.message ELSE @]
  IN [db EXCEPT !.turns = SetTurn(@, e.turn, started), !.pending = NoStart]

AssistantTurnRow(db, e) ==
  LET row == TurnRow(db.turns, e.turn)
      sent == [row EXCEPT
        !.message = e.id,
        !.state = IF e.streaming \/ @ \in {"interrupted", "error"} THEN @ ELSE "completed"]
  IN [db EXCEPT !.turns = SetTurn(@, e.turn, sent)]

\* Bugs: the other turn keeps the checkpoint count, or only the status.
ClearNoConflict(turns, t, count) == turns
ClearCountOnly(turns, t, count) ==
  [u \in DOMAIN turns |->
    IF u # t /\ turns[u].count = count THEN [turns[u] EXCEPT !.count = NoCount] ELSE turns[u]]

\* clearCheckpointTurnConflict: a count belongs to one turn only.
ClearConflict(turns, t, count) ==
  [u \in DOMAIN turns |->
    IF u # t /\ turns[u].count = count
    THEN [turns[u] EXCEPT !.count = NoCount, !.status = "none", !.ref = "none"]
    ELSE turns[u]]

DiffTurnRow(db, e) ==
  LET row == TurnRow(db.turns, e.turn)
      done == [row EXCEPT
        !.message = e.message,
        !.state = IF e.status = "error" THEN "error" ELSE "completed",
        !.count = e.count,
        !.status = e.status,
        !.ref = e.ref]
  IN [db EXCEPT !.turns = SetTurn(ClearConflict(@, e.turn, e.count), e.turn, done)]

ApplyTurns(db, e) ==
  CASE e.type = "turn-start-requested" ->
         [db EXCEPT !.pending = [message |-> e.message, plan |-> e.plan]]
    [] e.type = "session-set" /\ e.turn # NoTurn /\ e.status = "running" -> StartTurnRow(db, e)
    [] e.type = "message-sent" /\ e.turn # NoTurn /\ e.id.role = "assistant" ->
         AssistantTurnRow(db, e)
    [] e.type = "turn-interrupt-requested" ->
         [db EXCEPT !.turns = SetTurn(@, e.turn, [TurnRow(@, e.turn) EXCEPT !.state = "interrupted"])]
    [] e.type = "turn-diff-completed" -> DiffTurnRow(db, e)
    [] e.type = "reverted" ->
         [db EXCEPT !.turns = [t \in KeptTurns(@, e.count) |-> @[t]], !.pending = NoStart]
    [] OTHER -> db

\* deriveHasActionableProposedPlan: of the latest turn's plan, or else of the
\* plan updated last.
Actionable(plans, latestTurn) ==
  LET ofTurn == {i \in DOMAIN plans : plans[i].turn = latestTurn}
  IN IF ofTurn # {} THEN ~ plans[Max(ofTurn)].implemented
     ELSE plans # <<>> /\ ~ Last(plans).implemented

LatestUser(messages) ==
  LET ofUser == {i \in DOMAIN messages : messages[i].id.role = "user"}
  IN IF ofUser = {} THEN NoMessage ELSE messages[Max(ofUser)].id

\* refreshThreadShellSummary.
RefreshShell(db, latestTurn) ==
  [db EXCEPT !.shell = [latestTurn |-> latestTurn,
                        latestUser |-> LatestUser(db.messages),
                        actionable |-> Actionable(db.plans, latestTurn)]]

\* The kept turn with the highest count.
LatestKept(turns, n) ==
  LET kept == KeptTurns(turns, n)
  IN IF kept = {} THEN NoTurn
     ELSE CHOOSE t \in kept : \A u \in kept : turns[u].count <= turns[t].count

ApplyThreads(db, e) ==
  CASE e.type \in {"message-sent", "proposed-plan-upserted"} -> RefreshShell(db, db.shell.latestTurn)
    [] e.type \in {"session-set", "turn-diff-completed"}     -> RefreshShell(db, e.turn)
    [] e.type = "reverted" -> RefreshShell(db, LatestKept(db.turns, e.count))
    [] OTHER -> db

-------------------------------------------------------------------------------
(* Projectors                                                               *)

\* The order of the projectors in the pipeline.
Projectors == <<"threadMessages", "threadProposedPlans", "threadSessions", "threadTurns", "threads">>

Apply(projector, db, e) ==
  CASE projector = "threadMessages"      -> ApplyMessages(db, e)
    [] projector = "threadProposedPlans" -> ApplyPlans(db, e)
    [] projector = "threadSessions"      -> ApplySessions(db, e)
    [] projector = "threadTurns"         -> ApplyTurns(db, e)
    [] projector = "threads"             -> ApplyThreads(db, e)

\* A bug: the shell is projected before the tables it summarises.
ProjectShellFirst(db, e) ==
  ApplyTurns(ApplySessions(ApplyPlans(ApplyMessages(ApplyThreads(db, e), e), e), e), e)

\* projectEvent: one event through every projector.
ProjectEvent(db, e) ==
  ApplyThreads(ApplyTurns(ApplySessions(ApplyPlans(ApplyMessages(db, e), e), e), e), e)

-------------------------------------------------------------------------------
(* The read model in memory                                                 *)

EmptyThread == [plans |-> <<>>, checkpoints |-> {}]

\* A placeholder never replaces a checkpoint that was captured.
Supersedes(thread, e) ==
  ~ \E c \in thread.checkpoints : c.turn = e.turn /\ c.status # "missing" /\ e.status = "missing"

\* A bug: the checkpoint reverted to is dropped, too.
CheckpointsBelow(thread, n) == {c \in thread.checkpoints : c.count < n}

CheckpointsUpTo(thread, n) == {c \in thread.checkpoints : c.count <= n}

\* projector.ts, projectEvent.
ProjectThread(thread, e) ==
  CASE e.type = "proposed-plan-upserted" ->
         [thread EXCEPT !.plans = MoveToEnd(@, [turn |-> e.turn, implemented |-> e.implemented], "turn")]
    [] e.type = "turn-diff-completed" /\ Supersedes(thread, e) ->
         [thread EXCEPT !.checkpoints = {c \in @ : c.turn # e.turn} \cup
            {[turn |-> e.turn, count |-> e.count, status |-> e.status]}]
    [] e.type = "reverted" ->
         LET kept == CheckpointsUpTo(thread, e.count)
         IN [thread EXCEPT !.checkpoints = kept, !.plans = RetainPlans(@, {c.turn : c \in kept})]
    [] OTHER -> thread

===============================================================================
