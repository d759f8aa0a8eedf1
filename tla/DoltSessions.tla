----------------------------- MODULE DoltSessions -----------------------------
(***************************************************************************)
(* packages/doltlite: the connections that have one database open, their    *)
(* SQL transactions (prolly_btree.c), dolt_add, dolt_commit and dolt_tag    *)
(* (doltlite.c), dolt_gc (doltlite_gc.c), and the refs they read and write  *)
(* through their own copy of the chunk store (chunk_store.c).               *)
(*                                                                          *)
(* A connection holds three things that it does not renew together: the     *)
(* refs of the file, the working catalog its statements read and write, and *)
(* the head its dolt_commit builds on.  This module is about what becomes   *)
(* of acknowledged writes and commits because of that.                      *)
(*                                                                          *)
(* A catalog is a set of rows.  One branch; no merge, checkout or reset.    *)
(* Appending to the file and reading it are single steps here (ChunkLog has *)
(* their parts), as is taking the lock: open and flock.  A file is its size *)
(* and the refs of its last root; dolt_gc puts a new file in its place.     *)
(***************************************************************************)
EXTENDS Naturals, Sequences, FiniteSets

CONSTANTS
  Sessions, NoSession,
  Rows,
  Functions,    \* of "add", "tag" and "gc", those that are called
  MaxAppends,   \* bound: appends to a file
  MaxCommits,   \* bound: commits, the first one included
  MaxCalls      \* bound: calls of these functions

ASSUME SessionAssumption ==
  /\ NoSession \notin Sessions
  /\ MaxAppends \in Nat /\ MaxCommits \in Nat \ {0} /\ MaxCalls \in Nat

VARIABLES
  files,    \* the files that were in place one after the other
  lock,     \* the session whose graphLockFd holds the lock, or NoSession
  conn,     \* the sessions
  commits,  \* the commit chunks: their catalogs, and the commits they descend from
  acked,    \* the commits whose hash a dolt_commit returned
  told,     \* the refs that what sessions were told adds up to
  flaws,    \* which of the hazards in the README the behaviour has met
  appends, calls   \* counted for the bounds

history  == <<acked, told, flaws>>
counters == <<appends, calls>>
vars     == <<files, lock, conn, commits, history, counters>>

Catalogs == SUBSET Rows
NoOp     == [kind |-> "none", cat |-> {}]

-------------------------------------------------------------------------------
(* A session's copy of the chunk store                                      *)

Path    == Len(files)        \* the file in place
File(c) == files[c.file]     \* the file the session has open

\* csDetectExternalChanges.
Detects(c) == (~c.hasMovedChecked /\ c.file # Path) \/ File(c).size > c.size

\* The answer is kept, unless the file had moved.
Looked(c) == [c EXCEPT !.hasMovedChecked = @ \/ c.file = Path]

\* csReloadFromDisk.
Reloaded(c) ==
  [c EXCEPT !.file = Path, !.size = files[Path].size, !.hasMovedChecked = FALSE,
            !.refs = files[Path].refs, !.committedRefs = files[Path].refs]

Unpinned(c) == IF Detects(c) THEN Reloaded(c) ELSE Looked(c)

\* chunkStoreRefreshIfChanged.
RefreshIfChanged(c) == IF c.snapshotPinned THEN c ELSE Unpinned(c)

\* A bug: the refs survive the reload, and what was appended before is lost.
Overwriting(c) ==
  IF c.file # Path \/ File(c).size > c.size THEN [Reloaded(c) EXCEPT !.refs = c.refs] ELSE c

\* What csCommitToFile appends to and with: it reloads, and so drops the refs it
\* was to write, if the file was replaced or has grown.
Current(c) == IF c.file # Path \/ File(c).size > c.size THEN Reloaded(c) ELSE c

\* The session after csCommitToFile, and the file.
Appended(c) == [Current(c) EXCEPT !.size = files[Path].size + 1, !.committedRefs = Current(c).refs]
Grown(c)    == [files EXCEPT ![Path] = [size |-> @.size + 1, refs |-> Current(c).refs]]

\* csCommitToFile, under the lock.
CommitToFile(s, c) ==
  /\ appends < MaxAppends /\ appends' = appends + 1
  /\ files' = Grown(c)
  /\ conn' = [conn EXCEPT ![s] = Appended(c)]

\* The file changed under a session that does not read its catalog again.
Splits(c, d) == IF d.file = c.file /\ d.size = c.size THEN {} ELSE {"split"}

\* A bug: the lock is not exclusive.
AlwaysLocks(s) == s \in Sessions

CanLock(s) == lock \in {s, NoSession}

-------------------------------------------------------------------------------
(* A session's catalog                                                      *)

\* A bug: the catalog is read only once.
LoadedOnce(c) == IF c.committed = {} THEN c.refs.work ELSE c.cat

\* The working catalog of the refs, unless it is the one the session wrote last.
Loaded(c) == IF c.refs.work \in c.committed THEN c.cat ELSE c.refs.work

\* btreeReloadBranchWorkingState.
WorkingState(c) == [c EXCEPT !.cat = Loaded(c), !.staged = c.refs.staged]

\* A bug: it does not ask whether a transaction reads the old refs.
RefreshedAlways(c) == IF Detects(c) THEN WorkingState(Reloaded(c)) ELSE Looked(c)

\* btreeRefreshFromDisk.
RefreshFromDisk(c) ==
  IF c.snapshotPinned THEN c
  ELSE IF Detects(c) THEN WorkingState(Reloaded(c)) ELSE Looked(c)

\* It was not read although the session has another one.
Returns(c) == IF c.refs.work \in c.committed /\ c.cat # c.refs.work THEN {"returned"} ELSE {}

\* btreeStoreWorkingSetBlob and chunkStoreSerializeRefs.
Stored(c) == [c EXCEPT !.refs.work = c.cat, !.refs.staged = c.staged]

\* restoreFromCommitted and chunkStoreRollback.
Restored(c) ==
  [c EXCEPT !.cat = CHOOSE x \in Catalogs : x \in c.committed,
            !.staged = c.committedStaged, !.refs = c.committedRefs]

In(c, tx) == [c EXCEPT !.tx = tx, !.snapshotPinned = tx # "none"]
Ended(c)  == [In(c, "none") EXCEPT !.start = {}, !.committedStaged = {}]

Called(f) == f \in Functions /\ calls < MaxCalls /\ calls' = calls + 1

Idle(s) == conn[s].tx # "closed" /\ conn[s].op = NoOp

-------------------------------------------------------------------------------
(* Connections and SQL transactions                                         *)

NoRefs == [head |-> 0, work |-> {}, staged |-> {}]

Closed ==
  [tx |-> "closed", snapshotPinned |-> FALSE, file |-> 0, size |-> 0, hasMovedChecked |-> FALSE,
   refs |-> NoRefs, committedRefs |-> NoRefs, cat |-> {}, staged |-> {}, headCommit |-> 0,
   committed |-> {}, committedStaged |-> {}, start |-> {}, op |-> NoOp]

\* sqlite3BtreeOpen: the only place where the head is taken from the branch.
Opened ==
  LET c == Reloaded([Closed EXCEPT !.tx = "none"])
  IN  [c EXCEPT !.cat = c.refs.work, !.staged = c.refs.staged, !.headCommit = c.refs.head]

\* A session remembers a larger file than the one it collected into.
Outlived(c) == c.tx # "closed" /\ c.size > File(c).size

Open(s) ==
  /\ conn[s].tx = "closed"
  /\ conn' = [conn EXCEPT ![s] = Opened]
  /\ flaws' = flaws \cup IF \E t \in Sessions : Outlived(conn[t]) THEN {"collected"} ELSE {}
  /\ UNCHANGED <<files, lock, commits, acked, told, counters>>

\* The connection is closed, or its process dies, and the lock goes with it.
Exit(s) ==
  /\ conn[s].tx # "closed"
  /\ conn' = [conn EXCEPT ![s] = Closed]
  /\ lock' = IF lock = s THEN NoSession ELSE lock
  /\ UNCHANGED <<files, commits, history, counters>>

\* prollyBtreeBeginTrans for a read.
BeginRead(s) ==
  LET c == RefreshFromDisk(conn[s])
  IN  /\ Idle(s) /\ conn[s].tx = "none"
      /\ conn' = [conn EXCEPT ![s] = In(c, "read")]
      /\ flaws' = flaws \cup Returns(c)
      /\ UNCHANGED <<files, lock, commits, acked, told, counters>>

\* A bug: any snapshot will do.
NeverOld(c) == FALSE

\* A reader whose snapshot is not the last one does not get to write.
SnapshotIsOld(c) == c.tx = "read" /\ Detects(c)

\* A bug: committedCatalogHash is not read again.
WritingOn(c) ==
  LET d == WorkingState(c)
  IN  In([d EXCEPT !.committedStaged = d.staged, !.start = d.cat], "write")

\* The transaction starts from the refs, and rolls back to them.
Writing(c) ==
  LET d == WorkingState(c)
  IN  In([d EXCEPT !.committed = {d.refs.work}, !.committedStaged = d.staged, !.start = d.cat], "write")

\* prollyBtreeBeginTrans for a write: it takes the lock, or reports SQLITE_BUSY
\* or SQLITE_BUSY_SNAPSHOT.
BeginWrite(s) ==
  LET c == RefreshFromDisk(conn[s])
      Begins == CanLock(s) /\ ~SnapshotIsOld(c)
  IN  /\ Idle(s) /\ conn[s].tx \in {"none", "read"}
      /\ conn' = [conn EXCEPT ![s] = IF Begins THEN Writing(Looked(c))
                                     ELSE IF CanLock(s) THEN Looked(c) ELSE c]
      /\ lock' = IF Begins THEN s ELSE lock
      /\ flaws' = flaws \cup Returns(c)
      /\ UNCHANGED <<files, commits, acked, told, counters>>

\* INSERT or DELETE.
ChangeRow(s) ==
  /\ Idle(s) /\ conn[s].tx = "write"
  /\ \E r \in Rows :
       conn' = [conn EXCEPT ![s].cat = IF r \in @ THEN @ \ {r} ELSE @ \cup {r}]
  /\ UNCHANGED <<files, lock, commits, history, counters>>

\* prollyBtreeCommitPhaseTwo of a read.
EndRead(s) ==
  /\ Idle(s) /\ conn[s].tx = "read"
  /\ conn' = [conn EXCEPT ![s] = In(@, "none")]
  /\ UNCHANGED <<files, lock, commits, history, counters>>

\* What the transaction did, done to rows.
Applied(c, rows) == (rows \ (c.start \ c.cat)) \cup (c.cat \ c.start)

\* prollyBtreeCommitPhaseTwo of a write.
CommitWrite(s) ==
  LET c == conn[s]
  IN  /\ Idle(s) /\ c.tx = "write"
      /\ CanLock(s)
      /\ CommitToFile(s, Ended([Stored(c) EXCEPT !.committed = {c.cat}]))
      /\ lock' = NoSession
      /\ told' = [told EXCEPT !.work = Applied(c, @)]
      /\ UNCHANGED <<commits, acked, flaws, calls>>

\* The transaction has lost its lock to another: it is undone.
CommitIsBusy(s) ==
  /\ Idle(s) /\ conn[s].tx = "write"
  /\ ~CanLock(s)
  /\ conn' = [conn EXCEPT ![s] = Ended(Restored(@))]
  /\ UNCHANGED <<files, lock, commits, history, counters>>

\* prollyBtreeRollback: it writes the state it goes back to.
RollbackWrite(s) ==
  /\ Idle(s) /\ conn[s].tx = "write"
  /\ CanLock(s)
  /\ CommitToFile(s, Ended(Stored(Restored(conn[s]))))
  /\ lock' = NoSession
  /\ UNCHANGED <<commits, history, calls>>

\* It cannot: inTrans stays TRANS_WRITE.
RollbackIsBusy(s) ==
  /\ Idle(s) /\ conn[s].tx = "write"
  /\ ~CanLock(s)
  /\ conn' = [conn EXCEPT ![s] = [Stored(Restored(@)) EXCEPT !.snapshotPinned = FALSE]]
  /\ UNCHANGED <<files, lock, commits, history, counters>>

-------------------------------------------------------------------------------
(* dolt_add                                                                 *)

\* A refresh by a statement of its own, unless a transaction is open.
Prepared(c) == IF c.tx = "none" THEN RefreshFromDisk(c) ELSE c

\* doltliteStageArgsAndPersist: stage the working catalog, before any lock.
\* The session's staged catalog is kept for the case that it fails.
StartAdd(s) ==
  LET c == Prepared(conn[s])
  IN  /\ Idle(s) /\ Called("add")
      /\ conn' = [conn EXCEPT ![s] =
                    [c EXCEPT !.staged = c.cat, !.op = [kind |-> "add", cat |-> c.staged]]]
      /\ flaws' = flaws \cup Returns(c)
      /\ UNCHANGED <<files, lock, commits, acked, told, appends>>

\* doltlitePersistWorkingSet: chunkStoreCommit takes the lock if it must, and
\* gives back only what it took.
FinishAdd(s) ==
  LET c == [Stored(conn[s]) EXCEPT !.op = NoOp]
      d == IF lock = s THEN c ELSE RefreshIfChanged(c)
  IN  /\ conn[s].op.kind = "add"
      /\ CanLock(s)
      /\ CommitToFile(s, d)
      /\ told' = [told EXCEPT !.staged = c.staged]
      /\ flaws' = flaws \cup Splits(c, Current(d)) \cup IF c.tx = "write" THEN {"exposed"} ELSE {}
      /\ UNCHANGED <<lock, commits, acked, calls>>

\* SQLITE_BUSY: the session's staged catalog is restored, its refs are not.
AddIsBusy(s) ==
  /\ conn[s].op.kind = "add"
  /\ ~CanLock(s)
  /\ conn' = [conn EXCEPT ![s] = [Stored(@) EXCEPT !.staged = conn[s].op.cat, !.op = NoOp]]
  /\ flaws' = flaws \cup {"refused"}
  /\ UNCHANGED <<files, lock, commits, acked, told, counters>>

-------------------------------------------------------------------------------
(* dolt_commit.  It COMMITs an open transaction first: CommitWrite, EndRead.*)

NothingToCommit(c, cat) == cat = commits[c.headCommit].cat

\* doltliteCommitFunc up to the lock: with -A it stages the working catalog.
StartCommit(s) ==
  LET c == Prepared(conn[s])
  IN  /\ Idle(s) /\ conn[s].tx = "none" /\ Len(commits) < MaxCommits
      /\ \E cat \in {c.cat, c.staged} :
           conn' = [conn EXCEPT ![s] =
                      [c EXCEPT !.staged = cat,
                                !.op = IF NothingToCommit(c, cat) THEN NoOp
                                       ELSE [kind |-> "commit", cat |-> cat]]]
      /\ flaws' = flaws \cup Returns(c)
      /\ UNCHANGED <<files, lock, commits, acked, told, counters>>

\* A bug: the session's head is not compared with the branch.
AnyHead(c) == TRUE

\* doltliteRefreshAndConfirmHead, after its refresh.
HeadConfirmed(c) == c.refs.head = c.headCommit

\* doltliteAdvanceBranch, with the catalog the session has.
Advanced(c, n) ==
  LET d == [c EXCEPT !.staged = c.op.cat, !.headCommit = n, !.op = NoOp]
  IN  [Stored(d) EXCEPT !.refs.head = n]

FinishCommit(s) ==
  LET c == RefreshIfChanged(conn[s])
      n == Len(commits) + 1
  IN  /\ conn[s].op.kind = "commit"
      /\ CanLock(s) /\ HeadConfirmed(c) /\ n <= MaxCommits
      /\ CommitToFile(s, Advanced(c, n))
      /\ commits' = Append(commits, [cat |-> c.op.cat, past |-> commits[c.headCommit].past \cup {n}])
      /\ acked' = acked \cup {n}
      /\ told' = [told EXCEPT !.head = n, !.staged = c.op.cat]
      /\ flaws' = flaws \cup Splits(conn[s], c)
      /\ UNCHANGED <<lock, calls>>

\* "commit conflict: another connection committed to this branch."
CommitConflicts(s) ==
  LET c == IF CanLock(s) THEN RefreshIfChanged(conn[s]) ELSE conn[s]
  IN  /\ conn[s].op.kind = "commit"
      /\ CanLock(s) => ~HeadConfirmed(c)
      /\ conn' = [conn EXCEPT ![s] = [c EXCEPT !.op = NoOp]]
      /\ flaws' = flaws \cup Splits(conn[s], c)
      /\ UNCHANGED <<files, lock, commits, acked, told, counters>>

-------------------------------------------------------------------------------
(* dolt_tag and dolt_gc                                                     *)

\* Both give up the lock, also when a transaction of the session holds it.
Released(c) == IF c.tx = "write" THEN {"released"} ELSE {}

\* doltliteMutateRefs: it refreshes in a transaction too.  The tag is left out.
Tag(s) ==
  LET c == Unpinned(conn[s])
  IN  /\ Idle(s) /\ Called("tag")
      /\ CanLock(s)
      /\ CommitToFile(s, c)
      /\ lock' = NoSession
      /\ flaws' = flaws \cup Splits(conn[s], Current(c)) \cup Released(c)
      /\ UNCHANGED <<commits, acked, told>>

\* No other session is open, and this one reads what is in the file.
Alone(s) == conn[s].tx = "none" /\ \A t \in Sessions \ {s} : conn[t].tx = "closed"

\* doltliteGcFunc: chunks that the session's refs do not reach are left out of a
\* new file, which is then put in place; iFileSize stays.  Whether there are any,
\* and what the others take, is open here.
Gc(s) ==
  LET c == IF lock = s THEN conn[s] ELSE RefreshIfChanged(conn[s])
  IN  /\ Idle(s) /\ Called("gc")
      /\ CanLock(s)
      /\ lock' = NoSession
      /\ \/ /\ conn' = [conn EXCEPT ![s] = c]
            /\ UNCHANGED files
         \/ \E n \in 1..File(c).size :
              /\ files' = Append(files, [size |-> n, refs |-> c.refs])
              /\ conn' = [conn EXCEPT ![s] = [c EXCEPT !.file = Path + 1]]
      /\ flaws' = flaws \cup Splits(conn[s], c) \cup Released(c)
                        \cup IF Alone(s) THEN {} ELSE {"collected"}
      /\ UNCHANGED <<commits, acked, told, appends>>

-------------------------------------------------------------------------------

FirstRefs == [head |-> 1, work |-> {}, staged |-> {}]

\* A table without rows is committed.
Init ==
  /\ files = <<[size |-> 1, refs |-> FirstRefs]>>
  /\ lock = NoSession
  /\ conn = [s \in Sessions |-> Closed]
  /\ commits = <<[cat |-> {}, past |-> {1}]>>
  /\ acked = {1} /\ told = FirstRefs /\ flaws = {}
  /\ appends = 0 /\ calls = 0

Next ==
  \E s \in Sessions :
    \/ Open(s) \/ Exit(s)
    \/ BeginRead(s) \/ EndRead(s)
    \/ BeginWrite(s) \/ ChangeRow(s) \/ CommitWrite(s) \/ CommitIsBusy(s)
    \/ RollbackWrite(s) \/ RollbackIsBusy(s)
    \/ StartAdd(s) \/ FinishAdd(s) \/ AddIsBusy(s)
    \/ StartCommit(s) \/ FinishCommit(s) \/ CommitConflicts(s)
    \/ Tag(s) \/ Gc(s)

Spec == Init /\ [][Next]_vars

-------------------------------------------------------------------------------
(* Properties                                                               *)

Flaws == {"split", "returned", "released", "exposed", "refused", "collected"}
Refs  == [head : Nat, work : Catalogs, staged : Catalogs]
Session ==
  [tx : {"closed", "none", "read", "write"}, snapshotPinned : BOOLEAN,
   file : Nat, size : Nat, hasMovedChecked : BOOLEAN, refs : Refs, committedRefs : Refs,
   cat : Catalogs, staged : Catalogs, headCommit : Nat,
   committed : SUBSET Catalogs, committedStaged : Catalogs, start : Catalogs,
   op : [kind : {"none", "add", "commit"}, cat : Catalogs]]

\* An open session has one of n files and knows of m commits; a write transaction
\* has one catalog to go back to.
Fits(c, n, m) ==
  /\ c \in Session
  /\ c.tx # "closed" =>
       /\ c.file \in 1..n
       /\ c.headCommit \in 1..m /\ c.refs.head \in 1..m /\ c.committedRefs.head \in 1..m
       /\ c.tx = "write" => \E x \in Catalogs : c.committed = {x}

\* Every variable keeps its type; heads are commits, and a write transaction has
\* one catalog to go back to.
TypeOK ==
  /\ files \in Seq([size : Nat, refs : Refs]) /\ files # <<>>
  /\ lock \in Sessions \cup {NoSession}
  /\ conn \in [Sessions -> Session]
  /\ commits \in Seq([cat : Catalogs, past : SUBSET Nat])
  /\ acked \subseteq 1..Len(commits) /\ told \in Refs /\ flaws \subseteq Flaws
  /\ appends \in Nat /\ calls \in Nat
  /\ \A i \in 1..Path : files[i].refs.head \in 1..Len(commits)
  /\ \A s \in Sessions : Fits(conn[s], Path, Len(commits))

\* Two sessions are never in write transactions together, until one gives up its
\* lock in the middle.
OneWriter ==
  "released" \notin flaws =>
    \A s, t \in Sessions : conn[s].tx = "write" /\ conn[t].tx = "write" => s = t

\* A commit whose hash dolt_commit returned stays in the history of the branch:
\* concurrent_commit_test.c, "NO SILENT COMMIT LOSS".  dolt_gc loses it when others
\* have the file open, or the collector itself lags behind.
CommitsStay == acked \subseteq commits[files[Path].refs.head].past

\* It stays whatever else sessions do to each other: stale catalogs, locks given
\* up, refused calls, deaths.
CommitsStayUnlessCollected == "collected" \notin flaws => CommitsStay

\* The file holds what the sessions were told: every acknowledged write, in the
\* order of the acknowledgements, the last catalog staged and the last commit.
ToldIsStored == flaws = {} => files[Path].refs = told

\* A session reads one catalog from the start of its transaction until it writes,
\* and starts to write from that one: snapshotPinned and SQLITE_BUSY_SNAPSHOT.
ReadStays ==
  [][\A s \in Sessions :
       conn[s].tx = "read" /\ conn'[s].tx \in {"read", "write"} /\ flaws' = {}
         => conn'[s].cat = conn[s].cat]_vars
===============================================================================
