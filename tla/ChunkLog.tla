------------------------------- MODULE ChunkLog -------------------------------
(***************************************************************************)
(* packages/doltlite, chunk_store.c: how the processes that share one       *)
(* database file commit to it, and what is found in it after crashes.       *)
(*                                                                          *)
(* A commit appends its new chunks and then a root record, with one sync at *)
(* the end, under an exclusive file lock; it is acknowledged after that.    *)
(* Who opens or refreshes reads the records up to the first torn one and    *)
(* takes the last root; it does so without the lock, also while another     *)
(* process appends.  No index, page or gc here: the file only grows, except *)
(* where a failed commit truncates it.                                      *)
(*                                                                          *)
(* The file is the sequence of its successful writes, so its length stands  *)
(* for its size in bytes, and a crash falls between any two of them:        *)
(*   [tag |-> "manifest"], the first write of a new file;                   *)
(*   [tag |-> "header", of |-> c] and [tag |-> "data", of |-> c], a chunk;  *)
(*   [tag |-> "root", of |-> n], the root record of commit n;               *)
(*   [tag |-> "short"], the part of any of these that a write cut off left. *)
(* Bytes that follow a torn record are parsed as if they were its own, so   *)
(* a reader fails or stops there; it could get back in step only if the     *)
(* missing length ended exactly at a later record, which is left out.       *)
(***************************************************************************)
EXTENDS Naturals, Sequences, FiniteSets

CONSTANTS
  Procs, NoProc,
  Chunks,       \* the chunks commits are made of, by their hashes
  MaxCommits,   \* bound: commits started
  MaxCrashes,   \* bound: processes that die, and losses of power
  MaxFailures   \* bound: writes and syncs that report an error

ASSUME LogAssumption ==
  /\ NoProc \notin Procs
  /\ MaxCommits \in Nat /\ MaxCrashes \in Nat /\ MaxFailures \in Nat

VARIABLES
  file,      \* the writes the file holds
  synced,    \* how many of them a loss of power leaves
  lock,      \* the process that holds the file lock, or NoProc
  cs,        \* the ChunkStore of each process
  pc,        \* of the lock holder: "append", "data", "sync" or "failed"
  todo,      \* its pending chunks that are not written yet
  orig,      \* origFileSize: the size of the file before its commit
  tried, acked,  \* numbers of the last commit started and acknowledged
  content,   \* by commit, the chunks its root refers to
  base,      \* by commit, the commit its process had read before
  crashes, failures  \* counted for the bounds

commit  == <<pc, todo, orig>>
history == <<tried, acked, content, base>>
vars    == <<file, synced, lock, cs, commit, history, crashes, failures>>

Commits == 1..MaxCommits

Write(t)  == [tag |-> t]
Of(t, x)  == [tag |-> t, of |-> x]

-------------------------------------------------------------------------------
(* Reading the file                                                         *)

\* A record that is not all there.
Torn(f, i) ==
  \/ f[i].tag = "short"
  \/ f[i].tag = "header" /\ (i = Len(f) \/ f[i + 1].tag # "data")

\* The replay gets to write i: no record before it is torn.
Reached(f, i) == \A j \in 1..(i - 1) : ~Torn(f, j)

RootsOf(f) == {i \in 1..Len(f) : f[i].tag = "root" /\ Reached(f, i)}

IsLast(S, i) == i \in S /\ \A j \in S : j <= i

LastRoot(f) == IF RootsOf(f) = {} THEN 0 ELSE CHOOSE i \in 1..Len(f) : IsLast(RootsOf(f), i)

\* A bug: the replay goes by the first root it finds.
FirstRecovered(f) ==
  IF RootsOf(f) = {} THEN 0
  ELSE f[CHOOSE i \in RootsOf(f) : \A j \in RootsOf(f) : i <= j].of

\* The commit that opening the file yields.
Recovered(f) == IF LastRoot(f) = 0 THEN 0 ELSE f[LastRoot(f)].of

\* A bug: the replay indexes root records as if they were chunks.
IndexedUntagged(f) == {f[i].of : i \in {j \in 1..LastRoot(f) : f[j].tag \in {"data", "root"}}}

\* The chunks the root that was found may refer to.
Indexed(f) == {f[i].of : i \in {j \in 1..LastRoot(f) : f[j].tag = "data"}}

\* csReadManifest fails on a manifest cut off.
Openable(f) == f # <<>> => f[1].tag = "manifest"

Opened(f) == [up |-> TRUE, refs |-> Recovered(f), index |-> Indexed(f), size |-> Len(f)]

\* A bug: only a process without any state reloads.
ChangedAtFirst(p) == Len(file) > 0 /\ cs[p].size = 0

\* csDetectExternalChanges: the file is longer than the process knows.
Changed(p) == Len(file) > cs[p].size

\* chunkStoreRefreshIfChanged; empty where the reload fails.
Refreshed(p) ==
  IF Changed(p) THEN {s \in {Opened(file)} : Openable(file)} ELSE {cs[p]}

-------------------------------------------------------------------------------
(* Processes                                                                *)

Closed == [up |-> FALSE, refs |-> 0, index |-> {}, size |-> 0]

\* chunkStoreOpen.
Open(p) ==
  /\ ~cs[p].up /\ Openable(file)
  /\ cs' = [cs EXCEPT ![p] = Opened(file)]
  /\ UNCHANGED <<file, synced, lock, commit, history, crashes, failures>>

\* The refresh at the start of a transaction, which takes no lock.
Refresh(p) ==
  /\ cs[p].up /\ lock # p
  /\ \E s \in Refreshed(p) : cs' = [cs EXCEPT ![p] = s]
  /\ UNCHANGED <<file, synced, lock, commit, history, crashes, failures>>

\* chunkStoreLockAndRefresh, then the refs and the chunks of the commit are
\* put on top of what was read: chunkStorePut drops those the index has.
StartCommit(p, chunks) ==
  /\ cs[p].up /\ lock = NoProc /\ tried < MaxCommits
  /\ \E s \in Refreshed(p) :
       /\ cs' = [cs EXCEPT ![p] = s]
       /\ todo' = chunks \ s.index
       /\ base' = [base EXCEPT ![tried + 1] = s.refs]
  /\ lock' = p
  /\ pc' = "append"
  /\ orig' = Len(file)
  /\ tried' = tried + 1
  /\ content' = [content EXCEPT ![tried + 1] = chunks]
  /\ UNCHANGED <<file, synced, acked, crashes, failures>>

\* csCommitToFile, one write at a time.
WriteManifest(p) ==
  /\ lock = p /\ pc = "append" /\ file = <<>>
  /\ file' = <<Write("manifest")>>
  /\ UNCHANGED <<synced, lock, cs, commit, history, crashes, failures>>

WriteHeader(p, c) ==
  /\ lock = p /\ pc = "append" /\ file # <<>>
  /\ c \in todo
  /\ file' = Append(file, Of("header", c))
  /\ pc' = "data"
  /\ UNCHANGED <<synced, lock, cs, todo, orig, history, crashes, failures>>

WriteData(p) ==
  /\ lock = p /\ pc = "data"
  /\ file' = Append(file, Of("data", file[Len(file)].of))
  /\ todo' = todo \ {file[Len(file)].of}
  /\ pc' = "append"
  /\ UNCHANGED <<synced, lock, cs, orig, history, crashes, failures>>

\* A bug: the root is written before the chunks.
RootFirst == TRUE

AllWritten == todo = {}

WriteRoot(p) ==
  /\ lock = p /\ pc = "append" /\ file # <<>> /\ AllWritten
  /\ file' = Append(file, Of("root", tried))
  /\ pc' = "sync"
  /\ UNCHANGED <<synced, lock, cs, todo, orig, history, crashes, failures>>

\* A bug: the commit is acknowledged and nothing is synced.
NotSynced == synced

SyncedSize == Len(file)

\* The sync, after which the commit is acknowledged and the lock released.
Sync(p) ==
  /\ lock = p /\ pc = "sync"
  /\ synced' = SyncedSize
  /\ cs' = [cs EXCEPT ![p] = [up |-> TRUE, refs |-> tried, size |-> Len(file),
                              index |-> cs[p].index \cup content[tried]]]
  /\ acked' = tried
  /\ lock' = NoProc
  /\ pc' = "none"
  /\ UNCHANGED <<file, todo, orig, tried, content, base, crashes, failures>>

-------------------------------------------------------------------------------
(* Errors                                                                   *)

\* A bug: the refs of the commit that failed stay.
KeptRefs(p) == tried

\* csRestoreCommittedRefsState: the refs that were put for the commit go.
RestoredRefs(p) == cs[p].refs

\* A write or the sync fails, after it has written a part or nothing.  What
\* was appended is truncated if any write of the commit had succeeded.
CommitFails(p) ==
  /\ lock = p /\ pc \in {"append", "data", "sync"} /\ failures < MaxFailures
  /\ failures' = failures + 1
  /\ file' \in {file, Append(file, Write("short"))}
  /\ pc = "sync" => file' = file
  /\ cs' = [cs EXCEPT ![p].refs = RestoredRefs(p)]
  /\ IF Len(file) > orig
     THEN pc' = "failed" /\ UNCHANGED lock
     ELSE pc' = "none" /\ lock' = NoProc
  /\ UNCHANGED <<synced, todo, orig, history, crashes>>

\* csRollbackFailedAppend; its own failure is ignored.
RollbackFailedAppend(p) ==
  /\ lock = p /\ pc = "failed"
  /\ file' \in {SubSeq(file, 1, orig), file}
  /\ pc' = "none"
  /\ lock' = NoProc
  /\ UNCHANGED <<synced, cs, todo, orig, history, crashes, failures>>

\* A process dies; the lock is released with it.
Crash(p) ==
  /\ cs[p].up /\ crashes < MaxCrashes
  /\ crashes' = crashes + 1
  /\ cs' = [cs EXCEPT ![p] = Closed]
  /\ IF lock = p
     THEN lock' = NoProc /\ pc' = "none"
     ELSE UNCHANGED <<lock, pc>>
  /\ UNCHANGED <<file, synced, todo, orig, history, failures>>

\* Every process dies and the writes after the last sync are lost from some
\* point on, perhaps within one: the file system keeps appends in order.
PowerLoss ==
  /\ crashes < MaxCrashes
  /\ crashes' = crashes + 1
  /\ \E n \in synced..Len(file) :
       \/ file' = SubSeq(file, 1, n)
       \/ n < Len(file) /\ file' = Append(SubSeq(file, 1, n), Write("short"))
  /\ cs' = [p \in Procs |-> Closed]
  /\ lock' = NoProc
  /\ pc' = "none"
  /\ UNCHANGED <<synced, todo, orig, history, failures>>

-------------------------------------------------------------------------------
Init ==
  /\ file = <<>> /\ synced = 0
  /\ lock = NoProc
  /\ cs = [p \in Procs |-> Closed]
  /\ pc = "none" /\ todo = {} /\ orig = 0
  /\ tried = 0 /\ acked = 0
  /\ content = [n \in Commits |-> {}]
  /\ base = [n \in Commits |-> 0]
  /\ crashes = 0 /\ failures = 0

Step(p) ==
  \/ Open(p) \/ Refresh(p)
  \/ \E chunks \in SUBSET Chunks : StartCommit(p, chunks)
  \/ WriteManifest(p) \/ \E c \in Chunks : WriteHeader(p, c)
  \/ WriteData(p) \/ WriteRoot(p) \/ Sync(p)
  \/ CommitFails(p) \/ RollbackFailedAppend(p)
  \/ Crash(p)

Next == (\E p \in Procs : Step(p)) \/ PowerLoss

Spec == Init /\ [][Next]_vars

-------------------------------------------------------------------------------
(* Properties                                                               *)

\* Every variable keeps its type.
TypeOK ==
  /\ \A i \in 1..Len(file) :
       \/ file[i] \in {Write("manifest"), Write("short")}
       \/ file[i] \in [tag : {"header", "data"}, of : Chunks]
       \/ file[i] \in [tag : {"root"}, of : Commits]
  /\ synced \in 0..Len(file)
  /\ lock \in Procs \cup {NoProc}
  /\ cs \in [Procs -> [up : BOOLEAN, refs : 0..MaxCommits, index : SUBSET Chunks, size : Nat]]
  /\ pc \in {"none", "append", "data", "sync", "failed"}
  /\ todo \subseteq Chunks /\ orig \in Nat
  /\ tried \in 0..MaxCommits /\ acked \in 0..tried
  /\ content \in [Commits -> SUBSET Chunks]
  /\ base \in [Commits -> 0..MaxCommits]
  /\ crashes \in 0..MaxCrashes /\ failures \in 0..MaxFailures

\* Something was appended after a record that is not all there.
Buried == \E i \in 1..Len(file) : i < Len(file) /\ Torn(file, i)

\* Every root that a reader gets to refers to chunks that are in the file before it:
\* chunkStorePut never relies on a chunk that recovery would not find.  Of any number
\* of processes, whatever a crash cuts off, as long as no write fails; of one process
\* also when writes, syncs and truncations fail.  Of two it is not so if one fails: the
\* other may count on a chunk that csRollbackFailedAppend then takes back.
RootsAreComplete ==
  \A i \in RootsOf(file) : \A c \in content[file[i].of] :
    \E j \in 1..i : file[j] = Of("data", c)

\* The roots in the file are a line of history: each commit was made by a
\* process that had read the one before it, so none is overwritten unseen.
RootsAreALine ==
  \A i, j \in RootsOf(file) :
    (i < j /\ \A k \in RootsOf(file) : k <= i \/ k >= j) => base[file[j].of] = file[i].of

\* What a process has read stays: its refs are those of a root of the file,
\* never of a commit that was reported as failed and taken back.
ReadsAreCommitted ==
  ~Buried => \A p \in Procs : (cs[p].up /\ cs[p].refs # 0) =>
    \E i \in RootsOf(file) : file[i].of = cs[p].refs

\* Crashes leave the last acknowledged commit, or one started after it.
AckedSurvives == Recovered(file) >= acked

\* A process that the size check calls up to date has read the last root:
\* it would not put a commit on top of an older state.
UpToDateIsLast ==
  ~Buried => \A p \in Procs : (cs[p].up /\ ~Changed(p)) => cs[p].refs = Recovered(file)

\* The file is a durable register of commits, as long as nothing is appended
\* after a torn record.
Register == INSTANCE DurableRegister WITH value <- Recovered(file), damaged <- Buried

ImplementsRegister == Register!RegSpec

===============================================================================
