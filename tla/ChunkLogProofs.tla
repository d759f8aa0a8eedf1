---------------------------- MODULE ChunkLogProofs ----------------------------
(***************************************************************************)
(* The properties of ChunkLog for any number of chunks, commits and         *)
(* crashes.  The types, and that the file is a durable register, hold for   *)
(* any number of processes whatever writes, syncs and truncations fail; the *)
(* others if failures are met alone: by no process, or by one that shares   *)
(* the file with no other.                                                  *)
(*                                                                          *)
(* The argument: the file only grows, except that a loss of power and the   *)
(* truncation after a failure take a suffix no acknowledged commit is in;   *)
(* whoever appends has read the last root, and goes back to just what it    *)
(* had read; and where nothing is buried, every root in the file is         *)
(* reached.                                                                 *)
(***************************************************************************)
EXTENDS ChunkLog, WellFoundedInduction, TLAPS

Writes ==
  {Write("manifest"), Write("short")} \cup [tag : {"header", "data"}, of : Chunks]
  \cup [tag : {"root"}, of : Commits]

Stores == [up : BOOLEAN, refs : 0..MaxCommits, index : SUBSET Chunks, size : Nat]

BuriedIn(f) == \E i \in 1..Len(f) : i < Len(f) /\ Torn(f, i)

Holds(f, c, n) == \E j \in 1..n : f[j] = Of("data", c)

\* The file before the commit under way, which a truncation goes back to.
Before == SubSeq(file, 1, orig)

\* Writes fail for nobody, or for one process without another: one that read
\* the file in the middle of a commit keeps the size, the refs and the index it
\* found when csRollbackFailedAppend takes that commit back.
FailuresAlone == MaxFailures = 0 \/ \A p, q \in Procs : p = q

-------------------------------------------------------------------------------
(* The inductive invariant                                                  *)

Types ==
  /\ file \in Seq(Writes)
  /\ synced \in 0..Len(file)
  /\ lock \in Procs \cup {NoProc}
  /\ cs \in [Procs -> Stores]
  /\ pc \in {"none", "append", "data", "sync", "failed"}
  /\ todo \subseteq Chunks /\ orig \in Nat
  /\ tried \in 0..MaxCommits /\ acked \in 0..tried
  /\ content \in [Commits -> SUBSET Chunks]
  /\ base \in [Commits -> 0..MaxCommits]
  /\ crashes \in 0..MaxCrashes /\ failures \in 0..MaxFailures

\* Who commits: the holder of the lock, step by step.
CommitInv ==
  /\ lock = NoProc <=> pc = "none"
  /\ pc = "failed" => MaxFailures # 0
  /\ lock \in Procs => tried \in Commits
  /\ pc = "data" => Len(file) > 0 /\ file[Len(file)].tag = "header"
  /\ pc = "sync" => Len(file) > 0 /\ file[Len(file)] = Of("root", tried)

\* The roots are numbered in the order in which they were tried.
OrderInv ==
  /\ \A i \in 1..Len(file) : file[i].tag = "root" => file[i].of <= tried
  /\ pc \in {"append", "data"} =>
       \A i \in 1..Len(file) : file[i].tag = "root" => file[i].of < tried
  /\ \A i, j \in 1..Len(file) :
       (i < j /\ file[i].tag = "root" /\ file[j].tag = "root") => file[i].of < file[j].of

\* The root of the acknowledged commit is in the part that was synced.
AckedInv == acked = 0 \/ \E a \in 1..synced : file[a] = Of("root", acked)

\* The chunks of every root, buried or not, are before it; those a process
\* has in its index, and those a commit has written, are in the file.
ChunksInv ==
  /\ \A i \in 1..Len(file) : file[i].tag = "root" =>
       \A c \in content[file[i].of] : Holds(file, c, i)
  /\ \A p \in Procs : cs[p].up => \A c \in cs[p].index : Holds(file, c, Len(file))
  /\ lock \in Procs => cs[lock].up
  /\ lock \in Procs =>
       \A c \in content[tried] : c \in todo \/ Holds(file, c, Len(file))

\* What the processes have read, and what a commit is based on.
ReadInv ==
  /\ \A p \in Procs : cs[p].up => cs[p].size <= Len(file)
  /\ \A p \in Procs : (cs[p].up /\ cs[p].refs # 0) =>
       \E i \in 1..Len(file) : file[i] = Of("root", cs[p].refs)
  /\ UpToDateIsLast
  /\ (pc \in {"append", "data"} /\ ~Buried) => base[tried] = Recovered(file)

\* Whatever fails, for any number of processes: types, the commit under way,
\* the order of the roots, and nothing that was synced is truncated.
FileInv ==
  /\ Types /\ CommitInv /\ OrderInv /\ AckedInv
  /\ lock \in Procs => orig \in synced..Len(file)

\* The holder of the lock knows the file as it was before its commit.
BeforeInv ==
  lock \in Procs =>
    /\ cs[lock].size = orig
    /\ cs[lock].refs # 0 => \E i \in 1..orig : file[i] = Of("root", cs[lock].refs)
    /\ \A c \in cs[lock].index : Holds(file, c, orig)
    /\ ~BuriedIn(Before) => cs[lock].refs = Recovered(Before)

IInv == FileInv /\ ChunksInv /\ ReadInv /\ BeforeInv /\ RootsAreALine

-------------------------------------------------------------------------------
(* Files                                                                    *)

\* Appending a write keeps the ones before it.
LEMMA AppendedFile ==
  ASSUME NEW f \in Seq(Writes), NEW w \in Writes
  PROVE  /\ Append(f, w) \in Seq(Writes)
         /\ Len(Append(f, w)) = Len(f) + 1
         /\ Append(f, w)[Len(f) + 1] = w
         /\ \A i \in 1..Len(f) : Append(f, w)[i] = f[i]
  OBVIOUS

\* A prefix keeps the writes it has.
LEMMA PrefixFile ==
  ASSUME NEW f \in Seq(Writes), NEW n \in 0..Len(f)
  PROVE  /\ SubSeq(f, 1, n) \in Seq(Writes)
         /\ Len(SubSeq(f, 1, n)) = n
         /\ \A i \in 1..n : SubSeq(f, 1, n)[i] = f[i]
  OBVIOUS

\* What the replay makes of the writes 1..n does not depend on what follows.
LEMMA CommonPrefix ==
  ASSUME NEW f \in Seq(Writes), NEW g \in Seq(Writes), NEW n \in Nat,
         n <= Len(f), n <= Len(g), \A i \in 1..n : g[i] = f[i]
  PROVE  /\ \A i \in 1..n : i < n => (Torn(g, i) <=> Torn(f, i))
         /\ \A i \in 1..n : Reached(g, i) <=> Reached(f, i)
         /\ \A i \in 1..n : i \in RootsOf(g) <=> i \in RootsOf(f)
<1>1. \A i \in 1..n : i < n => (Torn(g, i) <=> Torn(f, i))
  BY DEF Torn
<1>2. \A i \in 1..n : Reached(g, i) <=> Reached(f, i)
  BY <1>1 DEF Reached
<1>3. QED
  BY <1>1, <1>2 DEF RootsOf

\* A set of positions has a last one.
LEMMA LastExists ==
  ASSUME NEW n \in Nat, NEW S \in SUBSET (1..n), S # {}
  PROVE  \E i \in 1..n : IsLast(S, i)
<1> DEFINE B == {b \in Nat : \A i \in S : i <= b}
<1>1. n \in B /\ B \subseteq Nat
  OBVIOUS
<1>2. PICK b \in B : \A m \in B : b <= m
  <2>1. IsWellFoundedOn({ss \in Nat \X Nat : ss[1] < ss[2]}, Nat)
    BY NatLessThanWellFounded DEF OpToRel
  <2>2. \E b \in B : \A m \in B : ~(<<m, b>> \in {ss \in Nat \X Nat : ss[1] < ss[2]})
    BY <1>1, <2>1, WFMin
  <2>3. PICK b \in B : \A m \in B : ~(<<m, b>> \in {ss \in Nat \X Nat : ss[1] < ss[2]})
    BY <2>2
  <2>4. \A m \in B : m \in Nat /\ b \in Nat /\ ~(m < b)
    BY <1>1, <2>3
  <2>5. QED
    BY <2>4
<1>3. b \in S
  <2>1. SUFFICES ASSUME b \notin S
                 PROVE  FALSE
    OBVIOUS
  <2>2. \A i \in S : i \in Nat /\ i <= b - 1 /\ i >= 1
    BY <1>2, <2>1
  <2>3. PICK i \in S : TRUE
    OBVIOUS
  <2>4. b - 1 \in B
    BY <1>2, <2>2, <2>3
  <2>5. QED
    BY <1>2, <2>4
<1>4. QED
  BY <1>2, <1>3 DEF IsLast

\* The last root, where there is one.
LEMMA LastRootIsLast ==
  ASSUME NEW f \in Seq(Writes), RootsOf(f) # {}
  PROVE  /\ LastRoot(f) \in 1..Len(f) /\ IsLast(RootsOf(f), LastRoot(f))
         /\ Recovered(f) = f[LastRoot(f)].of
<1>1. RootsOf(f) \in SUBSET (1..Len(f)) /\ Len(f) \in Nat
  BY DEF RootsOf
<1>2. \E i \in 1..Len(f) : IsLast(RootsOf(f), i)
  BY <1>1, LastExists
<1>3. LastRoot(f) \in 1..Len(f) /\ IsLast(RootsOf(f), LastRoot(f))
  BY <1>2 DEF LastRoot
<1>4. QED
  BY <1>1, <1>3 DEF Recovered

\* Where the last root is, there is the commit that is found.
LEMMA RecoveredAtLast ==
  ASSUME NEW f \in Seq(Writes), NEW i \in 1..Len(f), IsLast(RootsOf(f), i)
  PROVE  Recovered(f) = f[i].of
<1>1. RootsOf(f) # {} /\ i \in RootsOf(f)
  BY DEF IsLast
<1>2. LastRoot(f) \in 1..Len(f) /\ IsLast(RootsOf(f), LastRoot(f)) /\ Recovered(f) = f[LastRoot(f)].of
  BY <1>1, LastRootIsLast
<1>3. LastRoot(f) = i
  BY <1>1, <1>2 DEF IsLast
<1>4. QED
  BY <1>2, <1>3

\* A file without a root yields the empty state.
LEMMA NothingRecovered ==
  ASSUME NEW f, RootsOf(f) = {}
  PROVE  Recovered(f) = 0
BY DEF Recovered, LastRoot

\* Two files with the same roots yield the same commit.
LEMMA SameRoots ==
  ASSUME NEW f \in Seq(Writes), NEW g \in Seq(Writes), RootsOf(g) = RootsOf(f),
         \A i \in RootsOf(f) : g[i] = f[i]
  PROVE  Recovered(g) = Recovered(f)
<1>1. CASE RootsOf(f) = {}
  BY <1>1, NothingRecovered
<1>2. CASE RootsOf(f) # {}
  <2>1. LastRoot(f) \in 1..Len(f) /\ IsLast(RootsOf(f), LastRoot(f)) /\ Recovered(f) = f[LastRoot(f)].of
    BY <1>2, LastRootIsLast
  <2>2. LastRoot(f) \in RootsOf(f) /\ LastRoot(f) \in 1..Len(g)
    BY <2>1 DEF IsLast, RootsOf
  <2>3. Recovered(g) = g[LastRoot(f)].of
    BY <2>1, <2>2, RecoveredAtLast
  <2>4. QED
    BY <2>1, <2>2, <2>3
<1>3. QED
  BY <1>1, <1>2

\* In a file where nothing is buried the replay gets everywhere.
LEMMA AllReached ==
  ASSUME NEW f \in Seq(Writes), ~BuriedIn(f)
  PROVE  \A i \in 1..Len(f) : Reached(f, i) /\ (f[i].tag = "root" => i \in RootsOf(f))
BY DEF BuriedIn, Reached, RootsOf

\* What an append does to the roots.
LEMMA AppendedRoots ==
  ASSUME NEW f \in Seq(Writes), NEW w \in Writes
  PROVE  /\ \A i \in 1..Len(f) : i \in RootsOf(Append(f, w)) <=> i \in RootsOf(f)
         /\ RootsOf(f) \subseteq 1..Len(f)
         /\ RootsOf(Append(f, w)) \subseteq 1..(Len(f) + 1)
         /\ Len(f) + 1 \in RootsOf(Append(f, w)) => w.tag = "root" /\ ~BuriedIn(f)
         /\ ~BuriedIn(Append(f, w)) => ~BuriedIn(f)
<1> DEFINE g == Append(f, w)
<1>1. /\ g \in Seq(Writes) /\ Len(g) = Len(f) + 1 /\ Len(f) \in Nat
      /\ g[Len(f) + 1] = w /\ \A i \in 1..Len(f) : g[i] = f[i]
  BY AppendedFile
<1> HIDE DEF g
<1>2. /\ \A i \in 1..Len(f) : i < Len(f) => (Torn(g, i) <=> Torn(f, i))
      /\ \A i \in 1..Len(f) : i \in RootsOf(g) <=> i \in RootsOf(f)
  BY <1>1, CommonPrefix, SMTT(30)
<1>3. ~BuriedIn(g) => ~BuriedIn(f)
  BY <1>1, <1>2 DEF BuriedIn
<1>4. ASSUME Len(f) + 1 \in RootsOf(g)
      PROVE  w.tag = "root" /\ ~BuriedIn(f)
  <2>1. g[Len(f) + 1].tag = "root" /\ \A j \in 1..Len(f) : ~Torn(g, j)
    BY <1>1, <1>4 DEF RootsOf, Reached
  <2>2. QED
    BY <1>1, <1>2, <2>1 DEF BuriedIn
<1>5. RootsOf(f) \subseteq 1..Len(f) /\ RootsOf(g) \subseteq 1..(Len(f) + 1)
  BY <1>1 DEF RootsOf
<1>6. QED
  BY <1>2, <1>3, <1>4, <1>5 DEF g

\* An append that is not of a root changes nothing for a reader.
LEMMA AppendedNoRoot ==
  ASSUME NEW f \in Seq(Writes), NEW w \in Writes, w.tag # "root"
  PROVE  RootsOf(Append(f, w)) = RootsOf(f) /\ Recovered(Append(f, w)) = Recovered(f)
<1> DEFINE g == Append(f, w)
<1>1. /\ g \in Seq(Writes) /\ Len(f) \in Nat
      /\ \A i \in 1..Len(f) : g[i] = f[i]
  BY AppendedFile
<1>2. RootsOf(g) = RootsOf(f) /\ RootsOf(f) \subseteq 1..Len(f)
  <2>1. /\ \A i \in 1..Len(f) : i \in RootsOf(g) <=> i \in RootsOf(f)
        /\ RootsOf(f) \subseteq 1..Len(f) /\ RootsOf(g) \subseteq 1..(Len(f) + 1)
        /\ Len(f) + 1 \notin RootsOf(g)
    BY AppendedRoots
  <2>2. \A i \in 1..(Len(f) + 1) : i \in 1..Len(f) \/ i = Len(f) + 1
    BY <1>1
  <2> HIDE DEF g
  <2>3. QED
    BY <2>1, <2>2
<1> HIDE DEF g
<1>3. Recovered(g) = Recovered(f)
  BY <1>1, <1>2, SameRoots
<1>4. QED
  BY <1>2, <1>3 DEF g

\* Cutting off the end leaves the roots of the part that is left, and no others.
LEMMA LostRoots ==
  ASSUME NEW f \in Seq(Writes), NEW g \in Seq(Writes), NEW n \in 0..Len(f),
         n <= Len(g), Len(g) <= n + 1, \A i \in 1..n : g[i] = f[i],
         Len(g) = n + 1 => g[n + 1] = Write("short")
  PROVE  /\ RootsOf(g) \subseteq 1..n
         /\ \A i \in 1..n : i \in RootsOf(g) <=> i \in RootsOf(f)
<1>1. n \in Nat /\ Len(g) \in Nat /\ n <= Len(f)
  OBVIOUS
<1>2. \A i \in 1..n : i \in RootsOf(g) <=> i \in RootsOf(f)
  BY <1>1, CommonPrefix
<1>3. \A i \in 1..Len(g) : i \in 1..n \/ (i = n + 1 /\ Len(g) = n + 1)
  BY <1>1
<1>4. n + 1 \notin RootsOf(g)
  BY <1>1 DEF RootsOf, Write
<1>5. QED
  BY <1>2, <1>3, <1>4 DEF RootsOf

-------------------------------------------------------------------------------
(* Steps                                                                    *)

\* The appends of csCommitToFile, which leave all but the file alone; after
\* the one that a failing write leaves, the commit ends or is taken back.
Appends(w) ==
  /\ lock \in Procs /\ lock' \in {lock, NoProc} /\ (lock' = NoProc <=> pc' = "none")
  /\ file' = Append(file, w) /\ w \in Writes
  /\ \/ pc \in {"append", "data"} /\ pc' \in {"append", "data", "none", "failed"} /\ w.tag # "root"
     \/ pc = "append" /\ pc' = "sync" /\ w = Of("root", tried) /\ todo = {}
  /\ pc' = "data" => w.tag = "header"
  /\ pc' = "failed" => MaxFailures # 0
  /\ \A c \in todo : c \in todo' \/ w = Of("data", c)
  /\ todo' \subseteq todo
  /\ UNCHANGED <<synced, cs, orig, history, crashes>> /\ failures' \in 0..MaxFailures

\* A failing write or sync that wrote nothing, and a truncation that fails.
Left(p) ==
  /\ CommitFails(p) \/ RollbackFailedAppend(p)
  /\ file' = file

\* A truncation.
Undone(p) == RollbackFailedAppend(p) /\ file' = Before

\* The writes of a commit are such appends.
LEMMA CommitAppends ==
  ASSUME Types, CommitInv, NEW p \in Procs,
         WriteManifest(p) \/ (\E c \in Chunks : WriteHeader(p, c)) \/ WriteData(p) \/ WriteRoot(p)
  PROVE  \E w \in Writes : Appends(w)
<1>0. p # NoProc /\ failures \in 0..MaxFailures
  BY LogAssumption DEF Types
<1>1. CASE WriteManifest(p)
  <2>1. Write("manifest") \in Writes /\ Write("manifest").tag = "manifest"
    BY DEF Writes, Write
  <2>2. file' = Append(file, Write("manifest"))
    BY <1>1 DEF WriteManifest
  <2>3. Appends(Write("manifest"))
    BY <1>0, <1>1, <2>1, <2>2 DEF WriteManifest, Appends, commit
  <2>4. QED
    BY <2>1, <2>3
<1>2. ASSUME NEW c \in Chunks, WriteHeader(p, c)
      PROVE  \E w \in Writes : Appends(w)
  <2>1. Of("header", c) \in Writes /\ Of("header", c).tag = "header"
    BY DEF Writes, Of
  <2>2. Appends(Of("header", c))
    BY <1>0, <1>2, <2>1 DEF WriteHeader, Appends
  <2>3. QED
    BY <2>1, <2>2
<1>3. CASE WriteData(p)
  <2> DEFINE c == file[Len(file)].of
  <2>1. file[Len(file)] \in Writes /\ file[Len(file)].tag = "header"
    BY <1>3 DEF WriteData, CommitInv, Types
  <2>2. c \in Chunks
    BY <2>1 DEF Writes, Write
  <2> HIDE DEF c
  <2>3. Of("data", c) \in Writes /\ Of("data", c).tag = "data"
    BY <2>2 DEF Writes, Of
  <2>4. file' = Append(file, Of("data", c)) /\ todo' = todo \ {c}
    BY <1>3 DEF WriteData, c
  <2>5. Appends(Of("data", c))
    BY <1>0, <1>3, <2>3, <2>4 DEF WriteData, Appends
  <2>6. QED
    BY <2>3, <2>5
<1>4. CASE WriteRoot(p)
  <2>1. Of("root", tried) \in Writes
    BY <1>4 DEF WriteRoot, CommitInv, Writes, Of
  <2>2. Appends(Of("root", tried))
    BY <1>0, <1>4, <2>1 DEF WriteRoot, AllWritten, Appends
  <2>3. QED
    BY <2>1, <2>2
<1>5. QED
  BY <1>1, <1>2, <1>3, <1>4

\* What a failing write or sync does: at most, it leaves a part of a write.
LEMMA Failing ==
  ASSUME Types, NEW p \in Procs, CommitFails(p) \/ RollbackFailedAppend(p)
  PROVE  Left(p) \/ Undone(p) \/ Appends(Write("short"))
<1>1. CASE RollbackFailedAppend(p)
  BY <1>1 DEF RollbackFailedAppend, Left, Undone, Before
<1>2. CASE CommitFails(p) /\ file' = file
  BY <1>2 DEF Left
<1>3. CASE CommitFails(p) /\ file' # file
  <2> DEFINE w == Write("short")
  <2>1. w \in Writes /\ w.tag = "short"
    BY DEF Writes, Write
  <2>2. /\ file' = Append(file, w) /\ pc \in {"append", "data"} /\ lock = p /\ p # NoProc
        /\ \/ pc' = "failed" /\ lock' = lock
           \/ pc' = "none" /\ lock' = NoProc
        /\ UNCHANGED <<synced, todo, orig, history, crashes>>
    BY <1>3, LogAssumption DEF CommitFails
  <2>3. failures' \in 0..MaxFailures /\ MaxFailures # 0
    BY <1>3, LogAssumption DEF CommitFails, Types
  <2>4. cs' = cs
    BY <1>3 DEF CommitFails, RestoredRefs, Types, Stores
  <2> HIDE DEF w
  <2>5. Appends(w)
    BY <2>1, <2>2, <2>3, <2>4 DEF Appends
  <2> QED BY <2>5 DEF w
<1> QED BY <1>1, <1>2, <1>3

\* What a step is.
LEMMA Steps ==
  ASSUME FileInv, [Next]_vars
  PROVE  \/ UNCHANGED vars
         \/ \E p \in Procs : Open(p) \/ Refresh(p) \/ Sync(p) \/ Crash(p) \/ Left(p) \/ Undone(p)
         \/ \E p \in Procs, chunks \in SUBSET Chunks : StartCommit(p, chunks)
         \/ \E w \in Writes : Appends(w)
         \/ PowerLoss
<1>1. Types /\ CommitInv
  BY DEF FileInv
<1>2. Write("short") \in Writes
  BY DEF Writes
<1>3. \A p \in Procs : CommitFails(p) \/ RollbackFailedAppend(p) =>
                         Left(p) \/ Undone(p) \/ \E w \in Writes : Appends(w)
  BY <1>1, <1>2, Failing
<1>4. QED
  BY <1>1, <1>3, CommitAppends DEF Next, Step

\* What opening or refreshing yields.
LEMMA OpenedStore ==
  ASSUME Types, OrderInv
  PROVE  /\ Opened(file) \in Stores
         /\ Opened(file).up /\ Opened(file).size = Len(file)
         /\ Opened(file).refs = Recovered(file)
         /\ Recovered(file) # 0 => \E i \in 1..Len(file) : file[i] = Of("root", Recovered(file))
         /\ \A c \in Opened(file).index : Holds(file, c, Len(file))
<1>1. Len(file) \in Nat /\ \A i \in 1..Len(file) : file[i] \in Writes
  BY DEF Types
<1>2. /\ Recovered(file) \in 0..MaxCommits
      /\ Recovered(file) # 0 => \E i \in 1..Len(file) : file[i] = Of("root", Recovered(file))
  <2>1. CASE RootsOf(file) = {}
    BY <2>1, NothingRecovered, LogAssumption
  <2>2. CASE RootsOf(file) # {}
    <3>1. PICK i \in 1..Len(file) : IsLast(RootsOf(file), i) /\ Recovered(file) = file[i].of
      BY <2>2, LastRootIsLast DEF Types
    <3>2. file[i].tag = "root" /\ file[i] \in Writes
      BY <1>1, <3>1 DEF IsLast, RootsOf
    <3>3. file[i] \in [tag : {"root"}, of : Commits]
      BY <3>2 DEF Writes, Write
    <3>4. file[i] = Of("root", file[i].of) /\ file[i].of \in Commits
      BY <3>3 DEF Of
    <3>5. QED
      BY <3>1, <3>4, LogAssumption DEF Commits
  <2>3. QED
    BY <2>1, <2>2
<1>3. LastRoot(file) \in 0..Len(file)
  BY <1>1, LastRootIsLast DEF LastRoot, Types
<1>4. \A c \in Indexed(file) : c \in Chunks /\ Holds(file, c, Len(file))
  <2>1. SUFFICES ASSUME NEW i \in 1..LastRoot(file), file[i].tag = "data"
                 PROVE  file[i].of \in Chunks /\ Holds(file, file[i].of, Len(file))
    BY DEF Indexed
  <2>2. i \in 1..Len(file) /\ file[i] \in Writes
    BY <1>1, <1>3, <2>1
  <2>3. file[i] \in [tag : {"header", "data"}, of : Chunks]
    BY <2>1, <2>2 DEF Writes, Write
  <2>4. file[i] = Of("data", file[i].of) /\ file[i].of \in Chunks
    BY <2>1, <2>3 DEF Of
  <2>5. QED
    BY <2>2, <2>4 DEF Holds
<1>5. Indexed(file) \in SUBSET Chunks
  BY <1>4
<1>6. QED
  BY <1>1, <1>2, <1>4, <1>5 DEF Opened, Stores

\* A refresh yields a chunk store.
LEMMA RefreshedType ==
  ASSUME Types, OrderInv, NEW p \in Procs, NEW s \in Refreshed(p)
  PROVE  s \in Stores
BY OpenedStore DEF Refreshed, Types

\* What a refresh yields to who has read what is in the file.
LEMMA RefreshedStore ==
  ASSUME IInv, NEW p \in Procs, cs[p].up, NEW s \in Refreshed(p)
  PROVE  /\ s \in Stores /\ s.up
         /\ s.size = Len(file) /\ (~Buried => s.refs = Recovered(file))
         /\ s.refs # 0 => \E i \in 1..Len(file) : file[i] = Of("root", s.refs)
         /\ \A c \in s.index : Holds(file, c, Len(file))
<1>1. Types /\ OrderInv /\ ReadInv /\ ChunksInv
  BY DEF IInv, FileInv
<1>2. CASE Changed(p)
  <2>1. s = Opened(file)
    BY <1>2 DEF Refreshed
  <2>2. QED
    BY <1>1, <2>1, OpenedStore
<1>3. CASE ~Changed(p)
  <2>1. s = cs[p]
    BY <1>3 DEF Refreshed
  <2>2. s.size = Len(file)
    BY <1>1, <1>3, <2>1 DEF Changed, ReadInv, Types, Stores
  <2>3. QED
    BY <1>1, <1>3, <2>1, <2>2 DEF ReadInv, ChunksInv, UpToDateIsLast, Types
<1>4. QED
  BY <1>2, <1>3

\* The steps that leave the file and the numbers of its commits alone.
Still ==
  /\ file' = file /\ tried' = tried /\ content' = content /\ base' = base
  /\ pc' \in {"none", "failed", pc} /\ lock' \in {NoProc, lock}

\* Which steps those are.
LEMMA StillSteps ==
  ASSUME NEW p \in Procs, Open(p) \/ Refresh(p) \/ Sync(p) \/ Crash(p) \/ Left(p)
  PROVE  Still
BY DEF Still, Open, Refresh, Sync, Crash, Left, CommitFails, RollbackFailedAppend, commit, history

\* A failure that leaves the file as it is leaves what the processes know.
LEMMA LeftAlone ==
  ASSUME Types, NEW p \in Procs, Left(p)
  PROVE  /\ UNCHANGED <<cs, synced, todo, orig, acked, crashes>>
         /\ failures' \in 0..MaxFailures
         /\ pc' \in {"none", "failed"} /\ (lock' = NoProc <=> pc' = "none")
         /\ pc' = "failed" => MaxFailures # 0
<1>1. CASE CommitFails(p)
  <2>1. cs' = cs
    BY <1>1 DEF CommitFails, RestoredRefs, Types, Stores
  <2> QED BY <1>1, <2>1, LogAssumption DEF CommitFails, Types, history
<1>2. CASE RollbackFailedAppend(p)
  BY <1>2 DEF RollbackFailedAppend, Types, history
<1> QED BY <1>1, <1>2 DEF Left

\* A truncation goes back to the file before the commit.
LEMMA UndoneFile ==
  ASSUME FileInv, NEW p \in Procs, Undone(p)
  PROVE  /\ lock = p /\ lock' = NoProc /\ pc = "failed" /\ pc' = "none"
         /\ UNCHANGED <<cs, synced, todo, orig, history, crashes, failures>>
         /\ orig \in 0..Len(file) /\ synced <= orig
         /\ file' = Before /\ file' \in Seq(Writes) /\ Len(file') = orig
         /\ \A i \in 1..orig : file'[i] = file[i]
<1>1. /\ lock = p /\ lock' = NoProc /\ pc = "failed" /\ pc' = "none"
      /\ UNCHANGED <<cs, synced, todo, orig, history, crashes, failures>>
      /\ file' = Before
  BY DEF Undone, RollbackFailedAppend
<1>2. orig \in 0..Len(file) /\ synced <= orig /\ file \in Seq(Writes)
  BY <1>1 DEF FileInv, Types
<1>3. /\ Before \in Seq(Writes) /\ Len(Before) = orig
      /\ \A i \in 1..orig : Before[i] = file[i]
  BY <1>2, PrefixFile DEF Before
<1> QED BY <1>1, <1>2, <1>3

\* Who truncates is alone.
LEMMA OnlyOne ==
  ASSUME FailuresAlone, CommitInv, NEW p \in Procs, Undone(p)
  PROVE  \A q \in Procs : q = p
BY DEF FailuresAlone, CommitInv, Undone, RollbackFailedAppend

\* What a loss of power or a truncation leaves of the file.
LEMMA LostFile ==
  ASSUME FileInv, PowerLoss \/ \E p \in Procs : Undone(p)
  PROVE  \E n \in 0..Len(file) :
           /\ synced <= n /\ file' \in Seq(Writes)
           /\ n <= Len(file') /\ Len(file') <= n + 1
           /\ \A i \in 1..n : file'[i] = file[i]
           /\ Len(file') = n + 1 => file'[n + 1] = Write("short")
<1>1. PICK n \in synced..Len(file) :
        \/ file' = SubSeq(file, 1, n)
        \/ file' = Append(SubSeq(file, 1, n), Write("short"))
  <2>1. CASE PowerLoss
    BY <2>1 DEF PowerLoss
  <2>2. CASE \E p \in Procs : Undone(p)
    BY <2>2 DEF Undone, RollbackFailedAppend, FileInv, Before
  <2> QED BY <2>1, <2>2
<1>2. n \in 0..Len(file) /\ synced <= n /\ Len(file) \in Nat /\ n \in Nat
  BY <1>1 DEF FileInv, Types
<1>3. /\ SubSeq(file, 1, n) \in Seq(Writes) /\ Len(SubSeq(file, 1, n)) = n
      /\ \A i \in 1..n : SubSeq(file, 1, n)[i] = file[i]
  BY <1>2, PrefixFile DEF FileInv, Types
<1>4. CASE file' = SubSeq(file, 1, n)
  BY <1>2, <1>3, <1>4
<1>5. CASE file' = Append(SubSeq(file, 1, n), Write("short"))
  <2> DEFINE h == SubSeq(file, 1, n)
  <2> HIDE DEF h
  <2>1. Write("short") \in Writes /\ h \in Seq(Writes) /\ Len(h) = n
    BY <1>3 DEF Writes, h
  <2>2. /\ Append(h, Write("short")) \in Seq(Writes)
        /\ Len(Append(h, Write("short"))) = n + 1
        /\ Append(h, Write("short"))[n + 1] = Write("short")
        /\ \A i \in 1..n : Append(h, Write("short"))[i] = h[i]
    BY <2>1, AppendedFile
  <2>3. QED
    BY <1>2, <1>3, <1>5, <2>2 DEF h
<1>6. QED
  BY <1>1, <1>4, <1>5

\* The types and the holder of the lock, step by step.
LEMMA TypesStep ==
  ASSUME FileInv, [Next]_vars
  PROVE  Types' /\ CommitInv'
<1>1. FileInv /\ Types /\ CommitInv /\ OrderInv
  BY DEF FileInv
<1>2. CASE UNCHANGED vars
  BY <1>1, <1>2 DEF vars, commit, history, Types, CommitInv
<1>3. ASSUME NEW p \in Procs, Open(p)
      PROVE  Types' /\ CommitInv'
  <2>1. Opened(file) \in Stores
    BY <1>1, OpenedStore
  <2>2. cs' \in [Procs -> Stores]
    BY <1>1, <1>3, <2>1 DEF Open, Types
  <2>3. QED
    BY <1>1, <1>3, <2>2 DEF Open, commit, history, Types, CommitInv
<1>4. ASSUME NEW p \in Procs, Refresh(p)
      PROVE  Types' /\ CommitInv'
  <2>1. PICK s \in Refreshed(p) : cs' = [cs EXCEPT ![p] = s]
    BY <1>4 DEF Refresh
  <2>2. s \in Stores
    BY <1>1, <2>1, RefreshedType
  <2>3. cs' \in [Procs -> Stores]
    BY <1>1, <2>1, <2>2 DEF Types
  <2>4. QED
    BY <1>1, <1>4, <2>3 DEF Refresh, commit, history, Types, CommitInv
<1>5. ASSUME NEW p \in Procs, Sync(p)
      PROVE  Types' /\ CommitInv'
  <2>1. tried \in Commits /\ tried \in 0..MaxCommits /\ Len(file) \in Nat
    BY <1>1, <1>5 DEF Sync, CommitInv, Types
  <2>2. cs[p].index \cup content[tried] \in SUBSET Chunks
    BY <1>1, <2>1 DEF Types, Stores
  <2>3. cs' \in [Procs -> Stores]
    <3> DEFINE s == [up |-> TRUE, refs |-> tried, size |-> Len(file),
                     index |-> cs[p].index \cup content[tried]]
    <3>1. s \in Stores
      BY <2>1, <2>2 DEF Stores
    <3>2. cs' = [cs EXCEPT ![p] = s]
      BY <1>5 DEF Sync
    <3> HIDE DEF s
    <3>3. QED
      BY <1>1, <3>1, <3>2 DEF Types
  <2>4. acked' \in 0..tried' /\ synced' \in 0..Len(file')
    BY <2>1, <1>5 DEF Sync, SyncedSize, Commits
  <2>5. QED
    BY <1>1, <1>5, <2>3, <2>4, LogAssumption DEF Sync, Types, CommitInv
<1>6. ASSUME NEW p \in Procs, Crash(p)
      PROVE  Types' /\ CommitInv'
  <2>1. Closed \in Stores
    BY LogAssumption DEF Closed, Stores
  <2>2. cs' \in [Procs -> Stores]
    BY <1>1, <1>6, <2>1 DEF Crash, Types
  <2>3. crashes' \in 0..MaxCrashes
    BY <1>1, <1>6, LogAssumption DEF Crash, Types
  <2>4. /\ lock' \in Procs \cup {NoProc} /\ pc' \in {"none", pc}
        /\ lock' = NoProc <=> pc' = "none"
        /\ lock' \in Procs => lock \in Procs
    BY <1>1, <1>6, LogAssumption DEF Crash, Types, CommitInv
  <2>5. QED
    BY <1>1, <1>6, <2>2, <2>3, <2>4 DEF Crash, history, Types, CommitInv
<1>7. ASSUME NEW p \in Procs, NEW chunks \in SUBSET Chunks, StartCommit(p, chunks)
      PROVE  Types' /\ CommitInv'
  <2>1. PICK s \in Refreshed(p) :
          /\ cs' = [cs EXCEPT ![p] = s] /\ todo' = chunks \ s.index
          /\ base' = [base EXCEPT ![tried + 1] = s.refs]
    BY <1>7 DEF StartCommit
  <2>2. s \in Stores
    BY <1>1, <2>1, RefreshedType
  <2>3. cs' \in [Procs -> Stores] /\ todo' \subseteq Chunks
    BY <1>1, <2>1, <2>2 DEF Types
  <2>4. base' \in [Commits -> 0..MaxCommits]
    BY <1>1, <2>1, <2>2 DEF Types, Stores
  <2>5. tried' \in Commits /\ tried' \in 0..MaxCommits /\ acked' \in 0..tried'
    BY <1>1, <1>7, LogAssumption DEF StartCommit, Types, Commits
  <2>6. content' \in [Commits -> SUBSET Chunks]
    BY <1>1, <1>7 DEF StartCommit, Types
  <2>7. QED
    BY <1>1, <1>7, <2>3, <2>4, <2>5, <2>6, LogAssumption DEF StartCommit, Types, CommitInv
<1>8. ASSUME NEW w \in Writes, Appends(w)
      PROVE  Types' /\ CommitInv'
  <2>1. /\ file' \in Seq(Writes) /\ Len(file') = Len(file) + 1 /\ Len(file) \in Nat
        /\ file'[Len(file')] = w
    BY <1>1, <1>8, AppendedFile DEF Types, Appends
  <2>2. synced' \in 0..Len(file')
    BY <1>1, <1>8, <2>1 DEF Types, Appends
  <2>3. Types'
    BY <1>1, <1>8, <2>1, <2>2 DEF Types, Appends, history
  <2>4. CommitInv'
    BY <1>1, <1>8, <2>1, LogAssumption DEF CommitInv, Appends, history
  <2>5. QED
    BY <2>3, <2>4
<1>9. CASE PowerLoss
  <2>1. file' \in Seq(Writes) /\ synced' \in 0..Len(file')
    <3>1. PICK n \in 0..Len(file) : synced <= n /\ file' \in Seq(Writes) /\ n <= Len(file')
      BY <1>1, <1>9, LostFile
    <3>2. synced \in Nat /\ synced' = synced /\ Len(file') \in Nat /\ n \in Nat
      BY <1>1, <1>9, <3>1 DEF Types, PowerLoss
    <3>3. QED
      BY <3>1, <3>2
  <2>2. cs' \in [Procs -> Stores]
    BY <1>9, LogAssumption DEF PowerLoss, Closed, Stores
  <2>3. crashes' \in 0..MaxCrashes
    BY <1>1, <1>9, LogAssumption DEF PowerLoss, Types
  <2>4. QED
    BY <1>1, <1>9, <2>1, <2>2, <2>3, LogAssumption DEF PowerLoss, history, Types, CommitInv
<1>10. ASSUME NEW p \in Procs, Left(p)
       PROVE  Types' /\ CommitInv'
  <2>1. Still /\ UNCHANGED <<cs, synced, todo, orig, acked, crashes>> /\ failures' \in 0..MaxFailures
    BY <1>1, <1>10, StillSteps, LeftAlone
  <2>2. /\ pc' \in {"none", "failed"} /\ (lock' = NoProc <=> pc' = "none")
        /\ pc' = "failed" => MaxFailures # 0
    BY <1>1, <1>10, LeftAlone
  <2>3. QED
    BY <1>1, <2>1, <2>2 DEF Still, Types, CommitInv
<1>11. ASSUME NEW p \in Procs, Undone(p)
       PROVE  Types' /\ CommitInv'
  <2>1. /\ lock' = NoProc /\ pc' = "none"
        /\ UNCHANGED <<cs, synced, todo, orig, history, crashes, failures>>
        /\ synced <= orig /\ file' \in Seq(Writes) /\ Len(file') = orig
    BY <1>1, <1>11, UndoneFile
  <2>2. QED
    BY <1>1, <2>1, LogAssumption DEF history, Types, CommitInv
<1>12. QED
  BY <1>2, <1>3, <1>4, <1>5, <1>6, <1>7, <1>8, <1>9, <1>10, <1>11, Steps

\* An append, spelled out for a file of the right type.
LEMMA AppendStep ==
  ASSUME Types, NEW w \in Writes, Appends(w)
  PROVE  /\ file' \in Seq(Writes) /\ Len(file) \in Nat /\ Len(file') = Len(file) + 1
         /\ file'[Len(file) + 1] = w
         /\ \A i \in 1..Len(file) : file'[i] = file[i]
         /\ \A i \in 1..Len(file') : i \in 1..Len(file) \/ i = Len(file) + 1
<1>1. file' = Append(file, w) /\ file \in Seq(Writes)
  BY DEF Types, Appends
<1>2. /\ file' \in Seq(Writes) /\ Len(file) \in Nat /\ Len(file') = Len(file) + 1
      /\ file'[Len(file) + 1] = w
      /\ \A i \in 1..Len(file) : file'[i] = file[i]
  BY <1>1, AppendedFile
<1>3. QED
  BY <1>2

\* The order of the roots, step by step.
LEMMA OrderStep ==
  ASSUME FileInv, [Next]_vars
  PROVE  OrderInv'
<1>1. FileInv /\ Types /\ CommitInv /\ OrderInv
  BY DEF FileInv
<1>2. CASE UNCHANGED vars
  BY <1>1, <1>2 DEF vars, commit, history, OrderInv
<1>3. ASSUME NEW p \in Procs, Open(p) \/ Refresh(p) \/ Sync(p) \/ Crash(p) \/ Left(p)
      PROVE  OrderInv'
  <2>1. Still
    BY <1>1, <1>3, StillSteps
  <2>2. QED
    BY <1>1, <2>1 DEF Still, OrderInv
<1>4. ASSUME NEW p \in Procs, NEW chunks \in SUBSET Chunks, StartCommit(p, chunks)
      PROVE  OrderInv'
  <2>1. file' = file /\ tried' = tried + 1 /\ tried \in Nat
    BY <1>1, <1>4, LogAssumption DEF StartCommit, Types
  <2>2. \A i \in 1..Len(file) : file[i].tag = "root" => file[i].of \in Nat
    <3>1. SUFFICES ASSUME NEW i \in 1..Len(file), file[i].tag = "root"
                   PROVE  file[i].of \in Nat
      OBVIOUS
    <3>2. file[i] \in Writes
      BY <1>1 DEF Types
    <3>3. file[i] \in [tag : {"root"}, of : Commits]
      BY <3>1, <3>2 DEF Writes, Write
    <3>4. QED
      BY <3>3, LogAssumption DEF Commits
  <2>3. QED
    BY <1>1, <2>1, <2>2 DEF OrderInv
<1>5. ASSUME NEW w \in Writes, Appends(w)
      PROVE  OrderInv'
  <2>1. /\ Len(file) \in Nat /\ Len(file') = Len(file) + 1
        /\ file'[Len(file) + 1] = w
        /\ \A i \in 1..Len(file) : file'[i] = file[i]
        /\ \A i \in 1..Len(file') : i \in 1..Len(file) \/ i = Len(file) + 1
    BY <1>1, <1>5, AppendStep
  <2>2. tried' = tried /\ pc \in {"append", "data"} /\ tried \in Nat
    BY <1>1, <1>5, LogAssumption DEF Appends, history, Types
  <2>3. CASE w.tag # "root"
    BY <1>1, <2>1, <2>2, <2>3 DEF OrderInv
  <2>4. CASE w = Of("root", tried) /\ pc' = "sync"
    <3>1. w.of = tried /\ w.tag = "root"
      BY <2>4 DEF Of
    <3>2. QED
      BY <1>1, <2>1, <2>2, <2>4, <3>1 DEF OrderInv
  <2>5. QED
    BY <1>5, <2>3, <2>4 DEF Appends
<1>6. CASE PowerLoss \/ \E p \in Procs : Undone(p)
  <2>1. PICK n \in 0..Len(file) :
          /\ Len(file') \in Nat /\ n <= Len(file') /\ Len(file') <= n + 1
          /\ \A i \in 1..n : file'[i] = file[i]
          /\ Len(file') = n + 1 => file'[n + 1] = Write("short")
    BY <1>1, <1>6, LostFile
  <2>2. \A i \in 1..Len(file') : file'[i].tag = "root" => i \in 1..n /\ i \in 1..Len(file)
    <3>1. \A i \in 1..Len(file') : i \in 1..n \/ (i = n + 1 /\ Len(file') = n + 1)
      BY <2>1
    <3>2. QED
      BY <2>1, <3>1 DEF Write
  <2>3. tried' = tried /\ pc' = "none"
    BY <1>6 DEF PowerLoss, Undone, RollbackFailedAppend, history
  <2>4. QED
    BY <1>1, <2>1, <2>2, <2>3 DEF OrderInv
<1>7. QED
  BY <1>2, <1>3, <1>4, <1>5, <1>6, Steps

\* The root of the acknowledged commit, step by step.
LEMMA AckedStep ==
  ASSUME FileInv, [Next]_vars
  PROVE  AckedInv'
<1>1. FileInv /\ Types /\ CommitInv /\ AckedInv
  BY DEF FileInv
<1>2. CASE UNCHANGED vars
  BY <1>1, <1>2 DEF vars, history, AckedInv
<1>3. ASSUME NEW p \in Procs, Open(p) \/ Refresh(p) \/ Crash(p) \/ Left(p)
      PROVE  AckedInv'
  <2>1. file' = file /\ synced' = synced /\ acked' = acked
    BY <1>1, <1>3, StillSteps, LeftAlone DEF Still, Open, Refresh, Crash, history
  <2>2. QED
    BY <1>1, <2>1 DEF AckedInv
<1>4. ASSUME NEW p \in Procs, Sync(p)
      PROVE  AckedInv'
  <2>1. Len(file) \in Nat /\ Len(file) > 0 /\ file[Len(file)] = Of("root", tried)
    BY <1>1, <1>4 DEF Sync, CommitInv, Types
  <2>2. file' = file /\ acked' = tried /\ synced' = Len(file)
    BY <1>4 DEF Sync, SyncedSize
  <2>3. QED
    BY <2>1, <2>2 DEF AckedInv
<1>5. ASSUME NEW p \in Procs, NEW chunks \in SUBSET Chunks, StartCommit(p, chunks)
      PROVE  AckedInv'
  BY <1>1, <1>5 DEF StartCommit, AckedInv
<1>6. ASSUME NEW w \in Writes, Appends(w)
      PROVE  AckedInv'
  <2>1. \A i \in 1..Len(file) : file'[i] = file[i]
    BY <1>1, <1>6, AppendStep
  <2>2. 1..synced \subseteq 1..Len(file) /\ synced' = synced /\ acked' = acked
    BY <1>1, <1>6 DEF Types, Appends, history
  <2>3. QED
    BY <1>1, <2>1, <2>2 DEF AckedInv
<1>7. CASE PowerLoss \/ \E p \in Procs : Undone(p)
  <2>1. PICK n \in 0..Len(file) : synced <= n /\ \A i \in 1..n : file'[i] = file[i]
    BY <1>1, <1>7, LostFile
  <2>2. 1..synced \subseteq 1..n /\ synced' = synced /\ acked' = acked
    BY <1>1, <1>7, <2>1 DEF Types, PowerLoss, Undone, RollbackFailedAppend, history
  <2>3. QED
    BY <1>1, <2>1, <2>2 DEF AckedInv
<1>8. QED
  BY <1>2, <1>3, <1>4, <1>5, <1>6, <1>7, Steps

\* A commit appends after what was synced, step by step.
LEMMA SpanStep ==
  ASSUME FileInv, [Next]_vars
  PROVE  lock' \in Procs => orig' \in synced'..Len(file')
<1>1. FileInv /\ Types /\ (lock \in Procs => orig \in synced..Len(file))
  BY DEF FileInv
<1>2. ASSUME lock' \in {lock, NoProc}, UNCHANGED <<synced, orig>>,
             Len(file') \in Nat, Len(file) <= Len(file')
      PROVE  lock' \in Procs => orig' \in synced'..Len(file')
  BY <1>1, <1>2, LogAssumption DEF Types
<1>3. CASE UNCHANGED vars
  BY <1>1, <1>3 DEF vars, commit
<1>4. ASSUME NEW p \in Procs, Open(p) \/ Refresh(p) \/ Crash(p) \/ Left(p)
      PROVE  lock' \in Procs => orig' \in synced'..Len(file')
  <2>1. lock' \in {lock, NoProc} /\ UNCHANGED <<file, synced, orig>>
    BY <1>1, <1>4, StillSteps, LeftAlone DEF Still, Open, Refresh, Crash, commit
  <2>2. QED
    BY <1>1, <1>2, <2>1 DEF Types
<1>5. ASSUME NEW p \in Procs, Sync(p) \/ Undone(p)
      PROVE  lock' \in Procs => orig' \in synced'..Len(file')
  <2>1. lock' = NoProc
    BY <1>5 DEF Sync, Undone, RollbackFailedAppend
  <2>2. QED
    BY <2>1, LogAssumption
<1>6. ASSUME NEW p \in Procs, NEW chunks \in SUBSET Chunks, StartCommit(p, chunks)
      PROVE  lock' \in Procs => orig' \in synced'..Len(file')
  BY <1>1, <1>6 DEF StartCommit, Types
<1>7. ASSUME NEW w \in Writes, Appends(w)
      PROVE  lock' \in Procs => orig' \in synced'..Len(file')
  <2>1. Len(file) \in Nat /\ Len(file') = Len(file) + 1
    BY <1>1, <1>7, AppendStep
  <2>2. lock' \in {lock, NoProc} /\ UNCHANGED <<synced, orig>>
    BY <1>7 DEF Appends
  <2>3. QED
    BY <1>2, <2>1, <2>2
<1>8. CASE PowerLoss
  BY <1>8, LogAssumption DEF PowerLoss
<1>9. QED
  BY <1>1, <1>3, <1>4, <1>5, <1>6, <1>7, <1>8, Steps

\* The chunks of the roots and of the indexes, step by step.
LEMMA ChunksStep ==
  ASSUME FailuresAlone, IInv, [Next]_vars
  PROVE  ChunksInv'
<1>1. FileInv /\ Types /\ CommitInv /\ OrderInv /\ ChunksInv /\ BeforeInv
  BY DEF IInv, FileInv
<1>2. CASE UNCHANGED vars
  BY <1>1, <1>2 DEF vars, commit, history, ChunksInv, Holds
<1>3. ASSUME NEW p \in Procs, NEW s \in Stores, Still, lock' = lock, todo' = todo,
             cs' = [cs EXCEPT ![p] = s],
             s.up, \A c \in s.index : Holds(file, c, Len(file))
      PROVE  ChunksInv'
  <2>1. \A q \in Procs : cs'[q] = IF q = p THEN s ELSE cs[q]
    BY <1>1, <1>3 DEF Types
  <2>2. QED
    BY <1>1, <1>3, <2>1 DEF ChunksInv, Still, Holds
<1>4. ASSUME NEW p \in Procs, Open(p)
      PROVE  ChunksInv'
  <2>1. /\ Opened(file) \in Stores /\ Opened(file).up
        /\ \A c \in Opened(file).index : Holds(file, c, Len(file))
    BY <1>1, OpenedStore
  <2>2. Still /\ lock' = lock /\ todo' = todo /\ cs' = [cs EXCEPT ![p] = Opened(file)]
    BY <1>1, <1>4, StillSteps DEF Open, commit
  <2>3. QED
    BY <1>3, <2>1, <2>2
<1>5. ASSUME NEW p \in Procs, Refresh(p)
      PROVE  ChunksInv'
  <2>1. PICK s \in Refreshed(p) : cs' = [cs EXCEPT ![p] = s]
    BY <1>5 DEF Refresh
  <2>2. s \in Stores /\ s.up /\ \A c \in s.index : Holds(file, c, Len(file))
    BY <1>5, <2>1, RefreshedStore DEF Refresh
  <2>3. Still /\ lock' = lock /\ todo' = todo
    BY <1>1, <1>5, StillSteps DEF Refresh, commit
  <2>4. QED
    BY <1>3, <2>1, <2>2, <2>3
<1>6. ASSUME NEW p \in Procs, Sync(p)
      PROVE  ChunksInv'
  <2>1. /\ Still /\ lock = p /\ lock' = NoProc /\ pc = "sync"
        /\ cs'[p].index = cs[p].index \cup content[tried]
        /\ \A q \in Procs : q # p => cs'[q] = cs[q]
    BY <1>1, <1>6, StillSteps DEF Sync, Types
  <2>2. /\ Len(file) \in Nat /\ Len(file) > 0 /\ file[Len(file)] = Of("root", tried)
        /\ cs[p].up \/ ~cs[p].up
    BY <1>1, <2>1 DEF CommitInv, Types
  <2>3. \A c \in content[tried] : Holds(file, c, Len(file))
    BY <1>1, <2>2 DEF ChunksInv, Of
  <2>4. \A c \in cs[p].index : cs[p].up => Holds(file, c, Len(file))
    BY <1>1 DEF ChunksInv
  <2>5. cs[p].up
    BY <1>1, <2>1 DEF ChunksInv
  <2>6. QED
    BY <1>1, <2>1, <2>3, <2>4, <2>5, LogAssumption DEF ChunksInv, Still, Holds
<1>7. ASSUME NEW p \in Procs, Crash(p)
      PROVE  ChunksInv'
  <2>1. /\ Still /\ cs' = [cs EXCEPT ![p] = Closed] /\ todo' = todo
        /\ lock' \in {NoProc, lock} /\ (lock = p => lock' = NoProc) /\ ~Closed.up
    BY <1>1, <1>7, StillSteps DEF Crash, Still, Closed
  <2>2. \A q \in Procs : cs'[q] = IF q = p THEN Closed ELSE cs[q]
    BY <1>1, <2>1 DEF Types
  <2>3. QED
    BY <1>1, <2>1, <2>2, LogAssumption DEF ChunksInv, Still, Holds
<1>8. ASSUME NEW p \in Procs, NEW chunks \in SUBSET Chunks, StartCommit(p, chunks)
      PROVE  ChunksInv'
  <2>1. PICK s \in Refreshed(p) : cs' = [cs EXCEPT ![p] = s] /\ todo' = chunks \ s.index
    BY <1>8 DEF StartCommit
  <2>2. s.up /\ \A c \in s.index : Holds(file, c, Len(file))
    BY <1>8, <2>1, RefreshedStore DEF StartCommit
  <2>3. file' = file /\ lock' = p /\ tried' = tried + 1 /\ content' = [content EXCEPT ![tried + 1] = chunks]
    BY <1>8 DEF StartCommit
  <2>4. tried \in Nat /\ tried + 1 \in Commits /\ content'[tried'] = chunks
    BY <1>1, <1>8, <2>3, LogAssumption DEF StartCommit, Types, Commits
  <2>5. \A i \in 1..Len(file) : file[i].tag = "root" =>
          file[i].of \in Commits /\ file[i].of # tried + 1
    <3>1. SUFFICES ASSUME NEW i \in 1..Len(file), file[i].tag = "root"
                   PROVE  file[i].of \in Commits /\ file[i].of # tried + 1
      OBVIOUS
    <3>2. file[i] \in Writes
      BY <1>1 DEF Types
    <3>3. file[i] \in [tag : {"root"}, of : Commits]
      BY <3>1, <3>2 DEF Writes, Write
    <3>4. QED
      BY <1>1, <2>4, <3>1, <3>3, LogAssumption DEF Commits, OrderInv
  <2>6. \A i \in 1..Len(file) : file[i].tag = "root" => content'[file[i].of] = content[file[i].of]
    BY <1>1, <2>3, <2>5 DEF Types
  <2>7. \A q \in Procs : cs'[q] = IF q = p THEN s ELSE cs[q]
    BY <1>1, <2>1 DEF Types
  <2>8. QED
    BY <1>1, <2>1, <2>2, <2>3, <2>4, <2>6, <2>7 DEF ChunksInv
<1>9. ASSUME NEW w \in Writes, Appends(w)
      PROVE  ChunksInv'
  <2>1. /\ Len(file) \in Nat /\ Len(file') = Len(file) + 1
        /\ file'[Len(file) + 1] = w
        /\ \A i \in 1..Len(file) : file'[i] = file[i]
        /\ \A i \in 1..Len(file') : i \in 1..Len(file) \/ i = Len(file) + 1
    BY <1>1, <1>9, AppendStep
  <2>2. /\ tried' = tried /\ content' = content /\ cs' = cs /\ lock' \in {lock, NoProc} /\ lock \in Procs
        /\ \A c \in todo : c \in todo' \/ w = Of("data", c)
    BY <1>9 DEF Appends, history
  <2>3. \A c, m : m \in 0..Len(file) /\ Holds(file, c, m) => Holds(file', c, m)
    BY <2>1 DEF Holds
  <2>4. \A c : Holds(file, c, Len(file)) => Holds(file', c, Len(file'))
    BY <2>1 DEF Holds
  <2>5. \A c : w = Of("data", c) => Holds(file', c, Len(file'))
    BY <2>1 DEF Holds
  <2>6. \A c \in content'[tried'] : c \in todo' \/ Holds(file', c, Len(file'))
    BY <1>1, <2>2, <2>4, <2>5 DEF ChunksInv
  <2>7. w.tag = "root" => \A c \in content[w.of] : Holds(file', c, Len(file'))
    <3>1. SUFFICES ASSUME w.tag = "root"
                   PROVE  \A c \in content[w.of] : Holds(file', c, Len(file'))
      OBVIOUS
    <3>2. w = Of("root", tried) /\ todo = {}
      BY <1>9, <3>1 DEF Appends
    <3>3. w.of = tried
      BY <3>2 DEF Of
    <3>4. QED
      BY <1>1, <2>2, <2>4, <3>2, <3>3 DEF ChunksInv
  <2>8. \A i \in 1..Len(file') : file'[i].tag = "root" =>
          \A c \in content[file'[i].of] : Holds(file', c, i)
    <3>1. SUFFICES ASSUME NEW i \in 1..Len(file'), file'[i].tag = "root"
                   PROVE  \A c \in content[file'[i].of] : Holds(file', c, i)
      OBVIOUS
    <3>2. CASE i = Len(file) + 1
      BY <2>1, <2>7, <3>1, <3>2
    <3>3. CASE i \in 1..Len(file)
      <4>1. file'[i] = file[i] /\ i \in 0..Len(file)
        BY <2>1, <3>3
      <4>2. \A c \in content[file[i].of] : Holds(file, c, i)
        BY <1>1, <3>1, <3>3, <4>1 DEF ChunksInv
      <4>3. QED
        BY <2>3, <4>1, <4>2
    <3>4. QED
      BY <2>1, <3>2, <3>3
  <2>9. QED
    BY <1>1, <2>2, <2>4, <2>6, <2>8, LogAssumption DEF ChunksInv
<1>10. CASE PowerLoss
  <2>1. PICK n \in 0..Len(file) :
          /\ Len(file') \in Nat /\ n <= Len(file') /\ Len(file') <= n + 1
          /\ \A i \in 1..n : file'[i] = file[i]
          /\ Len(file') = n + 1 => file'[n + 1] = Write("short")
    BY <1>1, <1>10, LostFile
  <2>2. \A i \in 1..Len(file') : file'[i].tag = "root" =>
          i \in 1..n /\ i \in 1..Len(file) /\ file'[i] = file[i]
    <3>1. \A i \in 1..Len(file') : i \in 1..n \/ (i = n + 1 /\ Len(file') = n + 1)
      BY <2>1
    <3>2. QED
      BY <2>1, <3>1 DEF Write
  <2>3. \A i \in 1..n : \A c : Holds(file, c, i) => Holds(file', c, i)
    BY <2>1 DEF Holds
  <2>4. content' = content /\ lock' = NoProc /\ \A q \in Procs : ~cs'[q].up
    BY <1>10 DEF PowerLoss, history, Closed
  <2>5. QED
    BY <1>1, <2>2, <2>3, <2>4, LogAssumption DEF ChunksInv
<1>11. ASSUME NEW p \in Procs, Left(p)
       PROVE  ChunksInv'
  <2>1. Still /\ UNCHANGED <<cs, todo>>
    BY <1>1, <1>11, StillSteps, LeftAlone
  <2>2. QED
    BY <1>1, <2>1, LogAssumption DEF ChunksInv, Still, Holds
<1>12. ASSUME NEW p \in Procs, Undone(p)
       PROVE  ChunksInv'
  <2>1. /\ lock = p /\ lock' = NoProc /\ UNCHANGED <<cs, history>> /\ orig \in 0..Len(file)
        /\ Len(file') = orig /\ \A i \in 1..orig : file'[i] = file[i]
    BY <1>1, <1>12, UndoneFile
  <2>2. \A q \in Procs : q = p
    BY <1>1, <1>12, OnlyOne
  <2>3. Len(file) \in Nat /\ orig \in Nat /\ 1..orig \subseteq 1..Len(file)
    BY <1>1, <2>1 DEF Types
  <2>4. \A i \in 0..orig : \A c : Holds(file, c, i) => Holds(file', c, i)
    BY <2>1, <2>3 DEF Holds
  <2>5. \A c \in cs[p].index : Holds(file', c, orig)
    BY <1>1, <2>1, <2>3, <2>4 DEF BeforeInv
  <2>6. \A i \in 1..orig : file'[i].tag = "root" => \A c \in content[file'[i].of] : Holds(file', c, i)
    BY <1>1, <2>1, <2>3, <2>4 DEF ChunksInv
  <2>7. QED
    BY <2>1, <2>2, <2>5, <2>6, LogAssumption DEF ChunksInv, history
<1>13. QED
  BY <1>1, <1>2, <1>4, <1>5, <1>6, <1>7, <1>8, <1>9, <1>10, <1>11, <1>12, Steps

\* When the root of a commit has been written, it is what is found.
LEMMA WrittenRootIsLast ==
  ASSUME Types, CommitInv, pc = "sync", ~Buried
  PROVE  Recovered(file) = tried
<1>1. Len(file) \in Nat /\ Len(file) > 0 /\ file[Len(file)] = Of("root", tried) /\ file \in Seq(Writes)
  BY DEF Types, CommitInv
<1>2. file[Len(file)].tag = "root" /\ file[Len(file)].of = tried /\ Len(file) \in 1..Len(file)
  BY <1>1 DEF Of
<1>3. ~BuriedIn(file)
  BY DEF Buried, BuriedIn
<1>4. Len(file) \in RootsOf(file)
  BY <1>1, <1>2, <1>3, AllReached
<1>5. IsLast(RootsOf(file), Len(file))
  BY <1>1, <1>4 DEF IsLast, RootsOf
<1>6. QED
  BY <1>1, <1>2, <1>5, RecoveredAtLast

\* What the processes have read, step by step.
LEMMA ReadStep ==
  ASSUME FailuresAlone, IInv, [Next]_vars
  PROVE  ReadInv'
<1>1. FileInv /\ Types /\ CommitInv /\ OrderInv /\ ReadInv /\ BeforeInv
  BY DEF IInv, FileInv
<1>2. CASE UNCHANGED vars
  BY <1>1, <1>2 DEF vars, commit, history, ReadInv, UpToDateIsLast, Buried, Changed
<1>3. ASSUME NEW p \in Procs, NEW s \in Stores, Still, cs' = [cs EXCEPT ![p] = s],
             s.up => /\ s.size = Len(file) /\ (~Buried => s.refs = Recovered(file))
                     /\ s.refs # 0 => \E i \in 1..Len(file) : file[i] = Of("root", s.refs)
      PROVE  ReadInv'
  <2>1. \A q \in Procs : cs'[q] = IF q = p THEN s ELSE cs[q]
    BY <1>1, <1>3 DEF Types
  <2>2. file' = file /\ (Buried' <=> Buried) /\ Len(file) \in Nat
    BY <1>1, <1>3 DEF Still, Buried, Types
  <2>3. UpToDateIsLast'
    BY <1>1, <1>3, <2>1, <2>2 DEF ReadInv, UpToDateIsLast, Changed
  <2>4. (pc' \in {"append", "data"} /\ ~Buried') => base'[tried'] = Recovered(file')
    BY <1>1, <1>3, <2>2 DEF ReadInv, Still
  <2>5. QED
    BY <1>1, <1>3, <2>1, <2>2, <2>3, <2>4 DEF ReadInv
<1>4. ASSUME NEW p \in Procs, Open(p)
      PROVE  ReadInv'
  <2>1. Still /\ cs' = [cs EXCEPT ![p] = Opened(file)]
    BY <1>1, <1>4, StillSteps DEF Open
  <2>2. QED
    BY <1>1, <1>3, <2>1, OpenedStore
<1>5. ASSUME NEW p \in Procs, Refresh(p)
      PROVE  ReadInv'
  <2>1. PICK s \in Refreshed(p) : cs' = [cs EXCEPT ![p] = s]
    BY <1>5 DEF Refresh
  <2>2. Still
    BY <1>1, <1>5, StillSteps
  <2>3. /\ s \in Stores /\ s.size = Len(file) /\ (~Buried => s.refs = Recovered(file))
        /\ s.refs # 0 => \E i \in 1..Len(file) : file[i] = Of("root", s.refs)
    BY <1>5, <2>1, RefreshedStore DEF Refresh
  <2>4. QED
    BY <1>3, <2>1, <2>2, <2>3
<1>6. ASSUME NEW p \in Procs, Sync(p)
      PROVE  ReadInv'
  <2> DEFINE s == [up |-> TRUE, refs |-> tried, size |-> Len(file),
                   index |-> cs[p].index \cup content[tried]]
  <2>1. Still /\ pc = "sync" /\ cs' = [cs EXCEPT ![p] = s]
    BY <1>1, <1>6, StillSteps DEF Sync
  <2>2. tried \in Commits /\ Len(file) \in Nat /\ Len(file) > 0 /\ file[Len(file)] = Of("root", tried)
    BY <1>1, <1>6 DEF Sync, CommitInv, Types
  <2>3. cs[p].index \cup content[tried] \in SUBSET Chunks
    BY <1>1, <2>2 DEF Types, Stores
  <2>4. s \in Stores
    BY <1>1, <2>2, <2>3 DEF Stores, Types
  <2>5. ~Buried => Recovered(file) = tried
    BY <1>1, <2>1, WrittenRootIsLast
  <2>6. s.size = Len(file) /\ s.refs = tried
    OBVIOUS
  <2> HIDE DEF s
  <2>7. Len(file) \in 1..Len(file) /\ file[Len(file)] = Of("root", s.refs)
    BY <2>2, <2>6
  <2>8. QED
    BY <1>3, <2>1, <2>4, <2>5, <2>6, <2>7
<1>7. ASSUME NEW p \in Procs, Crash(p)
      PROVE  ReadInv'
  <2>1. Still /\ cs' = [cs EXCEPT ![p] = Closed]
    BY <1>1, <1>7, StillSteps DEF Crash
  <2>2. Closed \in Stores /\ ~Closed.up
    BY LogAssumption DEF Closed, Stores
  <2>3. QED
    BY <1>3, <2>1, <2>2
<1>8. ASSUME NEW p \in Procs, NEW chunks \in SUBSET Chunks, StartCommit(p, chunks)
      PROVE  ReadInv'
  <2>1. PICK s \in Refreshed(p) :
          cs' = [cs EXCEPT ![p] = s] /\ base' = [base EXCEPT ![tried + 1] = s.refs]
    BY <1>8 DEF StartCommit
  <2>2. /\ s \in Stores /\ s.size = Len(file) /\ (~Buried => s.refs = Recovered(file))
        /\ s.refs # 0 => \E i \in 1..Len(file) : file[i] = Of("root", s.refs)
    BY <1>8, <2>1, RefreshedStore DEF StartCommit
  <2>3. file' = file /\ tried' = tried + 1 /\ (Buried' <=> Buried)
    BY <1>8 DEF StartCommit, Buried
  <2>4. tried + 1 \in Commits /\ base'[tried'] = s.refs
    BY <1>1, <1>8, <2>1, <2>3, LogAssumption DEF StartCommit, Types, Commits
  <2>5. \A q \in Procs : cs'[q] = IF q = p THEN s ELSE cs[q]
    BY <1>1, <2>1 DEF Types
  <2>6. UpToDateIsLast'
    BY <1>1, <2>2, <2>3, <2>5 DEF ReadInv, UpToDateIsLast, Changed
  <2>7. Len(file) \in Nat
    BY <1>1 DEF Types
  <2>8. QED
    BY <1>1, <2>2, <2>3, <2>4, <2>5, <2>6, <2>7 DEF ReadInv
<1>9. ASSUME NEW w \in Writes, Appends(w)
      PROVE  ReadInv'
  <2>1. /\ Len(file) \in Nat /\ Len(file') = Len(file) + 1
        /\ \A i \in 1..Len(file) : file'[i] = file[i]
    BY <1>1, <1>9, AppendStep
  <2>2. cs' = cs /\ tried' = tried /\ base' = base /\ file' = Append(file, w)
    BY <1>9 DEF Appends, history
  <2>3. UpToDateIsLast'
    <3>1. \A p \in Procs : cs[p].up => cs[p].size \in Nat /\ cs[p].size <= Len(file)
      BY <1>1 DEF ReadInv, Types, Stores
    <3>2. \A p \in Procs : cs'[p].up => Changed(p)'
      BY <2>1, <2>2, <3>1 DEF Changed
    <3>3. QED
      BY <3>2 DEF UpToDateIsLast
  <2>4. ~Buried' => ~Buried
    <3>1. ~BuriedIn(Append(file, w)) => ~BuriedIn(file)
      BY <1>1, AppendedRoots DEF Types
    <3>2. QED
      BY <2>2, <3>1 DEF Buried, BuriedIn
  <2>5. (pc' \in {"append", "data"} /\ ~Buried') => base'[tried'] = Recovered(file')
    <3>1. SUFFICES ASSUME pc' \in {"append", "data"}, ~Buried'
                   PROVE  base'[tried'] = Recovered(file')
      OBVIOUS
    <3>2. pc \in {"append", "data"} /\ w.tag # "root"
      BY <1>9, <3>1 DEF Appends
    <3>3. Recovered(Append(file, w)) = Recovered(file)
      BY <1>1, <3>2, AppendedNoRoot DEF Types
    <3>4. QED
      BY <1>1, <2>2, <2>4, <3>1, <3>2, <3>3 DEF ReadInv
  <2>6. \A p \in Procs : cs'[p].up => cs'[p].size <= Len(file')
    BY <1>1, <2>1, <2>2 DEF ReadInv, Types, Stores
  <2>7. \A p \in Procs : (cs'[p].up /\ cs'[p].refs # 0) =>
          \E i \in 1..Len(file') : file'[i] = Of("root", cs'[p].refs)
    BY <1>1, <2>1, <2>2 DEF ReadInv
  <2>8. QED
    BY <2>3, <2>5, <2>6, <2>7 DEF ReadInv
<1>10. CASE PowerLoss
  <2>1. pc' = "none" /\ \A q \in Procs : ~cs'[q].up
    BY <1>10 DEF PowerLoss, Closed
  <2>2. QED
    BY <2>1 DEF ReadInv, UpToDateIsLast
<1>11. ASSUME NEW p \in Procs, Left(p)
       PROVE  ReadInv'
  <2>1. Still /\ cs' = cs
    BY <1>1, <1>11, StillSteps, LeftAlone
  <2>2. QED
    BY <1>1, <2>1 DEF Still, ReadInv, UpToDateIsLast, Buried, Changed
<1>12. ASSUME NEW p \in Procs, Undone(p)
       PROVE  ReadInv'
  <2>1. /\ lock = p /\ pc' = "none" /\ cs' = cs /\ orig \in 0..Len(file)
        /\ file' = Before /\ Len(file') = orig /\ \A i \in 1..orig : file'[i] = file[i]
    BY <1>1, <1>12, UndoneFile
  <2>2. \A q \in Procs : q = p
    BY <1>1, <1>12, OnlyOne
  <2>3. /\ cs[p].size = orig /\ orig \in Nat
        /\ cs[p].refs # 0 => \E i \in 1..orig : file[i] = Of("root", cs[p].refs)
        /\ ~BuriedIn(Before) => cs[p].refs = Recovered(Before)
    BY <1>1, <2>1 DEF BeforeInv, Types
  <2>4. UpToDateIsLast'
    <3>1. Buried' <=> BuriedIn(file')
      BY DEF Buried, BuriedIn
    <3>2. QED
      BY <2>1, <2>2, <2>3, <3>1 DEF UpToDateIsLast
  <2>5. \A q \in Procs : cs'[q].size <= Len(file')
    BY <2>1, <2>2, <2>3
  <2>6. \A q \in Procs : cs'[q].refs # 0 =>
          \E i \in 1..Len(file') : file'[i] = Of("root", cs'[q].refs)
    BY <2>1, <2>2, <2>3
  <2>7. QED
    BY <2>1, <2>4, <2>5, <2>6 DEF ReadInv
<1>13. QED
  BY <1>1, <1>2, <1>4, <1>5, <1>6, <1>7, <1>8, <1>9, <1>10, <1>11, <1>12, Steps

\* Two files that begin alike have the same beginnings.
LEMMA SameBeginning ==
  ASSUME NEW f \in Seq(Writes), NEW g \in Seq(Writes), NEW n \in 0..Len(f), n <= Len(g),
         \A i \in 1..n : g[i] = f[i]
  PROVE  SubSeq(g, 1, n) = SubSeq(f, 1, n)
<1>1. /\ SubSeq(f, 1, n) \in Seq(Writes) /\ Len(SubSeq(f, 1, n)) = n
      /\ \A i \in 1..n : SubSeq(f, 1, n)[i] = f[i]
  BY PrefixFile
<1>2. /\ SubSeq(g, 1, n) \in Seq(Writes) /\ Len(SubSeq(g, 1, n)) = n
      /\ \A i \in 1..n : SubSeq(g, 1, n)[i] = g[i]
  BY PrefixFile
<1> QED BY <1>1, <1>2

\* What the holder of the lock knows of the file before its commit, step by step.
LEMMA BeforeStep ==
  ASSUME IInv, [Next]_vars
  PROVE  BeforeInv'
<1>1. FileInv /\ Types /\ CommitInv /\ OrderInv /\ ChunksInv /\ ReadInv /\ BeforeInv
  BY DEF IInv, FileInv
<1>2. ASSUME lock' \in {lock, NoProc}, orig' = orig,
             lock \in Procs => cs'[lock] = cs[lock],
             file' \in Seq(Writes), Len(file) <= Len(file'),
             \A i \in 1..Len(file) : file'[i] = file[i]
      PROVE  BeforeInv'
  <2>1. SUFFICES ASSUME lock' \in Procs
                 PROVE  BeforeInv'
    BY DEF BeforeInv
  <2>2. lock' = lock /\ lock \in Procs /\ cs'[lock] = cs[lock] /\ orig' = orig
    BY <1>2, <2>1, LogAssumption
  <2>3. /\ cs[lock].size = orig /\ orig \in 0..Len(file) /\ Len(file') \in Nat
        /\ 1..orig \subseteq 1..Len(file)
    BY <1>1, <1>2, <2>2 DEF BeforeInv, FileInv, Types
  <2>4. \A i \in 1..orig : file'[i] = file[i]
    BY <1>2, <2>3
  <2>5. Before' = Before
    <3>1. SubSeq(file', 1, orig) = SubSeq(file, 1, orig)
      BY <1>1, <1>2, <2>3, <2>4, SameBeginning DEF Types
    <3> QED BY <2>2, <3>1 DEF Before
  <2>6. /\ cs[lock].refs # 0 => \E i \in 1..orig : file[i] = Of("root", cs[lock].refs)
        /\ \A c \in cs[lock].index : Holds(file, c, orig)
        /\ ~BuriedIn(Before) => cs[lock].refs = Recovered(Before)
    BY <1>1, <2>2 DEF BeforeInv
  <2>7. \A c \in cs[lock].index : Holds(file', c, orig)
    BY <2>4, <2>6 DEF Holds
  <2>8. cs[lock].refs # 0 => \E i \in 1..orig : file'[i] = Of("root", cs[lock].refs)
    BY <2>4, <2>6
  <2>9. QED
    BY <2>2, <2>3, <2>5, <2>6, <2>7, <2>8 DEF BeforeInv
<1>3. CASE UNCHANGED vars
  BY <1>1, <1>2, <1>3 DEF vars, commit, Types
<1>4. ASSUME NEW p \in Procs, Open(p) \/ Refresh(p) \/ Crash(p)
      PROVE  BeforeInv'
  <2>1. UNCHANGED <<file, orig>> /\ lock' \in {lock, NoProc}
    BY <1>4 DEF Open, Refresh, Crash, commit
  <2>2. CASE lock' = NoProc
    BY <2>2, LogAssumption DEF BeforeInv
  <2>3. CASE lock' # NoProc
    <3>1. lock' = lock /\ (lock \in Procs => cs[lock].up)
      BY <1>1, <2>1, <2>3 DEF ChunksInv
    <3>2. lock # p
      BY <1>4, <2>3, <3>1 DEF Open, Refresh, Crash
    <3>3. lock \in Procs => cs'[lock] = cs[lock]
      BY <1>1, <1>4, <3>2 DEF Open, Refresh, Crash, Types
    <3>4. QED
      BY <1>1, <1>2, <2>1, <3>3 DEF Types
  <2>4. QED
    BY <2>2, <2>3
<1>5. ASSUME NEW p \in Procs, Sync(p) \/ Undone(p)
      PROVE  BeforeInv'
  <2>1. lock' = NoProc
    BY <1>5 DEF Sync, Undone, RollbackFailedAppend
  <2>2. QED
    BY <2>1, LogAssumption DEF BeforeInv
<1>6. ASSUME NEW p \in Procs, Left(p)
      PROVE  BeforeInv'
  <2>1. UNCHANGED <<cs, orig>> /\ lock' \in {lock, NoProc} /\ file' = file
    BY <1>1, <1>6, StillSteps, LeftAlone DEF Still
  <2>2. QED
    BY <1>1, <1>2, <2>1 DEF Types
<1>7. ASSUME NEW p \in Procs, NEW chunks \in SUBSET Chunks, StartCommit(p, chunks)
      PROVE  BeforeInv'
  <2>1. PICK s \in Refreshed(p) : cs' = [cs EXCEPT ![p] = s]
    BY <1>7 DEF StartCommit
  <2>2. /\ s.size = Len(file) /\ (~Buried => s.refs = Recovered(file))
        /\ s.refs # 0 => \E i \in 1..Len(file) : file[i] = Of("root", s.refs)
        /\ \A c \in s.index : Holds(file, c, Len(file))
    BY <1>7, <2>1, RefreshedStore DEF StartCommit
  <2>3. /\ file' = file /\ lock' = p /\ orig' = Len(file)
        /\ cs'[p] = s
    BY <1>1, <1>7, <2>1 DEF StartCommit, Types
  <2>4. Before' = file
    <3>1. SubSeq(file, 1, Len(file)) = file
      BY <1>1 DEF Types
    <3> QED BY <2>3, <3>1 DEF Before
  <2>5. BuriedIn(file) <=> Buried
    BY DEF Buried, BuriedIn
  <2>6. QED
    BY <2>2, <2>3, <2>4, <2>5 DEF BeforeInv
<1>8. ASSUME NEW w \in Writes, Appends(w)
      PROVE  BeforeInv'
  <2>1. /\ file' \in Seq(Writes) /\ Len(file) \in Nat /\ Len(file') = Len(file) + 1
        /\ \A i \in 1..Len(file) : file'[i] = file[i]
    BY <1>1, <1>8, AppendStep
  <2>2. UNCHANGED <<cs, orig>> /\ lock' \in {lock, NoProc} /\ Len(file) <= Len(file')
    BY <1>8, <2>1 DEF Appends
  <2>3. QED
    BY <1>2, <2>1, <2>2
<1>9. CASE PowerLoss
  BY <1>9, LogAssumption DEF PowerLoss, BeforeInv
<1>10. QED
  BY <1>1, <1>3, <1>4, <1>5, <1>6, <1>7, <1>8, <1>9, Steps

\* The line of the roots, step by step.
LEMMA LineStep ==
  ASSUME IInv, [Next]_vars
  PROVE  RootsAreALine'
<1>1. FileInv /\ Types /\ CommitInv /\ OrderInv /\ ReadInv /\ BeforeInv /\ RootsAreALine
  BY DEF IInv, FileInv
<1>2. CASE UNCHANGED vars
  BY <1>1, <1>2 DEF vars, history, RootsAreALine
<1>3. ASSUME NEW p \in Procs, Open(p) \/ Refresh(p) \/ Sync(p) \/ Crash(p) \/ Left(p)
      PROVE  RootsAreALine'
  BY <1>1, <1>3, StillSteps DEF Still, RootsAreALine
<1>4. ASSUME NEW p \in Procs, NEW chunks \in SUBSET Chunks, StartCommit(p, chunks)
      PROVE  RootsAreALine'
  <2>1. PICK s : file' = file /\ base' = [base EXCEPT ![tried + 1] = s]
    BY <1>4 DEF StartCommit
  <2>2. \A i \in RootsOf(file) : file[i].of \in Commits /\ file[i].of # tried + 1
    <3>1. SUFFICES ASSUME NEW i \in RootsOf(file)
                   PROVE  file[i].of \in Commits /\ file[i].of # tried + 1
      OBVIOUS
    <3>2. i \in 1..Len(file) /\ file[i].tag = "root"
      BY DEF RootsOf
    <3>3. file[i] \in Writes
      BY <1>1, <3>2 DEF Types
    <3>4. file[i] \in [tag : {"root"}, of : Commits]
      BY <3>2, <3>3 DEF Writes, Write
    <3>5. tried \in Nat /\ file[i].of <= tried /\ file[i].of \in Nat
      BY <1>1, <3>2, <3>4, LogAssumption DEF Types, OrderInv, Commits
    <3>6. QED
      BY <3>4, <3>5
  <2>3. \A i \in RootsOf(file) : base'[file[i].of] = base[file[i].of]
    BY <1>1, <2>1, <2>2 DEF Types
  <2>4. QED
    BY <1>1, <2>1, <2>3 DEF RootsAreALine
<1>5. ASSUME NEW w \in Writes, Appends(w)
      PROVE  RootsAreALine'
  <2>1. /\ Len(file) \in Nat /\ file'[Len(file) + 1] = w
        /\ \A i \in 1..Len(file) : file'[i] = file[i]
    BY <1>1, <1>5, AppendStep
  <2>2. base' = base /\ file' = Append(file, w)
    BY <1>5 DEF Appends, history
  <2>3. /\ \A i \in 1..Len(file) : i \in RootsOf(file') <=> i \in RootsOf(file)
        /\ RootsOf(file) \subseteq 1..Len(file)
        /\ RootsOf(file') \subseteq 1..(Len(file) + 1)
        /\ Len(file) + 1 \in RootsOf(file') => w.tag = "root" /\ ~BuriedIn(file)
    BY <1>1, <2>2, AppendedRoots DEF Types
  <2>4. SUFFICES ASSUME NEW i \in RootsOf(file'), NEW j \in RootsOf(file'), i < j,
                        \A k \in RootsOf(file') : k <= i \/ k >= j
                 PROVE  base[file'[j].of] = file'[i].of
    BY <2>2 DEF RootsAreALine
  <2>5. i \in 1..Len(file) /\ i \in RootsOf(file)
    BY <2>1, <2>3, <2>4
  <2>6. CASE j \in 1..Len(file)
    <3>1. j \in RootsOf(file) /\ file'[i] = file[i] /\ file'[j] = file[j]
      BY <2>1, <2>3, <2>5, <2>6
    <3>2. \A k \in RootsOf(file) : k <= i \/ k >= j
      BY <2>3, <2>4
    <3>3. QED
      BY <1>1, <2>4, <2>5, <3>1, <3>2 DEF RootsAreALine
  <2>7. CASE j = Len(file) + 1
    <3>1. w.tag = "root" /\ ~BuriedIn(file)
      BY <2>3, <2>4, <2>7
    <3>2. w = Of("root", tried) /\ pc = "append"
      BY <1>5, <3>1 DEF Appends
    <3>3. base[tried] = Recovered(file)
      BY <1>1, <3>1, <3>2 DEF ReadInv, Buried, BuriedIn
    <3>4. \A k \in RootsOf(file) : k \in RootsOf(file') /\ k <= Len(file)
      BY <2>1, <2>3
    <3>5. IsLast(RootsOf(file), i)
      BY <2>1, <2>4, <2>5, <2>7, <3>4 DEF IsLast
    <3>6. Recovered(file) = file[i].of
      BY <1>1, <2>5, <3>5, RecoveredAtLast DEF Types
    <3>7. file'[j].of = tried /\ file'[i] = file[i]
      BY <2>1, <2>5, <2>7, <3>2 DEF Of
    <3>8. QED
      BY <3>3, <3>6, <3>7
  <2>8. QED
    BY <2>1, <2>3, <2>4, <2>6, <2>7
<1>6. CASE PowerLoss \/ \E p \in Procs : Undone(p)
  <2>1. PICK n \in 0..Len(file) :
          /\ file' \in Seq(Writes) /\ n <= Len(file') /\ Len(file') <= n + 1
          /\ \A i \in 1..n : file'[i] = file[i]
          /\ Len(file') = n + 1 => file'[n + 1] = Write("short")
    BY <1>1, <1>6, LostFile
  <2>2. RootsOf(file') \subseteq 1..n /\ \A i \in 1..n : i \in RootsOf(file') <=> i \in RootsOf(file)
    BY <1>1, <2>1, LostRoots DEF Types
  <2>3. base' = base /\ Len(file) \in Nat /\ RootsOf(file) \subseteq 1..Len(file)
    BY <1>1, <1>6 DEF PowerLoss, Undone, RollbackFailedAppend, history, Types, RootsOf
  <2>4. SUFFICES ASSUME NEW i \in RootsOf(file'), NEW j \in RootsOf(file'), i < j,
                        \A k \in RootsOf(file') : k <= i \/ k >= j
                 PROVE  base[file'[j].of] = file'[i].of
    BY <2>3 DEF RootsAreALine
  <2>5. i \in RootsOf(file) /\ j \in RootsOf(file) /\ file'[i] = file[i] /\ file'[j] = file[j]
    BY <2>1, <2>2, <2>4
  <2>6. \A k \in RootsOf(file) : k <= i \/ k >= j
    <3>1. SUFFICES ASSUME NEW k \in RootsOf(file), k > i, k < j
                   PROVE  FALSE
      BY <2>2, <2>3, <2>4
    <3>2. k \in 1..n
      BY <2>2, <2>3, <2>4, <3>1
    <3>3. QED
      BY <2>2, <2>4, <3>1, <3>2
  <2>7. QED
    BY <1>1, <2>4, <2>5, <2>6 DEF RootsAreALine
<1>7. QED
  BY <1>1, <1>2, <1>3, <1>4, <1>5, <1>6, Steps

-------------------------------------------------------------------------------
(* Theorems                                                                 *)

\* The invariants hold at the start.
LEMMA InitInv ==
  ASSUME Init
  PROVE  FileInv /\ IInv
<1>1. Len(file) = 0 /\ file \in Seq(Writes) /\ 1..Len(file) = {}
  BY DEF Init
<1>2. cs \in [Procs -> Stores] /\ \A p \in Procs : ~cs[p].up
  BY LogAssumption DEF Init, Closed, Stores
<1>3. Types
  BY <1>1, <1>2, LogAssumption DEF Init, Types
<1>4. CommitInv /\ OrderInv /\ AckedInv
  BY <1>1, LogAssumption DEF Init, CommitInv, OrderInv, AckedInv
<1>5. ChunksInv /\ ReadInv
  BY <1>1, <1>2, LogAssumption DEF Init, ChunksInv, ReadInv, UpToDateIsLast
<1>6. BeforeInv /\ RootsAreALine
  BY <1>1, LogAssumption DEF Init, BeforeInv, RootsAreALine, RootsOf
<1>7. FileInv
  BY <1>3, <1>4, LogAssumption DEF Init, FileInv
<1>8. QED
  BY <1>5, <1>6, <1>7 DEF IInv

\* Every step keeps the invariant of the file.
LEMMA StepFileInv ==
  ASSUME FileInv, [Next]_vars
  PROVE  FileInv'
BY TypesStep, OrderStep, AckedStep, SpanStep DEF FileInv

\* Every step keeps the whole invariant, if failures are met alone.
LEMMA StepInv ==
  ASSUME FailuresAlone, IInv, [Next]_vars
  PROVE  IInv'
<1>1. FileInv'
  BY StepFileInv DEF IInv
<1>2. QED
  BY <1>1, ChunksStep, ReadStep, BeforeStep, LineStep DEF IInv

\* Both are invariants.
LEMMA FileInvariant == Spec => []FileInv
BY InitInv, StepFileInv, PTL DEF Spec

LEMMA Invariant ==
  ASSUME FailuresAlone
  PROVE  Spec => []IInv
BY InitInv, StepInv, PTL DEF Spec

\* Every variable of the chunk store keeps its type, whatever fails.
THEOREM TypeCorrect == Spec => []TypeOK
<1>1. FileInv => TypeOK
  <2>1. SUFFICES ASSUME FileInv
                 PROVE  TypeOK
    OBVIOUS
  <2>2. Types
    BY <2>1 DEF FileInv
  <2>3. \A i \in 1..Len(file) : file[i] \in Writes
    BY <2>2 DEF Types
  <2>4. \A i \in 1..Len(file) :
          \/ file[i] \in {Write("manifest"), Write("short")}
          \/ file[i] \in [tag : {"header", "data"}, of : Chunks]
          \/ file[i] \in [tag : {"root"}, of : Commits]
    BY <2>3 DEF Writes
  <2>5. QED
    BY <2>2, <2>4, LogAssumption DEF Types, Stores, TypeOK
<1>2. QED
  BY <1>1, FileInvariant, PTL

\* Every root that a replay gets to has its chunks in the file before it, though
\* chunkStorePut skips those the index has: what a failed commit took back is
\* never relied on.
THEOREM RootsComplete ==
  ASSUME FailuresAlone
  PROVE  Spec => []RootsAreComplete
<1>1. IInv => RootsAreComplete
  BY DEF IInv, ChunksInv, RootsAreComplete, RootsOf, Holds
<1>2. QED
  BY <1>1, Invariant, PTL

\* Every commit in the file was made on top of the one before it, also where a
\* commit in between was truncated or its truncation failed.
THEOREM RootsInLine ==
  ASSUME FailuresAlone
  PROVE  Spec => []RootsAreALine
<1>1. IInv => RootsAreALine
  BY DEF IInv
<1>2. QED
  BY <1>1, Invariant, PTL

\* A process that does not see the file grown (csDetectExternalChanges) has
\* read its last root, also after a truncation.
THEOREM UpToDateIsCurrent ==
  ASSUME FailuresAlone
  PROVE  Spec => []UpToDateIsLast
<1>1. IInv => UpToDateIsLast
  BY DEF IInv, ReadInv
<1>2. QED
  BY <1>1, Invariant, PTL

\* What a process has read is in the file, never a commit that was taken back.
THEOREM ReadsStay ==
  ASSUME FailuresAlone
  PROVE  Spec => []ReadsAreCommitted
<1>1. IInv => ReadsAreCommitted
  <2>1. SUFFICES ASSUME IInv, ~Buried, NEW p \in Procs, cs[p].up, cs[p].refs # 0
                 PROVE  \E i \in RootsOf(file) : file[i].of = cs[p].refs
    BY DEF ReadsAreCommitted
  <2>2. PICK i \in 1..Len(file) : file[i] = Of("root", cs[p].refs)
    BY <2>1 DEF IInv, ReadInv
  <2>3. file[i].tag = "root" /\ file[i].of = cs[p].refs
    BY <2>2 DEF Of
  <2>4. i \in RootsOf(file)
    BY <2>1, <2>2, <2>3, AllReached DEF IInv, FileInv, Types, Buried, BuriedIn
  <2>5. QED
    BY <2>3, <2>4
<1>2. QED
  BY <1>1, Invariant, PTL

\* Opening the file finds no more than was tried and, where nothing is
\* buried, no less than was acknowledged.
FoundInv == Recovered(file) \in 0..tried /\ (Buried \/ Recovered(file) >= acked)

\* The invariant says so.
LEMMA FoundIsAcked ==
  ASSUME FileInv
  PROVE  FoundInv
<1>1. Types /\ OrderInv /\ AckedInv
  BY DEF FileInv
<1>2. tried \in Nat /\ acked \in Nat /\ Len(file) \in Nat /\ synced <= Len(file) /\ file \in Seq(Writes)
  BY <1>1, LogAssumption DEF Types
<1>3. \A i \in RootsOf(file) : file[i].of \in 0..tried
  <2>1. SUFFICES ASSUME NEW i \in RootsOf(file)
                 PROVE  file[i].of \in 0..tried
    OBVIOUS
  <2>2. i \in 1..Len(file) /\ file[i].tag = "root" /\ file[i] \in Writes
    BY <1>2 DEF RootsOf
  <2>3. file[i] \in [tag : {"root"}, of : Commits]
    BY <2>2 DEF Writes, Write
  <2>4. QED
    BY <1>1, <1>2, <2>2, <2>3, LogAssumption DEF OrderInv, Commits
<1>4. Recovered(file) \in 0..tried
  <2>1. CASE RootsOf(file) = {}
    BY <1>2, <2>1, NothingRecovered
  <2>2. CASE RootsOf(file) # {}
    <3>1. LastRoot(file) \in RootsOf(file) /\ Recovered(file) = file[LastRoot(file)].of
      BY <1>2, <2>2, LastRootIsLast DEF IsLast
    <3>2. QED
      BY <1>3, <3>1
  <2>3. QED
    BY <2>1, <2>2
<1>5. ASSUME ~Buried, acked # 0
      PROVE  Recovered(file) >= acked
  <2>1. PICK a \in 1..synced : file[a] = Of("root", acked)
    BY <1>1, <1>5 DEF AckedInv
  <2>2. a \in 1..Len(file) /\ file[a].tag = "root" /\ file[a].of = acked
    BY <1>1, <1>2, <2>1 DEF Of, Types
  <2>3. a \in RootsOf(file)
    BY <1>2, <1>5, <2>2, AllReached DEF Buried, BuriedIn
  <2>4. /\ LastRoot(file) \in 1..Len(file) /\ LastRoot(file) \in RootsOf(file)
        /\ a <= LastRoot(file) /\ Recovered(file) = file[LastRoot(file)].of
    BY <1>2, <2>3, LastRootIsLast DEF IsLast
  <2>5. CASE a = LastRoot(file)
    BY <1>2, <2>2, <2>4, <2>5
  <2>6. CASE a < LastRoot(file)
    <3>1. file[LastRoot(file)].tag = "root"
      BY <2>4 DEF RootsOf
    <3>2. file[a].of < file[LastRoot(file)].of
      BY <1>1, <2>2, <2>4, <2>6, <3>1 DEF OrderInv
    <3>3. QED
      BY <1>2, <1>4, <2>2, <2>4, <3>2
  <2>7. QED
    BY <1>2, <2>2, <2>4, <2>5, <2>6
<1>6. QED
  BY <1>2, <1>4, <1>5 DEF FoundInv

\* The abstract register takes a step or stutters with every step.
LEMMA RegisterStep ==
  ASSUME FileInv, FoundInv', [Next]_vars
  PROVE  [Register!RegNext]_(Register!regVars)
<1>1. Types /\ CommitInv
  BY DEF FileInv
<1>2. /\ Recovered(file') \in 0..tried' /\ (Buried' \/ Recovered(file') >= acked')
      /\ Buried' \in BOOLEAN
  BY DEF FoundInv, Buried
<1>3. ASSUME tried' = tried, acked' = acked
      PROVE  Register!RegNext
  <2>1. Register!Settle
    BY <1>2, <1>3 DEF Register!Settle
  <2>2. QED
    BY <2>1 DEF Register!RegNext
<1>4. CASE UNCHANGED vars
  BY <1>3, <1>4 DEF vars, history
<1>5. ASSUME NEW p \in Procs, Open(p) \/ Refresh(p) \/ Crash(p)
      PROVE  Register!RegNext
  BY <1>3, <1>5 DEF Open, Refresh, Crash, history
<1>6. ASSUME NEW p \in Procs, Sync(p)
      PROVE  Register!RegNext
  <2>1. file' = file /\ acked' = tried /\ tried' = tried /\ pc = "sync" /\ (Buried' <=> Buried)
    BY <1>6 DEF Sync, Buried
  <2>2. Buried \/ Recovered(file) = tried
    BY <1>1, <2>1, WrittenRootIsLast
  <2>3. Register!Acknowledge
    BY <2>1, <2>2 DEF Register!Acknowledge, Buried
  <2>4. QED
    BY <2>3 DEF Register!RegNext
<1>7. ASSUME NEW p \in Procs, NEW chunks \in SUBSET Chunks, StartCommit(p, chunks)
      PROVE  Register!RegNext
  <2>1. file' = file /\ acked' = acked /\ tried' = tried + 1 /\ Buried' = Buried
    BY <1>7 DEF StartCommit, Buried
  <2>2. Register!Try
    BY <2>1 DEF Register!Try
  <2>3. QED
    BY <2>2 DEF Register!RegNext
<1>8. ASSUME NEW w \in Writes, Appends(w)
      PROVE  Register!RegNext
  BY <1>3, <1>8 DEF Appends, history
<1>9. CASE PowerLoss
  BY <1>3, <1>9 DEF PowerLoss, history
<1>10. ASSUME NEW p \in Procs, Left(p) \/ Undone(p)
       PROVE  Register!RegNext
  <2>1. CASE Left(p)
    BY <1>1, <1>3, <2>1, StillSteps, LeftAlone DEF Still
  <2>2. CASE Undone(p)
    BY <1>1, <1>3, <2>2, UndoneFile DEF history
  <2>3. QED
    BY <1>10, <2>1, <2>2
<1>11. QED
  BY <1>4, <1>5, <1>6, <1>7, <1>8, <1>9, <1>10, Steps

\* The file is a durable register: for any number of processes, commits,
\* crashes and failures, what opening it finds is the last acknowledged commit
\* or one tried after it, until something is appended after a torn record.
THEOREM LogIsRegister == Spec => ImplementsRegister
<1>1. Init => Register!RegInit
  <2>1. SUFFICES ASSUME Init
                 PROVE  Register!RegInit
    OBVIOUS
  <2>2. Len(file) = 0 /\ 1..Len(file) = {} /\ tried = 0 /\ acked = 0
    BY <2>1 DEF Init
  <2>3. RootsOf(file) = {} /\ Buried = FALSE
    BY <2>2 DEF RootsOf, Buried
  <2>4. QED
    BY <2>2, <2>3, NothingRecovered DEF Register!RegInit
<1>2. FileInv => FoundInv
  BY FoundIsAcked
<1>3. FileInv /\ FoundInv' /\ [Next]_vars => [Register!RegNext]_(Register!regVars)
  BY RegisterStep
<1>4. QED
  BY <1>1, <1>2, <1>3, FileInvariant, PTL DEF Spec, ImplementsRegister, Register!RegSpec

===============================================================================
