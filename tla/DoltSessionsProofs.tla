-------------------------- MODULE DoltSessionsProofs --------------------------
(***************************************************************************)
(* What is proved of DoltSessions: types, one writer at a time, commits     *)
(* that stay, a file that holds what sessions were told, readers that read  *)
(* one catalog, for any sessions and rows and any bounds.                   *)
(*                                                                          *)
(* Most of the work is to say what a session is after a step in terms of    *)
(* the session before: its call (SameCall), its file and refs (SameCopy,    *)
(* CopyRead, KeptFile), its catalog (SameCatalog, CatalogRead).  One lemma  *)
(* per action says so; the invariants are then shown from these lemmas.     *)
(***************************************************************************)
EXTENDS DoltSessions, SequenceTheorems, TLAPS

-------------------------------------------------------------------------------
(* Types                                                                    *)

\* The last element of a sequence.
LEMMA SeqLast ==
  ASSUME NEW S, NEW q \in Seq(S), q # <<>>
  PROVE  Len(q) \in Nat \ {0} /\ q[Len(q)] \in S
  OBVIOUS

\* The file in place.
LEMMA PathIs ==
  ASSUME TypeOK
  PROVE  /\ Path \in Nat \ {0} /\ Path \in 1..Path
         /\ files[Path] \in [size : Nat, refs : Refs]
         /\ files[Path].refs.head \in 1..Len(commits)
         /\ Len(commits) \in Nat
         /\ DOMAIN files = 1..Path
<1> DEFINE F == [size : Nat, refs : Refs]
<1>1. files \in Seq(F) /\ files # <<>>
  BY DEF TypeOK
<1> HIDE DEF F
<1>2. Path \in Nat \ {0} /\ files[Path] \in F /\ DOMAIN files = 1..Path
  BY <1>1, SeqLast DEF Path
<1>3. Path \in 1..Path
  BY <1>2
<1>4. Len(commits) \in Nat
  BY DEF TypeOK
<1> USE DEF F
<1> QED BY <1>2, <1>3, <1>4 DEF TypeOK

\* The file a session has open.
LEMMA FileIs ==
  ASSUME TypeOK, NEW i \in 1..Path
  PROVE  files[i] \in [size : Nat, refs : Refs]
<1> DEFINE F == [size : Nat, refs : Refs]
<1>1. files \in Seq(F)
  BY DEF TypeOK
<1> HIDE DEF F
<1>2. files[i] \in F
  BY <1>1 DEF Path
<1> QED BY <1>2 DEF F

\* d has the transaction and the call of c.
SameCall(c, d) ==
  /\ d.tx = c.tx /\ d.snapshotPinned = c.snapshotPinned /\ d.op = c.op
  /\ d.headCommit = c.headCommit /\ d.start = c.start
  /\ d.committed = c.committed /\ d.committedStaged = c.committedStaged

\* d has the copy of c, or has read the file.
SameFile(c, d) == d.file = c.file /\ d.size = c.size
SameCopy(c, d) == SameFile(c, d) /\ d.refs = c.refs /\ d.committedRefs = c.committedRefs
CopyRead(d) ==
  /\ d.file = Path /\ d.size = files[Path].size
  /\ d.refs = files[Path].refs /\ d.committedRefs = files[Path].refs

KeptFile(c, d) == SameFile(c, d) /\ d.committedRefs = c.committedRefs
Renewed(c, d) == SameCall(c, d) /\ (SameCopy(c, d) \/ CopyRead(d))

SameCatalog(c, d) == d.cat = c.cat /\ d.staged = c.staged

\* What a refresh makes of a session.
LEMMA Renewals ==
  ASSUME TypeOK, NEW m \in Nat, Len(commits) <= m,
         NEW c, Fits(c, Path, m), c.tx # "closed",
         NEW d \in {Looked(c), Reloaded(c), Unpinned(c), RefreshIfChanged(c), Current(c)}
  PROVE  Fits(d, Path, m) /\ Renewed(c, d) /\ SameCatalog(c, d)
<1>1. /\ Path \in 1..Path /\ files[Path] \in [size : Nat, refs : Refs] /\ Path \in Nat
      /\ files[Path].refs.head \in 1..m
  BY PathIs
<1>2. CASE d = Looked(c)
  BY <1>1, <1>2 DEF Looked, Fits, Session, Renewed, SameCall, SameFile, SameCopy, CopyRead, SameCatalog
<1>3. CASE d = Reloaded(c)
  BY <1>1, <1>3 DEF Reloaded, Fits, Session, Renewed, SameCall, SameFile, SameCopy, CopyRead, SameCatalog
<1>4. CASE d = c
  BY <1>4 DEF Renewed, SameCall, SameFile, SameCopy, CopyRead, SameCatalog
<1> QED BY <1>2, <1>3, <1>4 DEF Unpinned, RefreshIfChanged, Current

\* The catalog is read again.
LEMMA WorkingStateFits ==
  ASSUME NEW c, NEW n, NEW m, Fits(c, n, m)
  PROVE  /\ Fits(WorkingState(c), n, m) /\ Renewed(c, WorkingState(c))
         /\ WorkingState(c).cat = Loaded(c) /\ WorkingState(c).staged = c.refs.staged
BY DEF WorkingState, Loaded, Fits, Session, Refs, Renewed, SameCall, SameFile, SameCopy, CopyRead

\* What a refresh with the catalog makes of a session.
LEMMA CatalogRenewals ==
  ASSUME TypeOK, NEW c, Fits(c, Path, Len(commits)), c.tx # "closed",
         NEW d \in {RefreshFromDisk(c), Prepared(c)}
  PROVE  /\ Fits(d, Path, Len(commits)) /\ Renewed(c, d)
         /\ \/ SameCatalog(c, d) /\ d.refs = c.refs
            \/ /\ d.cat = IF d.refs.work \in c.committed THEN c.cat ELSE d.refs.work
               /\ d.staged = d.refs.staged
<1>1. Len(commits) \in Nat /\ Len(commits) <= Len(commits)
  BY PathIs
<1> DEFINE r == Reloaded(c)
<1>2. Fits(r, Path, Len(commits)) /\ Renewed(c, r) /\ SameCatalog(c, r)
  BY <1>1, Renewals
<1>3. Fits(Looked(c), Path, Len(commits)) /\ Renewed(c, Looked(c)) /\ SameCatalog(c, Looked(c))
  BY <1>1, Renewals
<1>4. Looked(c).refs = c.refs
  BY DEF Looked, Fits, Session
<1>5. /\ Fits(WorkingState(r), Path, Len(commits)) /\ Renewed(r, WorkingState(r))
      /\ WorkingState(r).cat = Loaded(r) /\ WorkingState(r).staged = r.refs.staged
  BY <1>2, WorkingStateFits
<1> HIDE DEF r
<1>6. WorkingState(r).refs = r.refs /\ WorkingState(r).committed = r.committed
  BY <1>2 DEF WorkingState, Fits, Session
<1>. DEFINE w == WorkingState(r)
<1>7. /\ Fits(w, Path, Len(commits)) /\ Renewed(c, w) /\ w.staged = w.refs.staged
      /\ w.cat = IF w.refs.work \in c.committed THEN c.cat ELSE w.refs.work
  BY <1>2, <1>5, <1>6 DEF Renewed, SameCall, SameFile, SameCopy, CopyRead, SameCatalog, Loaded
<1> HIDE DEF w
<1>8. CASE d = w
  BY <1>7, <1>8
<1>9. CASE d = Looked(c)
  BY <1>4, <1>3, <1>9
<1>10. CASE d = c
  BY <1>10 DEF Renewed, SameCall, SameFile, SameCopy, CopyRead, SameCatalog
<1> QED BY <1>8, <1>9, <1>10 DEF RefreshFromDisk, Prepared, w, r

\* The working set is put into the refs.
LEMMA StoredFits ==
  ASSUME NEW c, NEW n, NEW m, Fits(c, n, m)
  PROVE  /\ Fits(Stored(c), n, m) /\ KeptFile(c, Stored(c)) /\ SameCall(c, Stored(c))
         /\ SameCatalog(c, Stored(c))
         /\ Stored(c).refs = [head |-> c.refs.head, work |-> c.cat, staged |-> c.staged]
BY DEF Stored, Fits, Session, Refs, KeptFile, SameFile, SameCall, SameCatalog

\* A write transaction goes back to its catalog and refs.
LEMMA RestoredFits ==
  ASSUME NEW c, NEW n, NEW m, Fits(c, n, m), c.tx = "write"
  PROVE  /\ Fits(Restored(c), n, m) /\ KeptFile(c, Restored(c)) /\ SameCall(c, Restored(c))
         /\ Restored(c).refs = c.committedRefs
         /\ c.committed = {Restored(c).cat} /\ Restored(c).staged = c.committedStaged
<1>1. PICK x \in Catalogs : c.committed = {x}
  BY DEF Fits
<1> DEFINE y == CHOOSE y \in Catalogs : y \in c.committed
<1>2. y = x
  BY <1>1
<1> HIDE DEF y
<1>3. Restored(c) = [c EXCEPT !.cat = y, !.staged = c.committedStaged, !.refs = c.committedRefs]
  BY DEF Restored, y
<1>4. Restored(c) \in Session
  BY <1>1, <1>2, <1>3 DEF Fits, Session
<1>5. /\ KeptFile(c, Restored(c)) /\ SameCall(c, Restored(c))
      /\ Restored(c).refs = c.committedRefs
      /\ Restored(c).cat = y /\ Restored(c).staged = c.committedStaged
  BY <1>3 DEF Fits, Session, KeptFile, SameFile, SameCall
<1>6. Fits(Restored(c), n, m)
  BY <1>4, <1>5 DEF Fits, KeptFile, SameFile, SameCall
<1> QED BY <1>1, <1>2, <1>5, <1>6

\* A transaction ends, or a read begins.
LEMMA InFits ==
  ASSUME NEW c, NEW n, NEW m, Fits(c, n, m), NEW tx \in {"none", "read"}, c.tx # "closed"
  PROVE  /\ Fits(In(c, tx), n, m) /\ KeptFile(c, In(c, tx)) /\ SameCatalog(c, In(c, tx))
         /\ In(c, tx).refs = c.refs /\ In(c, tx).op = c.op
         /\ In(c, tx).committed = c.committed
         /\ In(c, tx).tx = tx /\ (In(c, tx).snapshotPinned <=> tx = "read")
BY DEF In, Fits, Session, KeptFile, SameFile, SameCatalog

\* A write transaction ends.
LEMMA EndedFits ==
  ASSUME NEW c, NEW n, NEW m, Fits(c, n, m), c.tx # "closed"
  PROVE  /\ Fits(Ended(c), n, m) /\ KeptFile(c, Ended(c)) /\ SameCatalog(c, Ended(c))
         /\ Ended(c).refs = c.refs /\ Ended(c).op = c.op
         /\ Ended(c).tx = "none" /\ Ended(c).snapshotPinned = FALSE
BY DEF Ended, In, Fits, Session, KeptFile, SameFile, SameCatalog, Catalogs

\* A write transaction begins.
LEMMA WritingFits ==
  ASSUME NEW c, NEW n, NEW m, Fits(c, n, m), c.tx # "closed"
  PROVE  /\ Fits(Writing(c), n, m) /\ KeptFile(c, Writing(c))
         /\ Writing(c).refs = c.refs /\ Writing(c).op = c.op
         /\ Writing(c).tx = "write" /\ Writing(c).snapshotPinned = TRUE
         /\ Writing(c).cat = Loaded(c) /\ Writing(c).staged = c.refs.staged
         /\ Writing(c).committed = {c.refs.work}
         /\ Writing(c).committedStaged = c.refs.staged /\ Writing(c).start = Loaded(c)
<1>1. Loaded(c) \in Catalogs
  BY DEF Loaded, Fits, Session, Refs
<1>2. c \in Session /\ c.refs \in Refs /\ c.refs.work \in Catalogs /\ c.refs.staged \in Catalogs
  BY DEF Fits, Session, Refs
<1>3. Writing(c) = [c EXCEPT !.cat = Loaded(c), !.staged = c.refs.staged,
                             !.committed = {c.refs.work}, !.committedStaged = c.refs.staged,
                             !.start = Loaded(c), !.tx = "write", !.snapshotPinned = TRUE]
  <2> DEFINE d == WorkingState(c)
  <2> DEFINE e == [d EXCEPT !.committed = {d.refs.work}, !.committedStaged = d.staged, !.start = d.cat]
  <2>1. d = [c EXCEPT !.cat = Loaded(c), !.staged = c.refs.staged]
    BY DEF WorkingState
  <2>2. d.refs = c.refs /\ d.staged = c.refs.staged /\ d.cat = Loaded(c)
    BY <1>2, <2>1 DEF Session
  <2>3. Writing(c) = [e EXCEPT !.tx = "write", !.snapshotPinned = TRUE]
    BY DEF Writing, In
  <2> HIDE DEF d
  <2> QED BY <1>2, <2>1, <2>2, <2>3 DEF Session
<1>4. Writing(c) \in Session
  <2> DEFINE w == {c.refs.work}
  <2>1. w \in SUBSET Catalogs
    BY <1>2
  <2> HIDE DEF w
  <2> DEFINE d == [c EXCEPT !.cat = Loaded(c), !.staged = c.refs.staged, !.committed = w]
  <2>2. d \in Session
    BY <1>1, <1>2, <2>1 DEF Session
  <2>3. Writing(c) = [d EXCEPT !.committedStaged = c.refs.staged,
                               !.start = Loaded(c), !.tx = "write", !.snapshotPinned = TRUE]
    BY <1>3 DEF w
  <2> HIDE DEF d
  <2> QED BY <1>1, <1>2, <2>2, <2>3 DEF Session
<1>5. /\ KeptFile(c, Writing(c))
      /\ Writing(c).refs = c.refs /\ Writing(c).op = c.op
      /\ Writing(c).tx = "write" /\ Writing(c).snapshotPinned = TRUE
      /\ Writing(c).cat = Loaded(c) /\ Writing(c).staged = c.refs.staged
      /\ Writing(c).committed = {c.refs.work}
      /\ Writing(c).committedStaged = c.refs.staged /\ Writing(c).start = Loaded(c)
      /\ Writing(c).headCommit = c.headCommit
  BY <1>2, <1>3 DEF Session, KeptFile, SameFile
<1>6. Fits(Writing(c), n, m)
  BY <1>2, <1>4, <1>5 DEF Fits, KeptFile, SameFile
<1> QED BY <1>5, <1>6

\* dolt_commit moves the branch and the head of the session.
LEMMA AdvancedFits ==
  ASSUME NEW c, NEW n, NEW m \in Nat, Fits(c, n, m), c.tx # "closed", NEW k \in 1..m
  PROVE  /\ Fits(Advanced(c, k), n, m) /\ KeptFile(c, Advanced(c, k))
         /\ Advanced(c, k).tx = c.tx /\ Advanced(c, k).snapshotPinned = c.snapshotPinned
         /\ Advanced(c, k).op = NoOp /\ Advanced(c, k).cat = c.cat
         /\ Advanced(c, k).committed = c.committed
         /\ Advanced(c, k).refs = [head |-> k, work |-> c.cat, staged |-> c.op.cat]
<1> DEFINE d == [c EXCEPT !.staged = c.op.cat, !.headCommit = k, !.op = NoOp]
<1>1. Fits(d, n, m) /\ d.cat = c.cat /\ d.staged = c.op.cat /\ KeptFile(c, d) /\ d.op = NoOp
      /\ d.tx = c.tx /\ d.snapshotPinned = c.snapshotPinned /\ d.committed = c.committed
  <2>1. c.op.cat \in Catalogs /\ NoOp \in [kind : {"none", "add", "commit"}, cat : Catalogs]
    BY DEF Fits, Session, NoOp, Catalogs
  <2>2. k \in Nat
    OBVIOUS
  <2>3. d \in Session
    BY <2>1, <2>2 DEF Fits, Session
  <2> QED BY <2>1, <2>3 DEF Fits, Session, KeptFile, SameFile
<1>2. /\ Advanced(c, k) = [Stored(d) EXCEPT !.refs.head = k]
  BY DEF Advanced
<1> HIDE DEF d
<1>3. /\ Fits(Stored(d), n, m) /\ KeptFile(d, Stored(d)) /\ SameCall(d, Stored(d))
      /\ SameCatalog(d, Stored(d))
      /\ Stored(d).refs = [head |-> d.refs.head, work |-> d.cat, staged |-> d.staged]
  BY <1>1, StoredFits
<1> DEFINE e == Stored(d)
<1> HIDE DEF e
<1>4. /\ Fits(e, n, m) /\ KeptFile(c, e) /\ e.tx = c.tx /\ e.snapshotPinned = c.snapshotPinned
      /\ e.op = NoOp /\ e.cat = c.cat /\ e.committed = c.committed
      /\ e.refs.work = c.cat /\ e.refs.staged = c.op.cat
  BY <1>1, <1>3 DEF e, KeptFile, SameFile, SameCall, SameCatalog
<1>5. Advanced(c, k) = [e EXCEPT !.refs.head = k]
  BY <1>2 DEF e
<1> QED BY <1>4, <1>5 DEF Fits, Session, Refs, KeptFile, SameFile

\* The append: the session reads the file if it is newer, and writes its refs.
LEMMA AppendedFits ==
  ASSUME TypeOK, NEW m \in Nat, Len(commits) <= m, NEW c, Fits(c, Path, m), c.tx # "closed"
  PROVE  LET d == Current(c)
         IN  /\ Fits(d, Path, m) /\ Renewed(c, d) /\ SameCatalog(c, d)
             /\ Fits(Appended(c), Path, m) /\ SameCall(c, Appended(c))
             /\ SameCatalog(c, Appended(c)) /\ Appended(c).file = d.file
             /\ Appended(c).size = files[Path].size + 1
             /\ Appended(c).refs = d.refs /\ Appended(c).committedRefs = d.refs
             /\ Grown(c) \in Seq([size : Nat, refs : Refs]) /\ Len(Grown(c)) = Path
             /\ Grown(c)[Path] = [size |-> files[Path].size + 1, refs |-> d.refs]
             /\ \A i \in 1..Path : i # Path => Grown(c)[i] = files[i]
<1> DEFINE d == Current(c)
<1>1. Fits(d, Path, m) /\ Renewed(c, d) /\ SameCatalog(c, d)
  BY Renewals
<1>2. files[Path].size \in Nat /\ DOMAIN files = 1..Path /\ Path \in 1..Path
  BY PathIs
<1>3. /\ Appended(c) = [d EXCEPT !.size = files[Path].size + 1, !.committedRefs = d.refs]
      /\ Grown(c) = [files EXCEPT ![Path] = [size |-> @.size + 1, refs |-> d.refs]]
  BY DEF Appended, Grown
<1> HIDE DEF d
<1>4. /\ Fits(Appended(c), Path, m) /\ SameCall(d, Appended(c))
      /\ SameCatalog(d, Appended(c)) /\ Appended(c).file = d.file
      /\ Appended(c).size = files[Path].size + 1
      /\ Appended(c).refs = d.refs /\ Appended(c).committedRefs = d.refs
  <2> DEFINE k == files[Path].size + 1
  <2>1. k \in Nat
    BY <1>2
  <2>2. Appended(c) = [d EXCEPT !.size = k, !.committedRefs = d.refs]
    BY <1>3
  <2> HIDE DEF k
  <2>3. Appended(c) \in Session
    BY <1>1, <2>1, <2>2 DEF Fits, Session
  <2>4. /\ SameCall(d, Appended(c)) /\ SameCatalog(d, Appended(c)) /\ Appended(c).file = d.file
        /\ Appended(c).size = k
        /\ Appended(c).refs = d.refs /\ Appended(c).committedRefs = d.refs
    BY <1>1, <2>2 DEF Fits, Session, SameCall, SameCatalog
  <2>5. Fits(Appended(c), Path, m)
    BY <1>1, <2>3, <2>4 DEF Fits, SameCall
  <2> QED BY <2>4, <2>5 DEF k
<1>5. SameCall(c, Appended(c)) /\ SameCatalog(c, Appended(c))
  BY <1>1, <1>4 DEF Renewed, SameCall, SameFile, SameCopy, CopyRead, SameCatalog
<1>6. /\ Grown(c)[Path] = [size |-> files[Path].size + 1, refs |-> d.refs]
      /\ \A i \in 1..Path : i # Path => Grown(c)[i] = files[i]
  BY <1>2, <1>3
<1>7. Grown(c) \in Seq([size : Nat, refs : Refs]) /\ Len(Grown(c)) = Path
  <2> DEFINE F == [size : Nat, refs : Refs]
  <2> DEFINE g == [size |-> files[Path].size + 1, refs |-> d.refs]
  <2>1. g \in F /\ files \in Seq(F)
    <3>1. d.refs \in Refs /\ files[Path].size + 1 \in Nat
      BY <1>1, <1>2 DEF Fits, Session
    <3>2. files \in Seq(F)
      BY DEF TypeOK
    <3> QED BY <3>1, <3>2
  <2>2. Grown(c) = [files EXCEPT ![Path] = g]
    BY <1>2, <1>3
  <2> HIDE DEF F, g
  <2>3. Path \in 1..Len(files)
    BY <1>2 DEF Path
  <2>4. [files EXCEPT ![Path] = g] \in Seq(F) /\ Len([files EXCEPT ![Path] = g]) = Len(files)
    BY <2>1, <2>3, ExceptSeq
  <2>5. Grown(c) \in Seq(F) /\ Len(Grown(c)) = Path
    BY <2>2, <2>4 DEF Path
  <2> QED BY <2>5 DEF F
<1> QED BY <1>1, <1>4, <1>5, <1>6, <1>7 DEF d

\* A step of one session that leaves the file alone keeps the types.
LEMMA LocalTypes ==
  ASSUME TypeOK, NEW s \in Sessions, NEW d, Fits(d, Path, Len(commits)),
         conn' = [conn EXCEPT ![s] = d], UNCHANGED <<files, commits, acked, told>>,
         lock' \in Sessions \cup {NoSession}, flaws' \subseteq Flaws,
         appends' \in Nat, calls' \in Nat
  PROVE  TypeOK'
<1>1. d \in Session /\ conn \in [Sessions -> Session]
  BY DEF Fits, TypeOK
<1>2. conn' \in [Sessions -> Session]
  BY <1>1
<1>3. \A t \in Sessions : conn'[t] = IF t = s THEN d ELSE conn[t]
  BY <1>1
<1>4. \A t \in Sessions : Fits(conn'[t], Path, Len(commits))
  BY <1>3 DEF TypeOK
<1>5. UNCHANGED files /\ UNCHANGED commits /\ UNCHANGED acked /\ UNCHANGED told
  OBVIOUS
<1>6. UNCHANGED Path
  BY <1>5 DEF Path
<1>7. \A t \in Sessions : Fits(conn'[t], Path', Len(commits'))
  BY <1>4, <1>5, <1>6
<1> QED BY <1>2, <1>5, <1>6, <1>7 DEF TypeOK

\* What does not need more files or commits fits more.
LEMMA FitsMore ==
  ASSUME NEW c, NEW n \in Nat, NEW m \in Nat, NEW p \in Nat, NEW q \in Nat,
         n <= p, m <= q, Fits(c, n, m)
  PROVE  Fits(c, p, q)
BY DEF Fits

\* An append keeps the types.
LEMMA AppendTypes ==
  ASSUME TypeOK, NEW s \in Sessions, NEW d, Fits(d, Path, Len(commits')), d.tx # "closed",
         files' = Grown(d), conn' = [conn EXCEPT ![s] = Appended(d)],
         commits' \in Seq([cat : Catalogs, past : SUBSET Nat]),
         Len(commits) <= Len(commits'), acked' \subseteq 1..Len(commits'), told' \in Refs,
         lock' \in Sessions \cup {NoSession}, flaws' \subseteq Flaws,
         appends' \in Nat, calls' \in Nat
  PROVE  TypeOK'
<1> DEFINE m == Len(commits')
<1>1. m \in Nat /\ Len(commits) <= m /\ Len(commits) \in Nat /\ Path \in Nat
  BY PathIs
<1> HIDE DEF m
<1>2. Fits(d, Path, m)
  BY DEF m
<1>3. /\ Fits(Current(d), Path, m)
      /\ Fits(Appended(d), Path, m)
      /\ files' \in Seq([size : Nat, refs : Refs]) /\ Len(files') = Path
      /\ files'[Path] = [size |-> files[Path].size + 1, refs |-> Current(d).refs]
      /\ \A i \in 1..Path : i # Path => files'[i] = files[i]
  <2>1. /\ Fits(Current(d), Path, m) /\ Fits(Appended(d), Path, m)
        /\ Grown(d) \in Seq([size : Nat, refs : Refs]) /\ Len(Grown(d)) = Path
        /\ Grown(d)[Path] = [size |-> files[Path].size + 1, refs |-> Current(d).refs]
        /\ \A i \in 1..Path : i # Path => Grown(d)[i] = files[i]
    BY <1>1, <1>2, AppendedFits
  <2>2. files' = Grown(d)
    OBVIOUS
  <2> QED BY <2>1, <2>2, Zenon
<1>4. Appended(d) \in Session /\ conn \in [Sessions -> Session]
  BY <1>3 DEF Fits, TypeOK
<1>5. /\ conn' \in [Sessions -> Session]
      /\ \A t \in Sessions : conn'[t] = IF t = s THEN Appended(d) ELSE conn[t]
  BY <1>4
<1>6. \A t \in Sessions : Fits(conn[t], Path, m)
  <2> TAKE t \in Sessions
  <2>1. Fits(conn[t], Path, Len(commits))
    BY DEF TypeOK
  <2> QED BY <1>1, <2>1, FitsMore
<1>7. Path' = Path /\ Path' \in Nat \ {0}
  BY <1>3, PathIs DEF Path
<1>8. \A t \in Sessions : Fits(conn'[t], Path', m)
  BY <1>3, <1>5, <1>6, <1>7
<1>9. \A i \in 1..Path' : files'[i].refs.head \in 1..m
  <2> TAKE i \in 1..Path'
  <2>1. d.tx # "closed" /\ Current(d).tx # "closed"
    BY <1>1, <1>2, AppendedFits DEF Renewed, SameCall, SameFile, SameCopy, CopyRead
  <2>2. CASE i = Path
    BY <1>3, <2>1, <2>2 DEF Fits
  <2>3. CASE i # Path
    <3>1. files'[i] = files[i] /\ files[i].refs.head \in 1..Len(commits)
      BY <1>3, <1>7, <2>3 DEF TypeOK
    <3> QED BY <1>1, <3>1
  <2> QED BY <2>2, <2>3
<1>10. files' # <<>>
  BY <1>3, <1>7
<1> QED BY <1>3, <1>5, <1>8, <1>9, <1>10 DEF TypeOK, m

\* A session as the actions find it.
LEMMA ConnFits ==
  ASSUME TypeOK, NEW s \in Sessions
  PROVE  Fits(conn[s], Path, Len(commits)) /\ conn[s] \in Session
BY DEF TypeOK, Fits

\* A connection that is closed, one that has just been opened.
LEMMA OpenedFits ==
  ASSUME TypeOK
  PROVE  /\ Fits(Closed, Path, Len(commits)) /\ Closed.tx = "closed"
         /\ Closed.op = NoOp /\ ~Closed.snapshotPinned
         /\ Fits(Opened, Path, Len(commits)) /\ Opened.tx = "none" /\ Opened.op = NoOp
         /\ ~Opened.snapshotPinned
         /\ Opened.file = Path /\ Opened.size = files[Path].size
         /\ Opened.refs = files[Path].refs /\ Opened.committedRefs = files[Path].refs
         /\ Opened.cat = files[Path].refs.work
<1>1. /\ Path \in 1..Path /\ files[Path] \in [size : Nat, refs : Refs] /\ Path \in Nat
      /\ files[Path].refs.head \in 1..Len(commits)
  BY PathIs
<1>2. NoRefs \in Refs /\ NoOp \in [kind : {"none", "add", "commit"}, cat : Catalogs]
      /\ {} \in Catalogs
  BY DEF NoRefs, Refs, NoOp, Catalogs
<1>3. Closed \in Session
  BY <1>2 DEF Closed, Session
<1>4. Closed.tx = "closed" /\ Closed.op = NoOp /\ ~Closed.snapshotPinned /\ Closed.committed = {}
  BY DEF Closed
<1> DEFINE o == [Closed EXCEPT !.tx = "none"]
<1>5. o \in Session /\ o.tx = "none" /\ o.op = NoOp /\ ~o.snapshotPinned
  BY <1>3, <1>4 DEF Session
<1> DEFINE r == Reloaded(o)
<1>6. /\ r \in Session /\ r.tx = "none" /\ r.op = NoOp /\ ~r.snapshotPinned
      /\ r.file = Path /\ r.size = files[Path].size
      /\ r.refs = files[Path].refs /\ r.committedRefs = files[Path].refs
  BY <1>1, <1>5 DEF Reloaded, Session
<1>7. Opened = [r EXCEPT !.cat = r.refs.work, !.staged = r.refs.staged, !.headCommit = r.refs.head]
  BY DEF Opened
<1> HIDE DEF r
<1>8. r.refs.work \in Catalogs /\ r.refs.staged \in Catalogs /\ r.refs.head \in Nat
  BY <1>1, <1>6 DEF Refs
<1>9. /\ Opened \in Session /\ Opened.tx = "none" /\ Opened.op = NoOp /\ ~Opened.snapshotPinned
      /\ Opened.file = Path /\ Opened.size = files[Path].size
      /\ Opened.refs = files[Path].refs /\ Opened.committedRefs = files[Path].refs
      /\ Opened.cat = files[Path].refs.work /\ Opened.headCommit = files[Path].refs.head
  BY <1>6, <1>7, <1>8 DEF Session
<1>10. Fits(Opened, Path, Len(commits))
  BY <1>1, <1>9 DEF Fits
<1> QED BY <1>3, <1>4, <1>9, <1>10 DEF Fits

\* The counters and the flaws keep their types.
LEMMA CountersFit ==
  ASSUME TypeOK, NEW s \in Sessions,
         \/ Open(s) \/ Exit(s) \/ BeginRead(s) \/ EndRead(s)
         \/ BeginWrite(s) \/ ChangeRow(s) \/ CommitWrite(s) \/ CommitIsBusy(s)
         \/ RollbackWrite(s) \/ RollbackIsBusy(s)
         \/ StartAdd(s) \/ FinishAdd(s) \/ AddIsBusy(s)
         \/ StartCommit(s) \/ FinishCommit(s) \/ CommitConflicts(s)
         \/ Tag(s) \/ Gc(s)
  PROVE  /\ appends' \in Nat /\ calls' \in Nat
         /\ flaws' \subseteq Flaws /\ flaws \subseteq flaws'
         /\ lock' \in {lock, s, NoSession} /\ lock' \in Sessions \cup {NoSession}
<1>1. appends \in Nat /\ calls \in Nat /\ flaws \subseteq Flaws /\ lock \in Sessions \cup {NoSession}
  BY DEF TypeOK
<1>2. appends' \in {appends, appends + 1} /\ calls' \in {calls, calls + 1}
  BY DEF Open, Exit, BeginRead, EndRead, BeginWrite, ChangeRow, CommitWrite, CommitIsBusy,
         RollbackWrite, RollbackIsBusy, StartAdd, FinishAdd, AddIsBusy, StartCommit,
         FinishCommit, CommitConflicts, Tag, Gc, CommitToFile, Called, counters, history
<1>3. lock' \in {lock, s, NoSession}
  BY DEF Open, Exit, BeginRead, EndRead, BeginWrite, ChangeRow, CommitWrite, CommitIsBusy,
         RollbackWrite, RollbackIsBusy, StartAdd, FinishAdd, AddIsBusy, StartCommit,
         FinishCommit, CommitConflicts, Tag, Gc, counters, history
<1>4. flaws' \subseteq flaws \cup Flaws /\ flaws \subseteq flaws'
  BY DEF Open, Exit, BeginRead, EndRead, BeginWrite, ChangeRow, CommitWrite, CommitIsBusy,
         RollbackWrite, RollbackIsBusy, StartAdd, FinishAdd, AddIsBusy, StartCommit,
         FinishCommit, CommitConflicts, Tag, Gc, history, Flaws, Splits, Returns, Released
<1> QED BY <1>1, <1>2, <1>3, <1>4

\* The session a refresh starts from is open.
LEMMA RefreshedFits ==
  ASSUME TypeOK, NEW s \in Sessions, conn[s].tx # "closed"
  PROVE  /\ \A d \in {Looked(conn[s]), Unpinned(conn[s]), RefreshIfChanged(conn[s]), Current(conn[s])} :
              /\ Fits(d, Path, Len(commits)) /\ d.tx = conn[s].tx
              /\ Renewed(conn[s], d) /\ SameCatalog(conn[s], d)
         /\ \A d \in {RefreshFromDisk(conn[s]), Prepared(conn[s])} :
              /\ Fits(d, Path, Len(commits)) /\ d.tx = conn[s].tx
              /\ Renewed(conn[s], d)
<1>1. Fits(conn[s], Path, Len(commits)) /\ Len(commits) \in Nat
  BY ConnFits, PathIs
<1> QED BY <1>1, Renewals, CatalogRenewals DEF Renewed, SameCall, SameFile, SameCopy, CopyRead

\* dolt_gc.
LEMMA GcTypes ==
  ASSUME TypeOK, NEW s \in Sessions, Gc(s)
  PROVE  TypeOK'
<1> DEFINE c == IF lock = s THEN conn[s] ELSE RefreshIfChanged(conn[s])
<1>1. conn[s].tx # "closed"
  BY DEF Gc, Idle
<1>2. Fits(c, Path, Len(commits)) /\ c.tx # "closed"
  BY <1>1, RefreshedFits, ConnFits
<1>3. Path \in Nat /\ Path \in 1..Path /\ Len(commits) \in Nat
  BY PathIs
<1>4. UNCHANGED <<commits, acked, told>>
  BY DEF Gc
<1>5. /\ lock' \in Sessions \cup {NoSession} /\ flaws' \subseteq Flaws
      /\ appends' \in Nat /\ calls' \in Nat
  BY CountersFit
<1>6. CASE conn' = [conn EXCEPT ![s] = c] /\ UNCHANGED files
  <2> HIDE DEF c
  <2> QED BY <1>2, <1>4, <1>5, <1>6, LocalTypes
<1>7. CASE \E n \in 1..File(c).size :
             /\ files' = Append(files, [size |-> n, refs |-> c.refs])
             /\ conn' = [conn EXCEPT ![s] = [c EXCEPT !.file = Path + 1]]
  <2> HIDE DEF c
  <2> DEFINE F == [size : Nat, refs : Refs]
  <2> DEFINE d == [c EXCEPT !.file = Path + 1]
  <2>1. File(c).size \in Nat
    BY <1>2, FileIs DEF File, Fits
  <2>2. PICK n \in Nat : files' = Append(files, [size |-> n, refs |-> c.refs])
    BY <1>7, <2>1
  <2>3. files \in Seq(F) /\ [size |-> n, refs |-> c.refs] \in F
    <3>1. c.refs \in Refs
      BY <1>2 DEF Fits, Session
    <3>2. files \in Seq(F)
      BY DEF TypeOK
    <3> QED BY <3>1, <3>2
  <2> DEFINE g == [size |-> n, refs |-> c.refs]
  <2> HIDE DEF F, g
  <2>4. /\ files' \in Seq(F) /\ files' # <<>> /\ Path' = Path + 1
        /\ \A i \in 1..Path : files'[i] = files[i]
        /\ files'[Path + 1] = g
    <3>1. files' = Append(files, g)
      BY <2>2 DEF g
    <3>2. g \in F
      BY <2>3 DEF g
    <3>3. /\ files' \in Seq(F) /\ Len(files') = Len(files) + 1 /\ Len(files) \in Nat
          /\ \A i \in 1..Len(files) : files'[i] = files[i]
          /\ files'[Len(files) + 1] = g
      BY <2>3, <3>1, <3>2, AppendProperties
    <3> QED BY <3>3 DEF Path
  <2>5. d \in Session /\ Fits(d, Path + 1, Len(commits))
    <3>1. d \in Session
      <4>1. c \in Session
        BY <1>2 DEF Fits
      <4> HIDE DEF c
      <4> QED BY <1>3, <4>1 DEF Session
    <3>2. /\ d.file = Path + 1 /\ d.tx = c.tx /\ d.headCommit = c.headCommit
          /\ d.refs = c.refs /\ d.committedRefs = c.committedRefs
          /\ d.committed = c.committed
      BY <1>2 DEF Fits, Session
    <3>3. Path + 1 \in 1..(Path + 1)
      BY <1>3
    <3> HIDE DEF d
    <3> QED BY <1>2, <3>1, <3>2, <3>3 DEF Fits
  <2>6. conn' = [conn EXCEPT ![s] = d] /\ conn \in [Sessions -> Session]
    BY <1>7 DEF TypeOK
  <2>7. /\ conn' \in [Sessions -> Session]
        /\ \A t \in Sessions : conn'[t] = IF t = s THEN d ELSE conn[t]
    BY <2>5, <2>6
  <2> HIDE DEF d
  <2>8. \A t \in Sessions : Fits(conn'[t], Path', Len(commits'))
    <3> TAKE t \in Sessions
    <3>1. Fits(conn[t], Path, Len(commits))
      BY ConnFits
    <3>2. Fits(conn[t], Path + 1, Len(commits))
      BY <1>3, <3>1, FitsMore
    <3> QED BY <1>4, <2>4, <2>5, <2>7, <3>2
  <2>9. \A i \in 1..Path' : files'[i].refs.head \in 1..Len(commits')
    <3> TAKE i \in 1..Path'
    <3>1. CASE i = Path + 1
      BY <1>2, <1>4, <2>4, <3>1 DEF Fits, g
    <3>2. CASE i \in 1..Path
      BY <1>4, <2>4, <3>2 DEF TypeOK
    <3> QED BY <1>3, <2>4, <3>1, <3>2
  <2> QED BY <1>4, <1>5, <2>4, <2>7, <2>8, <2>9 DEF TypeOK, F
<1> QED BY <1>6, <1>7 DEF Gc

\* dolt_commit, under the lock.
LEMMA FinishCommitTypes ==
  ASSUME TypeOK, NEW s \in Sessions, FinishCommit(s), conn[s].tx # "closed"
  PROVE  TypeOK'
<1> DEFINE c == RefreshIfChanged(conn[s])
<1> DEFINE n == Len(commits) + 1
<1> DEFINE C == [cat : Catalogs, past : SUBSET Nat]
<1>1. Fits(c, Path, Len(commits)) /\ c.tx # "closed"
  BY RefreshedFits
<1>2. /\ files' = Grown(Advanced(c, n)) /\ conn' = [conn EXCEPT ![s] = Appended(Advanced(c, n))]
      /\ commits' = Append(commits, [cat |-> c.op.cat, past |-> commits[c.headCommit].past \cup {n}])
      /\ acked' = acked \cup {n}
      /\ told' = [told EXCEPT !.head = n, !.staged = c.op.cat]
  BY DEF FinishCommit, CommitToFile
<1> HIDE DEF c
<1> DEFINE x == [cat |-> c.op.cat, past |-> commits[c.headCommit].past \cup {n}]
<1>3. x \in C /\ commits \in Seq(C) /\ Path \in Nat /\ Len(commits) \in Nat
  <2>1. commits \in Seq(C)
    BY DEF TypeOK
  <2>2. c.headCommit \in 1..Len(commits) /\ c.op.cat \in Catalogs
    BY <1>1 DEF Fits, Session
  <2>3. commits[c.headCommit] \in C
    <3> HIDE DEF C
    <3> QED BY <2>1, <2>2
  <2>4. Path \in Nat /\ Len(commits) \in Nat
    BY PathIs
  <2>5. commits[c.headCommit].past \cup {n} \in SUBSET Nat
    BY <2>3, <2>4
  <2> QED BY <2>1, <2>2, <2>4, <2>5
<1>4. commits' \in Seq(C) /\ Len(commits') = n
  <2> HIDE DEF C, x
  <2>1. commits' = Append(commits, x)
    BY <1>2 DEF x
  <2> QED BY <1>3, <2>1, AppendProperties
<1>5. Fits(c, Path, Len(commits')) /\ n \in 1..Len(commits') /\ Len(commits') \in Nat
  BY <1>1, <1>3, <1>4, FitsMore
<1>6. /\ Fits(Advanced(c, n), Path, Len(commits'))
      /\ Advanced(c, n).tx # "closed"
  BY <1>1, <1>5, AdvancedFits
<1>7. told' \in Refs /\ acked' \subseteq 1..Len(commits')
  <2>1. told \in Refs /\ n \in Nat /\ c.op.cat \in Catalogs /\ acked \subseteq 1..Len(commits)
    BY <1>1, <1>3 DEF Fits, Session, TypeOK
  <2>2. told' \in Refs
    BY <1>2, <2>1 DEF Refs
  <2>3. acked' \subseteq 1..n
    BY <1>2, <1>3, <2>1
  <2> QED BY <1>4, <2>2, <2>3
<1>8. /\ lock' \in Sessions \cup {NoSession} /\ flaws' \subseteq Flaws
      /\ appends' \in Nat /\ calls' \in Nat
  BY CountersFit
<1>9. Len(commits) <= Len(commits')
  BY <1>3, <1>4
<1> DEFINE d == Advanced(c, n)
<1>10. /\ Fits(d, Path, Len(commits')) /\ d.tx # "closed"
       /\ files' = Grown(d) /\ conn' = [conn EXCEPT ![s] = Appended(d)]
  BY <1>2, <1>6
<1> HIDE DEF d, n
<1> QED BY <1>4, <1>7, <1>8, <1>9, <1>10, AppendTypes

-------------------------------------------------------------------------------
(* What refreshes do to sessions that have the file in place open           *)

\* Who is not pinned is as large as the file after a refresh.
LEMMA RefreshIsFresh ==
  ASSUME TypeOK, NEW c, Fits(c, Path, Len(commits)), c.tx # "closed", c.file = Path,
         NEW d, \/ d \in {Unpinned(c), Current(c)}
                \/ d \in {RefreshIfChanged(c), RefreshFromDisk(c)} /\ ~c.snapshotPinned
                \/ d = Looked(c) /\ ~Detects(c)
  PROVE  d.file = Path /\ d.size >= files[Path].size
<1>1. /\ files[Path].size \in Nat /\ c.size \in Nat /\ File(c) = files[Path]
  BY PathIs DEF Fits, Session, File
<1>2. CASE d = Reloaded(c) \/ d = WorkingState(Reloaded(c))
  <2>1. Fits(Reloaded(c), Path, Len(commits)) /\ Len(commits) \in Nat
    BY Renewals, PathIs
  <2>2. Reloaded(c).file = Path /\ Reloaded(c).size = files[Path].size
    BY DEF Fits, Session, Reloaded
  <2>3. /\ WorkingState(Reloaded(c)).file = Path
        /\ WorkingState(Reloaded(c)).size = files[Path].size
    BY <2>1, <2>2 DEF WorkingState, Fits, Session
  <2> QED BY <1>1, <1>2, <2>2, <2>3
<1>3. CASE (d = Looked(c) \/ d = c) /\ ~(File(c).size > c.size)
  <2>1. Looked(c).file = c.file /\ Looked(c).size = c.size
    BY DEF Looked, Fits, Session
  <2> QED BY <1>1, <1>3, <2>1
<1> QED BY <1>1, <1>2, <1>3 DEF Unpinned, Current, RefreshIfChanged, RefreshFromDisk, Detects

\* A session whose file and size stay has read nothing.
LEMMA NotSplit ==
  ASSUME TypeOK, NEW c, Fits(c, Path, Len(commits)), c.tx # "closed", c.file = Path,
         NEW d \in {Unpinned(c), Current(c), RefreshIfChanged(c)}, Splits(c, d) = {}
  PROVE  SameCopy(c, d)
<1>1. d.size = c.size
  BY DEF Splits
<1>2. /\ files[Path].size \in Nat /\ c.size \in Nat /\ File(c) = files[Path]
  BY PathIs DEF Fits, Session, File
<1>3. CASE d = Reloaded(c) /\ File(c).size > c.size
  BY <1>1, <1>2, <1>3 DEF Reloaded, Fits, Session
<1>4. CASE d = Looked(c) \/ d = c
  BY <1>4 DEF Looked, Fits, Session, SameCopy, SameFile
<1> QED BY <1>3, <1>4 DEF Unpinned, Current, RefreshIfChanged, Detects

\* Nor has it when it appends next.
LEMMA NotSplitTwice ==
  ASSUME TypeOK, NEW c, Fits(c, Path, Len(commits)), c.tx # "closed", c.file = Path,
         NEW d \in {c, Unpinned(c), RefreshIfChanged(c)}, Splits(c, Current(d)) = {}
  PROVE  SameCopy(c, d) /\ Current(d) = d /\ c.size >= files[Path].size
<1>1. /\ files[Path].size \in Nat /\ c.size \in Nat /\ File(c) = files[Path]
  BY PathIs DEF Fits, Session, File
<1>2. Current(d).size = c.size
  BY DEF Splits
<1>3. CASE d = Reloaded(c) /\ File(c).size > c.size
  <2>1. /\ d.file = Path /\ d.size = files[Path].size
    BY <1>3 DEF Reloaded, Fits, Session
  <2>2. Current(d) = d
    BY <1>1, <2>1 DEF Current, File
  <2> QED BY <1>1, <1>2, <1>3, <2>1, <2>2
<1>4. CASE d = Looked(c) \/ d = c
  <2>1. SameCopy(c, d) /\ File(d) = files[Path] /\ d \in Session
    BY <1>1, <1>4 DEF Looked, Fits, Session, SameCopy, SameFile, File
  <2>2. CASE File(d).size > d.size
    <3>1. Current(d) = Reloaded(d)
      BY <2>2 DEF Current
    <3>2. Reloaded(d).size = files[Path].size
      BY <2>1 DEF Reloaded, Session
    <3> QED BY <1>1, <1>2, <2>1, <2>2, <3>1, <3>2 DEF SameCopy, SameFile
  <2>3. CASE ~(File(d).size > d.size)
    <3>1. d.file = Path
      BY <2>1 DEF SameCopy, SameFile
    <3>2. Current(d) = d
      BY <2>3, <3>1 DEF Current
    <3> QED BY <1>1, <2>1, <2>3, <3>2 DEF SameCopy, SameFile
  <2> QED BY <2>2, <2>3
<1> QED BY <1>3, <1>4 DEF Unpinned, RefreshIfChanged, Detects

\* The session reads the catalog of its refs, or has not read anything.
CatalogRead(c, d) ==
  \/ d.cat = c.cat /\ d.refs = c.refs
  \/ d.cat = d.refs.work

\* A refresh that does not come back to an old catalog.
LEMMA NotReturned ==
  ASSUME TypeOK, NEW c, Fits(c, Path, Len(commits)), c.tx # "closed",
         NEW d \in {RefreshFromDisk(c), Prepared(c)}, Returns(d) = {}
  PROVE  CatalogRead(c, d) /\ Loaded(d) = d.refs.work
<1>1. d.committed = c.committed
  BY CatalogRenewals DEF Renewed, SameCall
<1>2. Loaded(d) = d.refs.work
  BY DEF Loaded, Returns
<1>3. CASE SameCatalog(c, d) /\ d.refs = c.refs
  BY <1>2, <1>3 DEF CatalogRead, SameCatalog
<1>4. CASE d.cat = IF d.refs.work \in c.committed THEN c.cat ELSE d.refs.work
  BY <1>1, <1>2, <1>4 DEF Returns, CatalogRead
<1> QED BY <1>2, <1>3, <1>4, CatalogRenewals

-------------------------------------------------------------------------------
(* What the actions do to a session                                         *)

\* A step that leaves the file and the commits alone.
Locally(s, d) ==
  /\ Fits(d, Path, Len(commits))
  /\ conn' = [conn EXCEPT ![s] = d]
  /\ UNCHANGED <<files, commits, acked, told>>

\* A step that appends and makes no commit.
Appends(s, d) ==
  /\ Fits(d, Path, Len(commits)) /\ d.tx # "closed"
  /\ files' = Grown(d) /\ conn' = [conn EXCEPT ![s] = Appended(d)]
  /\ UNCHANGED <<commits, acked>>

\* The start of a read.
LEMMA BeginReadIs ==
  ASSUME TypeOK, NEW s \in Sessions, BeginRead(s)
  PROVE  \E d : /\ Locally(s, d) /\ UNCHANGED lock
                /\ conn[s].tx = "none" /\ d.tx = "read" /\ d.snapshotPinned
                /\ conn[s].op = NoOp /\ d.op = NoOp
                /\ SameCopy(conn[s], d) \/ CopyRead(d)
                /\ flaws' = {} => CatalogRead(conn[s], d)
<1> DEFINE c == RefreshFromDisk(conn[s])
<1>1. /\ conn[s].tx = "none" /\ conn[s].op = NoOp
      /\ conn' = [conn EXCEPT ![s] = In(c, "read")] /\ flaws' = flaws \cup Returns(c)
      /\ UNCHANGED <<files, lock, commits, acked, told>>
  BY DEF BeginRead, Idle
<1>2. Fits(conn[s], Path, Len(commits)) /\ Fits(c, Path, Len(commits)) /\ Renewed(conn[s], c)
  BY <1>1, ConnFits, RefreshedFits
<1>3. flaws' = {} => CatalogRead(conn[s], c)
  BY <1>1, <1>2, NotReturned
<1> HIDE DEF c
<1>4. /\ c.tx = "none" /\ c.op = NoOp
  BY <1>1, <1>2 DEF Renewed, SameCall
<1>5. /\ Fits(In(c, "read"), Path, Len(commits)) /\ KeptFile(c, In(c, "read"))
      /\ SameCatalog(c, In(c, "read"))
      /\ In(c, "read").refs = c.refs /\ In(c, "read").op = c.op
      /\ In(c, "read").tx = "read" /\ In(c, "read").snapshotPinned
  BY <1>2, <1>4, InFits
<1> DEFINE d == In(c, "read")
<1>6. Locally(s, d)
  BY <1>1, <1>5 DEF Locally
<1> HIDE DEF d
<1>7. SameCopy(conn[s], d) \/ CopyRead(d)
  BY <1>2, <1>5 DEF d, Renewed, SameCopy, SameFile, CopyRead, KeptFile
<1>8. flaws' = {} => CatalogRead(conn[s], d)
  BY <1>3, <1>5 DEF d, CatalogRead, SameCatalog
<1> QED BY <1>1, <1>4, <1>5, <1>6, <1>7, <1>8 DEF d

\* The start of a write: it begins, or the session stays as a refresh made it.
LEMMA BeginWriteIs ==
  ASSUME TypeOK, NEW s \in Sessions, BeginWrite(s)
  PROVE  /\ conn[s].tx \in {"none", "read"} /\ conn[s].op = NoOp
         /\ \E d :
              /\ Locally(s, d) /\ d.op = NoOp
              /\ SameCopy(conn[s], d) \/ CopyRead(d)
              /\ conn[s].snapshotPinned => SameCopy(conn[s], d)
              /\ \/ /\ lock' = s /\ CanLock(s) /\ d.tx = "write" /\ d.snapshotPinned
                    /\ d.committed = {d.refs.work} /\ d.committedStaged = d.refs.staged
                    /\ d.staged = d.refs.staged /\ d.start = d.cat
                    /\ flaws' = {} => d.cat = d.refs.work
                    /\ conn[s].file = Path /\ (conn[s].tx = "none" => ~conn[s].snapshotPinned)
                         => d.file = Path /\ d.size >= files[Path].size
                 \/ /\ UNCHANGED lock /\ SameCall(conn[s], d)
                    /\ flaws' = {} => CatalogRead(conn[s], d)
                    /\ conn[s].snapshotPinned => d.cat = conn[s].cat
<1> DEFINE c == RefreshFromDisk(conn[s])
<1> DEFINE l == Looked(c)
<1> DEFINE w == Writing(l)
<1>1. /\ conn[s].tx \in {"none", "read"} /\ conn[s].op = NoOp
      /\ flaws' = flaws \cup Returns(c)
      /\ UNCHANGED <<files, commits, acked, told>>
      /\ \/ lock' = s /\ CanLock(s) /\ ~SnapshotIsOld(c) /\ conn' = [conn EXCEPT ![s] = w]
         \/ UNCHANGED lock /\ \E d \in {l, c} : conn' = [conn EXCEPT ![s] = d]
  BY DEF BeginWrite, Idle
<1>2. /\ Fits(conn[s], Path, Len(commits)) /\ Fits(c, Path, Len(commits))
      /\ Renewed(conn[s], c) /\ c.tx = conn[s].tx
  BY <1>1, ConnFits, RefreshedFits
<1>3. flaws' = {} => CatalogRead(conn[s], c) /\ Loaded(c) = c.refs.work
  BY <1>1, <1>2, NotReturned
<1>4. conn[s].snapshotPinned => c = conn[s]
  BY DEF RefreshFromDisk
<1>5. ~conn[s].snapshotPinned /\ conn[s].file = Path => c.file = Path /\ c.size >= files[Path].size
  BY <1>1, <1>2, RefreshIsFresh
<1>6. /\ conn[s].file = Path => c.file = Path
  BY <1>2 DEF Renewed, SameCopy, SameFile, CopyRead
<1> HIDE DEF c
<1>7. Len(commits) \in Nat /\ Len(commits) <= Len(commits)
  BY PathIs
<1>8. /\ Fits(l, Path, Len(commits)) /\ Renewed(c, l) /\ SameCatalog(c, l)
  BY <1>1, <1>2, <1>7, Renewals
<1>9. SameCopy(c, l)
  BY <1>2 DEF Looked, Fits, Session, SameCopy, SameFile
<1>10. c.tx = "read" /\ ~SnapshotIsOld(c) /\ c.file = Path
         => l.file = Path /\ l.size >= files[Path].size
  BY <1>1, <1>2, RefreshIsFresh DEF SnapshotIsOld
<1> HIDE DEF l
<1>11. /\ SameCall(conn[s], c) /\ SameCall(conn[s], l)
       /\ SameCopy(conn[s], c) \/ CopyRead(c)
       /\ SameCopy(conn[s], l) \/ CopyRead(l)
       /\ conn[s].snapshotPinned => SameCopy(conn[s], l) /\ l.cat = conn[s].cat
       /\ flaws' = {} => CatalogRead(conn[s], l)
  <2>1. SameCall(conn[s], c) /\ SameCall(conn[s], l)
    BY <1>2, <1>8 DEF Renewed, SameCall
  <2>2. /\ SameCopy(conn[s], c) \/ CopyRead(c)
        /\ SameCopy(conn[s], l) \/ CopyRead(l)
    BY <1>2, <1>9 DEF Renewed, SameCopy, SameFile, CopyRead
  <2>3. /\ conn[s].snapshotPinned => SameCopy(conn[s], l) /\ l.cat = conn[s].cat
    BY <1>4, <1>8, <1>9 DEF SameCatalog
  <2>4. flaws' = {} => CatalogRead(conn[s], l)
    BY <1>3, <1>8, <1>9 DEF CatalogRead, SameCatalog, SameCopy
  <2> QED BY <2>1, <2>2, <2>3, <2>4
<1>12. CASE UNCHANGED lock /\ \E d \in {l, c} : conn' = [conn EXCEPT ![s] = d]
  <2>1. PICK d \in {l, c} : conn' = [conn EXCEPT ![s] = d]
    BY <1>12
  <2>2. Locally(s, d) /\ SameCall(conn[s], d) /\ d.op = NoOp
    BY <1>1, <1>2, <1>8, <1>11, <2>1 DEF Locally, SameCall
  <2>3. /\ SameCopy(conn[s], d) \/ CopyRead(d)
        /\ conn[s].snapshotPinned => SameCopy(conn[s], d) /\ d.cat = conn[s].cat
        /\ flaws' = {} => CatalogRead(conn[s], d)
    BY <1>3, <1>4, <1>11 DEF SameCopy, SameFile
  <2> QED BY <1>1, <1>12, <2>2, <2>3
<1>13. CASE lock' = s /\ CanLock(s) /\ ~SnapshotIsOld(c) /\ conn' = [conn EXCEPT ![s] = w]
  <2>1. /\ Fits(w, Path, Len(commits)) /\ KeptFile(l, w)
        /\ w.refs = l.refs /\ w.op = l.op
        /\ w.tx = "write" /\ w.snapshotPinned = TRUE
        /\ w.cat = Loaded(l) /\ w.staged = l.refs.staged
        /\ w.committed = {l.refs.work}
        /\ w.committedStaged = l.refs.staged /\ w.start = Loaded(l)
    BY <1>1, <1>8, <1>11, WritingFits DEF SameCall
  <2> HIDE DEF w
  <2>2. Locally(s, w) /\ w.op = NoOp
    BY <1>1, <1>11, <1>13, <2>1 DEF Locally, SameCall
  <2>3. SameCopy(l, w)
    BY <2>1 DEF KeptFile, SameCopy
  <2>4. /\ SameCopy(conn[s], w) \/ CopyRead(w)
        /\ conn[s].snapshotPinned => SameCopy(conn[s], w)
    BY <1>11, <2>3 DEF SameCopy, SameFile, CopyRead
  <2>5. Loaded(l) = Loaded(c) /\ l.refs = c.refs
    BY <1>8, <1>9 DEF Loaded, Renewed, SameCall, SameCopy, SameCatalog
  <2>6. flaws' = {} => w.cat = w.refs.work
    BY <1>3, <2>1, <2>5
  <2>7. conn[s].file = Path /\ (conn[s].tx = "none" => ~conn[s].snapshotPinned)
          => w.file = Path /\ w.size >= files[Path].size
    <3> SUFFICES ASSUME conn[s].file = Path, conn[s].tx = "none" => ~conn[s].snapshotPinned
                 PROVE  l.file = Path /\ l.size >= files[Path].size
      BY <2>3 DEF SameCopy, SameFile
    <3>1. CASE c.tx = "none"
      BY <1>2, <1>5, <1>9, <3>1 DEF SameCopy, SameFile
    <3>2. CASE c.tx = "read"
      BY <1>6, <1>10, <1>13, <3>2
    <3> QED BY <1>1, <1>2, <3>1, <3>2
  <2> QED BY <1>1, <1>13, <2>1, <2>2, <2>4, <2>6, <2>7
<1> QED BY <1>1, <1>12, <1>13

\* INSERT or DELETE.
LEMMA ChangeRowIs ==
  ASSUME TypeOK, NEW s \in Sessions, ChangeRow(s)
  PROVE  /\ conn[s].tx = "write" /\ UNCHANGED lock
         /\ \E d : /\ Locally(s, d) /\ SameCall(conn[s], d) /\ SameCopy(conn[s], d)
                   /\ d.staged = conn[s].staged
<1>1. PICK r \in Rows :
        conn' = [conn EXCEPT ![s].cat = IF r \in @ THEN @ \ {r} ELSE @ \cup {r}]
  BY DEF ChangeRow
<1> DEFINE x == IF r \in conn[s].cat THEN conn[s].cat \ {r} ELSE conn[s].cat \cup {r}
<1> DEFINE d == [conn[s] EXCEPT !.cat = x]
<1>2. Fits(conn[s], Path, Len(commits)) /\ conn[s] \in Session /\ conn \in [Sessions -> Session]
  BY ConnFits DEF TypeOK
<1>3. x \in Catalogs
  BY <1>2 DEF Session, Catalogs
<1>4. conn' = [conn EXCEPT ![s] = d]
  BY <1>1, <1>2
<1> HIDE DEF x
<1>5. Fits(d, Path, Len(commits)) /\ SameCall(conn[s], d) /\ SameCopy(conn[s], d)
      /\ d.staged = conn[s].staged
  BY <1>2, <1>3 DEF Fits, Session, SameCall, SameCopy, SameFile
<1> HIDE DEF d
<1>6. Locally(s, d)
  BY <1>4, <1>5 DEF Locally, ChangeRow, history
<1>7. conn[s].tx = "write" /\ UNCHANGED lock
  BY DEF ChangeRow
<1> QED BY <1>5, <1>6, <1>7

\* The end of a read.
LEMMA EndReadIs ==
  ASSUME TypeOK, NEW s \in Sessions, EndRead(s)
  PROVE  /\ conn[s].tx = "read" /\ conn[s].op = NoOp /\ UNCHANGED lock
         /\ \E d : /\ Locally(s, d) /\ SameCopy(conn[s], d)
                   /\ d.tx = "none" /\ ~d.snapshotPinned /\ d.op = NoOp /\ d.cat = conn[s].cat
<1>1. /\ conn[s].tx = "read" /\ conn[s].op = NoOp /\ UNCHANGED lock
      /\ UNCHANGED <<files, commits, acked, told>>
      /\ conn' = [conn EXCEPT ![s] = In(conn[s], "none")]
  BY DEF EndRead, Idle, history, TypeOK
<1>2. Fits(conn[s], Path, Len(commits))
  BY ConnFits
<1> DEFINE d == In(conn[s], "none")
<1>3. /\ Fits(d, Path, Len(commits)) /\ KeptFile(conn[s], d) /\ SameCatalog(conn[s], d)
      /\ d.refs = conn[s].refs /\ d.op = conn[s].op /\ d.tx = "none"
      /\ d.snapshotPinned <=> FALSE
  BY <1>1, <1>2, InFits
<1> HIDE DEF d
<1>4. Locally(s, d)
  BY <1>1, <1>3 DEF Locally, d
<1> QED BY <1>1, <1>3, <1>4 DEF SameCopy, KeptFile, SameCatalog

\* COMMIT of a write transaction.
LEMMA CommitWriteIs ==
  ASSUME TypeOK, NEW s \in Sessions, CommitWrite(s)
  PROVE  /\ conn[s].tx = "write" /\ conn[s].op = NoOp /\ CanLock(s) /\ lock' = NoSession
         /\ told' = [told EXCEPT !.work = Applied(conn[s], @)]
         /\ \E d : /\ Appends(s, d) /\ KeptFile(conn[s], d)
                   /\ d.tx = "none" /\ ~d.snapshotPinned /\ d.op = NoOp
                   /\ d.cat = conn[s].cat
                   /\ d.refs = [head |-> conn[s].refs.head, work |-> conn[s].cat,
                                staged |-> conn[s].staged]
<1> DEFINE c == conn[s]
<1> DEFINE b == Stored(c)
<1> DEFINE e == [b EXCEPT !.committed = {c.cat}]
<1> DEFINE d == Ended(e)
<1>1. /\ c.tx = "write" /\ c.op = NoOp /\ CanLock(s) /\ lock' = NoSession
      /\ told' = [told EXCEPT !.work = Applied(c, @)]
      /\ UNCHANGED <<commits, acked>>
      /\ files' = Grown(d) /\ conn' = [conn EXCEPT ![s] = Appended(d)]
  BY DEF CommitWrite, CommitToFile, Idle
<1>2. Fits(c, Path, Len(commits)) /\ c.cat \in Catalogs
  BY ConnFits DEF Session
<1>3. /\ Fits(b, Path, Len(commits)) /\ KeptFile(c, b) /\ SameCall(c, b) /\ SameCatalog(c, b)
      /\ b.refs = [head |-> c.refs.head, work |-> c.cat, staged |-> c.staged]
  BY <1>2, StoredFits
<1> HIDE DEF b
<1>4. /\ Fits(e, Path, Len(commits)) /\ KeptFile(c, e) /\ e.cat = c.cat /\ e.refs = b.refs
      /\ e.tx = "write" /\ e.op = NoOp
  BY <1>1, <1>2, <1>3 DEF Fits, Session, KeptFile, SameFile, SameCall, SameCatalog
<1> HIDE DEF e
<1>5. /\ Fits(d, Path, Len(commits)) /\ KeptFile(e, d) /\ SameCatalog(e, d)
      /\ d.refs = e.refs /\ d.op = e.op /\ d.tx = "none" /\ d.snapshotPinned = FALSE
  BY <1>4, EndedFits
<1> HIDE DEF d
<1>6. Appends(s, d)
  BY <1>1, <1>5 DEF Appends
<1> QED BY <1>1, <1>3, <1>4, <1>5, <1>6 DEF KeptFile, SameFile, SameCatalog

\* ROLLBACK of a write transaction.
LEMMA RollbackWriteIs ==
  ASSUME TypeOK, NEW s \in Sessions, RollbackWrite(s)
  PROVE  /\ conn[s].tx = "write" /\ CanLock(s) /\ lock' = NoSession /\ UNCHANGED told
         /\ \E d : /\ Appends(s, d) /\ KeptFile(conn[s], d)
                   /\ d.tx = "none" /\ ~d.snapshotPinned /\ d.op = NoOp
                   /\ conn[s].committed = {d.cat}
                   /\ d.refs = [head |-> conn[s].committedRefs.head, work |-> d.cat,
                                staged |-> conn[s].committedStaged]
<1> DEFINE c == conn[s]
<1> DEFINE b == Restored(c)
<1> DEFINE e == Stored(b)
<1> DEFINE d == Ended(e)
<1>1. /\ c.tx = "write" /\ c.op = NoOp /\ CanLock(s) /\ lock' = NoSession /\ UNCHANGED told
      /\ UNCHANGED <<commits, acked>>
      /\ files' = Grown(d) /\ conn' = [conn EXCEPT ![s] = Appended(d)]
  BY DEF RollbackWrite, CommitToFile, Idle, history
<1>2. Fits(c, Path, Len(commits))
  BY ConnFits
<1>3. /\ Fits(b, Path, Len(commits)) /\ KeptFile(c, b) /\ SameCall(c, b)
      /\ b.refs = c.committedRefs /\ c.committed = {b.cat} /\ b.staged = c.committedStaged
  BY <1>1, <1>2, RestoredFits
<1> HIDE DEF b
<1>4. /\ Fits(e, Path, Len(commits)) /\ KeptFile(b, e) /\ SameCall(b, e) /\ SameCatalog(b, e)
      /\ e.refs = [head |-> b.refs.head, work |-> b.cat, staged |-> b.staged]
  BY <1>3, StoredFits
<1> HIDE DEF e
<1>5. e.tx = "write" /\ e.op = NoOp
  BY <1>1, <1>3, <1>4 DEF SameCall
<1>6. /\ Fits(d, Path, Len(commits)) /\ KeptFile(e, d) /\ SameCatalog(e, d)
      /\ d.refs = e.refs /\ d.op = e.op /\ d.tx = "none" /\ d.snapshotPinned = FALSE
  BY <1>4, <1>5, EndedFits
<1> HIDE DEF d
<1>7. Appends(s, d)
  BY <1>1, <1>6 DEF Appends
<1>8. KeptFile(c, d)
  BY <1>3, <1>4, <1>6 DEF KeptFile, SameFile
<1>9. d.cat = b.cat
  BY <1>4, <1>6 DEF SameCatalog
<1> QED BY <1>1, <1>3, <1>4, <1>5, <1>6, <1>7, <1>8, <1>9

\* A transaction without its lock ends, or cannot.
LEMMA BusyIs ==
  ASSUME TypeOK, NEW s \in Sessions, CommitIsBusy(s) \/ RollbackIsBusy(s)
  PROVE  /\ conn[s].tx = "write" /\ ~CanLock(s) /\ UNCHANGED lock
         /\ \E d : /\ Locally(s, d) /\ KeptFile(conn[s], d) /\ d.op = NoOp
                   /\ d.tx \in {"none", "write"} /\ ~d.snapshotPinned
                   /\ d.refs.head = conn[s].committedRefs.head
<1> DEFINE c == conn[s]
<1> DEFINE b == Restored(c)
<1> DEFINE e == Stored(b)
<1> DEFINE g == [e EXCEPT !.snapshotPinned = FALSE]
<1>1. /\ c.tx = "write" /\ c.op = NoOp /\ ~CanLock(s) /\ UNCHANGED lock
      /\ UNCHANGED <<files, commits, acked, told>>
      /\ \/ conn' = [conn EXCEPT ![s] = Ended(b)]
         \/ conn' = [conn EXCEPT ![s] = g]
  BY DEF CommitIsBusy, RollbackIsBusy, Idle, history, TypeOK
<1>2. Fits(c, Path, Len(commits))
  BY ConnFits
<1>3. /\ Fits(b, Path, Len(commits)) /\ KeptFile(c, b) /\ SameCall(c, b)
      /\ b.refs = c.committedRefs /\ c.committed = {b.cat} /\ b.staged = c.committedStaged
  BY <1>1, <1>2, RestoredFits
<1> HIDE DEF b
<1>4. /\ Fits(e, Path, Len(commits)) /\ KeptFile(b, e) /\ SameCall(b, e) /\ SameCatalog(b, e)
      /\ e.refs = [head |-> b.refs.head, work |-> b.cat, staged |-> b.staged]
  BY <1>3, StoredFits
<1> HIDE DEF e
<1>5. b.tx = "write" /\ b.op = NoOp /\ e.tx = "write" /\ e.op = NoOp
  BY <1>1, <1>3, <1>4 DEF SameCall
<1>6. /\ Fits(Ended(b), Path, Len(commits)) /\ KeptFile(b, Ended(b))
      /\ Ended(b).refs = b.refs /\ Ended(b).op = b.op
      /\ Ended(b).tx = "none" /\ Ended(b).snapshotPinned = FALSE
  BY <1>3, <1>5, EndedFits
<1>7. /\ Fits(g, Path, Len(commits)) /\ KeptFile(e, g) /\ g.refs = e.refs
      /\ g.op = NoOp /\ g.tx = "write" /\ g.snapshotPinned = FALSE
  BY <1>4, <1>5 DEF Fits, Session, KeptFile, SameFile
<1> HIDE DEF g
<1>8. PICK d \in {Ended(b), g} : conn' = [conn EXCEPT ![s] = d]
  BY <1>1
<1>9. Locally(s, d)
  BY <1>1, <1>6, <1>7, <1>8 DEF Locally
<1>10. KeptFile(c, d) /\ d.op = NoOp /\ d.tx \in {"none", "write"} /\ ~d.snapshotPinned
  BY <1>3, <1>4, <1>5, <1>6, <1>7 DEF KeptFile, SameFile
<1>11. d.refs.head = c.committedRefs.head
  BY <1>3, <1>4, <1>6, <1>7
<1> QED BY <1>1, <1>9, <1>10, <1>11

\* A session that is opened.
LEMMA OpenIs ==
  ASSUME TypeOK, NEW s \in Sessions, Open(s)
  PROVE  /\ conn[s].tx = "closed" /\ UNCHANGED lock
         /\ "collected" \notin flaws' => \A t \in Sessions : ~Outlived(conn[t])
         /\ \E d : /\ Locally(s, d) /\ UNCHANGED told /\ CopyRead(d) /\ d.tx = "none" /\ ~d.snapshotPinned
                   /\ d.op = NoOp /\ d.cat = d.refs.work
<1>1. /\ Fits(Opened, Path, Len(commits)) /\ Opened.tx = "none" /\ Opened.op = NoOp
      /\ ~Opened.snapshotPinned /\ CopyRead(Opened) /\ Opened.cat = Opened.refs.work
  BY OpenedFits DEF CopyRead
<1>2. /\ conn[s].tx = "closed" /\ conn' = [conn EXCEPT ![s] = Opened]
      /\ UNCHANGED <<files, lock, commits, acked, told>>
      /\ flaws' = flaws \cup IF \E t \in Sessions : Outlived(conn[t]) THEN {"collected"} ELSE {}
  BY DEF Open
<1>3. Locally(s, Opened)
  BY <1>1, <1>2 DEF Locally
<1> QED BY <1>1, <1>2, <1>3

\* A session that ends.
LEMMA ExitIs ==
  ASSUME TypeOK, NEW s \in Sessions, Exit(s)
  PROVE  /\ lock' = IF lock = s THEN NoSession ELSE lock
         /\ \E d : Locally(s, d) /\ UNCHANGED told /\ d.tx = "closed" /\ d.op = NoOp /\ ~d.snapshotPinned
<1>1. Fits(Closed, Path, Len(commits)) /\ Closed.tx = "closed" /\ Closed.op = NoOp
      /\ ~Closed.snapshotPinned
  BY OpenedFits
<1>2. Locally(s, Closed) /\ UNCHANGED told
  BY <1>1 DEF Locally, Exit, history
<1> QED BY <1>1, <1>2 DEF Exit

\* dolt_add and dolt_commit until they ask for the lock.
LEMMA StartIs ==
  ASSUME TypeOK, NEW s \in Sessions, StartAdd(s) \/ StartCommit(s)
  PROVE  /\ conn[s].op = NoOp /\ conn[s].tx # "closed" /\ UNCHANGED lock
         /\ \E d : /\ Locally(s, d) /\ UNCHANGED told
                   /\ d.tx = conn[s].tx /\ d.snapshotPinned = conn[s].snapshotPinned
                   /\ d.committed = conn[s].committed /\ d.start = conn[s].start
                   /\ d.committedStaged = conn[s].committedStaged
                   /\ SameCopy(conn[s], d) \/ CopyRead(d)
                   /\ d.tx # "none" => SameCopy(conn[s], d) /\ d.cat = conn[s].cat /\ d.op # NoOp
                   /\ d.op.kind = "commit" => d.tx = "none"
                   /\ flaws' = {} => CatalogRead(conn[s], d)
<1> DEFINE c == Prepared(conn[s])
<1>1. /\ conn[s].op = NoOp /\ conn[s].tx # "closed" /\ flaws' = flaws \cup Returns(c)
      /\ UNCHANGED <<files, lock, commits, acked, told>>
  BY DEF StartAdd, StartCommit, Idle
<1>2. /\ Fits(conn[s], Path, Len(commits)) /\ Fits(c, Path, Len(commits))
      /\ Renewed(conn[s], c) /\ c.tx = conn[s].tx
  BY <1>1, ConnFits, RefreshedFits
<1>3. flaws' = {} => CatalogRead(conn[s], c)
  BY <1>1, <1>2, NotReturned
<1>4. conn[s].tx # "none" => c = conn[s]
  BY DEF Prepared
<1>5. \E x \in Catalogs, o \in [kind : {"none", "add", "commit"}, cat : Catalogs] :
        /\ conn' = [conn EXCEPT ![s] = [c EXCEPT !.staged = x, !.op = o]]
        /\ o.kind = "commit" => conn[s].tx = "none"
        /\ conn[s].tx # "none" => o # NoOp
  <2>1. c.cat \in Catalogs /\ c.staged \in Catalogs
    BY <1>2 DEF Fits, Session
  <2>2. CASE StartAdd(s)
    <3> DEFINE o == [kind |-> "add", cat |-> c.staged]
    <3>1. conn' = [conn EXCEPT ![s] = [c EXCEPT !.staged = c.cat, !.op = o]]
      BY <2>2 DEF StartAdd
    <3>2. o \in [kind : {"none", "add", "commit"}, cat : Catalogs]
          /\ o.kind # "commit" /\ o # NoOp
      BY <2>1 DEF NoOp
    <3> QED BY <2>1, <3>1, <3>2
  <2>3. CASE StartCommit(s)
    <3>1. PICK x \in {c.cat, c.staged} :
            conn' = [conn EXCEPT ![s] = [c EXCEPT !.staged = x,
                       !.op = IF NothingToCommit(c, x) THEN NoOp ELSE [kind |-> "commit", cat |-> x]]]
      BY <2>3 DEF StartCommit
    <3> DEFINE o == IF NothingToCommit(c, x) THEN NoOp ELSE [kind |-> "commit", cat |-> x]
    <3>2. o \in [kind : {"none", "add", "commit"}, cat : Catalogs] /\ conn[s].tx = "none"
      BY <2>1, <2>3 DEF NoOp, StartCommit, Catalogs
    <3> QED BY <2>1, <3>1, <3>2
  <2> QED BY <2>2, <2>3
<1> HIDE DEF c
<1>6. PICK x \in Catalogs, o \in [kind : {"none", "add", "commit"}, cat : Catalogs] :
        /\ conn' = [conn EXCEPT ![s] = [c EXCEPT !.staged = x, !.op = o]]
        /\ o.kind = "commit" => conn[s].tx = "none"
        /\ conn[s].tx # "none" => o # NoOp
  BY <1>5
<1> DEFINE d == [c EXCEPT !.staged = x, !.op = o]
<1>7. /\ Fits(d, Path, Len(commits)) /\ SameCopy(c, d) /\ d.cat = c.cat /\ d.op = o
      /\ d.tx = c.tx /\ d.snapshotPinned = c.snapshotPinned /\ d.committed = c.committed
      /\ d.start = c.start /\ d.committedStaged = c.committedStaged
  <2>1. d \in Session
    BY <1>2 DEF Fits, Session
  <2> QED BY <1>2, <2>1 DEF Fits, Session, SameCopy, SameFile
<1>8. Locally(s, d) /\ UNCHANGED told
  BY <1>1, <1>6, <1>7 DEF Locally
<1> HIDE DEF d
<1>9. /\ d.tx = conn[s].tx /\ d.snapshotPinned = conn[s].snapshotPinned
      /\ d.committed = conn[s].committed /\ d.start = conn[s].start
      /\ d.committedStaged = conn[s].committedStaged
  BY <1>2, <1>7 DEF Renewed, SameCall
<1>10. SameCopy(conn[s], d) \/ CopyRead(d)
  BY <1>2, <1>7 DEF Renewed, SameCopy, SameFile, CopyRead
<1>11. d.tx # "none" => SameCopy(conn[s], d) /\ d.cat = conn[s].cat /\ d.op # NoOp
  BY <1>4, <1>6, <1>7, <1>9
<1>12. flaws' = {} => CatalogRead(conn[s], d)
  BY <1>3, <1>7 DEF CatalogRead, SameCopy
<1> QED BY <1>1, <1>6, <1>7, <1>8, <1>9, <1>10, <1>11, <1>12

\* dolt_add, under the lock.
LEMMA FinishAddIs ==
  ASSUME TypeOK, NEW s \in Sessions, conn[s].tx # "closed", FinishAdd(s)
  PROVE  /\ conn[s].op.kind = "add" /\ UNCHANGED lock /\ CanLock(s)
         /\ told' = [told EXCEPT !.staged = conn[s].staged]
         /\ \E d :
              /\ Appends(s, d)
              /\ d.tx = conn[s].tx /\ d.snapshotPinned = conn[s].snapshotPinned /\ d.op = NoOp
              /\ d.cat = conn[s].cat
              /\ CopyRead(d) \/ (KeptFile(conn[s], d) /\ d.refs.head = conn[s].refs.head)
              /\ conn[s].file = Path /\ flaws' = {} =>
                   /\ d.tx # "write" /\ conn[s].size >= files[Path].size
                   /\ Current(d) = d
                   /\ d.refs = [head |-> conn[s].refs.head, work |-> conn[s].cat,
                                staged |-> conn[s].staged]
<1> DEFINE b == Stored(conn[s])
<1> DEFINE c == [b EXCEPT !.op = NoOp]
<1> DEFINE d == IF lock = s THEN c ELSE RefreshIfChanged(c)
<1>1. /\ conn[s].op.kind = "add" /\ CanLock(s) /\ UNCHANGED <<lock, commits, acked>>
      /\ files' = Grown(d) /\ conn' = [conn EXCEPT ![s] = Appended(d)]
      /\ told' = [told EXCEPT !.staged = c.staged]
      /\ flaws' = flaws \cup Splits(c, Current(d)) \cup IF c.tx = "write" THEN {"exposed"} ELSE {}
  BY DEF FinishAdd, CommitToFile
<1>2. Fits(conn[s], Path, Len(commits))
  BY ConnFits
<1>3. /\ Fits(b, Path, Len(commits)) /\ KeptFile(conn[s], b) /\ SameCall(conn[s], b)
      /\ SameCatalog(conn[s], b)
      /\ b.refs = [head |-> conn[s].refs.head, work |-> conn[s].cat, staged |-> conn[s].staged]
  BY <1>2, StoredFits
<1> HIDE DEF b
<1>4. /\ Fits(c, Path, Len(commits)) /\ KeptFile(conn[s], c) /\ SameCatalog(conn[s], c)
      /\ c.refs = b.refs /\ c.op = NoOp
      /\ c.tx = conn[s].tx /\ c.snapshotPinned = conn[s].snapshotPinned
  <2>1. NoOp \in [kind : {"none", "add", "commit"}, cat : Catalogs]
    BY DEF NoOp, Catalogs
  <2>2. c \in Session
    BY <1>3, <2>1 DEF Fits, Session
  <2> QED BY <1>3, <2>2 DEF Fits, Session, KeptFile, SameFile, SameCatalog, SameCall
<1> HIDE DEF c
<1>5. Len(commits) \in Nat /\ Len(commits) <= Len(commits)
  BY PathIs
<1>6. /\ Fits(d, Path, Len(commits)) /\ Renewed(c, d) /\ SameCatalog(c, d)
  <2>1. CASE d = RefreshIfChanged(c)
    BY <1>4, <1>5, <2>1, Renewals
  <2>2. CASE d = c
    BY <1>4, <2>2 DEF Renewed, SameCall, SameFile, SameCopy, CopyRead, SameCatalog
  <2> QED BY <2>1, <2>2
<1>7. ASSUME conn[s].file = Path, flaws' = {}
      PROVE  /\ c.tx # "write" /\ SameCopy(c, d) /\ Current(d) = d /\ c.size >= files[Path].size
  <2>1. Splits(c, Current(d)) = {} /\ c.tx # "write"
    BY <1>1, <1>7
  <2>2. c.file = Path
    BY <1>4, <1>7 DEF KeptFile, SameFile
  <2>3. d \in {c, Unpinned(c), RefreshIfChanged(c)}
    OBVIOUS
  <2> HIDE DEF d
  <2>4. SameCopy(c, d) /\ Current(d) = d /\ c.size >= files[Path].size
    BY <1>4, <2>1, <2>2, <2>3, NotSplitTwice
  <2> QED BY <2>1, <2>4
<1> HIDE DEF d
<1>8. /\ d.tx = conn[s].tx /\ d.snapshotPinned = conn[s].snapshotPinned /\ d.op = NoOp
      /\ d.cat = conn[s].cat
  BY <1>4, <1>6 DEF Renewed, SameCall, SameCatalog
<1>9. Appends(s, d)
  BY <1>1, <1>6, <1>8 DEF Appends
<1>10. CopyRead(d) \/ (KeptFile(conn[s], d) /\ d.refs.head = conn[s].refs.head)
  <2>1. CASE SameCopy(c, d)
    BY <1>3, <1>4, <2>1 DEF SameCopy, SameFile, KeptFile
  <2> QED BY <1>6, <2>1 DEF Renewed
<1>11. conn[s].file = Path /\ flaws' = {} =>
         /\ d.tx # "write" /\ conn[s].size >= files[Path].size /\ Current(d) = d
         /\ d.refs = [head |-> conn[s].refs.head, work |-> conn[s].cat, staged |-> conn[s].staged]
  BY <1>3, <1>4, <1>7, <1>8 DEF SameCopy, SameFile, KeptFile
<1>12. told' = [told EXCEPT !.staged = conn[s].staged]
  BY <1>1, <1>4 DEF SameCatalog
<1> QED BY <1>1, <1>8, <1>9, <1>10, <1>11, <1>12

\* dolt_add without the lock.
LEMMA AddIsBusyIs ==
  ASSUME TypeOK, NEW s \in Sessions, AddIsBusy(s)
  PROVE  /\ conn[s].op.kind = "add" /\ "refused" \in flaws' /\ UNCHANGED lock
         /\ \E d : /\ Locally(s, d) /\ UNCHANGED told
                   /\ d.tx = conn[s].tx /\ d.snapshotPinned = conn[s].snapshotPinned /\ d.op = NoOp
                   /\ KeptFile(conn[s], d) /\ d.refs.head = conn[s].refs.head
<1> DEFINE b == Stored(conn[s])
<1> DEFINE d == [b EXCEPT !.staged = conn[s].op.cat, !.op = NoOp]
<1>1. /\ conn[s].op.kind = "add" /\ conn' = [conn EXCEPT ![s] = d]
      /\ "refused" \in flaws' /\ UNCHANGED <<files, lock, commits, acked, told>>
  BY DEF AddIsBusy
<1>2. Fits(conn[s], Path, Len(commits)) /\ conn[s].op.cat \in Catalogs
  BY ConnFits DEF Session
<1>3. /\ Fits(b, Path, Len(commits)) /\ KeptFile(conn[s], b) /\ SameCall(conn[s], b)
      /\ b.refs = [head |-> conn[s].refs.head, work |-> conn[s].cat, staged |-> conn[s].staged]
  BY <1>2, StoredFits
<1> HIDE DEF b
<1>4. /\ Fits(d, Path, Len(commits)) /\ KeptFile(b, d) /\ d.refs = b.refs /\ d.op = NoOp
      /\ d.tx = b.tx /\ d.snapshotPinned = b.snapshotPinned
  <2>1. NoOp \in [kind : {"none", "add", "commit"}, cat : Catalogs]
    BY DEF NoOp, Catalogs
  <2>2. d \in Session
    BY <1>2, <1>3, <2>1 DEF Fits, Session
  <2> QED BY <1>3, <2>2 DEF Fits, Session, KeptFile, SameFile
<1> HIDE DEF d
<1>5. Locally(s, d)
  BY <1>1, <1>4 DEF Locally
<1>6. KeptFile(conn[s], d) /\ d.refs.head = conn[s].refs.head
  BY <1>3, <1>4 DEF KeptFile, SameFile
<1>7. d.tx = conn[s].tx /\ d.snapshotPinned = conn[s].snapshotPinned
  BY <1>3, <1>4 DEF SameCall
<1>8. UNCHANGED told
  BY <1>1
<1> QED BY <1>1, <1>4, <1>5, <1>6, <1>7, <1>8

\* dolt_commit appends d, on top of the commit h.
CommitsTo(s, h, d) ==
  /\ commits' = Append(commits, [cat |-> conn[s].op.cat,
                                 past |-> commits[h].past \cup {Len(commits) + 1}])
  /\ acked' = acked \cup {Len(commits) + 1}
  /\ Fits(d, Path, Len(commits')) /\ d.tx = conn[s].tx /\ ~d.snapshotPinned /\ d.op = NoOp
  /\ files' = Grown(d) /\ conn' = [conn EXCEPT ![s] = Appended(d)]
  /\ d.cat = conn[s].cat
  /\ d.refs = [head |-> Len(commits) + 1, work |-> conn[s].cat, staged |-> conn[s].op.cat]
  /\ conn[s].file = Path =>
       /\ Current(d) = d
       /\ h = files[Path].refs.head \/ (conn[s].size >= files[Path].size /\ h = conn[s].refs.head)
  /\ conn[s].file = Path /\ flaws' = {} => conn[s].size >= files[Path].size

\* dolt_commit, under the lock, with the head that the branch has.
LEMMA FinishCommitIs ==
  ASSUME TypeOK, NEW s \in Sessions, conn[s].tx # "closed", ~conn[s].snapshotPinned, FinishCommit(s)
  PROVE  /\ conn[s].op.kind = "commit" /\ UNCHANGED lock /\ CanLock(s)
         /\ told' = [told EXCEPT !.head = Len(commits) + 1, !.staged = conn[s].op.cat]
         /\ \E h \in 1..Len(commits) : \E d : CommitsTo(s, h, d)
<1> DEFINE c == RefreshIfChanged(conn[s])
<1> DEFINE n == Len(commits) + 1
<1> DEFINE C == [cat : Catalogs, past : SUBSET Nat]
<1> DEFINE h == c.headCommit
<1> DEFINE d == Advanced(c, n)
<1>1. /\ Fits(conn[s], Path, Len(commits))
      /\ Fits(c, Path, Len(commits)) /\ c.tx = conn[s].tx
      /\ Renewed(conn[s], c) /\ SameCatalog(conn[s], c)
  BY ConnFits, RefreshedFits
<1>2. /\ conn[s].op.kind = "commit" /\ UNCHANGED lock /\ CanLock(s) /\ c.refs.head = h
      /\ files' = Grown(d) /\ conn' = [conn EXCEPT ![s] = Appended(d)]
      /\ commits' = Append(commits, [cat |-> c.op.cat, past |-> commits[h].past \cup {n}])
      /\ acked' = acked \cup {n}
      /\ told' = [told EXCEPT !.head = n, !.staged = c.op.cat]
      /\ flaws' = flaws \cup Splits(conn[s], c)
  BY DEF FinishCommit, CommitToFile, HeadConfirmed
<1>3. conn[s].file = Path => c.file = Path /\ c.size >= files[Path].size
  BY <1>1, RefreshIsFresh
<1>4. conn[s].file = Path /\ flaws' = {} => SameCopy(conn[s], c)
  BY <1>1, <1>2, NotSplit
<1>5. c.op = conn[s].op /\ c.snapshotPinned = conn[s].snapshotPinned /\ c.cat = conn[s].cat
      /\ h \in 1..Len(commits)
  BY <1>1 DEF Renewed, SameCall, SameCatalog, Fits
<1>6. conn[s].file = Path => \/ h = files[Path].refs.head
                             \/ conn[s].size >= files[Path].size /\ h = conn[s].refs.head
  BY <1>1, <1>2, <1>3 DEF Renewed, SameCopy, SameFile, CopyRead
<1> HIDE DEF c
<1>7. Len(commits') = n /\ Len(commits) \in Nat /\ Path \in Nat
  BY <1>2, PathIs, AppendProperties DEF TypeOK
<1>8. Fits(c, Path, Len(commits')) /\ n \in 1..Len(commits') /\ Len(commits') \in Nat
  BY <1>1, <1>7, FitsMore
<1>9. /\ Fits(d, Path, Len(commits')) /\ KeptFile(c, d)
      /\ d.tx = c.tx /\ d.snapshotPinned = c.snapshotPinned
      /\ d.op = NoOp /\ d.cat = c.cat
      /\ d.refs = [head |-> n, work |-> c.cat, staged |-> c.op.cat]
  BY <1>1, <1>8, AdvancedFits
<1> HIDE DEF d
<1>10. conn[s].file = Path => Current(d) = d
  <2>1. files[Path].size \in Nat /\ c.size \in Nat /\ d.size = c.size /\ d.file = c.file
    BY <1>1, <1>9, PathIs DEF Fits, Session, KeptFile, SameFile
  <2> QED BY <1>3, <2>1 DEF Current, File
<1>11. conn[s].file = Path /\ flaws' = {} => conn[s].size >= files[Path].size
  BY <1>3, <1>4 DEF SameCopy, SameFile
<1> HIDE DEF h
<1>12. /\ told' = [told EXCEPT !.head = n, !.staged = conn[s].op.cat]
       /\ commits' = Append(commits, [cat |-> conn[s].op.cat, past |-> commits[h].past \cup {n}])
       /\ d.refs = [head |-> n, work |-> conn[s].cat, staged |-> conn[s].op.cat]
       /\ d.tx = conn[s].tx /\ ~d.snapshotPinned /\ d.cat = conn[s].cat
  BY <1>1, <1>2, <1>5, <1>9
<1>13. CommitsTo(s, h, d)
  BY <1>2, <1>6, <1>9, <1>10, <1>11, <1>12 DEF CommitsTo
<1> QED BY <1>2, <1>5, <1>12, <1>13

\* dolt_commit that does not get the lock, or finds another head.
LEMMA CommitConflictsIs ==
  ASSUME TypeOK, NEW s \in Sessions, conn[s].tx # "closed", CommitConflicts(s)
  PROVE  /\ conn[s].op.kind = "commit" /\ UNCHANGED lock
         /\ \E d : /\ Locally(s, d) /\ UNCHANGED told
                   /\ d.tx = conn[s].tx /\ d.snapshotPinned = conn[s].snapshotPinned /\ d.op = NoOp
                   /\ d.cat = conn[s].cat
                   /\ SameCopy(conn[s], d) \/ CopyRead(d)
                   /\ conn[s].file = Path /\ flaws' = {} => SameCopy(conn[s], d)
<1> DEFINE c == IF CanLock(s) THEN RefreshIfChanged(conn[s]) ELSE conn[s]
<1> DEFINE d == [c EXCEPT !.op = NoOp]
<1>1. /\ conn[s].op.kind = "commit" /\ UNCHANGED <<files, lock, commits, acked, told>>
      /\ conn' = [conn EXCEPT ![s] = d]
      /\ flaws' = flaws \cup Splits(conn[s], c)
  BY DEF CommitConflicts
<1>2. Fits(conn[s], Path, Len(commits))
  BY ConnFits
<1>3. /\ Fits(c, Path, Len(commits)) /\ Renewed(conn[s], c) /\ SameCatalog(conn[s], c)
  <2>1. CASE c = RefreshIfChanged(conn[s])
    BY <2>1, RefreshedFits
  <2>2. CASE c = conn[s]
    BY <1>2, <2>2 DEF Renewed, SameCall, SameFile, SameCopy, CopyRead, SameCatalog
  <2> QED BY <2>1, <2>2
<1>4. conn[s].file = Path /\ flaws' = {} => SameCopy(conn[s], c)
  <2>1. CASE c = RefreshIfChanged(conn[s])
    BY <1>1, <1>2, <2>1, NotSplit
  <2>2. CASE c = conn[s]
    BY <2>2 DEF SameCopy, SameFile
  <2> QED BY <2>1, <2>2
<1> HIDE DEF c
<1>5. /\ Fits(d, Path, Len(commits)) /\ SameCopy(c, d) /\ d.op = NoOp
      /\ d.tx = c.tx /\ d.snapshotPinned = c.snapshotPinned /\ d.cat = c.cat
  <2>1. NoOp \in [kind : {"none", "add", "commit"}, cat : Catalogs]
    BY DEF NoOp, Catalogs
  <2>2. d \in Session
    BY <1>3, <2>1 DEF Fits, Session
  <2> QED BY <1>3, <2>2 DEF Fits, Session, SameCopy, SameFile
<1> HIDE DEF d
<1>6. Locally(s, d) /\ UNCHANGED told
  BY <1>1, <1>5 DEF Locally
<1>7. SameCopy(conn[s], d) \/ CopyRead(d)
  BY <1>3, <1>5 DEF Renewed, SameCopy, SameFile, CopyRead
<1>8. conn[s].file = Path /\ flaws' = {} => SameCopy(conn[s], d)
  BY <1>4, <1>5 DEF SameCopy, SameFile
<1>9. /\ d.tx = conn[s].tx /\ d.snapshotPinned = conn[s].snapshotPinned /\ d.op = NoOp
      /\ d.cat = conn[s].cat
  BY <1>3, <1>5 DEF Renewed, SameCall, SameCatalog
<1> QED BY <1>1, <1>6, <1>7, <1>8, <1>9

\* dolt_tag.
LEMMA TagIs ==
  ASSUME TypeOK, NEW s \in Sessions, Tag(s)
  PROVE  /\ conn[s].op = NoOp /\ CanLock(s) /\ lock' = NoSession
         /\ "released" \notin flaws' => conn[s].tx # "write"
         /\ \E d : /\ Appends(s, d) /\ UNCHANGED told /\ SameCall(conn[s], d)
                   /\ d.cat = conn[s].cat
                   /\ SameCopy(conn[s], d) \/ CopyRead(d)
                   /\ conn[s].file = Path /\ flaws' = {} =>
                        /\ SameCopy(conn[s], d) /\ Current(d) = d
                        /\ conn[s].size >= files[Path].size
<1> DEFINE d == Unpinned(conn[s])
<1>1. /\ conn[s].op = NoOp /\ conn[s].tx # "closed" /\ CanLock(s) /\ lock' = NoSession
      /\ UNCHANGED <<commits, acked, told>>
      /\ files' = Grown(d) /\ conn' = [conn EXCEPT ![s] = Appended(d)]
      /\ flaws' = flaws \cup Splits(conn[s], Current(d)) \cup Released(d)
  BY DEF Tag, CommitToFile, Idle
<1>2. /\ Fits(conn[s], Path, Len(commits)) /\ Fits(d, Path, Len(commits)) /\ d.tx = conn[s].tx
      /\ Renewed(conn[s], d) /\ SameCatalog(conn[s], d)
  BY <1>1, ConnFits, RefreshedFits
<1>3. conn[s].file = Path /\ flaws' = {} =>
        SameCopy(conn[s], d) /\ Current(d) = d /\ conn[s].size >= files[Path].size
  BY <1>1, <1>2, NotSplitTwice
<1> HIDE DEF d
<1>4. Appends(s, d) /\ UNCHANGED told
  BY <1>1, <1>2 DEF Appends
<1>5. "released" \notin flaws' => conn[s].tx # "write"
  BY <1>1, <1>2 DEF Released
<1> QED BY <1>1, <1>2, <1>3, <1>4, <1>5 DEF Renewed, SameCatalog

\* A new file is put in place, with what the session has.
Replaces(s, d, n) ==
  /\ files' = Append(files, [size |-> n, refs |-> d.refs])
  /\ conn' = [conn EXCEPT ![s] = d]
  /\ d.file = Path + 1

\* dolt_gc.
LEMMA GcIs ==
  ASSUME TypeOK, NEW s \in Sessions, Gc(s)
  PROVE  /\ conn[s].op = NoOp /\ conn[s].tx # "closed" /\ CanLock(s) /\ lock' = NoSession
         /\ UNCHANGED <<commits, acked, told>>
         /\ "released" \notin flaws' => conn[s].tx # "write"
         /\ "collected" \notin flaws' => Alone(s)
         /\ \E c : /\ Fits(c, Path, Len(commits)) /\ SameCall(conn[s], c)
                   /\ SameCopy(conn[s], c) \/ CopyRead(c)
                   /\ c.cat = conn[s].cat
                   /\ conn[s].file = Path =>
                        /\ lock # s /\ ~conn[s].snapshotPinned => c.size >= files[Path].size
                        /\ flaws' = {} => SameCopy(conn[s], c)
                   /\ \/ Locally(s, c)
                      \/ \E n \in 1..File(c).size :
                           /\ Replaces(s, [c EXCEPT !.file = Path + 1], n)
<1> DEFINE c == IF lock = s THEN conn[s] ELSE RefreshIfChanged(conn[s])
<1>1. /\ conn[s].op = NoOp /\ conn[s].tx # "closed" /\ CanLock(s) /\ lock' = NoSession
      /\ UNCHANGED <<commits, acked, told>>
      /\ flaws' = flaws \cup Splits(conn[s], c) \cup Released(c)
                        \cup IF Alone(s) THEN {} ELSE {"collected"}
      /\ \/ conn' = [conn EXCEPT ![s] = c] /\ UNCHANGED files
         \/ \E n \in 1..File(c).size :
              /\ files' = Append(files, [size |-> n, refs |-> c.refs])
              /\ conn' = [conn EXCEPT ![s] = [c EXCEPT !.file = Path + 1]]
  BY DEF Gc, Idle
<1>2. Fits(conn[s], Path, Len(commits))
  BY ConnFits
<1>3. /\ Fits(c, Path, Len(commits)) /\ Renewed(conn[s], c) /\ SameCatalog(conn[s], c)
  <2>1. CASE c = RefreshIfChanged(conn[s])
    BY <1>1, <2>1, RefreshedFits
  <2>2. CASE c = conn[s]
    BY <1>2, <2>2 DEF Renewed, SameCall, SameFile, SameCopy, CopyRead, SameCatalog
  <2> QED BY <2>1, <2>2
<1>4. conn[s].file = Path =>
        /\ lock # s /\ ~conn[s].snapshotPinned => c.size >= files[Path].size
        /\ flaws' = {} => SameCopy(conn[s], c)
  <2>1. CASE lock # s
    BY <1>1, <1>2, <2>1, NotSplit, RefreshIsFresh
  <2>2. CASE lock = s
    BY <2>2 DEF SameCopy, SameFile
  <2> QED BY <2>1, <2>2
<1> HIDE DEF c
<1>5. "released" \notin flaws' => conn[s].tx # "write"
  BY <1>1, <1>3 DEF Released, Renewed, SameCall
<1>6. "collected" \notin flaws' => Alone(s)
  BY <1>1
<1>7. CASE conn' = [conn EXCEPT ![s] = c] /\ UNCHANGED files
  <2>1. Locally(s, c)
    BY <1>1, <1>3, <1>7 DEF Locally
  <2> QED BY <1>1, <1>3, <1>4, <1>5, <1>6, <2>1 DEF Renewed, SameCatalog
<1>8. CASE \E n \in 1..File(c).size :
              /\ files' = Append(files, [size |-> n, refs |-> c.refs])
              /\ conn' = [conn EXCEPT ![s] = [c EXCEPT !.file = Path + 1]]
  <2> DEFINE d == [c EXCEPT !.file = Path + 1]
  <2>1. PICK n \in 1..File(c).size :
              /\ files' = Append(files, [size |-> n, refs |-> c.refs])
              /\ conn' = [conn EXCEPT ![s] = d]
    BY <1>8
  <2>2. d.refs = c.refs /\ d.file = Path + 1
    BY <1>3 DEF Fits, Session
  <2>3. Replaces(s, d, n)
    BY <2>1, <2>2 DEF Replaces
  <2> QED BY <1>1, <1>3, <1>4, <1>5, <1>6, <2>3 DEF Renewed, SameCatalog
<1> QED BY <1>1, <1>7, <1>8

-------------------------------------------------------------------------------
(* Types and the lock                                                       *)

\* A call is made by an open session, dolt_commit outside of transactions; a
\* reader is pinned to its snapshot, who is in no transaction is not.
CallFits(c) ==
  /\ c.tx = "closed" => c.op = NoOp
  /\ c.tx \in {"closed", "none"} => ~c.snapshotPinned
  /\ c.tx = "read" => c.snapshotPinned
  /\ c.op.kind = "commit" => c.tx = "none"
CallInv == \A s \in Sessions : CallFits(conn[s])

\* The lock belongs to a write transaction; every write transaction has it until
\* one is given up.
LockInv ==
  \A s \in Sessions :
    /\ lock = s => conn[s].tx = "write"
    /\ "released" \notin flaws /\ conn[s].tx = "write" => lock = s

LockChanges(s, d) ==
  \/ UNCHANGED lock /\ (d.tx = "write" <=> conn[s].tx = "write")
  \/ UNCHANGED lock /\ ~CanLock(s) /\ conn[s].tx = "write"
  \/ lock' = s /\ CanLock(s) /\ d.tx = "write"
  \/ lock' = NoSession /\ CanLock(s) /\ ("released" \notin flaws' => d.tx # "write")
  \/ lock' = (IF lock = s THEN NoSession ELSE lock) /\ d.tx = "closed"

Steps(s) ==
  \/ Open(s) \/ Exit(s)
  \/ BeginRead(s) \/ EndRead(s)
  \/ BeginWrite(s) \/ ChangeRow(s) \/ CommitWrite(s) \/ CommitIsBusy(s)
  \/ RollbackWrite(s) \/ RollbackIsBusy(s)
  \/ StartAdd(s) \/ FinishAdd(s) \/ AddIsBusy(s)
  \/ StartCommit(s) \/ FinishCommit(s) \/ CommitConflicts(s)
  \/ Tag(s) \/ Gc(s)

\* One session changes, and the lock as it may.
SessionStep(s) ==
  \E d : /\ d \in Session /\ conn' = [conn EXCEPT ![s] = d]
         /\ CallFits(d) /\ LockChanges(s, d)

\* A step that only changes the session.
LEMMA LocalStep ==
  ASSUME TypeOK, NEW s \in Sessions, Steps(s),
         NEW d, Locally(s, d), CallFits(d), LockChanges(s, d)
  PROVE  TypeOK' /\ SessionStep(s)
<1>1. /\ lock' \in Sessions \cup {NoSession} /\ flaws' \subseteq Flaws
      /\ appends' \in Nat /\ calls' \in Nat
  BY CountersFit DEF Steps
<1>2. TypeOK'
  BY <1>1, LocalTypes DEF Locally
<1> QED BY <1>2 DEF Locally, SessionStep, Fits

\* A step that appends and makes no commit.
LEMMA AppendStep ==
  ASSUME TypeOK, NEW s \in Sessions, Steps(s), told' \in Refs,
         NEW d, Appends(s, d), CallFits(d), LockChanges(s, d)
  PROVE  TypeOK' /\ SessionStep(s)
<1>1. /\ lock' \in Sessions \cup {NoSession} /\ flaws' \subseteq Flaws
      /\ appends' \in Nat /\ calls' \in Nat
  BY CountersFit DEF Steps
<1>2. /\ UNCHANGED commits /\ UNCHANGED acked
      /\ Len(commits) \in Nat /\ Len(commits) <= Len(commits)
      /\ Fits(d, Path, Len(commits)) /\ d.tx # "closed"
  BY PathIs DEF Appends
<1>3. /\ commits' \in Seq([cat : Catalogs, past : SUBSET Nat])
      /\ acked' \subseteq 1..Len(commits')
  BY <1>2 DEF TypeOK
<1>4. TypeOK'
  BY <1>1, <1>2, <1>3, AppendTypes DEF Appends
<1>5. Fits(Appended(d), Path, Len(commits)) /\ SameCall(d, Appended(d))
  BY <1>2, AppendedFits
<1>6. CallFits(Appended(d)) /\ LockChanges(s, Appended(d)) /\ Appended(d) \in Session
  BY <1>5 DEF CallFits, LockChanges, SameCall, Fits
<1> QED BY <1>4, <1>6 DEF Appends, SessionStep

\* Every step changes one session as it may.
LEMMA StepTypes ==
  ASSUME TypeOK, CallInv, NEW s \in Sessions, Steps(s)
  PROVE  TypeOK' /\ SessionStep(s)
<1>1. CallFits(conn[s]) /\ told \in Refs /\ conn[s].cat \in Catalogs /\ conn[s].staged \in Catalogs
  BY ConnFits DEF CallInv, TypeOK, Session
<1>2. NoOp.kind = "none"
  BY DEF NoOp
<1>3. CASE Open(s)
  <2>1. PICK d : Locally(s, d) /\ d.tx = "none" /\ ~d.snapshotPinned /\ d.op = NoOp
    BY <1>3, OpenIs
  <2>2. CallFits(d) /\ LockChanges(s, d)
    BY <1>2, <1>3, <2>1, OpenIs DEF CallFits, LockChanges
  <2> QED BY <2>1, <2>2, LocalStep
<1>4. CASE Exit(s)
  <2>1. PICK d : Locally(s, d) /\ d.tx = "closed" /\ d.op = NoOp /\ ~d.snapshotPinned
    BY <1>4, ExitIs
  <2>2. CallFits(d) /\ LockChanges(s, d)
    BY <1>2, <1>4, <2>1, ExitIs DEF CallFits, LockChanges
  <2> QED BY <2>1, <2>2, LocalStep
<1>5. CASE BeginRead(s)
  <2>1. PICK d : /\ Locally(s, d) /\ UNCHANGED lock /\ conn[s].tx = "none" /\ d.tx = "read"
                 /\ d.snapshotPinned /\ d.op = NoOp
    BY <1>5, BeginReadIs
  <2>2. CallFits(d) /\ LockChanges(s, d)
    BY <1>2, <2>1 DEF CallFits, LockChanges
  <2> QED BY <2>1, <2>2, LocalStep
<1>6. CASE EndRead(s)
  <2>1. PICK d : /\ Locally(s, d) /\ UNCHANGED lock /\ conn[s].tx = "read" /\ d.tx = "none"
                 /\ ~d.snapshotPinned /\ d.op = NoOp
    BY <1>6, EndReadIs
  <2>2. CallFits(d) /\ LockChanges(s, d)
    BY <1>2, <2>1 DEF CallFits, LockChanges
  <2> QED BY <2>1, <2>2, LocalStep
<1>7. CASE BeginWrite(s)
  <2>1. PICK d : /\ Locally(s, d) /\ d.op = NoOp
                 /\ \/ lock' = s /\ CanLock(s) /\ d.tx = "write" /\ d.snapshotPinned
                    \/ UNCHANGED lock /\ SameCall(conn[s], d)
    BY <1>7, BeginWriteIs
  <2>2. CallFits(d) /\ LockChanges(s, d)
    BY <1>1, <1>2, <2>1 DEF CallFits, LockChanges, SameCall
  <2> QED BY <2>1, <2>2, LocalStep
<1>8. CASE ChangeRow(s)
  <2>1. PICK d : Locally(s, d) /\ SameCall(conn[s], d) /\ UNCHANGED lock
    BY <1>8, ChangeRowIs
  <2>2. CallFits(d) /\ LockChanges(s, d)
    BY <1>1, <2>1 DEF CallFits, LockChanges, SameCall
  <2> QED BY <2>1, <2>2, LocalStep
<1>9. CASE CommitWrite(s)
  <2>1. PICK d : /\ Appends(s, d) /\ d.tx = "none" /\ ~d.snapshotPinned /\ d.op = NoOp
    BY <1>9, CommitWriteIs
  <2>2. CallFits(d) /\ LockChanges(s, d)
    BY <1>2, <1>9, <2>1, CommitWriteIs DEF CallFits, LockChanges
  <2>3. Applied(conn[s], told.work) \in Catalogs
    BY <1>1 DEF Applied, Refs, Catalogs
  <2>4. told' = [told EXCEPT !.work = Applied(conn[s], told.work)]
    BY <1>9, CommitWriteIs
  <2>5. told' \in Refs
    BY <1>1, <2>3, <2>4 DEF Refs
  <2> QED BY <2>1, <2>2, <2>5, AppendStep
<1>10. CASE CommitIsBusy(s) \/ RollbackIsBusy(s)
  <2>1. PICK d : /\ Locally(s, d) /\ d.op = NoOp /\ d.tx \in {"none", "write"} /\ ~d.snapshotPinned
    BY <1>10, BusyIs
  <2>2. CallFits(d) /\ LockChanges(s, d)
    BY <1>2, <1>10, <2>1, BusyIs DEF CallFits, LockChanges
  <2> QED BY <2>1, <2>2, LocalStep
<1>11. CASE RollbackWrite(s)
  <2>1. PICK d : /\ Appends(s, d) /\ d.tx = "none" /\ ~d.snapshotPinned /\ d.op = NoOp
    BY <1>11, RollbackWriteIs
  <2>2. CallFits(d) /\ LockChanges(s, d) /\ UNCHANGED told
    BY <1>2, <1>11, <2>1, RollbackWriteIs DEF CallFits, LockChanges
  <2> QED BY <1>1, <2>1, <2>2, AppendStep
<1>12. CASE StartAdd(s) \/ StartCommit(s)
  <2>1. PICK d : /\ Locally(s, d) /\ d.tx = conn[s].tx /\ d.snapshotPinned = conn[s].snapshotPinned
                 /\ d.op.kind = "commit" => d.tx = "none"
    BY <1>12, StartIs
  <2>2. conn[s].tx # "closed" /\ UNCHANGED lock
    BY <1>12, StartIs
  <2>3. CallFits(d) /\ LockChanges(s, d)
    BY <1>1, <2>1, <2>2 DEF CallFits, LockChanges
  <2> QED BY <2>1, <2>3, LocalStep
<1>13. CASE FinishAdd(s)
  <2>1. conn[s].op.kind = "add"
    BY <1>13 DEF FinishAdd
  <2>2. conn[s].tx # "closed"
    BY <1>1, <1>2, <2>1 DEF CallFits
  <2>3. PICK d : /\ Appends(s, d) /\ d.tx = conn[s].tx /\ d.snapshotPinned = conn[s].snapshotPinned
                 /\ d.op = NoOp
    BY <1>13, <2>2, FinishAddIs
  <2>4. UNCHANGED lock /\ told' = [told EXCEPT !.staged = conn[s].staged]
    BY <1>13, <2>2, FinishAddIs
  <2>5. told' \in Refs
    BY <1>1, <2>4 DEF Refs
  <2>6. CallFits(d) /\ LockChanges(s, d)
    BY <1>1, <1>2, <2>3, <2>4 DEF CallFits, LockChanges
  <2> QED BY <2>3, <2>5, <2>6, AppendStep
<1>14. CASE AddIsBusy(s)
  <2>1. PICK d : /\ Locally(s, d) /\ d.tx = conn[s].tx /\ d.snapshotPinned = conn[s].snapshotPinned
                 /\ d.op = NoOp
    BY <1>14, AddIsBusyIs
  <2>2. UNCHANGED lock
    BY <1>14, AddIsBusyIs
  <2>3. CallFits(d) /\ LockChanges(s, d)
    BY <1>1, <1>2, <2>1, <2>2 DEF CallFits, LockChanges
  <2> QED BY <2>1, <2>3, LocalStep
<1>15. CASE FinishCommit(s)
  <2>1. conn[s].op.kind = "commit"
    BY <1>15 DEF FinishCommit
  <2>2. conn[s].tx = "none" /\ ~conn[s].snapshotPinned
    BY <1>1, <2>1 DEF CallFits
  <2>3. TypeOK'
    BY <1>15, <2>2, FinishCommitTypes
  <2>4. PICK h \in 1..Len(commits) : \E d : CommitsTo(s, h, d)
    BY <1>15, <2>2, FinishCommitIs
  <2>5. PICK d : CommitsTo(s, h, d)
    BY <2>4
  <2>6. /\ Fits(d, Path, Len(commits')) /\ d.tx = conn[s].tx /\ ~d.snapshotPinned /\ d.op = NoOp
         /\ conn' = [conn EXCEPT ![s] = Appended(d)]
    BY <2>5 DEF CommitsTo
  <2>7. Len(commits') \in Nat /\ Len(commits) <= Len(commits')
    BY <2>5, PathIs, AppendProperties DEF TypeOK, CommitsTo
  <2>8. Fits(Appended(d), Path, Len(commits')) /\ SameCall(d, Appended(d))
    BY <2>2, <2>6, <2>7, AppendedFits
  <2>9. UNCHANGED lock
    BY <1>15, <2>2, FinishCommitIs
  <2>10. CallFits(Appended(d)) /\ LockChanges(s, Appended(d)) /\ Appended(d) \in Session
    BY <1>2, <2>2, <2>6, <2>8, <2>9 DEF CallFits, LockChanges, SameCall, Fits
  <2> QED BY <2>3, <2>6, <2>10 DEF SessionStep
<1>16. CASE CommitConflicts(s)
  <2>1. conn[s].op.kind = "commit"
    BY <1>16 DEF CommitConflicts
  <2>2. conn[s].tx # "closed"
    BY <1>1, <1>2, <2>1 DEF CallFits
  <2>3. PICK d : /\ Locally(s, d) /\ d.tx = conn[s].tx /\ d.snapshotPinned = conn[s].snapshotPinned
                 /\ d.op = NoOp
    BY <1>16, <2>2, CommitConflictsIs
  <2>4. UNCHANGED lock
    BY <1>16, <2>2, CommitConflictsIs
  <2>5. CallFits(d) /\ LockChanges(s, d)
    BY <1>1, <1>2, <2>3, <2>4 DEF CallFits, LockChanges
  <2> QED BY <2>3, <2>5, LocalStep
<1>17. CASE Tag(s)
  <2>1. PICK d : Appends(s, d) /\ UNCHANGED told /\ SameCall(conn[s], d)
    BY <1>17, TagIs
  <2>2. CallFits(d) /\ LockChanges(s, d)
    BY <1>1, <1>17, <2>1, TagIs DEF CallFits, LockChanges, SameCall
  <2> QED BY <1>1, <2>1, <2>2, AppendStep
<1>18. CASE Gc(s)
  <2>1. TypeOK'
    BY <1>18, GcTypes
  <2>2. PICK c : /\ Fits(c, Path, Len(commits)) /\ SameCall(conn[s], c)
                 /\ \/ Locally(s, c)
                    \/ \E n \in 1..File(c).size : Replaces(s, [c EXCEPT !.file = Path + 1], n)
    BY <1>18, GcIs
  <2> DEFINE e == [c EXCEPT !.file = Path + 1]
  <2>3. e \in Session /\ SameCall(c, e)
    <3>1. Path + 1 \in Nat
      BY PathIs
    <3>2. c \in Session
      BY <2>2 DEF Fits
    <3> QED BY <3>1, <3>2 DEF Session, SameCall
  <2>4. c \in Session
    BY <2>2 DEF Fits
  <2> HIDE DEF e
  <2>5. PICK d \in {c, e} : conn' = [conn EXCEPT ![s] = d]
    BY <2>2 DEF Locally, Replaces, e
  <2>6. d \in Session /\ SameCall(conn[s], d)
    BY <2>2, <2>3, <2>4, <2>5 DEF SameCall
  <2>7. CallFits(d) /\ LockChanges(s, d)
    BY <1>1, <1>18, <2>6, GcIs DEF CallFits, LockChanges, SameCall
  <2> QED BY <2>1, <2>5, <2>6, <2>7 DEF SessionStep
<1> QED BY <1>3, <1>4, <1>5, <1>6, <1>7, <1>8, <1>9, <1>10, <1>11, <1>12, <1>13, <1>14, <1>15,
           <1>16, <1>17, <1>18 DEF Steps

\* A step is one of a session.
LEMMA NextSteps ==
  Next <=> \E s \in Sessions : Steps(s)
BY DEF Next, Steps

\* What a changed session becomes, and that the others stay.
LEMMA OneChanges ==
  ASSUME TypeOK, NEW s \in Sessions, NEW d, conn' = [conn EXCEPT ![s] = d]
  PROVE  \A t \in Sessions : conn'[t] = IF t = s THEN d ELSE conn[t]
BY DEF TypeOK

\* The lock changes with the transactions.
LEMMA LockStep ==
  ASSUME TypeOK, CallInv, LockInv, NEW s \in Sessions, Steps(s), SessionStep(s)
  PROVE  CallInv' /\ LockInv'
<1>1. PICK d : /\ d \in Session /\ conn' = [conn EXCEPT ![s] = d]
               /\ CallFits(d) /\ LockChanges(s, d)
  BY DEF SessionStep
<1>2. \A t \in Sessions : conn'[t] = IF t = s THEN d ELSE conn[t]
  BY <1>1, OneChanges
<1>3. CallInv'
  BY <1>1, <1>2 DEF CallInv, CallFits
<1>4. NoSession \notin Sessions /\ flaws \subseteq flaws'
  BY SessionAssumption, CountersFit DEF Steps
<1>5. ASSUME NEW t \in Sessions
      PROVE  /\ lock' = t => conn'[t].tx = "write"
             /\ "released" \notin flaws' /\ conn'[t].tx = "write" => lock' = t
  <2>1. CASE t = s
    BY <1>1, <1>2, <1>4, <2>1 DEF LockChanges, LockInv, CanLock
  <2>2. CASE t # s
    BY <1>1, <1>2, <1>4, <2>2 DEF LockChanges, LockInv, CanLock
  <2> QED BY <2>1, <2>2
<1> QED BY <1>3, <1>5 DEF LockInv

\* The first state.
LEMMA InitTypes ==
  ASSUME Init
  PROVE  TypeOK /\ CallInv /\ LockInv
<1> DEFINE F == [size : Nat, refs : Refs]
<1> DEFINE C == [cat : Catalogs, past : SUBSET Nat]
<1>1. FirstRefs \in Refs /\ NoRefs \in Refs /\ FirstRefs.head = 1
      /\ NoOp \in [kind : {"none", "add", "commit"}, cat : Catalogs] /\ NoOp.kind = "none"
  BY DEF FirstRefs, NoRefs, NoOp, Refs, Catalogs
<1>2. Closed \in Session /\ Closed.tx = "closed" /\ ~Closed.snapshotPinned /\ Closed.op = NoOp
  BY <1>1 DEF Closed, Session, Catalogs
<1>3. files = <<[size |-> 1, refs |-> FirstRefs]>> /\ commits = <<[cat |-> {}, past |-> {1}]>>
      /\ lock = NoSession /\ conn = [s \in Sessions |-> Closed]
      /\ acked = {1} /\ told = FirstRefs /\ flaws = {} /\ appends = 0 /\ calls = 0
  BY DEF Init
<1>4. [size |-> 1, refs |-> FirstRefs] \in F /\ [cat |-> {}, past |-> {1}] \in C
  BY <1>1 DEF Catalogs
<1>5. files \in Seq(F) /\ files # <<>> /\ Len(files) = 1 /\ files[1].refs.head = 1
  <2>1. files[1].refs.head = 1
    BY <1>1, <1>3
  <2> HIDE DEF F
  <2> QED BY <1>3, <1>4, <2>1
<1>6. commits \in Seq(C) /\ Len(commits) = 1
  <2> HIDE DEF C
  <2> QED BY <1>3, <1>4
<1>7. \A s \in Sessions : conn[s] = Closed
  BY <1>3
<1>8. conn \in [Sessions -> Session]
  BY <1>2, <1>3
<1>9. \A s \in Sessions : Fits(conn[s], Path, Len(commits))
  BY <1>2, <1>7 DEF Fits
<1>10. TypeOK
  BY <1>1, <1>3, <1>5, <1>6, <1>8, <1>9 DEF TypeOK, Path
<1>11. CallInv
  BY <1>1, <1>2, <1>7 DEF CallInv, CallFits
<1>12. LockInv
  BY <1>2, <1>3, <1>7, SessionAssumption DEF LockInv
<1> QED BY <1>10, <1>11, <1>12

\* A step that changes nothing.
LEMMA StutterTypes ==
  ASSUME TypeOK, CallInv, LockInv, UNCHANGED vars
  PROVE  TypeOK' /\ CallInv' /\ LockInv'
<1>1. /\ UNCHANGED files /\ UNCHANGED lock /\ UNCHANGED conn /\ UNCHANGED commits
      /\ UNCHANGED acked /\ UNCHANGED told /\ UNCHANGED flaws /\ UNCHANGED appends
      /\ UNCHANGED calls /\ UNCHANGED Path
  BY DEF vars, history, counters, Path
<1>2. TypeOK'
  BY <1>1 DEF TypeOK
<1> QED BY <1>1, <1>2 DEF CallInv, LockInv

\* Types, calls and the lock are as they should be in every state.
LEMMA TypesHold == Spec => [](TypeOK /\ CallInv /\ LockInv)
<1>1. Init => TypeOK /\ CallInv /\ LockInv
  BY InitTypes
<1>2. TypeOK /\ CallInv /\ LockInv /\ [Next]_vars => (TypeOK /\ CallInv /\ LockInv)'
  BY NextSteps, StepTypes, LockStep, StutterTypes
<1> QED BY <1>1, <1>2, PTL DEF Spec

\* Every variable keeps its type, with any sessions and rows and without bounds that
\* matter: heads are commits, and a write transaction has one catalog to go back to.
THEOREM TypesAreKept == Spec => []TypeOK
BY TypesHold, PTL

\* Two sessions are never in write transactions together, until one gives up its
\* lock in the middle.
THEOREM WritersAreAlone == Spec => []OneWriter
<1>1. LockInv => OneWriter
  BY DEF LockInv, OneWriter
<1> QED BY <1>1, TypesHold, PTL

-------------------------------------------------------------------------------
(* Commits                                                                  *)

\* A session has the file in place open; if it is as large as the file, it knows
\* the head of the branch.
HeadFits(c) ==
  c.tx # "closed" =>
    /\ c.file = Path
    /\ c.size >= files[Path].size =>
         c.refs.head = files[Path].refs.head /\ c.committedRefs.head = files[Path].refs.head

\* Who remembers a larger file than there is, is alone.
AheadAlone ==
  \A s, t \in Sessions :
    conn[s].tx # "closed" /\ conn[t].tx # "closed" /\ conn[s].size > files[Path].size => s = t

HeadsFit  == AheadAlone /\ \A s \in Sessions : HeadFits(conn[s])
CommitInv == "collected" \notin flaws => HeadsFit /\ CommitsStay

\* The session keeps its file and, of the heads it knew, one or both.
KeptHead(c, d) ==
  /\ SameFile(c, d)
  /\ d.refs.head \in {c.refs.head, c.committedRefs.head}
  /\ d.committedRefs.head \in {c.refs.head, c.committedRefs.head}

\* A step of a session that leaves the file alone, or reads it again.
LEMMA LocalHeads ==
  ASSUME TypeOK, HeadsFit, CommitsStay, NEW s \in Sessions, NEW d, Locally(s, d),
         \/ d.tx = "closed"
         \/ conn[s].tx # "closed" /\ (KeptHead(conn[s], d) \/ CopyRead(d))
         \/ CopyRead(d) /\ \A t \in Sessions : ~Outlived(conn[t])
  PROVE  HeadsFit' /\ CommitsStay'
<1>1. /\ UNCHANGED files /\ UNCHANGED Path /\ UNCHANGED commits /\ UNCHANGED acked
  BY DEF Locally, Path
<1>2. \A t \in Sessions : conn'[t] = IF t = s THEN d ELSE conn[t]
  BY OneChanges DEF Locally
<1>3. files[Path].size \in Nat
  BY PathIs
<1>4. HeadFits(d)
  BY DEF HeadsFit, HeadFits, KeptHead, SameFile, CopyRead
<1>5. \A t \in Sessions : HeadFits(conn[t])'
  <2> TAKE t \in Sessions
  <2>1. HeadFits(conn'[t])
    BY <1>2, <1>4 DEF HeadsFit
  <2> QED BY <1>1, <2>1 DEF HeadFits
<1>6. ASSUME NEW t \in Sessions, NEW u \in Sessions, conn'[t].tx # "closed",
             conn'[u].tx # "closed", conn'[t].size > files[Path].size
      PROVE  t = u
  <2>1. CASE t # s
    <3>1. conn'[t] = conn[t] /\ conn[t].file = Path
      BY <1>2, <1>6, <2>1 DEF HeadsFit, HeadFits
    <3>2. Outlived(conn[t])
      BY <1>6, <3>1 DEF Outlived, File
    <3>3. conn[s].tx # "closed" \/ d.tx = "closed"
      BY <3>2
    <3>4. CASE conn[s].tx # "closed"
      BY <1>6, <2>1, <3>1, <3>4 DEF HeadsFit, AheadAlone
    <3>5. CASE d.tx = "closed"
      BY <1>2, <1>6, <3>1, <3>5 DEF HeadsFit, AheadAlone
    <3> QED BY <3>3, <3>4, <3>5
  <2>2. CASE t = s
    <3>1. conn'[t] = d /\ ~CopyRead(d)
      BY <1>2, <1>3, <1>6, <2>2 DEF CopyRead
    <3>2. conn[s].tx # "closed" /\ conn[s].size > files[Path].size
      BY <1>6, <3>1 DEF KeptHead, SameFile
    <3> QED BY <1>2, <1>6, <2>2, <3>2 DEF HeadsFit, AheadAlone
  <2> QED BY <2>1, <2>2
<1> QED BY <1>1, <1>5, <1>6 DEF HeadsFit, AheadAlone, CommitsStay

\* What a session appends carries the head of the branch, if it knew the head of
\* the file it remembers.
LEMMA AppendedHead ==
  ASSUME TypeOK, NEW c, HeadFits(c), c.tx # "closed", NEW m \in Nat, Len(commits) <= m,
         NEW d, Fits(d, Path, m), d.tx # "closed", KeptHead(c, d) \/ CopyRead(d)
  PROVE  Current(d).refs.head = files[Path].refs.head
<1>1. d.file = Path /\ files[Path].size \in Nat /\ d.size \in Nat
  BY PathIs DEF HeadFits, KeptHead, SameFile, CopyRead, Fits, Session
<1>2. CASE files[Path].size > d.size
  <2>1. Current(d) = Reloaded(d)
    BY <1>1, <1>2 DEF Current, File
  <2>2. Reloaded(d).refs = files[Path].refs
    BY DEF Reloaded, Fits, Session
  <2> QED BY <2>1, <2>2
<1>3. CASE ~(files[Path].size > d.size)
  <2>1. Current(d) = d
    BY <1>1, <1>3 DEF Current, File
  <2>2. d.refs.head = files[Path].refs.head
    BY <1>1, <1>3 DEF HeadFits, KeptHead, SameFile, CopyRead
  <2> QED BY <2>1, <2>2
<1> QED BY <1>2, <1>3

\* After an append only the session that made it is as large as the file.
LEMMA AppendHeads ==
  ASSUME TypeOK, HeadsFit, NEW s \in Sessions, conn[s].tx # "closed",
         NEW m \in Nat, Len(commits) <= m, NEW d, Fits(d, Path, m), d.tx # "closed",
         files' = Grown(d), conn' = [conn EXCEPT ![s] = Appended(d)], d.file = Path
  PROVE  /\ HeadsFit' /\ UNCHANGED Path
         /\ \A t \in Sessions : conn'[t] = IF t = s THEN Appended(d) ELSE conn[t]
         /\ \A t \in Sessions : conn'[t].tx # "closed" /\ conn'[t].size >= files[Path].size + 1 => t = s
         /\ Appended(d).refs = Current(d).refs /\ Appended(d).committedRefs = Current(d).refs
         /\ SameCatalog(d, Appended(d)) /\ SameCall(d, Appended(d))
<1>1. /\ Renewed(d, Current(d))
      /\ Fits(Appended(d), Path, m) /\ SameCall(d, Appended(d))
      /\ SameCatalog(d, Appended(d)) /\ Appended(d).file = Current(d).file
      /\ Appended(d).size = files[Path].size + 1
      /\ Appended(d).refs = Current(d).refs /\ Appended(d).committedRefs = Current(d).refs
      /\ Len(files') = Path
      /\ files'[Path] = [size |-> files[Path].size + 1, refs |-> Current(d).refs]
  BY AppendedFits
<1>2. \A t \in Sessions : conn'[t] = IF t = s THEN Appended(d) ELSE conn[t]
  BY OneChanges
<1>3. Path' = Path
  BY <1>1 DEF Path
<1>4. files[Path].size \in Nat /\ \A t \in Sessions : conn[t].size \in Nat
  BY PathIs, ConnFits DEF Session
<1>5. Appended(d).file = Path /\ Appended(d).tx # "closed"
  BY <1>1 DEF Renewed, SameCopy, SameFile, CopyRead, SameCall
<1>6. ASSUME NEW t \in Sessions, conn'[t].tx # "closed", conn'[t].size >= files'[Path].size
      PROVE  t = s
  <2> SUFFICES ASSUME t # s PROVE FALSE
    OBVIOUS
  <2>1. conn[t].tx # "closed" /\ conn[t].size > files[Path].size
    BY <1>1, <1>2, <1>4, <1>6
  <2> QED BY <2>1 DEF HeadsFit, AheadAlone
<1>7. \A t \in Sessions : HeadFits(conn[t])'
  <2> TAKE t \in Sessions
  <2>1. CASE t = s
    BY <1>1, <1>2, <1>3, <1>5, <2>1 DEF HeadFits
  <2>2. CASE t # s
    BY <1>2, <1>3, <1>6, <2>2 DEF HeadFits, HeadsFit
  <2> QED BY <2>1, <2>2
<1>8. ASSUME NEW t \in Sessions, NEW u \in Sessions, conn'[t].tx # "closed",
             conn'[u].tx # "closed", conn'[t].size > files'[Path].size
      PROVE  t = u
  <2>1. conn'[t].size >= files'[Path].size
    BY <1>1, <1>2, <1>4, <1>8
  <2>2. t = s
    BY <1>6, <1>8, <2>1
  <2> QED BY <1>1, <1>2, <1>4, <1>8, <2>2
<1>9. HeadsFit'
  BY <1>3, <1>7, <1>8 DEF HeadsFit, AheadAlone
<1> QED BY <1>1, <1>2, <1>3, <1>6, <1>9

\* A session that appends and makes no commit.
LEMMA AppendKeepsCommits ==
  ASSUME TypeOK, HeadsFit, CommitsStay, NEW s \in Sessions, conn[s].tx # "closed",
         NEW d, Appends(s, d), KeptHead(conn[s], d) \/ CopyRead(d)
  PROVE  HeadsFit' /\ CommitsStay'
<1>1. HeadFits(conn[s]) /\ Len(commits) \in Nat /\ Len(commits) <= Len(commits)
  BY PathIs DEF HeadsFit
<1>2. Current(d).refs.head = files[Path].refs.head
  BY <1>1, AppendedHead DEF Appends
<1>3. d.file = Path
  BY <1>1 DEF HeadFits, KeptHead, SameFile, CopyRead
<1>4. /\ Fits(d, Path, Len(commits)) /\ d.tx # "closed" /\ files' = Grown(d)
      /\ conn' = [conn EXCEPT ![s] = Appended(d)]
  BY DEF Appends
<1>5. HeadsFit' /\ UNCHANGED Path
  BY <1>1, <1>3, <1>4, AppendHeads
<1>6. files'[Path].refs = Current(d).refs
  <2>1. Grown(d)[Path] = [size |-> files[Path].size + 1, refs |-> Current(d).refs]
    BY <1>1, <1>4, AppendedFits
  <2> QED BY <1>4, <2>1
<1> QED BY <1>2, <1>5, <1>6 DEF CommitsStay, Appends

\* dolt_commit builds on the head of the branch.
LEMMA CommitKeepsCommits ==
  ASSUME TypeOK, HeadsFit, CommitsStay, NEW s \in Sessions, conn[s].tx # "closed",
         NEW h \in 1..Len(commits), NEW d, CommitsTo(s, h, d)
  PROVE  HeadsFit' /\ CommitsStay'
<1>1. HeadFits(conn[s]) /\ Len(commits) \in Nat /\ conn[s].file = Path
  BY PathIs DEF HeadsFit, HeadFits
<1> DEFINE n == Len(commits) + 1
<1> DEFINE C == [cat : Catalogs, past : SUBSET Nat]
<1> DEFINE x == [cat |-> conn[s].op.cat, past |-> commits[h].past \cup {n}]
<1>2. /\ commits' = Append(commits, x) /\ acked' = acked \cup {n}
      /\ Fits(d, Path, Len(commits')) /\ d.tx # "closed"
      /\ files' = Grown(d) /\ conn' = [conn EXCEPT ![s] = Appended(d)]
      /\ d.refs.head = n /\ Current(d) = d
      /\ h = files[Path].refs.head \/ (conn[s].size >= files[Path].size /\ h = conn[s].refs.head)
  BY <1>1 DEF CommitsTo
<1>3. h = files[Path].refs.head
  BY <1>1, <1>2 DEF HeadFits
<1>4. Len(commits') = n /\ commits'[n] = x
  <2> HIDE DEF x
  <2> QED BY <1>2, AppendProperties DEF TypeOK
<1>5. d.file = Path
  <2>1. d.file \in Nat /\ Path \in Nat
    BY <1>2, PathIs DEF Fits, Session
  <2> QED BY <1>2, <2>1 DEF Current, Reloaded, Fits, Session
<1>6. Len(commits') \in Nat /\ Len(commits) <= Len(commits')
  BY <1>1, <1>4
<1>7. HeadsFit' /\ UNCHANGED Path
  BY <1>2, <1>5, <1>6, AppendHeads
<1>8. files'[Path].refs = d.refs
  <2>1. Grown(d)[Path] = [size |-> files[Path].size + 1, refs |-> Current(d).refs]
    BY <1>2, <1>6, AppendedFits
  <2> QED BY <1>2, <2>1
<1>9. acked' \subseteq x.past
  BY <1>2, <1>3 DEF CommitsStay
<1> QED BY <1>2, <1>4, <1>9, <1>7, <1>8 DEF CommitsStay

\* The new file has the head, when the collector is alone.
LEMMA GcKeepsCommits ==
  ASSUME TypeOK, CallInv, LockInv, HeadsFit, CommitsStay, NEW s \in Sessions, Gc(s), Alone(s)
  PROVE  HeadsFit' /\ CommitsStay'
<1>1. /\ conn[s].tx = "none" /\ ~conn[s].snapshotPinned /\ lock # s
      /\ HeadFits(conn[s]) /\ conn[s].file = Path
      /\ \A t \in Sessions \ {s} : conn[t].tx = "closed"
  BY DEF Alone, CallInv, CallFits, LockInv, HeadsFit, HeadFits
<1>2. PICK c : /\ Fits(c, Path, Len(commits)) /\ SameCall(conn[s], c)
               /\ SameCopy(conn[s], c) \/ CopyRead(c)
               /\ c.size >= files[Path].size
               /\ \/ Locally(s, c)
                  \/ \E n \in 1..File(c).size : Replaces(s, [c EXCEPT !.file = Path + 1], n)
  BY <1>1, GcIs
<1>3. c.file = Path /\ c.tx = "none" /\ c \in Session
  BY <1>1, <1>2 DEF SameCopy, SameFile, CopyRead, SameCall, Fits
<1>4. /\ c.refs.head = files[Path].refs.head /\ c.committedRefs.head = files[Path].refs.head
  BY <1>1, <1>2 DEF SameCopy, SameFile, CopyRead, HeadFits
<1>5. CASE Locally(s, c)
  <2>1. KeptHead(conn[s], c) \/ CopyRead(c)
    BY <1>2 DEF SameCopy, SameFile, KeptHead
  <2> QED BY <1>1, <1>5, <2>1, LocalHeads
<1>6. CASE \E n \in 1..File(c).size : Replaces(s, [c EXCEPT !.file = Path + 1], n)
  <2> DEFINE d == [c EXCEPT !.file = Path + 1]
  <2>1. d.refs = c.refs /\ d.committedRefs = c.committedRefs /\ d.size = c.size
        /\ d.file = Path + 1 /\ d.tx = "none" /\ Path \in Nat
    BY <1>3, PathIs DEF Session
  <2> HIDE DEF d
  <2>2. PICK n \in 1..File(c).size : Replaces(s, d, n)
    BY <1>6 DEF d
  <2>3. files[Path].size \in Nat /\ File(c) = files[Path] /\ c.size \in Nat
    BY <1>3, PathIs DEF File, Session
  <2>4. n \in Nat /\ n <= d.size
    BY <1>2, <2>1, <2>2, <2>3
  <2>5. /\ Path' = Path + 1 /\ files'[Path + 1] = [size |-> n, refs |-> d.refs]
    <3> DEFINE g == [size |-> n, refs |-> d.refs]
    <3>1. files' = Append(files, g)
      BY <2>2 DEF Replaces
    <3> HIDE DEF g
    <3>2. Path' = Path + 1 /\ files'[Path + 1] = g
      BY <3>1, AppendProperties DEF TypeOK, Path
    <3> QED BY <3>2 DEF g
  <2>6. \A t \in Sessions : conn'[t] = IF t = s THEN d ELSE conn[t]
    BY <2>2, OneChanges DEF Replaces
  <2>7. \A t \in Sessions : HeadFits(conn[t])'
    <3> TAKE t \in Sessions
    <3>1. CASE t = s
      BY <1>4, <2>1, <2>5, <2>6, <3>1 DEF HeadFits
    <3>2. CASE t # s
      BY <1>1, <2>6, <3>2 DEF HeadFits
    <3> QED BY <3>1, <3>2
  <2>8. AheadAlone'
    BY <1>1, <2>6 DEF AheadAlone
  <2>9. CommitsStay'
    <3>1. UNCHANGED commits /\ UNCHANGED acked
      BY GcIs
    <3>2. files'[Path'].refs.head = files[Path].refs.head
      BY <1>4, <2>1, <2>5
    <3> QED BY <3>1, <3>2 DEF CommitsStay
  <2> QED BY <2>7, <2>8, <2>9 DEF HeadsFit
<1> QED BY <1>2, <1>5, <1>6

\* Whatever a session does keeps the commits, but for a collection.
LEMMA CommitStep ==
  ASSUME TypeOK, CallInv, LockInv, CommitInv, NEW s \in Sessions, Steps(s)
  PROVE  CommitInv'
<1> SUFFICES ASSUME "collected" \notin flaws'
             PROVE  HeadsFit' /\ CommitsStay'
  BY DEF CommitInv
<1>1. HeadsFit /\ CommitsStay
  BY CountersFit DEF Steps, CommitInv
<1>2. CallFits(conn[s]) /\ NoOp.kind = "none"
  BY DEF CallInv, NoOp
<1>3. \A c, d : SameCopy(c, d) => KeptHead(c, d)
  BY DEF SameCopy, SameFile, KeptHead
<1>4. \A c, d : KeptFile(c, d) /\ d.refs.head \in {c.refs.head, c.committedRefs.head} => KeptHead(c, d)
  BY DEF KeptFile, SameFile, KeptHead
<1>5. CASE Open(s)
  <2>1. PICK d : Locally(s, d) /\ CopyRead(d)
    BY <1>5, OpenIs
  <2>2. \A t \in Sessions : ~Outlived(conn[t])
    BY <1>5, OpenIs
  <2> QED BY <1>1, <2>1, <2>2, LocalHeads
<1>6. CASE Exit(s)
  <2>1. PICK d : Locally(s, d) /\ d.tx = "closed"
    BY <1>6, ExitIs
  <2> QED BY <1>1, <2>1, LocalHeads
<1>7. CASE BeginRead(s)
  <2>1. PICK d : Locally(s, d) /\ (SameCopy(conn[s], d) \/ CopyRead(d))
    BY <1>7, BeginReadIs
  <2>2. conn[s].tx # "closed"
    BY <1>7 DEF BeginRead, Idle
  <2>3. KeptHead(conn[s], d) \/ CopyRead(d)
    BY <1>3, <2>1
  <2> QED BY <1>1, <2>1, <2>2, <2>3, LocalHeads
<1>8. CASE EndRead(s)
  <2>1. PICK d : Locally(s, d) /\ SameCopy(conn[s], d)
    BY <1>8, EndReadIs
  <2>2. conn[s].tx # "closed"
    BY <1>8 DEF EndRead, Idle
  <2>3. KeptHead(conn[s], d)
    BY <1>3, <2>1
  <2> QED BY <1>1, <2>1, <2>2, <2>3, LocalHeads
<1>9. CASE BeginWrite(s)
  <2>1. PICK d : Locally(s, d) /\ (SameCopy(conn[s], d) \/ CopyRead(d))
    BY <1>9, BeginWriteIs
  <2>2. conn[s].tx # "closed"
    BY <1>9 DEF BeginWrite, Idle
  <2>3. KeptHead(conn[s], d) \/ CopyRead(d)
    BY <1>3, <2>1
  <2> QED BY <1>1, <2>1, <2>2, <2>3, LocalHeads
<1>10. CASE ChangeRow(s)
  <2>1. PICK d : Locally(s, d) /\ SameCopy(conn[s], d)
    BY <1>10, ChangeRowIs
  <2>2. conn[s].tx # "closed"
    BY <1>10 DEF ChangeRow, Idle
  <2>3. KeptHead(conn[s], d)
    BY <1>3, <2>1
  <2> QED BY <1>1, <2>1, <2>2, <2>3, LocalHeads
<1>11. CASE CommitWrite(s)
  <2>1. PICK d : /\ Appends(s, d) /\ KeptFile(conn[s], d)
                 /\ d.refs = [head |-> conn[s].refs.head, work |-> conn[s].cat,
                              staged |-> conn[s].staged]
    BY <1>11, CommitWriteIs
  <2>2. conn[s].tx # "closed"
    BY <1>11, CommitWriteIs
  <2>3. KeptHead(conn[s], d)
    BY <1>4, <2>1
  <2> QED BY <1>1, <2>1, <2>2, <2>3, AppendKeepsCommits
<1>12. CASE RollbackWrite(s)
  <2>1. PICK d : /\ Appends(s, d) /\ KeptFile(conn[s], d)
                 /\ d.refs = [head |-> conn[s].committedRefs.head, work |-> d.cat,
                              staged |-> conn[s].committedStaged]
    BY <1>12, RollbackWriteIs
  <2>2. conn[s].tx # "closed"
    BY <1>12, RollbackWriteIs
  <2>3. KeptHead(conn[s], d)
    BY <1>4, <2>1
  <2> QED BY <1>1, <2>1, <2>2, <2>3, AppendKeepsCommits
<1>13. CASE CommitIsBusy(s) \/ RollbackIsBusy(s)
  <2>1. PICK d : /\ Locally(s, d) /\ KeptFile(conn[s], d)
                 /\ d.refs.head = conn[s].committedRefs.head
    BY <1>13, BusyIs
  <2>2. conn[s].tx # "closed"
    BY <1>13, BusyIs
  <2>3. KeptHead(conn[s], d)
    BY <1>4, <2>1
  <2> QED BY <1>1, <2>1, <2>2, <2>3, LocalHeads
<1>14. CASE StartAdd(s) \/ StartCommit(s)
  <2>1. PICK d : Locally(s, d) /\ (SameCopy(conn[s], d) \/ CopyRead(d))
    BY <1>14, StartIs
  <2>2. conn[s].tx # "closed"
    BY <1>14, StartIs
  <2>3. KeptHead(conn[s], d) \/ CopyRead(d)
    BY <1>3, <2>1
  <2> QED BY <1>1, <2>1, <2>2, <2>3, LocalHeads
<1>15. CASE FinishAdd(s)
  <2>1. conn[s].tx # "closed"
    BY <1>2, <1>15 DEF FinishAdd, CallFits
  <2>2. PICK d : /\ Appends(s, d)
                 /\ CopyRead(d) \/ (KeptFile(conn[s], d) /\ d.refs.head = conn[s].refs.head)
    BY <1>15, <2>1, FinishAddIs
  <2>3. KeptHead(conn[s], d) \/ CopyRead(d)
    BY <1>4, <2>2
  <2> QED BY <1>1, <2>1, <2>2, <2>3, AppendKeepsCommits
<1>16. CASE AddIsBusy(s)
  <2>1. conn[s].tx # "closed"
    BY <1>2, <1>16 DEF AddIsBusy, CallFits
  <2>2. PICK d : Locally(s, d) /\ KeptFile(conn[s], d) /\ d.refs.head = conn[s].refs.head
    BY <1>16, AddIsBusyIs
  <2>3. KeptHead(conn[s], d)
    BY <1>4, <2>2
  <2> QED BY <1>1, <2>1, <2>2, <2>3, LocalHeads
<1>17. CASE FinishCommit(s)
  <2>1. conn[s].tx = "none" /\ ~conn[s].snapshotPinned
    BY <1>2, <1>17 DEF FinishCommit, CallFits
  <2>2. PICK h \in 1..Len(commits) : \E d : CommitsTo(s, h, d)
    BY <1>17, <2>1, FinishCommitIs
  <2>3. PICK d : CommitsTo(s, h, d)
    BY <2>2
  <2> QED BY <1>1, <2>1, <2>3, CommitKeepsCommits
<1>18. CASE CommitConflicts(s)
  <2>1. conn[s].tx # "closed"
    BY <1>2, <1>18 DEF CommitConflicts, CallFits
  <2>2. PICK d : Locally(s, d) /\ (SameCopy(conn[s], d) \/ CopyRead(d))
    BY <1>18, <2>1, CommitConflictsIs
  <2>3. KeptHead(conn[s], d) \/ CopyRead(d)
    BY <1>3, <2>2
  <2> QED BY <1>1, <2>1, <2>2, <2>3, LocalHeads
<1>19. CASE Tag(s)
  <2>1. PICK d : Appends(s, d) /\ (SameCopy(conn[s], d) \/ CopyRead(d))
    BY <1>19, TagIs
  <2>2. conn[s].tx # "closed"
    BY <1>19 DEF Tag, Idle
  <2>3. KeptHead(conn[s], d) \/ CopyRead(d)
    BY <1>3, <2>1
  <2> QED BY <1>1, <2>1, <2>2, <2>3, AppendKeepsCommits
<1>20. CASE Gc(s)
  <2>1. Alone(s)
    BY <1>20, GcIs
  <2> QED BY <1>1, <1>20, <2>1, GcKeepsCommits
<1> QED BY <1>5, <1>6, <1>7, <1>8, <1>9, <1>10, <1>11, <1>12, <1>13, <1>14, <1>15, <1>16, <1>17,
           <1>18, <1>19, <1>20 DEF Steps

-------------------------------------------------------------------------------
(* What sessions were told                                                  *)

\* As long as nothing went wrong: who is as large as the file has the refs that
\* sessions were told, a writer started from them, and who does not write reads
\* the catalog of its refs.
ToldFits(c) ==
  /\ c.tx # "closed" /\ c.size >= files[Path].size => c.refs = told /\ c.committedRefs = told
  /\ c.tx = "write" =>
       /\ c.size >= files[Path].size
       /\ c.committed = {told.work} /\ c.start = told.work /\ c.committedStaged = told.staged
       /\ c.op = NoOp => c.staged = told.staged
  /\ c.tx \in {"none", "read"} => c.cat = c.refs.work
ToldInv ==
  flaws = {} => files[Path].refs = told /\ \A s \in Sessions : ToldFits(conn[s])

\* A step that leaves the file alone.
LEMMA LocalTold ==
  ASSUME TypeOK, files[Path].refs = told, \A t \in Sessions : ToldFits(conn[t]),
         NEW s \in Sessions, NEW d, Locally(s, d), ToldFits(d)
  PROVE  ToldInv'
<1>1. UNCHANGED files /\ UNCHANGED Path /\ UNCHANGED told
  BY DEF Locally, Path
<1>2. \A t \in Sessions : conn'[t] = IF t = s THEN d ELSE conn[t]
  BY OneChanges DEF Locally
<1>3. ASSUME NEW t \in Sessions
      PROVE  ToldFits(conn[t])'
  <2>1. CASE t = s
    BY <1>1, <1>2, <2>1 DEF ToldFits
  <2>2. CASE t # s
    <3>1. ToldFits(conn[t]) /\ conn'[t] = conn[t]
      BY <1>2, <2>2
    <3> QED BY <1>1, <3>1 DEF ToldFits
  <2> QED BY <2>1, <2>2
<1> QED BY <1>1, <1>3 DEF ToldInv

\* An append of what sessions are told next, while nobody writes.
LEMMA AppendTold ==
  ASSUME TypeOK, HeadsFit, \A t \in Sessions : ToldFits(conn[t]),
         NEW s \in Sessions, conn[s].tx # "closed",
         \A t \in Sessions \ {s} : conn[t].tx # "write",
         NEW m \in Nat, Len(commits) <= m, NEW d, Fits(d, Path, m),
         d.tx \in {"none", "read"}, d.file = Path,
         files' = Grown(d), conn' = [conn EXCEPT ![s] = Appended(d)],
         Current(d) = d, d.refs = told', d.cat = d.refs.work
  PROVE  ToldInv'
<1>1. d.tx # "closed"
  OBVIOUS
<1>2. /\ UNCHANGED Path
      /\ \A t \in Sessions : conn'[t] = IF t = s THEN Appended(d) ELSE conn[t]
      /\ \A t \in Sessions : conn'[t].tx # "closed" /\ conn'[t].size >= files[Path].size + 1 => t = s
      /\ Appended(d).refs = d.refs /\ Appended(d).committedRefs = d.refs
      /\ SameCatalog(d, Appended(d)) /\ SameCall(d, Appended(d))
  <2>1. UNCHANGED Path
    BY <1>1, AppendHeads
  <2>2. \A t \in Sessions : conn'[t] = IF t = s THEN Appended(d) ELSE conn[t]
    <3> DEFINE x == Appended(d)
    <3>1. conn' = [conn EXCEPT ![s] = x]
      OBVIOUS
    <3> HIDE DEF x
    <3>2. \A t \in Sessions : conn'[t] = IF t = s THEN x ELSE conn[t]
      BY <3>1, OneChanges
    <3> QED BY <3>2 DEF x
  <2>3. \A t \in Sessions : conn'[t].tx # "closed" /\ conn'[t].size >= files[Path].size + 1 => t = s
    BY <1>1, AppendHeads
  <2>4. Appended(d).refs = Current(d).refs /\ Appended(d).committedRefs = Current(d).refs
        /\ SameCatalog(d, Appended(d)) /\ SameCall(d, Appended(d))
    BY <1>1, AppendedFits
  <2> QED BY <2>1, <2>2, <2>3, <2>4
<1>3. files'[Path].refs = d.refs /\ files'[Path].size = files[Path].size + 1
  <2>1. Grown(d)[Path] = [size |-> files[Path].size + 1, refs |-> Current(d).refs]
    BY <1>1, AppendedFits
  <2> QED BY <2>1
<1>4. ASSUME NEW t \in Sessions
      PROVE  ToldFits(conn[t])'
  <2>1. CASE t = s
    <3>1. /\ conn'[s].refs = told' /\ conn'[s].committedRefs = told'
          /\ conn'[s].tx \in {"none", "read"} /\ conn'[s].cat = conn'[s].refs.work
      BY <1>2 DEF SameCatalog, SameCall
    <3> QED BY <2>1, <3>1 DEF ToldFits
  <2>2. CASE t # s
    <3>1. /\ conn'[t] = conn[t] /\ conn[t].tx # "write" /\ ToldFits(conn[t])
          /\ ~(conn'[t].tx # "closed" /\ conn'[t].size >= files'[Path'].size)
      BY <1>2, <1>3, <2>2
    <3> QED BY <3>1 DEF ToldFits
  <2> QED BY <2>1, <2>2
<1> QED BY <1>2, <1>3, <1>4 DEF ToldInv

\* A fresh session's copy and the file agree.
LEMMA StaysCurrent ==
  ASSUME TypeOK, NEW c, c.file = Path, c.size >= files[Path].size, c.size \in Nat,
         NEW d, SameFile(c, d)
  PROVE  Current(d) = d /\ d.file = Path
BY PathIs DEF SameFile, Current, File

\* Begins and ends of transactions, statements.
LEMMA TransactionsTold ==
  ASSUME TypeOK, CallInv, LockInv, HeadsFit, flaws = {}, flaws' = {}, ToldInv,
         NEW s \in Sessions,
         \/ Open(s) \/ Exit(s) \/ BeginRead(s) \/ EndRead(s) \/ BeginWrite(s)
         \/ ChangeRow(s) \/ StartAdd(s) \/ StartCommit(s)
  PROVE  ToldInv'
<1>1. files[Path].refs = told /\ \A t \in Sessions : ToldFits(conn[t])
  BY DEF ToldInv
<1>2. ToldFits(conn[s]) /\ CallFits(conn[s]) /\ HeadFits(conn[s])
  BY <1>1 DEF CallInv, HeadsFit
<1>3. files[Path].size \in Nat /\ conn[s].size \in Nat
  BY PathIs, ConnFits DEF Session
\* A session of which the copy is the old one or the file's.
<1>4. ASSUME NEW d, SameCopy(conn[s], d) \/ CopyRead(d), d.tx # "closed", conn[s].tx # "closed",
             d.size >= files[Path].size
      PROVE  d.refs = told /\ d.committedRefs = told
  BY <1>1, <1>2, <1>4 DEF SameCopy, SameFile, CopyRead, ToldFits
<1>5. CASE Open(s)
  <2>1. PICK d : Locally(s, d) /\ CopyRead(d) /\ d.tx = "none" /\ d.cat = d.refs.work
    BY <1>5, OpenIs
  <2>2. ToldFits(d)
    BY <1>1, <2>1 DEF CopyRead, ToldFits
  <2> QED BY <1>1, <2>1, <2>2, LocalTold
<1>6. CASE Exit(s)
  <2>1. PICK d : Locally(s, d) /\ d.tx = "closed"
    BY <1>6, ExitIs
  <2>2. ToldFits(d)
    BY <2>1 DEF ToldFits
  <2> QED BY <1>1, <2>1, <2>2, LocalTold
<1>7. CASE BeginRead(s)
  <2>1. PICK d : /\ Locally(s, d) /\ conn[s].tx = "none" /\ d.tx = "read"
                 /\ SameCopy(conn[s], d) \/ CopyRead(d)
                 /\ CatalogRead(conn[s], d)
    BY <1>7, BeginReadIs
  <2>2. d.cat = d.refs.work
    BY <1>2, <2>1 DEF CatalogRead, ToldFits
  <2>3. ToldFits(d)
    BY <1>4, <2>1, <2>2 DEF ToldFits
  <2> QED BY <1>1, <2>1, <2>3, LocalTold
<1>8. CASE EndRead(s)
  <2>1. PICK d : Locally(s, d) /\ SameCopy(conn[s], d) /\ d.tx = "none" /\ d.cat = conn[s].cat
    BY <1>8, EndReadIs
  <2>2. conn[s].tx = "read"
    BY <1>8, EndReadIs
  <2>3. d.cat = d.refs.work
    BY <1>2, <2>1, <2>2 DEF SameCopy, ToldFits
  <2>4. ToldFits(d)
    BY <1>4, <2>1, <2>2, <2>3 DEF ToldFits
  <2> QED BY <1>1, <2>1, <2>4, LocalTold
<1>9. CASE BeginWrite(s)
  <2>1. conn[s].tx \in {"none", "read"} /\ conn[s].op = NoOp
    BY <1>9, BeginWriteIs
  <2>2. conn[s].file = Path /\ (conn[s].tx = "none" => ~conn[s].snapshotPinned)
    BY <1>2, <2>1 DEF CallFits, HeadFits
  <2>3. PICK d :
          /\ Locally(s, d)
          /\ SameCopy(conn[s], d) \/ CopyRead(d)
          /\ \/ /\ d.tx = "write" /\ d.committed = {d.refs.work}
                /\ d.committedStaged = d.refs.staged /\ d.staged = d.refs.staged
                /\ d.start = d.cat /\ d.cat = d.refs.work /\ d.size >= files[Path].size
             \/ SameCall(conn[s], d) /\ CatalogRead(conn[s], d)
    BY <1>9, <2>2, BeginWriteIs
  <2>4. CASE /\ d.tx = "write" /\ d.committed = {d.refs.work}
             /\ d.committedStaged = d.refs.staged /\ d.staged = d.refs.staged
             /\ d.start = d.cat /\ d.cat = d.refs.work /\ d.size >= files[Path].size
    <3>1. d.refs = told /\ d.committedRefs = told
      BY <1>4, <2>1, <2>3, <2>4
    <3>2. ToldFits(d)
      BY <2>4, <3>1 DEF ToldFits
    <3> QED BY <1>1, <2>3, <3>2, LocalTold
  <2>5. CASE SameCall(conn[s], d) /\ CatalogRead(conn[s], d)
    <3>1. d.tx \in {"none", "read"} /\ d.cat = d.refs.work
      BY <1>2, <2>1, <2>5 DEF SameCall, CatalogRead, ToldFits
    <3>2. ToldFits(d)
      BY <1>4, <2>1, <2>3, <3>1 DEF ToldFits
    <3> QED BY <1>1, <2>3, <3>2, LocalTold
  <2> QED BY <2>3, <2>4, <2>5
<1>10. CASE ChangeRow(s)
  <2>1. PICK d : /\ Locally(s, d) /\ SameCall(conn[s], d) /\ SameCopy(conn[s], d)
                 /\ d.staged = conn[s].staged
    BY <1>10, ChangeRowIs
  <2>2. conn[s].tx = "write"
    BY <1>10, ChangeRowIs
  <2>3. ToldFits(d)
    BY <1>2, <2>1, <2>2 DEF SameCall, SameCopy, SameFile, ToldFits
  <2> QED BY <1>1, <2>1, <2>3, LocalTold
<1>11. CASE StartAdd(s) \/ StartCommit(s)
  <2>1. PICK d :
          /\ Locally(s, d) /\ d.tx = conn[s].tx
          /\ d.committed = conn[s].committed /\ d.start = conn[s].start
          /\ d.committedStaged = conn[s].committedStaged
          /\ SameCopy(conn[s], d) \/ CopyRead(d)
          /\ d.tx # "none" => SameCopy(conn[s], d) /\ d.cat = conn[s].cat /\ d.op # NoOp
          /\ CatalogRead(conn[s], d)
    BY <1>11, StartIs
  <2>2. conn[s].tx # "closed"
    BY <1>11, StartIs
  <2>3. d.tx \in {"none", "read"} => d.cat = d.refs.work
    BY <1>2, <2>1 DEF CatalogRead, ToldFits
  <2>4. d.size >= files[Path].size => d.refs = told /\ d.committedRefs = told
    BY <1>4, <2>1, <2>2
  <2>5. d.tx = "write" => /\ d.size >= files[Path].size
                          /\ d.committed = {told.work} /\ d.start = told.work
                          /\ d.committedStaged = told.staged /\ d.op # NoOp
    BY <1>2, <2>1 DEF ToldFits, SameCopy, SameFile
  <2>6. ToldFits(d)
    BY <2>3, <2>4, <2>5 DEF ToldFits
  <2> QED BY <1>1, <2>1, <2>6, LocalTold
<1> QED BY <1>5, <1>6, <1>7, <1>8, <1>9, <1>10, <1>11

\* Ends of write transactions.
LEMMA WritesTold ==
  ASSUME TypeOK, CallInv, LockInv, HeadsFit, flaws = {}, flaws' = {}, ToldInv,
         NEW s \in Sessions,
         CommitWrite(s) \/ RollbackWrite(s) \/ CommitIsBusy(s) \/ RollbackIsBusy(s)
  PROVE  ToldInv'
<1>1. files[Path].refs = told /\ \A t \in Sessions : ToldFits(conn[t])
  BY DEF ToldInv
<1>2. /\ ToldFits(conn[s]) /\ HeadFits(conn[s]) /\ Len(commits) \in Nat
      /\ Len(commits) <= Len(commits) /\ conn[s].size \in Nat
  BY <1>1, PathIs, ConnFits DEF HeadsFit, Session
<1>3. conn[s].tx = "write" /\ conn[s].op = NoOp
  BY CommitWriteIs DEF RollbackWrite, CommitIsBusy, RollbackIsBusy, Idle
<1>4. lock = s
  BY <1>3 DEF LockInv
<1>5. /\ conn[s].file = Path /\ conn[s].size >= files[Path].size
      /\ conn[s].refs = told /\ conn[s].committedRefs = told
      /\ conn[s].committed = {told.work} /\ conn[s].start = told.work
      /\ conn[s].committedStaged = told.staged /\ conn[s].staged = told.staged
      /\ conn[s].tx # "closed"
  BY <1>2, <1>3 DEF ToldFits, HeadFits
<1>6. \A t \in Sessions \ {s} : conn[t].tx # "write"
  BY <1>4 DEF LockInv
<1>7. ASSUME NEW d, KeptFile(conn[s], d)
      PROVE  Current(d) = d /\ d.file = Path
  BY <1>2, <1>5, <1>7, StaysCurrent DEF KeptFile
<1>8. CASE CommitWrite(s)
  <2>1. PICK d : /\ Appends(s, d) /\ KeptFile(conn[s], d) /\ d.tx = "none" /\ d.cat = conn[s].cat
                 /\ d.refs = [head |-> conn[s].refs.head, work |-> conn[s].cat,
                              staged |-> conn[s].staged]
    BY <1>8, CommitWriteIs
  <2>2. told' = [told EXCEPT !.work = Applied(conn[s], told.work)]
    BY <1>8, CommitWriteIs
  <2>3. Applied(conn[s], told.work) = conn[s].cat
    BY <1>5 DEF Applied
  <2>4. d.refs = told' /\ d.cat = d.refs.work
    <3>1. told \in Refs
      BY DEF TypeOK
    <3> QED BY <1>5, <2>1, <2>2, <2>3, <3>1 DEF Refs
  <2>5. Current(d) = d /\ d.file = Path
    BY <1>7, <2>1
  <2> QED BY <1>1, <1>2, <1>5, <1>6, <2>1, <2>4, <2>5, AppendTold DEF Appends
<1>9. CASE RollbackWrite(s)
  <2>1. PICK d : /\ Appends(s, d) /\ KeptFile(conn[s], d) /\ d.tx = "none"
                 /\ conn[s].committed = {d.cat}
                 /\ d.refs = [head |-> conn[s].committedRefs.head, work |-> d.cat,
                              staged |-> conn[s].committedStaged]
    BY <1>9, RollbackWriteIs
  <2>2. UNCHANGED told
    BY <1>9, RollbackWriteIs
  <2>3. d.cat = told.work
    BY <1>5, <2>1
  <2>4. d.refs = told' /\ d.cat = d.refs.work
    <3>1. told \in Refs
      BY DEF TypeOK
    <3> QED BY <1>5, <2>1, <2>2, <2>3, <3>1 DEF Refs
  <2>5. Current(d) = d /\ d.file = Path
    BY <1>7, <2>1
  <2> QED BY <1>1, <1>2, <1>5, <1>6, <2>1, <2>4, <2>5, AppendTold DEF Appends
<1>10. CASE CommitIsBusy(s) \/ RollbackIsBusy(s)
  BY <1>4, <1>10 DEF CommitIsBusy, RollbackIsBusy, CanLock
<1> QED BY <1>8, <1>9, <1>10

\* A session that can have the lock and does not write itself: nobody writes.
LEMMA NobodyWrites ==
  ASSUME LockInv, flaws = {}, NEW s \in Sessions, CanLock(s)
  PROVE  \A t \in Sessions \ {s} : conn[t].tx # "write"
BY SessionAssumption DEF LockInv, CanLock

\* Calls of functions.
LEMMA CallsTold ==
  ASSUME TypeOK, CallInv, LockInv, HeadsFit, flaws = {}, flaws' = {}, ToldInv,
         NEW s \in Sessions,
         FinishAdd(s) \/ AddIsBusy(s) \/ FinishCommit(s) \/ CommitConflicts(s) \/ Tag(s)
  PROVE  ToldInv'
<1>1. files[Path].refs = told /\ \A t \in Sessions : ToldFits(conn[t])
  BY DEF ToldInv
<1>2. /\ ToldFits(conn[s]) /\ CallFits(conn[s]) /\ HeadFits(conn[s]) /\ NoOp.kind = "none"
      /\ Len(commits) \in Nat /\ Len(commits) <= Len(commits)
      /\ conn[s].size \in Nat /\ told \in Refs
  BY <1>1, PathIs, ConnFits DEF CallInv, HeadsFit, NoOp, TypeOK, Session
<1>3. conn[s].tx \in {"none", "read", "write"}
  <2>1. conn[s].tx # "closed"
    BY <1>2 DEF FinishAdd, AddIsBusy, FinishCommit, CommitConflicts, Tag, Idle, CallFits
  <2> QED BY <2>1, ConnFits DEF Session
<1>4. conn[s].file = Path
  BY <1>2, <1>3 DEF HeadFits
<1>5. CASE FinishAdd(s)
  <2>1. PICK d :
          /\ Appends(s, d) /\ d.tx = conn[s].tx /\ d.cat = conn[s].cat
          /\ CopyRead(d) \/ (KeptFile(conn[s], d) /\ d.refs.head = conn[s].refs.head)
          /\ d.tx # "write" /\ conn[s].size >= files[Path].size /\ Current(d) = d
          /\ d.refs = [head |-> conn[s].refs.head, work |-> conn[s].cat, staged |-> conn[s].staged]
    BY <1>3, <1>4, <1>5, FinishAddIs
  <2>2. told' = [told EXCEPT !.staged = conn[s].staged] /\ CanLock(s)
    BY <1>3, <1>5, FinishAddIs
  <2>3. conn[s].tx \in {"none", "read"} /\ conn[s].refs = told /\ conn[s].cat = told.work
    BY <1>2, <1>3, <2>1 DEF ToldFits
  <2>4. d.refs = told' /\ d.cat = d.refs.work
    BY <1>2, <2>1, <2>2, <2>3 DEF Refs
  <2>5. d.file = Path
    BY <1>4, <2>1 DEF CopyRead, KeptFile, SameFile
  <2>6. \A t \in Sessions \ {s} : conn[t].tx # "write"
    BY <2>2, NobodyWrites
  <2> QED BY <1>1, <1>2, <2>1, <2>3, <2>4, <2>5, <2>6, AppendTold DEF Appends
<1>6. CASE AddIsBusy(s)
  BY <1>6 DEF AddIsBusy
<1>7. CASE FinishCommit(s)
  <2>1. conn[s].tx = "none" /\ ~conn[s].snapshotPinned
    BY <1>2, <1>7 DEF FinishCommit, CallFits
  <2>2. PICK h \in 1..Len(commits) : \E d : CommitsTo(s, h, d)
    BY <1>7, <2>1, FinishCommitIs
  <2>3. PICK d : CommitsTo(s, h, d)
    BY <2>2
  <2> DEFINE n == Len(commits) + 1
  <2>4. /\ Fits(d, Path, Len(commits')) /\ d.tx = "none"
        /\ files' = Grown(d) /\ conn' = [conn EXCEPT ![s] = Appended(d)]
        /\ d.cat = conn[s].cat
        /\ d.refs = [head |-> n, work |-> conn[s].cat, staged |-> conn[s].op.cat]
        /\ Current(d) = d /\ conn[s].size >= files[Path].size
    BY <1>4, <2>1, <2>3 DEF CommitsTo
  <2>5. told' = [told EXCEPT !.head = n, !.staged = conn[s].op.cat] /\ CanLock(s)
    BY <1>7, <2>1, FinishCommitIs
  <2>6. conn[s].refs = told /\ conn[s].cat = told.work
    BY <1>2, <2>1, <2>4 DEF ToldFits
  <2> HIDE DEF n
  <2>7. d.refs = told' /\ d.cat = d.refs.work
    <3>1. told' = [head |-> n, work |-> told.work, staged |-> conn[s].op.cat]
      BY <1>2, <2>5 DEF Refs
    <3> QED BY <2>4, <2>6, <3>1
  <2>8. d.file = Path
    <3>1. d.file \in Nat /\ Path \in Nat
      BY <2>4, PathIs DEF Fits, Session
    <3> QED BY <2>4, <3>1 DEF Current, Reloaded, Fits, Session
  <2>9. Len(commits') \in Nat /\ Len(commits) <= Len(commits')
    BY <2>3, PathIs, AppendProperties DEF TypeOK, CommitsTo
  <2>10. \A t \in Sessions \ {s} : conn[t].tx # "write"
    BY <2>5, NobodyWrites
  <2> QED BY <1>1, <1>3, <2>4, <2>7, <2>8, <2>9, <2>10, AppendTold
<1>8. CASE CommitConflicts(s)
  <2>1. conn[s].tx = "none"
    BY <1>2, <1>8 DEF CommitConflicts, CallFits
  <2>2. PICK d : /\ Locally(s, d) /\ d.tx = conn[s].tx /\ d.cat = conn[s].cat
                 /\ SameCopy(conn[s], d)
    BY <1>3, <1>4, <1>8, CommitConflictsIs
  <2>3. ToldFits(d)
    BY <1>2, <2>1, <2>2 DEF SameCopy, SameFile, ToldFits
  <2> QED BY <1>1, <2>2, <2>3, LocalTold
<1>9. CASE Tag(s)
  <2>1. PICK d : /\ Appends(s, d) /\ UNCHANGED told /\ SameCall(conn[s], d) /\ d.cat = conn[s].cat
                 /\ SameCopy(conn[s], d) /\ Current(d) = d /\ conn[s].size >= files[Path].size
    BY <1>4, <1>9, TagIs
  <2>2. conn[s].tx # "write" /\ CanLock(s)
    BY <1>9, TagIs
  <2>3. conn[s].refs = told /\ conn[s].cat = told.work
    BY <1>2, <1>3, <2>1, <2>2 DEF ToldFits
  <2>4. d.refs = told' /\ d.cat = d.refs.work /\ d.file = Path /\ d.tx \in {"none", "read"}
    BY <1>3, <1>4, <2>1, <2>2, <2>3 DEF SameCopy, SameFile, SameCall
  <2>5. \A t \in Sessions \ {s} : conn[t].tx # "write"
    BY <2>2, NobodyWrites
  <2> QED BY <1>1, <1>2, <1>3, <2>1, <2>4, <2>5, AppendTold DEF Appends
<1> QED BY <1>5, <1>6, <1>7, <1>8, <1>9

\* A collection that found nobody.
LEMMA GcTold ==
  ASSUME TypeOK, CallInv, LockInv, HeadsFit, flaws = {}, flaws' = {}, ToldInv,
         NEW s \in Sessions, Gc(s)
  PROVE  ToldInv'
<1>1. files[Path].refs = told /\ \A t \in Sessions : ToldFits(conn[t])
  BY DEF ToldInv
<1>2. Alone(s)
  BY GcIs
<1>3. /\ conn[s].tx = "none" /\ ~conn[s].snapshotPinned /\ lock # s /\ conn[s].file = Path
      /\ ToldFits(conn[s]) /\ \A t \in Sessions \ {s} : conn[t].tx = "closed"
  BY <1>1, <1>2 DEF Alone, CallInv, CallFits, LockInv, HeadsFit, HeadFits
<1>4. PICK c : /\ Fits(c, Path, Len(commits)) /\ SameCall(conn[s], c)
               /\ c.cat = conn[s].cat
               /\ c.size >= files[Path].size /\ SameCopy(conn[s], c)
               /\ \/ Locally(s, c)
                  \/ \E n \in 1..File(c).size : Replaces(s, [c EXCEPT !.file = Path + 1], n)
  BY <1>3, GcIs
<1>5. /\ c.refs = told /\ c.committedRefs = told /\ c.tx = "none" /\ c.cat = told.work
      /\ c \in Session
  BY <1>3, <1>4 DEF ToldFits, SameCopy, SameFile, SameCall, Fits
<1>6. CASE Locally(s, c)
  <2>1. ToldFits(c)
    BY <1>5 DEF ToldFits
  <2> QED BY <1>1, <1>6, <2>1, LocalTold
<1>7. CASE \E n \in 1..File(c).size : Replaces(s, [c EXCEPT !.file = Path + 1], n)
  <2> DEFINE d == [c EXCEPT !.file = Path + 1]
  <2>1. d.refs = told /\ d.committedRefs = told /\ d.tx = "none" /\ d.cat = told.work
    BY <1>5 DEF Session
  <2> HIDE DEF d
  <2>2. PICK n : Replaces(s, d, n)
    BY <1>7 DEF d
  <2>3. files'[Path'].refs = d.refs
    <3> DEFINE g == [size |-> n, refs |-> d.refs]
    <3>1. files' = Append(files, g) /\ g.refs = d.refs
      BY <2>2 DEF Replaces
    <3> HIDE DEF g
    <3>2. Path' = Path + 1 /\ files'[Path + 1] = g
      BY <3>1, AppendProperties DEF TypeOK, Path
    <3> QED BY <3>1, <3>2
  <2>4. \A t \in Sessions : conn'[t] = IF t = s THEN d ELSE conn[t]
    BY <2>2, OneChanges DEF Replaces
  <2>5. UNCHANGED told
    BY GcIs
  <2>6. \A t \in Sessions : ToldFits(conn[t])'
    BY <1>3, <2>1, <2>4, <2>5 DEF ToldFits
  <2> QED BY <2>1, <2>3, <2>5, <2>6 DEF ToldInv
<1> QED BY <1>4, <1>6, <1>7

\* Whatever a session does, the others are told the truth.
LEMMA ToldStep ==
  ASSUME TypeOK, CallInv, LockInv, CommitInv, ToldInv, NEW s \in Sessions, Steps(s)
  PROVE  ToldInv'
<1>1. CASE flaws' # {}
  BY <1>1 DEF ToldInv
<1>2. CASE flaws' = {}
  <2>1. flaws = {} /\ HeadsFit
    BY <1>2, CountersFit DEF Steps, CommitInv
  <2> QED BY <1>2, <2>1, TransactionsTold, WritesTold, CallsTold, GcTold DEF Steps
<1> QED BY <1>1, <1>2

\* A reader's catalog.
LEMMA ReadStep ==
  ASSUME TypeOK, CallInv, LockInv, CommitInv, ToldInv, NEW s \in Sessions, Steps(s),
         NEW r \in Sessions, conn[r].tx = "read", conn'[r].tx \in {"read", "write"}, flaws' = {}
  PROVE  conn'[r].cat = conn[r].cat
<1>1. flaws = {} /\ ToldFits(conn[r]) /\ CallFits(conn[r]) /\ HeadsFit
  BY CountersFit DEF Steps, ToldInv, CallInv, CommitInv
<1> DEFINE Changed(d) == conn' = [conn EXCEPT ![s] = d]
<1>2. \A d : Changed(d) => \A t \in Sessions : conn'[t] = IF t = s THEN d ELSE conn[t]
  BY OneChanges
<1>3. ASSUME NEW d, Appends(s, d)
      PROVE  Changed(Appended(d)) /\ Appended(d).cat = d.cat
  <2>1. Len(commits) \in Nat /\ Len(commits) <= Len(commits)
    BY PathIs
  <2>2. Fits(d, Path, Len(commits)) /\ d.tx # "closed" /\ Changed(Appended(d))
    BY <1>3 DEF Appends
  <2>3. SameCatalog(d, Appended(d))
    BY <2>1, <2>2, AppendedFits
  <2> QED BY <2>2, <2>3 DEF SameCatalog
<1>4. CASE r # s
  <2>1. \E d : Changed(d)
    BY StepTypes DEF SessionStep
  <2> QED BY <1>2, <1>4, <2>1
<1>5. CASE r = s
  <2> SUFFICES \E d : Changed(d) /\ (d.cat = conn[s].cat \/ d.tx \notin {"read", "write"})
    BY <1>2, <1>5
  <2>1. CASE Exit(s)
    BY <2>1, ExitIs DEF Locally
  <2>2. CASE EndRead(s)
    BY <2>2, EndReadIs DEF Locally
  <2>3. CASE BeginWrite(s)
    <3>1. PICK d :
            /\ Locally(s, d)
            /\ SameCopy(conn[s], d)
            /\ d.cat = d.refs.work \/ d.cat = conn[s].cat
      BY <1>1, <1>5, <2>3, BeginWriteIs DEF CallFits
    <3> QED BY <1>1, <1>5, <3>1 DEF ToldFits, SameCopy, Locally
  <2>4. CASE StartAdd(s) \/ StartCommit(s)
    BY <1>5, <2>4, StartIs DEF Locally
  <2>5. CASE FinishAdd(s)
    <3>1. PICK d : Appends(s, d) /\ d.cat = conn[s].cat
      BY <1>5, <2>5, FinishAddIs
    <3> QED BY <1>3, <3>1
  <2>6. CASE Tag(s)
    <3>1. PICK d : Appends(s, d) /\ d.cat = conn[s].cat
      BY <2>6, TagIs
    <3> QED BY <1>3, <3>1
  <2>7. CASE Gc(s)
    <3>1. Alone(s)
      BY <2>7, GcIs
    <3> QED BY <1>5, <3>1 DEF Alone
  <2>8. CASE AddIsBusy(s)
    BY <2>8 DEF AddIsBusy
  <2>9. ~(Open(s) \/ BeginRead(s) \/ ChangeRow(s) \/ CommitWrite(s) \/ RollbackWrite(s)
          \/ CommitIsBusy(s) \/ RollbackIsBusy(s) \/ FinishCommit(s) \/ CommitConflicts(s))
    BY <1>1, <1>5 DEF Open, BeginRead, ChangeRow, CommitWrite, RollbackWrite, CommitIsBusy,
                      RollbackIsBusy, FinishCommit, CommitConflicts, CallFits
  <2> QED BY <2>1, <2>2, <2>3, <2>4, <2>5, <2>6, <2>7, <2>8, <2>9 DEF Steps
<1> QED BY <1>4, <1>5

-------------------------------------------------------------------------------

IInv == TypeOK /\ CallInv /\ LockInv /\ CommitInv /\ ToldInv

\* The first state: one commit, nobody has the file open.
LEMMA InitHolds == Init => IInv
<1> SUFFICES ASSUME Init PROVE IInv
  OBVIOUS
<1>1. TypeOK /\ CallInv /\ LockInv
  BY InitTypes
<1>2. /\ files[Path].refs = FirstRefs /\ commits[FirstRefs.head].past = {1}
      /\ \A s \in Sessions : conn[s] = Closed
      /\ acked = {1} /\ told = FirstRefs
  BY DEF Init, Path, FirstRefs
<1>3. Closed.tx = "closed"
  BY DEF Closed
<1>4. HeadsFit /\ \A s \in Sessions : ToldFits(conn[s])
  BY <1>2, <1>3 DEF HeadsFit, AheadAlone, HeadFits, ToldFits
<1> QED BY <1>1, <1>2, <1>4 DEF IInv, CommitInv, CommitsStay, ToldInv

\* Every step keeps the invariant.
LEMMA NextHolds == IInv /\ [Next]_vars => IInv'
<1> SUFFICES ASSUME IInv, [Next]_vars PROVE IInv'
  OBVIOUS
<1>1. CASE Next
  BY <1>1, NextSteps, StepTypes, LockStep, CommitStep, ToldStep DEF IInv
<1>2. CASE UNCHANGED vars
  <2>1. /\ UNCHANGED files /\ UNCHANGED conn /\ UNCHANGED commits /\ UNCHANGED acked
        /\ UNCHANGED told /\ UNCHANGED flaws /\ UNCHANGED Path
    BY <1>2 DEF vars, history, Path
  <2>2. (TypeOK /\ CallInv /\ LockInv)'
    BY <1>2, StutterTypes DEF IInv
  <2>3. CommitInv'
    BY <2>1 DEF IInv, CommitInv, HeadsFit, AheadAlone, HeadFits, CommitsStay
  <2>4. ToldInv'
    BY <2>1 DEF IInv, ToldInv, ToldFits
  <2> QED BY <2>2, <2>3, <2>4 DEF IInv
<1> QED BY <1>1, <1>2

\* The invariant holds in every state.
LEMMA IInvHolds == Spec => []IInv
BY InitHolds, NextHolds, PTL DEF Spec

\* A commit that dolt_commit acknowledged stays in the history of the branch: stale
\* catalogs, lost locks, refused calls and the deaths of processes do not take it
\* away, only a dolt_gc that is not alone does.
THEOREM CommitsAreKept == Spec => []CommitsStayUnlessCollected
<1>1. IInv => CommitsStayUnlessCollected
  BY DEF IInv, CommitInv, CommitsStayUnlessCollected
<1> QED BY <1>1, IInvHolds, PTL

\* As long as none of the hazards is met, the file holds what the sessions were told.
THEOREM ToldIsKept == Spec => []ToldIsStored
<1>1. IInv => ToldIsStored
  BY DEF IInv, ToldInv, ToldIsStored
<1> QED BY <1>1, IInvHolds, PTL

\* A session reads one catalog until it writes, and starts to write from that one.
THEOREM ReadsAreStable == Spec => ReadStays
<1> DEFINE Stays == \A s \in Sessions :
      conn[s].tx = "read" /\ conn'[s].tx \in {"read", "write"} /\ flaws' = {}
        => conn'[s].cat = conn[s].cat
<1>1. IInv /\ [Next]_vars => [Stays]_vars
  BY NextSteps, ReadStep DEF IInv
<1> HIDE DEF Stays
<1>2. Spec => [][Stays]_vars
  BY <1>1, IInvHolds, PTL DEF Spec
<1> QED BY <1>2 DEF Stays, ReadStays
===============================================================================
