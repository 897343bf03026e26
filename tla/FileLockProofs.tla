--------------------------- MODULE FileLockProofs ---------------------------
(***************************************************************************)
(* Proofs about FileLock, for any finite set of processes, any number of   *)
(* crashes, and with or without stalls.                                    *)
(*                                                                         *)
(* LockInv is why the two-step acquisition and the two-step release are    *)
(* safe as long as no lock was stolen: whoever believes that the directory *)
(* is its own made it, and nobody else could have written owner.json.      *)
(***************************************************************************)
EXTENDS FileLock, TLAPS, FiniteSetTheorems

\* Who the directory belongs to, until a lock is stolen.
LockInv ==
  ~stolen =>
    /\ owner \in {NoProc, maker}
    /\ \A p \in Procs :
         /\ pc[p] \in Holding => maker = p
         /\ pc[p] \in {"made", "remove"} => owner = NoProc
         /\ pc[p] \in Critical \cup {"unlink"} => owner = p

\* A transaction takes effect only when it writes, and until a lock is stolen
\* it writes over the revision that it read.
FileInv ==
  /\ \A p \in Procs :
       pc[p] \in {"try", "contend", "recheck", "rename", "made", "held", "read"} => p \notin done
  /\ ~stolen => \A p \in Procs : pc[p] = "read" => snapshot[p] = revision

-----------------------------------------------------------------------------
\* Every variable keeps its type.
THEOREM TypeInvariant == Spec => []TypeOK
<1>1. Init => TypeOK
  <2> SUFFICES ASSUME Init PROVE TypeOK
    OBVIOUS
  <2>1. expired \in BOOLEAN /\ stolen \in BOOLEAN
    BY Zenon DEF Init
  <2>2. QED
    BY <2>1 DEF Init, TypeOK, Points, Holding, Dead
<1>2. TypeOK /\ [Next]_vars => TypeOK'
  <2> SUFFICES ASSUME TypeOK, [Next]_vars PROVE TypeOK'
    OBVIOUS
  <2> USE DEF TypeOK, Points, Holding, Dead
  <2>1. ASSUME NEW p \in Procs, MakeDirectory(p)
        PROVE  TypeOK'
    BY <2>1 DEF MakeDirectory, Goto, lockVars, fileVars
  <2>2. ASSUME NEW p \in Procs, WriteOwner(p)
        PROVE  TypeOK'
    BY <2>2 DEF WriteOwner, Goto, lockVars, fileVars
  <2>3. ASSUME NEW p \in Procs, ReadOwner(p)
        PROVE  TypeOK'
    BY <2>3 DEF ReadOwner, Goto, lockVars, fileVars
  <2>4. ASSUME NEW p \in Procs, Recheck(p)
        PROVE  TypeOK'
    BY <2>4 DEF Recheck, Goto, lockVars, fileVars
  <2>5. ASSUME NEW p \in Procs, Rename(p)
        PROVE  TypeOK'
    BY <2>5 DEF Rename, Goto, lockVars, fileVars
  <2>6. ASSUME NEW p \in Procs, Read(p)
        PROVE  TypeOK'
    BY <2>6 DEF Read, Goto, lockVars, fileVars
  <2>7. ASSUME NEW p \in Procs, Write(p)
        PROVE  TypeOK'
    BY <2>7 DEF Write, Goto, lockVars, fileVars
  <2>8. ASSUME NEW p \in Procs, CheckOwner(p)
        PROVE  TypeOK'
    BY <2>8 DEF CheckOwner, Goto, lockVars, fileVars
  <2>9. ASSUME NEW p \in Procs, RemoveOwner(p)
        PROVE  TypeOK'
    BY <2>9 DEF RemoveOwner, Goto, lockVars, fileVars
  <2>10. ASSUME NEW p \in Procs, RemoveDirectory(p)
        PROVE  TypeOK'
    BY <2>10 DEF RemoveDirectory, Goto, lockVars, fileVars
  <2>11. ASSUME NEW p \in Procs, Crash(p)
        PROVE  TypeOK'
    BY <2>11 DEF Crash, Goto, lockVars, fileVars
  <2>12. CASE Expire
    BY <2>12 DEF Expire, fileVars
  <2>13. CASE UNCHANGED vars
    BY <2>13 DEF vars, lockVars, fileVars
  <2>14. QED
    BY <2>1, <2>2, <2>3, <2>4, <2>5, <2>6, <2>7, <2>8, <2>9, <2>10, <2>11, <2>12, <2>13 DEF Next
<1>3. QED
  BY <1>1, <1>2, PTL DEF Spec

\* A step of any process keeps the directory with its maker.
LEMMA LockStep == TypeOK /\ LockInv /\ [Next]_vars => LockInv'
<1> SUFFICES ASSUME TypeOK, LockInv, [Next]_vars PROVE LockInv'
  OBVIOUS
<1> USE ProcsAreFinite DEF TypeOK, LockInv, Holding, Critical
<1>1. ASSUME NEW p \in Procs, MakeDirectory(p)
      PROVE  LockInv'
  BY <1>1 DEF MakeDirectory, Goto, lockVars, fileVars
<1>2. ASSUME NEW p \in Procs, WriteOwner(p)
      PROVE  LockInv'
  BY <1>2 DEF WriteOwner, Goto, lockVars, fileVars
<1>3. ASSUME NEW p \in Procs, ReadOwner(p)
      PROVE  LockInv'
  BY <1>3 DEF ReadOwner, Goto, lockVars, fileVars
<1>4. ASSUME NEW p \in Procs, Recheck(p)
      PROVE  LockInv'
  BY <1>4 DEF Recheck, Goto, lockVars, fileVars
<1>5. ASSUME NEW p \in Procs, Rename(p)
      PROVE  LockInv'
  <2>1. ~stolen' => ~stolen /\ (Holder = NoProc \/ pc[Holder] \notin Holding)
    BY <1>5 DEF Rename
  <2>2. ~stolen' => \A q \in Procs : pc[q] \notin Holding
    BY <2>1 DEF Holder
  <2>3. \A q \in Procs : pc'[q] \in Holding => pc[q] \in Holding
    BY <1>5 DEF Rename, Goto
  <2>4. QED
    BY <1>5, <2>2, <2>3 DEF Rename
<1>6. ASSUME NEW p \in Procs, Read(p)
      PROVE  LockInv'
  BY <1>6 DEF Read, Goto, lockVars, fileVars
<1>7. ASSUME NEW p \in Procs, Write(p)
      PROVE  LockInv'
  BY <1>7 DEF Write, Goto, lockVars, fileVars
<1>8. ASSUME NEW p \in Procs, CheckOwner(p)
      PROVE  LockInv'
  BY <1>8 DEF CheckOwner, Goto, lockVars, fileVars
<1>9. ASSUME NEW p \in Procs, RemoveOwner(p)
      PROVE  LockInv'
  BY <1>9 DEF RemoveOwner, Goto, lockVars, fileVars
<1>10. ASSUME NEW p \in Procs, RemoveDirectory(p)
      PROVE  LockInv'
  BY <1>10 DEF RemoveDirectory, Goto, lockVars, fileVars
<1>11. ASSUME NEW p \in Procs, Crash(p)
      PROVE  LockInv'
  BY <1>11 DEF Crash, Goto, lockVars, fileVars
<1>12. CASE Expire
  BY <1>12 DEF Expire, fileVars, lockVars
<1>13. CASE UNCHANGED vars
  BY <1>13 DEF vars, lockVars, fileVars
<1>14. QED
  BY <1>1, <1>2, <1>3, <1>4, <1>5, <1>6, <1>7, <1>8, <1>9, <1>10, <1>11, <1>12, <1>13 DEF Next

\* A step of any process keeps the snapshots of those that have yet to write.
LEMMA FileStep == TypeOK /\ LockInv /\ FileInv /\ [Next]_vars => FileInv'
<1> SUFFICES ASSUME TypeOK, LockInv, FileInv, [Next]_vars PROVE FileInv'
  OBVIOUS
<1> USE DEF TypeOK, LockInv, FileInv, Holding, Critical
<1>1. ASSUME NEW p \in Procs, MakeDirectory(p)
      PROVE  FileInv'
  BY <1>1 DEF MakeDirectory, Goto, lockVars, fileVars
<1>2. ASSUME NEW p \in Procs, WriteOwner(p)
      PROVE  FileInv'
  BY <1>2 DEF WriteOwner, Goto, lockVars, fileVars
<1>3. ASSUME NEW p \in Procs, ReadOwner(p)
      PROVE  FileInv'
  BY <1>3 DEF ReadOwner, Goto, lockVars, fileVars
<1>4. ASSUME NEW p \in Procs, Recheck(p)
      PROVE  FileInv'
  BY <1>4 DEF Recheck, Goto, lockVars, fileVars
<1>5. ASSUME NEW p \in Procs, Rename(p)
      PROVE  FileInv'
  BY <1>5 DEF Rename, Goto, lockVars, fileVars
<1>6. ASSUME NEW p \in Procs, Read(p)
      PROVE  FileInv'
  BY <1>6 DEF Read, Goto, lockVars, fileVars
<1>7. ASSUME NEW p \in Procs, Write(p)
      PROVE  FileInv'
  BY <1>7 DEF Write, Goto, lockVars, fileVars
<1>8. ASSUME NEW p \in Procs, CheckOwner(p)
      PROVE  FileInv'
  BY <1>8 DEF CheckOwner, Goto, lockVars, fileVars
<1>9. ASSUME NEW p \in Procs, RemoveOwner(p)
      PROVE  FileInv'
  BY <1>9 DEF RemoveOwner, Goto, lockVars, fileVars
<1>10. ASSUME NEW p \in Procs, RemoveDirectory(p)
      PROVE  FileInv'
  BY <1>10 DEF RemoveDirectory, Goto, lockVars, fileVars
<1>11. ASSUME NEW p \in Procs, Crash(p)
      PROVE  FileInv'
  BY <1>11 DEF Crash, Goto, lockVars, fileVars
<1>12. CASE Expire
  BY <1>12 DEF Expire, fileVars
<1>13. CASE UNCHANGED vars
  BY <1>13 DEF vars, lockVars, fileVars
<1>14. QED
  BY <1>1, <1>2, <1>3, <1>4, <1>5, <1>6, <1>7, <1>8, <1>9, <1>10, <1>11, <1>12, <1>13 DEF Next

\* The inductive invariant.
LEMMA Invariance == Spec => [](TypeOK /\ LockInv /\ FileInv)
<1>1. Init => LockInv /\ FileInv
  BY ProcsAreFinite DEF Init, LockInv, FileInv, Holding, Critical
<1>2. QED
  BY <1>1, TypeInvariant, LockStep, FileStep, PTL DEF Spec

-----------------------------------------------------------------------------
\* Two processes are inside the lock together only after a living holder lost
\* it (acquireFileLock's mkdir and exclusive owner.json).
THEOREM MutualExclusion == Spec => []ExclusiveUnlessStolen
<1>1. LockInv => ExclusiveUnlessStolen
  BY DEF LockInv, ExclusiveUnlessStolen, Holding, Critical
<1>2. QED
  BY <1>1, Invariance, PTL

\* Until then releaseFileLock removes the directory its caller made, although
\* it looks at owner.json first and removes that and the directory in later calls.
THEOREM ReleaseIsSafe == Spec => []ReleasesItsOwn
<1>1. LockInv => ReleasesItsOwn
  BY DEF LockInv, ReleasesItsOwn, Holding
<1>2. QED
  BY <1>1, Invariance, PTL

\* The file behind the lock is a serial file: each transaction of
\* updateJsonState takes effect in one step, on the latest revision, until a
\* lock is stolen.
THEOREM TransactionsAreSerial == Spec => Serial
<1>1. Init => File!Init
  BY DEF Init, File!Init
<1>2. TypeOK /\ LockInv /\ FileInv /\ [Next]_vars => [File!Next]_File!vars
  <2> SUFFICES ASSUME TypeOK, LockInv, FileInv, [Next]_vars PROVE [File!Next]_File!vars
    OBVIOUS
  <2> USE DEF File!vars
  <2>1. ASSUME NEW p \in Procs, MakeDirectory(p)
        PROVE  [File!Next]_File!vars
    BY <2>1 DEF MakeDirectory, Goto, lockVars, fileVars
  <2>2. ASSUME NEW p \in Procs, WriteOwner(p)
        PROVE  [File!Next]_File!vars
    BY <2>2 DEF WriteOwner, Goto, lockVars, fileVars
  <2>3. ASSUME NEW p \in Procs, ReadOwner(p)
        PROVE  [File!Next]_File!vars
    BY <2>3 DEF ReadOwner, Goto, lockVars, fileVars
  <2>4. ASSUME NEW p \in Procs, Recheck(p)
        PROVE  [File!Next]_File!vars
    BY <2>4 DEF Recheck, Goto, lockVars, fileVars
  <2>5. ASSUME NEW p \in Procs, Rename(p)
        PROVE  [File!Next]_File!vars
    BY <2>5 DEF Rename, Goto, lockVars, fileVars, TypeOK, File!Next, File!Break
  <2>6. ASSUME NEW p \in Procs, Read(p)
        PROVE  [File!Next]_File!vars
    BY <2>6 DEF Read, Goto, lockVars, fileVars
  <2>7. ASSUME NEW p \in Procs, Write(p)
        PROVE  [File!Next]_File!vars
    <3>1. pc[p] = "read" /\ p \notin done /\ (~stolen => snapshot[p] = revision)
      BY <2>7 DEF Write, FileInv
    <3>2. snapshot[p] + 1 \in Nat
      BY DEF TypeOK
    <3>3. CASE UNCHANGED <<revision, done>>
      BY <2>7, <3>3 DEF Write
    <3>4. CASE revision' = snapshot[p] + 1 /\ done' = done \cup {p}
      BY <2>7, <3>1, <3>2, <3>4 DEF Write, TypeOK, File!Next, File!Update, File!Overwrite
    <3>5. QED
      BY <2>7, <3>3, <3>4 DEF Write
  <2>8. ASSUME NEW p \in Procs, CheckOwner(p)
        PROVE  [File!Next]_File!vars
    BY <2>8 DEF CheckOwner, Goto, lockVars, fileVars
  <2>9. ASSUME NEW p \in Procs, RemoveOwner(p)
        PROVE  [File!Next]_File!vars
    BY <2>9 DEF RemoveOwner, Goto, lockVars, fileVars
  <2>10. ASSUME NEW p \in Procs, RemoveDirectory(p)
        PROVE  [File!Next]_File!vars
    BY <2>10 DEF RemoveDirectory, Goto, lockVars, fileVars
  <2>11. ASSUME NEW p \in Procs, Crash(p)
        PROVE  [File!Next]_File!vars
    BY <2>11 DEF Crash, Goto, lockVars, fileVars
  <2>12. CASE Expire
    BY <2>12 DEF Expire, fileVars
  <2>13. CASE UNCHANGED vars
    BY <2>13 DEF vars, lockVars, fileVars
  <2>14. QED
    BY <2>1, <2>2, <2>3, <2>4, <2>5, <2>6, <2>7, <2>8, <2>9, <2>10, <2>11, <2>12, <2>13 DEF Next
<1>3. QED
  BY <1>1, <1>2, Invariance, PTL DEF Spec, Serial, File!Spec

\* The revision counts the updates that took effect: none is lost before a lock
\* is stolen.
THEOREM RevisionCountsUpdates == Spec => []NoLostUpdate
<1> DEFINE Counted == IsFiniteSet(done) /\ NoLostUpdate
<1>1. Init => Counted
  BY FS_EmptySet DEF Init, NoLostUpdate
<1>2. TypeOK /\ LockInv /\ FileInv /\ Counted /\ [Next]_vars => Counted'
  <2> SUFFICES ASSUME TypeOK, LockInv, FileInv, Counted, [Next]_vars PROVE Counted'
    OBVIOUS
  <2>1. \A p : p \notin done =>
          IsFiniteSet(done \cup {p}) /\ Cardinality(done \cup {p}) = Cardinality(done) + 1
    BY FS_AddElement
  <2> USE <2>1 DEF NoLostUpdate
  <2>2. ASSUME NEW p \in Procs, MakeDirectory(p)
        PROVE  Counted'
    BY <2>2 DEF MakeDirectory, Goto, lockVars, fileVars
  <2>3. ASSUME NEW p \in Procs, WriteOwner(p)
        PROVE  Counted'
    BY <2>3 DEF WriteOwner, Goto, lockVars, fileVars
  <2>4. ASSUME NEW p \in Procs, ReadOwner(p)
        PROVE  Counted'
    BY <2>4 DEF ReadOwner, Goto, lockVars, fileVars
  <2>5. ASSUME NEW p \in Procs, Recheck(p)
        PROVE  Counted'
    BY <2>5 DEF Recheck, Goto, lockVars, fileVars
  <2>6. ASSUME NEW p \in Procs, Rename(p)
        PROVE  Counted'
    BY <2>6 DEF Rename, Goto, lockVars, fileVars, TypeOK
  <2>7. ASSUME NEW p \in Procs, Read(p)
        PROVE  Counted'
    BY <2>7 DEF Read, Goto, lockVars, fileVars
  <2>8. ASSUME NEW p \in Procs, Write(p)
        PROVE  Counted'
    BY <2>8 DEF Write, Goto, lockVars, fileVars, FileInv, TypeOK
  <2>9. ASSUME NEW p \in Procs, CheckOwner(p)
        PROVE  Counted'
    BY <2>9 DEF CheckOwner, Goto, lockVars, fileVars
  <2>10. ASSUME NEW p \in Procs, RemoveOwner(p)
        PROVE  Counted'
    BY <2>10 DEF RemoveOwner, Goto, lockVars, fileVars
  <2>11. ASSUME NEW p \in Procs, RemoveDirectory(p)
        PROVE  Counted'
    BY <2>11 DEF RemoveDirectory, Goto, lockVars, fileVars
  <2>12. ASSUME NEW p \in Procs, Crash(p)
        PROVE  Counted'
    BY <2>12 DEF Crash, Goto, lockVars, fileVars
  <2>13. CASE Expire
    BY <2>13 DEF Expire, fileVars
  <2>14. CASE UNCHANGED vars
    BY <2>14 DEF vars, lockVars, fileVars
  <2>15. QED
    BY <2>2, <2>3, <2>4, <2>5, <2>6, <2>7, <2>8, <2>9, <2>10, <2>11, <2>12, <2>13, <2>14 DEF Next
<1>3. QED
  BY <1>1, <1>2, Invariance, PTL DEF Spec
=============================================================================
