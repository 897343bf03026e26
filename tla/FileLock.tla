------------------------------ MODULE FileLock ------------------------------
(***************************************************************************)
(* The directory lock around every state file, and the transaction it      *)
(* protects: acquireFileLock, the callback of updateJsonState and          *)
(* releaseFileLock, one file-system call at a time.                        *)
(*                                                                         *)
(* A process makes one acquisition, so its random lock_id is the process.  *)
(* mkdir makes the directory and a second call writes owner.json into it;  *)
(* whoever finds the directory stale renames it away.                      *)
(***************************************************************************)
EXTENDS Naturals, FiniteSets

CONSTANTS
  Procs,
  NoProc,       \* no directory, or no owner.json in it
  MaxCrashes,   \* bound on processes that die
  Stalls        \* may a living process keep the lock past staleAfterMs?

ASSUME ProcsAreFinite == IsFiniteSet(Procs) /\ NoProc \notin Procs
ASSUME BoundsAreNaturals == MaxCrashes \in Nat /\ Stalls \in BOOLEAN

VARIABLES
  maker,        \* who made the directory that is there, or NoProc
  owner,        \* lock_id in its owner.json, or NoProc
  expired,      \* has it outlived expires_at, or its mtime by staleAfterMs?
  pc,           \* where each process is
  seen,         \* the owner it read when it found the directory there
  snapshot,     \* the revision its transaction read
  revision,     \* the revision in the state file
  done,         \* history: the transactions whose write took effect
  stolen        \* history: has a lock been renamed away from a living process?

vars == <<maker, owner, expired, pc, seen, snapshot, revision, done, stolen>>

lockVars == <<maker, owner, expired>>
fileVars == <<snapshot, revision, done>>

\* A process in Holding believes that the directory is its own.
Holding  == {"made", "held", "read", "written", "unlink", "remove"}
Critical == {"held", "read", "written"}
Dead     == {"dead"}
Points   == {"try", "contend", "recheck", "rename", "out", "failed"} \cup Holding \cup Dead

TypeOK ==
  /\ maker \in Procs \cup {NoProc} /\ owner \in Procs \cup {NoProc}
  /\ expired \in BOOLEAN
  /\ pc \in [Procs -> Points]
  /\ seen \in [Procs -> Procs \cup {NoProc}]
  /\ snapshot \in [Procs -> Nat]
  /\ revision \in Nat
  /\ done \in SUBSET Procs
  /\ stolen \in BOOLEAN

Init ==
  /\ maker = NoProc /\ owner = NoProc /\ expired = FALSE
  /\ pc = [p \in Procs |-> "try"]
  /\ seen = [p \in Procs |-> NoProc]
  /\ snapshot = [p \in Procs |-> 0]
  /\ revision = 0 /\ done = {} /\ stolen = FALSE

Goto(p, point) == pc' = [pc EXCEPT ![p] = point]

-----------------------------------------------------------------------------
(* acquireFileLock.                                                        *)

\* Mutant: the directory is created if it is missing, not created exclusively.
MakeDirectory_NotExclusive(p) ==
  /\ pc[p] = "try"
  /\ Goto(p, "made")
  /\ IF maker = NoProc THEN maker' = p /\ owner' = NoProc /\ expired' = FALSE ELSE UNCHANGED lockVars
  /\ UNCHANGED <<seen, fileVars, stolen>>

MakeDirectory(p) ==
  /\ pc[p] = "try"
  /\ IF maker = NoProc
       THEN /\ maker' = p /\ owner' = NoProc /\ expired' = FALSE
            /\ Goto(p, "made")
       ELSE Goto(p, "contend") /\ UNCHANGED lockVars
  /\ UNCHANGED <<seen, fileVars, stolen>>

\* The exclusive write of owner.json: it finds the directory without one, or
\* with one (EEXIST), or gone (ENOENT).
WriteOwner(p) ==
  /\ pc[p] = "made"
  /\ \/ /\ maker # NoProc /\ owner = NoProc
        /\ owner' = p /\ expired' = FALSE
        /\ Goto(p, "held")
        /\ UNCHANGED maker
     \/ /\ maker # NoProc /\ owner # NoProc
        /\ Goto(p, "contend")
        /\ UNCHANGED lockVars
     \/ /\ maker = NoProc
        /\ Goto(p, "failed")
        /\ UNCHANGED lockVars
  /\ UNCHANGED <<seen, fileVars, stolen>>

IsDead(q) == q # NoProc /\ pc[q] \in Dead

\* The waiter reads the owner.  A stale directory is checked again; otherwise it
\* tries once more or, after its timeout, gives up.
ReadOwner(p) ==
  /\ pc[p] = "contend"
  /\ seen' = [seen EXCEPT ![p] = owner]
  /\ \/ maker = NoProc /\ Goto(p, "try")
     \/ /\ maker # NoProc
        /\ IF IsDead(owner) \/ expired
             THEN Goto(p, "recheck")
             ELSE Goto(p, "try") \/ Goto(p, "failed")
  /\ UNCHANGED <<lockVars, fileVars, stolen>>

\* The owner is read again: it must be the same one and still stale.
Recheck(p) ==
  /\ pc[p] = "recheck"
  /\ IF (seen[p] # NoProc => owner = seen[p]) /\ (IsDead(owner) \/ expired \/ owner = NoProc)
       THEN Goto(p, "rename")
       ELSE Goto(p, "try")
  /\ UNCHANGED <<lockVars, seen, fileVars, stolen>>

\* Whose directory is there: its owner's or, without owner.json, its maker's.
Holder == IF owner # NoProc THEN owner ELSE maker

\* The directory that is there now is renamed away; ENOENT is ignored.
Rename(p) ==
  /\ pc[p] = "rename"
  /\ maker' = NoProc /\ owner' = NoProc /\ expired' = FALSE
  /\ stolen' = (stolen \/ (Holder # NoProc /\ pc[Holder] \in Holding))
  /\ Goto(p, "try") \/ (maker = NoProc /\ Goto(p, "failed"))
  /\ UNCHANGED <<seen, fileVars>>

-----------------------------------------------------------------------------
(* The transaction of updateJsonState, and releaseFileLock.                *)

\* Mutant: a file without a revision counts as one before the first.
Read_FromBelow(p) ==
  /\ pc[p] = "held"
  /\ snapshot' = [snapshot EXCEPT ![p] = revision - 1]
  /\ Goto(p, "read")
  /\ UNCHANGED <<lockVars, seen, revision, done, stolen>>

\* Mutant: the file is read before the lock is there.
Read_Outside(p) ==
  /\ pc[p] \in {"contend", "held"}
  /\ IF pc[p] = "held"
       THEN Goto(p, "read") /\ UNCHANGED snapshot
       ELSE snapshot' = [snapshot EXCEPT ![p] = revision] /\ UNCHANGED pc
  /\ UNCHANGED <<lockVars, seen, revision, done, stolen>>

Read(p) ==
  /\ pc[p] = "held"
  /\ snapshot' = [snapshot EXCEPT ![p] = revision]
  /\ Goto(p, "read")
  /\ UNCHANGED <<lockVars, seen, revision, done, stolen>>

\* The document with the next revision is written beside the file and renamed
\* over it; or the transaction throws before that.
Write(p) ==
  /\ pc[p] = "read"
  /\ \/ revision' = snapshot[p] + 1 /\ done' = done \cup {p}
     \/ UNCHANGED <<revision, done>>
  /\ Goto(p, "written")
  /\ UNCHANGED <<lockVars, seen, snapshot, stolen>>

\* The release reads owner.json and throws when it names someone else.
CheckOwner(p) ==
  /\ pc[p] = "written"
  /\ Goto(p, IF owner = p THEN "unlink" ELSE "failed")
  /\ UNCHANGED <<lockVars, seen, fileVars, stolen>>

\* It empties the directory that is there by then ...
RemoveOwner(p) ==
  /\ pc[p] = "unlink"
  /\ Goto(p, "remove")
  /\ owner' = NoProc /\ expired' = FALSE
  /\ UNCHANGED <<maker, seen, fileVars, stolen>>

\* Mutant: the lock is given up before the write.
RemoveDirectory_BeforeWrite(p) ==
  /\ pc[p] \in {"read", "remove"}
  /\ IF pc[p] = "remove" THEN Goto(p, "out") ELSE UNCHANGED pc
  /\ maker' = NoProc /\ owner' = NoProc /\ expired' = FALSE
  /\ UNCHANGED <<seen, fileVars, stolen>>

\* ... and removes it.  One with an owner.json again may be emptied once more or
\* make the release throw.
RemoveDirectory(p) ==
  /\ pc[p] = "remove"
  /\ \/ /\ maker' = NoProc /\ owner' = NoProc /\ expired' = FALSE
        /\ Goto(p, "out")
     \/ /\ owner # NoProc /\ UNCHANGED lockVars
        /\ Goto(p, "failed")
  /\ UNCHANGED <<seen, fileVars, stolen>>

-----------------------------------------------------------------------------
Crash(p) ==
  /\ pc[p] \in Holding \cup {"contend", "recheck", "rename"}
  /\ Cardinality({q \in Procs : pc[q] \in Dead}) < MaxCrashes
  /\ Goto(p, "dead")
  /\ UNCHANGED <<lockVars, seen, fileVars, stolen>>

\* A directory whose maker died before it wrote owner.json is only reclaimed by
\* its age, and so is, if it stalls, that of a living process.
Expire ==
  /\ maker # NoProc /\ ~expired
  /\ Stalls \/ pc[Holder] \notin Holding
  /\ expired' = TRUE
  /\ UNCHANGED <<maker, owner, pc, seen, fileVars, stolen>>

Next ==
  \/ \E p \in Procs :
       \/ MakeDirectory(p) \/ WriteOwner(p) \/ ReadOwner(p) \/ Recheck(p) \/ Rename(p)
       \/ Read(p) \/ Write(p) \/ CheckOwner(p)
       \/ RemoveOwner(p) \/ RemoveDirectory(p)
       \/ Crash(p)
  \/ Expire

Spec == Init /\ [][Next]_vars

-----------------------------------------------------------------------------
(* What the lock promises.                                                 *)

\* Two processes are inside the lock at once only after one of them lost it
\* while it was at work: neither the two steps of an acquisition nor those of a
\* release let anybody in (mkdir is exclusive).
ExclusiveUnlessStolen ==
  ~stolen => \A p, q \in Procs : pc[p] \in Critical /\ pc[q] \in Critical => p = q

\* Until then no update is lost: the revision counts the writes, also those of
\* processes that died or failed after them (updateJsonState).
NoLostUpdate == ~stolen => revision = Cardinality(done)

\* Until then a release takes away nobody else's lock, although it reads and
\* removes owner.json before it removes the directory.
ReleasesItsOwn ==
  ~stolen => \A p \in Procs :
               /\ pc[p] = "unlink" => maker = p /\ owner = p
               /\ pc[p] = "remove" => maker = p /\ owner = NoProc

\* The transactions take effect one after the other.
File == INSTANCE SerialFile WITH broken <- stolen
Serial == File!Spec

\* "a lock released and reacquired between checks cannot be stolen by a waiter".
NeverStolen == ~stolen
=============================================================================
