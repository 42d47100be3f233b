------------------------------ MODULE StoreLockV0 ------------------------------
(***************************************************************************)
(* BunStoreLock (src/src/bun/bun_lock.mjs): the lock file that every command *)
(* on a Carrier v0 store holds while it runs.  The file is created with      *)
(* O_EXCL and then filled with its owner's token and pid; release removes it *)
(* if it still holds that token.  A process that dies leaves it there, and   *)
(* only acquire({ breakStale: true }) removes it, when the recorded process  *)
(* is not alive or the file does not parse.  A step is one file operation.   *)
(*                                                                           *)
(* A file is an inode: a name may come to stand for another one, but no      *)
(* inode is used again while a handle is open on it.  Of the I/O errors only *)
(* those of writing the metadata are considered, and pids are not recycled.  *)
(***************************************************************************)
EXTENDS Naturals

CONSTANTS
  Proc,
  CrashProne,   \* the processes that may die
  FaultProne,   \* the processes whose metadata may fail to be written
  Breaker,      \* the processes that acquire with breakStale
  Inode,
  None

ASSUME LockAssumption ==
  /\ CrashProne \subseteq Proc /\ FaultProne \subseteq Proc /\ Breaker \subseteq Proc
  /\ None \notin Proc /\ None \notin Inode

VARIABLES
  explicit,     \* recovery is an operator's explicit action, on a quiet store
  path,         \* the inode of store.lock, or None
  file,         \* file[i]: who created inode i, and whether its metadata is there
  pc,           \* pc[p]: the next step of p, "idle", "held" or "dead"
  handle        \* handle[p]: the inode of the file p has open, or None

vars == <<explicit, path, file, pc, handle>>

Breaking == {"stale", "judge", "compareDead", "compareMalformed", "break"}
Acquiring == Breaking \cup {"create", "write", "compareOwn", "undo"}
Releasing == {"token", "remove"}
PC == {"idle", "held", "dead"} \cup Acquiring \cup Releasing

Init ==
  /\ explicit \in BOOLEAN
  /\ path = None
  /\ file = [i \in Inode |-> [by |-> None, written |-> FALSE]]
  /\ pc = [p \in Proc |-> "idle"]
  /\ handle = [p \in Proc |-> None]

-------------------------------------------------------------------------------
Goto(p, label) == pc' = [pc EXCEPT ![p] = label]
Opens(p, i) == handle' = [handle EXCEPT ![p] = i]
Closes(p) == Opens(p, None)

Others(p) == Proc \ {p}

Acquire(p) ==
  /\ p \notin Breaker
  /\ pc[p] = "idle"
  /\ explicit => \A q \in Others(p) : pc[q] \notin Breaking
  /\ Goto(p, "create")
  /\ UNCHANGED <<path, file, handle>>

\* acquire({ breakStale: true }), where explicit with nobody else acquiring.
AcquireBreaking(p) ==
  /\ p \in Breaker
  /\ pc[p] = "idle"
  /\ explicit => \A q \in Others(p) : pc[q] \notin Acquiring
  /\ Goto(p, "stale")
  /\ UNCHANGED <<path, file, handle>>

\* removeStaleLockPath opens the file it finds.
OpenStale(p) ==
  /\ pc[p] = "stale"
  /\ IF path = None THEN Goto(p, "create") /\ UNCHANGED handle
                    ELSE Goto(p, "judge") /\ Opens(p, path)
  /\ UNCHANGED <<path, file>>

Alive(p) == pc[p] # "dead"

\* Mutant: a file without metadata is left alone.
JudgeStrictly(p) ==
  /\ pc[p] = "judge"
  /\ IF file[handle[p]].written /\ ~Alive(file[handle[p]].by)
       THEN Goto(p, "compareDead") /\ UNCHANGED handle
       ELSE Goto(p, "create") /\ Closes(p)
  /\ UNCHANGED <<path, file>>

Judge(p) ==
  /\ pc[p] = "judge"
  /\ LET found == file[handle[p]]
     IN IF ~found.written THEN Goto(p, "compareMalformed") /\ UNCHANGED handle
        ELSE IF Alive(found.by) THEN Goto(p, "create") /\ Closes(p)
        ELSE Goto(p, "compareDead") /\ UNCHANGED handle
  /\ UNCHANGED <<path, file>>

\* removeLockPathIfSameFile, up to its removal.  Where the file has gone stat
\* throws, and only the check of a dead owner's file swallows that.
CompareStale(p) ==
  /\ pc[p] \in {"compareDead", "compareMalformed"}
  /\ IF path = handle[p] THEN Goto(p, "break") /\ UNCHANGED handle
     ELSE /\ Goto(p, IF path = None /\ pc[p] = "compareMalformed" THEN "idle" ELSE "create")
          /\ Closes(p)
  /\ UNCHANGED <<path, file>>

\* rm removes what the name now stands for.
BreakStale(p) ==
  /\ pc[p] = "break"
  /\ path' = None
  /\ Goto(p, "create")
  /\ Closes(p)
  /\ UNCHANGED file

InUse(i) == i = path \/ \E p \in Proc : handle[p] = i

\* Mutant: open with 'w'.
CreateOver(p) ==
  /\ pc[p] = "create"
  /\ \E i \in Inode :
       /\ IF path = None THEN ~InUse(i) ELSE i = path
       /\ path' = i
       /\ file' = [file EXCEPT ![i] = [by |-> p, written |-> FALSE]]
       /\ Opens(p, i)
  /\ Goto(p, "write")

\* open with 'wx': EEXIST ends the call.
Create(p) ==
  /\ pc[p] = "create"
  /\ IF path # None THEN Goto(p, "idle") /\ UNCHANGED <<path, file, handle>>
     ELSE /\ \E i \in Inode :
               /\ ~InUse(i)
               /\ path' = i
               /\ file' = [file EXCEPT ![i] = [by |-> p, written |-> FALSE]]
               /\ Opens(p, i)
          /\ Goto(p, "write")

Fills(i) == file' = [file EXCEPT ![i] = [@ EXCEPT !.written = TRUE]]

Write(p) ==
  /\ pc[p] = "write"
  /\ Fills(handle[p])
  /\ Goto(p, "held")
  /\ UNCHANGED <<path, handle>>

\* Mutant: a failed acquire leaves its file.
WriteFailsQuietly(p) ==
  /\ p \in FaultProne
  /\ pc[p] = "write"
  /\ Fills(handle[p]) \/ UNCHANGED file
  /\ Goto(p, "idle")
  /\ Closes(p)
  /\ UNCHANGED path

\* The metadata cannot be written, or not be synced.
WriteFails(p) ==
  /\ p \in FaultProne
  /\ pc[p] = "write"
  /\ Fills(handle[p]) \/ UNCHANGED file
  /\ Goto(p, "compareOwn")
  /\ UNCHANGED <<path, handle>>

\* The failed acquire takes its own file away, and throws.
CompareOwn(p) ==
  /\ pc[p] = "compareOwn"
  /\ IF path = handle[p] THEN Goto(p, "undo") /\ UNCHANGED handle
                         ELSE Goto(p, "idle") /\ Closes(p)
  /\ UNCHANGED <<path, file>>

Undo(p) ==
  /\ pc[p] = "undo"
  /\ path' = None
  /\ Goto(p, "idle")
  /\ Closes(p)
  /\ UNCHANGED file

-------------------------------------------------------------------------------

Release(p) ==
  /\ pc[p] = "held"
  /\ Goto(p, "token")
  /\ Closes(p)
  /\ UNCHANGED <<path, file>>

\* Another's file, or one that does not parse, is left alone.  Of p's own files
\* the name can only stand for the last.
ReadToken(p) ==
  /\ pc[p] = "token"
  /\ Goto(p, IF path # None /\ file[path] = [by |-> p, written |-> TRUE]
               THEN "remove" ELSE "idle")
  /\ UNCHANGED <<path, file, handle>>

Remove(p) ==
  /\ pc[p] = "remove"
  /\ path' = None
  /\ Goto(p, "idle")
  /\ UNCHANGED <<file, handle>>

Die(p) ==
  /\ p \in CrashProne
  /\ pc[p] # "dead"
  /\ Goto(p, "dead")
  /\ Closes(p)
  /\ UNCHANGED <<path, file>>

Continue(p) ==
  \/ OpenStale(p) \/ Judge(p) \/ CompareStale(p) \/ BreakStale(p)
  \/ Create(p) \/ Write(p) \/ WriteFails(p) \/ CompareOwn(p) \/ Undo(p)
  \/ Release(p) \/ ReadToken(p) \/ Remove(p)

Step(p) == Acquire(p) \/ AcquireBreaking(p) \/ Continue(p) \/ Die(p)

Next == (\E p \in Proc : Step(p)) /\ UNCHANGED explicit

Spec == Init /\ [][Next]_vars

\* A process that lives goes on with what it has begun, its command included; one
\* that neither dies nor fails asks for the lock with breakStale again and again.
FairSpec ==
  /\ Spec
  /\ \A p \in Proc : WF_vars(Continue(p) /\ UNCHANGED explicit)
  /\ \A p \in Breaker \ (CrashProne \cup FaultProne) :
       SF_vars(AcquireBreaking(p) /\ UNCHANGED explicit)

-------------------------------------------------------------------------------
\* Every variable has its shape; a file is open in the steps that use it, and
\* closed in all others.
WithHandle == {"judge", "compareDead", "compareMalformed", "break", "write", "compareOwn",
               "undo", "held"}

TypeOK ==
  /\ explicit \in BOOLEAN
  /\ path \in Inode \cup {None}
  /\ file \in [Inode -> [by : Proc \cup {None}, written : BOOLEAN]]
  /\ pc \in [Proc -> PC]
  /\ handle \in [Proc -> Inode \cup {None}]
  /\ \A p \in Proc : handle[p] # None <=> pc[p] \in WithHandle

\* The lock excludes: no two processes hold it, whoever dies, fails or breaks the
\* lock of a dead one, as long as nobody else is acquiring while one breaks it.
OneHolder ==
  explicit => \A p, q \in Proc : pc[p] = "held" /\ pc[q] = "held" => p = q

\* A process that lives and is not using the lock has left no lock file behind,
\* although it may have failed anywhere, and although others may have broken locks
\* at any moment (the removal in acquire's catch, and release's comparison).
SurvivorsLeaveNoLock ==
  \A p \in Proc : pc[p] = "idle" /\ path # None => file[path].by # p

\* The lock of a dead process does not block the store for ever, wherever it died,
\* if one process keeps acquiring with breakStale.
LeftByTheDead == path # None /\ ~Alive(file[path].by)

StaleLockGoes == LeftByTheDead ~> ~LeftByTheDead
===============================================================================
