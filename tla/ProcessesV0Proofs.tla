---------------------------- MODULE ProcessesV0Proofs ----------------------------
(***************************************************************************)
(* The two components of Carrier v0 that deal with the deaths of processes. *)
(*                                                                         *)
(* The store's lock (StoreLockV0), for any number of processes and inodes:  *)
(* types, exclusion, and that a failed call leaves nothing behind.          *)
(*                                                                         *)
(* The call of a sidecar (CapabilitySidecarV0): who may answer it, and that *)
(* no child is left behind.  Its invariant says which step gave the outcome,*)
(* that nothing a settled call was decided by changes any more, and that    *)
(* the terminal error, the deadline and the limits tell of each other.      *)
(***************************************************************************)
EXTENDS StoreLockV0, CapabilitySidecarV0, SequenceTheorems, TLAPS

\* The steps of p in which its open file is the one it created.
OwnSteps == {"write", "compareOwn", "undo", "held"}

Dead(i) == pc[file[i].by] = "dead"

\* An open file was created by a process; a holder's has its metadata.
HandleKnows(p) ==
  /\ handle[p] # None => file[handle[p]].by \in Proc
  /\ pc[p] \in OwnSteps => file[handle[p]].by = p
  /\ pc[p] = "held" => file[handle[p]].written

HandlesKnow == \A p \in Proc : HandleKnows(p)

\* What the creator of the lock file may be doing.
PathOwned ==
  path # None =>
    /\ file[path].by \in Proc
    /\ \/ pc[file[path].by] \in OwnSteps /\ handle[file[path].by] = path
       \/ pc[file[path].by] \in Releasing /\ file[path].written
       \/ Dead(path)

\* On a store where recovery is explicit: who has a file of its own has the lock,
\* and nobody acquires while another breaks a lock, which is then a dead one's.
ProcOrderly(p) ==
  /\ pc[p] \in OwnSteps => path = handle[p]
  /\ pc[p] = "remove" => path # None /\ file[path].by = p
  /\ pc[p] \in Breaking => \A q \in Others(p) : pc[q] \notin Acquiring
  /\ pc[p] = "judge" => file[handle[p]].written \/ Dead(handle[p])
  /\ pc[p] \in {"compareDead", "compareMalformed", "break"} => Dead(handle[p])
  /\ pc[p] = "break" => path = handle[p]

Orderly == explicit => \A p \in Proc : ProcOrderly(p)

Inv == TypeOK /\ HandlesKnow /\ PathOwned /\ Orderly

LEMMA InitInv == Init => Inv
BY LockAssumption
   DEF Init, Inv, TypeOK, HandlesKnow, HandleKnows, PathOwned, Orderly, ProcOrderly,
       OwnSteps, WithHandle, PC, Acquiring, Breaking, Releasing

\* What the four parts say of one process.
LEMMA Known ==
  ASSUME Inv, NEW p \in Proc
  PROVE  /\ pc[p] \in PC /\ handle[p] \in Inode \cup {None}
         /\ handle[p] # None <=> pc[p] \in WithHandle
         /\ HandleKnows(p)
         /\ explicit => ProcOrderly(p)
BY DEF Inv, TypeOK, HandlesKnow, Orderly

-------------------------------------------------------------------------------
\* A step of p that changes neither the name nor any file.
Quiet(p, label, h) ==
  /\ pc' = [pc EXCEPT ![p] = label]
  /\ handle' = [handle EXCEPT ![p] = h]
  /\ UNCHANGED <<path, file, explicit>>

LEMMA QuietStep ==
  ASSUME Inv, NEW p \in Proc, NEW label \in PC, NEW h \in Inode \cup {None},
         Quiet(p, label, h),
         h # None <=> label \in WithHandle,
         pc[p] # "dead",
         HandleKnows(p)',
         path # None /\ file[path].by = p =>
           \/ label \in OwnSteps /\ h = path
           \/ label \in Releasing /\ file[path].written
           \/ label = "dead",
         explicit => ProcOrderly(p)',
         label \in Acquiring =>
           pc[p] \in Acquiring \/ (explicit => \A q \in Others(p) : pc[q] \notin Breaking)
  PROVE  Inv'
<1>1. /\ pc'[p] = label /\ handle'[p] = h
      /\ \A q \in Proc \ {p} : pc'[q] = pc[q] /\ handle'[q] = handle[q]
  BY DEF Quiet, Inv, TypeOK
<1>2. TypeOK'
  BY <1>1 DEF Quiet, Inv, TypeOK
<1>3. HandlesKnow'
  BY <1>1 DEF Quiet, Inv, HandlesKnow, HandleKnows
<1>4. PathOwned'
  BY <1>1 DEF Quiet, Inv, PathOwned, Dead
<1>5. Orderly'
  <2> SUFFICES ASSUME explicit, NEW q \in Proc \ {p} PROVE ProcOrderly(q)'
    BY DEF Orderly, Quiet
  <2>1. ProcOrderly(q)
    BY Known
  <2>2. handle[q] # None => file[handle[q]].by \in Proc
    BY Known DEF HandleKnows
  <2>3. handle[q] # None /\ Dead(handle[q]) => Dead(handle[q])'
    BY <1>1, <2>2 DEF Dead, Quiet
  <2>4. pc[q] \in {"judge", "compareDead", "compareMalformed", "break"} => handle[q] # None
    BY Known DEF WithHandle
  <2>5. pc[q] \in Breaking => label \notin Acquiring
    BY <2>1 DEF ProcOrderly, Others
  <2>6. pc'[q] \in Breaking => \A r \in Others(q) : pc'[r] \notin Acquiring
    BY <1>1, <2>1, <2>5 DEF ProcOrderly, Others
  <2> QED
    BY <1>1, <2>1, <2>3, <2>4, <2>6 DEF ProcOrderly, Quiet, Dead
<1> QED
  BY <1>2, <1>3, <1>4, <1>5 DEF Inv

LEMMA AcquireInv ==
  ASSUME Inv, NEW p \in Proc, Acquire(p) \/ AcquireBreaking(p), UNCHANGED explicit
  PROVE  Inv'
<1>1. handle[p] = None /\ [handle EXCEPT ![p] = None] = handle
  BY Known DEF Acquire, AcquireBreaking, WithHandle, Inv, TypeOK
<1>2. path # None => file[path].by # p
  BY Known, <1>1 DEF Inv, PathOwned, Dead, Acquire, AcquireBreaking, OwnSteps, Releasing
<1>3. CASE Acquire(p)
  <2>1. Quiet(p, "create", None)
    BY <1>1, <1>3 DEF Acquire, Quiet, Goto
  <2>2. pc'[p] = "create" /\ handle'[p] = None
    BY <2>1 DEF Quiet, Inv, TypeOK
  <2>3. HandleKnows(p)' /\ ProcOrderly(p)'
    BY <2>2 DEF HandleKnows, ProcOrderly, OwnSteps, Breaking
  <2> QED
    BY <1>2, <1>3, <2>1, <2>3, QuietStep DEF Acquire, PC, Acquiring, WithHandle
<1>4. CASE AcquireBreaking(p)
  <2>1. Quiet(p, "stale", None)
    BY <1>1, <1>4 DEF AcquireBreaking, Quiet, Goto
  <2>2. /\ pc'[p] = "stale" /\ handle'[p] = None
        /\ \A q \in Others(p) : pc'[q] = pc[q]
    BY <2>1 DEF Quiet, Inv, TypeOK, Others
  <2>3. HandleKnows(p)' /\ (explicit => ProcOrderly(p)')
    BY <1>4, <2>2 DEF AcquireBreaking, HandleKnows, ProcOrderly, OwnSteps, Others
  <2> QED
    BY <1>2, <1>4, <2>1, <2>3, QuietStep
    DEF AcquireBreaking, PC, Acquiring, Breaking, WithHandle
<1> QED
  BY <1>3, <1>4

\* Who breaks a lock has no file of its own there.
LEMMA BreakerOwnsNothing ==
  ASSUME Inv, NEW p \in Proc, pc[p] \in Breaking \cup {"create"}
  PROVE  path # None => file[path].by # p
BY DEF Inv, PathOwned, Dead, OwnSteps, Releasing, Breaking

\* A breaker stays in the order it is in, wherever it goes on to.
LEMMA BreakerQuiet ==
  ASSUME Inv, NEW p \in Proc, NEW label \in Breaking \cup {"create", "idle"},
         NEW h \in Inode \cup {None}, Quiet(p, label, h), pc[p] \in Breaking,
         h # None <=> label \in WithHandle,
         h # None => file[h].by \in Proc,
         explicit => /\ label = "judge" => file[h].written \/ Dead(h)
                     /\ label \in {"compareDead", "compareMalformed", "break"} => Dead(h)
                     /\ label = "break" => path = h
  PROVE  Inv'
<1>1. /\ pc'[p] = label /\ handle'[p] = h
      /\ \A q \in Proc \ {p} : pc'[q] = pc[q]
  BY DEF Quiet, Inv, TypeOK
<1>2. HandleKnows(p)'
  BY <1>1 DEF HandleKnows, Quiet, OwnSteps, Breaking
<1>3. ASSUME explicit PROVE ProcOrderly(p)'
  <2>1. \A q \in Others(p) : pc'[q] \notin Acquiring
    BY <1>1, <1>3, Known DEF ProcOrderly, Others
  <2>2. ASSUME h # None, Dead(h) PROVE Dead(h)'
    BY <1>1, <2>2 DEF Quiet, Dead, Breaking
  <2> QED
    BY <1>1, <1>3, <2>1, <2>2 DEF ProcOrderly, Quiet, OwnSteps, Breaking, WithHandle
<1> QED
  BY <1>2, <1>3, BreakerOwnsNothing, QuietStep DEF PC, Acquiring, Breaking

LEMMA OpenStaleInv ==
  ASSUME Inv, NEW p \in Proc, OpenStale(p), UNCHANGED explicit
  PROVE  Inv'
<1>1. pc[p] \in Breaking /\ handle[p] = None /\ [handle EXCEPT ![p] = None] = handle
  BY Known DEF OpenStale, Breaking, WithHandle, Inv, TypeOK
<1>2. CASE path = None
  <2>1. Quiet(p, "create", None)
    BY <1>1, <1>2 DEF OpenStale, Quiet, Goto
  <2> QED
    BY <1>1, <2>1, BreakerQuiet DEF WithHandle
<1>3. CASE path # None
  <2>1. Quiet(p, "judge", path) /\ path \in Inode
    BY <1>3 DEF OpenStale, Quiet, Goto, Opens, Inv, TypeOK
  <2>2. file[path].by \in Proc /\ file[path].by # p
    BY <1>1, <1>3, BreakerOwnsNothing DEF Inv, PathOwned
  <2>3. ASSUME explicit PROVE file[path].written \/ Dead(path)
    <3> DEFINE q == file[path].by
    <3>1. pc[q] \notin Acquiring
      BY <1>1, <2>2, <2>3, Known DEF ProcOrderly, Others
    <3>2. pc[q] = "held" /\ handle[q] = path => file[path].written
      BY <2>2, Known DEF HandleKnows
    <3> QED
      BY <1>3, <3>1, <3>2 DEF Inv, PathOwned, OwnSteps, Acquiring
  <2> QED
    BY <1>1, <2>1, <2>2, <2>3, BreakerQuiet, LockAssumption DEF Breaking, WithHandle
<1> QED
  BY <1>2, <1>3

LEMMA JudgeInv ==
  ASSUME Inv, NEW p \in Proc, Judge(p), UNCHANGED explicit
  PROVE  Inv'
<1> DEFINE i == handle[p]
<1>1. pc[p] = "judge" /\ pc[p] \in Breaking /\ i \in Inode /\ i # None
  BY Known DEF Judge, Breaking, WithHandle
<1>2. file[i].by \in Proc /\ [handle EXCEPT ![p] = i] = handle
  BY <1>1, Known DEF HandleKnows, Inv, TypeOK
<1>3. explicit => file[i].written \/ Dead(i)
  BY <1>1, Known DEF ProcOrderly
<1>5. CASE ~file[i].written
  <2>1. Quiet(p, "compareMalformed", i)
    BY <1>2, <1>5 DEF Judge, Quiet, Goto
  <2> QED
    BY <1>1, <1>2, <1>3, <1>5, <2>1, BreakerQuiet DEF Breaking, WithHandle
<1>6. CASE file[i].written /\ Alive(file[i].by)
  <2>1. Quiet(p, "create", None)
    BY <1>6 DEF Judge, Quiet, Goto, Closes, Opens
  <2> QED
    BY <1>1, <2>1, BreakerQuiet DEF WithHandle
<1>7. CASE file[i].written /\ ~Alive(file[i].by)
  <2>1. Quiet(p, "compareDead", i)
    BY <1>2, <1>7 DEF Judge, Quiet, Goto
  <2> QED
    BY <1>1, <1>2, <1>7, <2>1, BreakerQuiet DEF Breaking, WithHandle, Alive, Dead
<1> QED
  BY <1>5, <1>6, <1>7

LEMMA CompareStaleInv ==
  ASSUME Inv, NEW p \in Proc, CompareStale(p), UNCHANGED explicit
  PROVE  Inv'
<1> DEFINE i == handle[p]
<1>1. /\ pc[p] \in {"compareDead", "compareMalformed"} /\ pc[p] \in Breaking
      /\ i \in Inode /\ i # None
  BY Known DEF CompareStale, Breaking, WithHandle
<1>2. file[i].by \in Proc /\ [handle EXCEPT ![p] = i] = handle
  BY <1>1, Known DEF HandleKnows, Inv, TypeOK
<1>3. explicit => Dead(i)
  BY <1>1, Known DEF ProcOrderly
<1>4. CASE path = i
  <2>1. Quiet(p, "break", i)
    BY <1>2, <1>4 DEF CompareStale, Quiet, Goto
  <2> QED
    BY <1>1, <1>2, <1>3, <1>4, <2>1, BreakerQuiet DEF Breaking, WithHandle
<1>5. CASE path # i
  <2>1. \E label \in {"create", "idle"} : Quiet(p, label, None)
    BY <1>5 DEF CompareStale, Quiet, Goto, Closes, Opens
  <2> QED
    BY <1>1, <2>1, BreakerQuiet DEF WithHandle
<1> QED
  BY <1>4, <1>5

LEMMA CompareOwnInv ==
  ASSUME Inv, NEW p \in Proc, CompareOwn(p), UNCHANGED explicit
  PROVE  Inv'
<1> DEFINE i == handle[p]
<1>1. pc[p] = "compareOwn" /\ i \in Inode /\ i # None
  BY Known DEF CompareOwn, WithHandle
<1>2. file[i].by = p /\ [handle EXCEPT ![p] = i] = handle
  BY <1>1, Known DEF HandleKnows, OwnSteps, Inv, TypeOK
<1>3. explicit => path = i
  BY <1>1, Known DEF ProcOrderly, OwnSteps
<1>4. CASE path = i
  <2>1. Quiet(p, "undo", i) /\ pc'[p] = "undo" /\ handle'[p] = i
    BY <1>2, <1>4 DEF CompareOwn, Quiet, Goto, Inv, TypeOK
  <2>2. HandleKnows(p)' /\ ProcOrderly(p)'
    BY <1>2, <1>4, <2>1, LockAssumption DEF Quiet, HandleKnows, ProcOrderly, Breaking
  <2> QED
    BY <1>1, <1>4, <2>1, <2>2, QuietStep DEF PC, OwnSteps, Acquiring, WithHandle
<1>5. CASE path # i
  <2>1. Quiet(p, "idle", None) /\ pc'[p] = "idle" /\ handle'[p] = None
    BY <1>5 DEF CompareOwn, Quiet, Goto, Closes, Opens, Inv, TypeOK
  <2>2. HandleKnows(p)' /\ ProcOrderly(p)'
    BY <2>1 DEF HandleKnows, ProcOrderly, OwnSteps, Breaking
  <2>3. path # None => file[path].by # p
    BY <1>1, <1>5 DEF Inv, PathOwned, Dead, Releasing
  <2> QED
    BY <1>1, <2>1, <2>2, <2>3, QuietStep DEF PC, Acquiring, Breaking, WithHandle
<1> QED
  BY <1>4, <1>5

LEMMA ReleaseInv ==
  ASSUME Inv, NEW p \in Proc, Release(p), UNCHANGED explicit
  PROVE  Inv'
<1>1. pc[p] = "held" /\ handle[p] # None
  BY Known DEF Release, WithHandle
<1>2. file[handle[p]].written
  BY <1>1, Known DEF HandleKnows
<1>3. Quiet(p, "token", None) /\ pc'[p] = "token" /\ handle'[p] = None
  BY DEF Release, Quiet, Goto, Closes, Opens, Inv, TypeOK
<1>4. HandleKnows(p)' /\ ProcOrderly(p)'
  BY <1>3 DEF HandleKnows, ProcOrderly, OwnSteps, Breaking
<1>5. path # None /\ file[path].by = p => file[path].written
  BY <1>1, <1>2 DEF Inv, PathOwned, Dead, Releasing
<1> QED
  BY <1>1, <1>3, <1>4, <1>5, QuietStep DEF PC, Acquiring, Breaking, Releasing, WithHandle

LEMMA ReadTokenInv ==
  ASSUME Inv, NEW p \in Proc, ReadToken(p), UNCHANGED explicit
  PROVE  Inv'
<1>1. pc[p] = "token" /\ handle[p] = None /\ [handle EXCEPT ![p] = None] = handle
  BY Known DEF ReadToken, WithHandle, Inv, TypeOK
<1>2. path # None => file[path] = [by |-> file[path].by, written |-> file[path].written]
  BY DEF Inv, TypeOK
<1>3. path # None /\ file[path].by = p => file[path].written
  BY <1>1 DEF Inv, PathOwned, Dead, OwnSteps
<1>4. CASE path # None /\ file[path] = [by |-> p, written |-> TRUE]
  <2>1. Quiet(p, "remove", None) /\ pc'[p] = "remove" /\ handle'[p] = None
    BY <1>1, <1>4 DEF ReadToken, Quiet, Goto, Inv, TypeOK
  <2>2. HandleKnows(p)' /\ ProcOrderly(p)'
    BY <1>4, <2>1 DEF Quiet, HandleKnows, ProcOrderly, OwnSteps, Breaking
  <2> QED
    BY <1>1, <1>3, <2>1, <2>2, QuietStep DEF PC, Acquiring, Breaking, Releasing, WithHandle
<1>5. CASE ~(path # None /\ file[path] = [by |-> p, written |-> TRUE])
  <2>1. Quiet(p, "idle", None) /\ pc'[p] = "idle" /\ handle'[p] = None
    BY <1>1, <1>5 DEF ReadToken, Quiet, Goto, Inv, TypeOK
  <2>2. HandleKnows(p)' /\ ProcOrderly(p)'
    BY <2>1 DEF HandleKnows, ProcOrderly, OwnSteps, Breaking
  <2>3. path # None => file[path].by # p
    BY <1>2, <1>3, <1>5 DEF Inv, TypeOK
  <2> QED
    BY <1>1, <2>1, <2>2, <2>3, QuietStep DEF PC, Acquiring, Breaking, WithHandle
<1> QED
  BY <1>4, <1>5

LEMMA DieInv ==
  ASSUME Inv, NEW p \in Proc, Die(p), UNCHANGED explicit
  PROVE  Inv'
<1>1. Quiet(p, "dead", None) /\ pc'[p] = "dead" /\ handle'[p] = None /\ pc[p] # "dead"
  BY DEF Die, Quiet, Goto, Closes, Opens, Inv, TypeOK
<1>2. HandleKnows(p)' /\ ProcOrderly(p)'
  BY <1>1 DEF HandleKnows, ProcOrderly, OwnSteps, Breaking
<1> QED
  BY <1>1, <1>2, QuietStep DEF PC, Acquiring, Breaking, WithHandle

-------------------------------------------------------------------------------
\* A removal of the name by p, after which p is idle or about to create: on an
\* orderly store it was not the file of another that lives.
RemovesOwn(p) ==
  \A q \in Proc \ {p} : ~(pc[q] \in OwnSteps /\ handle[q] = path)
                        /\ ~(pc[q] = "remove" /\ path # None /\ file[path].by = q)

LEMMA RemovalStep ==
  ASSUME Inv, NEW p \in Proc, NEW label \in {"idle", "create"},
         pc' = [pc EXCEPT ![p] = label],
         handle' = [handle EXCEPT ![p] = None],
         path' = None, UNCHANGED <<file, explicit>>,
         pc[p] # "dead", label = "create" => pc[p] \in Acquiring,
         explicit => RemovesOwn(p) /\ path # None /\ (pc[p] \notin Breaking => file[path].by = p)
  PROVE  Inv'
<1>1. /\ pc'[p] = label /\ handle'[p] = None
      /\ \A q \in Proc \ {p} : pc'[q] = pc[q] /\ handle'[q] = handle[q]
  BY DEF Inv, TypeOK
<1>2. TypeOK'
  BY <1>1 DEF Inv, TypeOK, PC, Acquiring, Breaking, WithHandle
<1>3. HandlesKnow'
  BY <1>1 DEF Inv, HandlesKnow, HandleKnows, OwnSteps
<1>4. PathOwned'
  BY DEF PathOwned
<1>5. ASSUME explicit, NEW q \in Proc PROVE ProcOrderly(q)'
  <2>1. CASE q = p
    BY <1>1, <2>1 DEF ProcOrderly, OwnSteps, Breaking
  <2>2. CASE q # p
    <3>1. ProcOrderly(q)
      BY <1>5, Known
    <3>2. pc[q] \notin OwnSteps /\ pc[q] # "remove"
      BY <1>5, <2>2, <3>1 DEF RemovesOwn, ProcOrderly
    <3>3. pc[q] \in Breaking => label \notin Acquiring /\ pc[p] \notin Acquiring
      BY <2>2, <3>1 DEF ProcOrderly, Others, Acquiring, Breaking
    <3>4. pc'[q] \in Breaking => \A r \in Others(q) : pc'[r] \notin Acquiring
      BY <1>1, <2>2, <3>1, <3>3 DEF ProcOrderly, Others
    <3>5. pc[q] \in {"judge", "compareDead", "compareMalformed", "break"} =>
            handle[q] # None /\ file[handle[q]].by \in Proc
      BY Known DEF WithHandle, HandleKnows
    <3>6. handle[q] # None /\ file[handle[q]].by \in Proc /\ Dead(handle[q])
            => Dead(handle[q])'
      BY <1>1, <2>2 DEF Dead
    <3>7. pc[q] = "break" => FALSE
      <4>1. pc[q] = "break" => Dead(path) /\ pc[p] \notin Breaking
        BY <3>1, <3>3 DEF ProcOrderly, Acquiring, Breaking
      <4> QED
        BY <1>5, <4>1 DEF Dead
    <3> QED
      BY <1>1, <2>2, <3>1, <3>2, <3>4, <3>5, <3>6, <3>7 DEF ProcOrderly
  <2> QED
    BY <2>1, <2>2
<1> QED
  BY <1>2, <1>3, <1>4, <1>5 DEF Inv, Orderly

LEMMA BreakStaleInv ==
  ASSUME Inv, NEW p \in Proc, BreakStale(p), UNCHANGED explicit
  PROVE  Inv'
<1>1. pc[p] = "break" /\ pc[p] \in Breaking /\ pc[p] \in Acquiring
  BY DEF BreakStale, Breaking, Acquiring
<1>2. ASSUME explicit PROVE RemovesOwn(p) /\ path # None
  <2>1. path = handle[p] /\ path # None /\ Dead(path)
    BY <1>1, <1>2, Known DEF ProcOrderly, WithHandle
  <2> SUFFICES ASSUME NEW q \in Proc \ {p}
               PROVE  /\ ~(pc[q] \in OwnSteps /\ handle[q] = path)
                      /\ ~(pc[q] = "remove" /\ file[path].by = q)
    BY <2>1 DEF RemovesOwn
  <2>2. pc[q] \in OwnSteps /\ handle[q] = path => file[path].by = q
    BY Known DEF HandleKnows
  <2> QED
    BY <2>1, <2>2 DEF Dead, OwnSteps
<1> QED
  BY <1>1, <1>2, RemovalStep DEF BreakStale, Goto, Closes, Opens

\* The file of one who lives is no other's.
LEMMA OwnRemoval ==
  ASSUME Inv, NEW p \in Proc, path # None, file[path].by = p
  PROVE  RemovesOwn(p)
<1> SUFFICES ASSUME NEW q \in Proc \ {p}, pc[q] \in OwnSteps, handle[q] = path PROVE FALSE
  BY DEF RemovesOwn
<1> QED
  BY Known DEF HandleKnows

LEMMA UndoInv ==
  ASSUME Inv, NEW p \in Proc, Undo(p), UNCHANGED explicit
  PROVE  Inv'
<1>1. pc[p] = "undo" /\ handle[p] # None /\ file[handle[p]].by = p
  BY Known DEF Undo, WithHandle, HandleKnows, OwnSteps
<1>2. explicit => path = handle[p]
  BY <1>1, Known DEF ProcOrderly, OwnSteps
<1> QED
  BY <1>1, <1>2, OwnRemoval, RemovalStep DEF Undo, Goto, Closes, Opens

LEMMA RemoveInv ==
  ASSUME Inv, NEW p \in Proc, Remove(p), UNCHANGED explicit
  PROVE  Inv'
<1>1. pc[p] = "remove" /\ handle' = [handle EXCEPT ![p] = None]
  BY Known DEF Remove, WithHandle, Inv, TypeOK
<1>2. explicit => path # None /\ file[path].by = p
  BY <1>1, Known DEF ProcOrderly
<1> QED
  BY <1>1, <1>2, OwnRemoval, RemovalStep DEF Remove, Goto

-------------------------------------------------------------------------------
LEMMA CreateInv ==
  ASSUME Inv, NEW p \in Proc, Create(p), UNCHANGED explicit
  PROVE  Inv'
<1>1. pc[p] = "create" /\ handle[p] = None
  BY Known DEF Create, WithHandle
<1>2. CASE path # None
  <2>1. Quiet(p, "idle", None) /\ pc'[p] = "idle" /\ handle'[p] = None
    BY <1>1, <1>2 DEF Create, Quiet, Goto, Inv, TypeOK
  <2>2. HandleKnows(p)' /\ ProcOrderly(p)'
    BY <2>1 DEF HandleKnows, ProcOrderly, OwnSteps, Breaking
  <2>3. path # None => file[path].by # p
    BY <1>1, BreakerOwnsNothing
  <2> QED
    BY <1>1, <2>1, <2>2, <2>3, QuietStep DEF PC, Acquiring, Breaking, WithHandle
<1>3. CASE path = None
  <2>1. PICK i \in Inode :
          /\ ~InUse(i)
          /\ path' = i
          /\ file' = [file EXCEPT ![i] = [by |-> p, written |-> FALSE]]
          /\ handle' = [handle EXCEPT ![p] = i]
          /\ pc' = [pc EXCEPT ![p] = "write"]
    BY <1>3 DEF Create, Goto, Opens
  <2>2. /\ pc'[p] = "write" /\ handle'[p] = i /\ path' # None
        /\ file'[i].by = p /\ ~file'[i].written
        /\ \A q \in Proc \ {p} : pc'[q] = pc[q] /\ handle'[q] = handle[q]
        /\ \A j \in Inode \ {i} : file'[j] = file[j]
    BY <2>1, LockAssumption DEF Inv, TypeOK
  <2>3. \A q \in Proc : handle[q] # i
    BY <2>1 DEF InUse
  <2>4. \A q \in Proc \ {p} : handle[q] # None => file'[handle[q]] = file[handle[q]]
    BY <2>2, <2>3, Known
  <2>5. TypeOK'
    BY <1>1, <2>1, <2>2, LockAssumption DEF Inv, TypeOK, PC, Acquiring, WithHandle
  <2>6. HandlesKnow'
    <3> SUFFICES ASSUME NEW q \in Proc PROVE HandleKnows(q)'
      BY DEF HandlesKnow
    <3>1. pc[q] \in OwnSteps => handle[q] # None
      BY Known DEF WithHandle, OwnSteps
    <3> QED
      BY <2>2, <2>4, <3>1, Known DEF HandleKnows, OwnSteps
  <2>7. PathOwned'
    BY <2>1, <2>2 DEF PathOwned, OwnSteps
  <2>8. ASSUME explicit, NEW q \in Proc PROVE ProcOrderly(q)'
    <3>1. CASE q = p
      BY <2>1, <2>2, <3>1 DEF ProcOrderly, Breaking
    <3>2. CASE q # p
      <4>1. ProcOrderly(q)
        BY <2>8, Known
      <4>2. pc[q] \notin OwnSteps /\ pc[q] # "remove" /\ pc[q] \notin Breaking
        BY <1>1, <1>3, <3>2, <4>1, Known
        DEF ProcOrderly, Others, Acquiring, OwnSteps, WithHandle
      <4> QED
        BY <2>2, <3>2, <4>2 DEF ProcOrderly, Breaking
    <3> QED
      BY <3>1, <3>2
  <2> QED
    BY <2>1, <2>5, <2>6, <2>7, <2>8 DEF Inv, Orderly
<1> QED
  BY <1>2, <1>3

LEMMA WriteInv ==
  ASSUME Inv, NEW p \in Proc, Write(p) \/ WriteFails(p), UNCHANGED explicit
  PROVE  Inv'
<1> DEFINE i == handle[p]
<1>1. pc[p] = "write" /\ i \in Inode /\ file[i].by = p
  BY Known DEF Write, WriteFails, WithHandle, HandleKnows, OwnSteps
<1>2. PICK label \in {"held", "compareOwn"} : pc' = [pc EXCEPT ![p] = label]
  BY DEF Write, WriteFails, Goto
<1>3. /\ pc'[p] = label /\ UNCHANGED <<path, handle>>
      /\ \A q \in Proc \ {p} : pc'[q] = pc[q]
      /\ file' \in [Inode -> [by : Proc \cup {None}, written : BOOLEAN]]
      /\ \A j \in Inode : file'[j].by = file[j].by /\ (file[j].written => file'[j].written)
      /\ label = "held" => file'[i].written
  <2>1. pc \in [Proc -> PC] /\ file \in [Inode -> [by : Proc \cup {None}, written : BOOLEAN]]
    BY DEF Inv, TypeOK
  <2>2. pc'[p] = label /\ \A q \in Proc \ {p} : pc'[q] = pc[q]
    BY <1>2, <2>1
  <2>3. UNCHANGED <<path, handle>> /\ (Fills(i) \/ UNCHANGED file)
    BY DEF Write, WriteFails
  <2>4. label = "held" => Fills(i)
    <3>1. WriteFails(p) => label = "compareOwn"
      BY <2>1, <2>2 DEF WriteFails, Goto
    <3> QED
      BY <3>1 DEF Write
  <2>5. Fills(i) =>
          /\ file' \in [Inode -> [by : Proc \cup {None}, written : BOOLEAN]]
          /\ \A j \in Inode : file'[j].by = file[j].by /\ (file[j].written => file'[j].written)
          /\ file'[i].written
    <3> HAVE Fills(i)
    <3> DEFINE filled == [file[i] EXCEPT !.written = TRUE]
    <3>1. file' = [file EXCEPT ![i] = filled]
      BY DEF Fills
    <3>2. filled \in [by : Proc \cup {None}, written : BOOLEAN]
          /\ filled.by = file[i].by /\ filled.written
      BY <1>1, <2>1
    <3> HIDE DEF filled
    <3>3. \A j \in Inode : file'[j] = IF j = i THEN filled ELSE file[j]
      BY <1>1, <2>1, <3>1
    <3>4. file' \in [Inode -> [by : Proc \cup {None}, written : BOOLEAN]]
      BY <1>1, <2>1, <3>1, <3>2
    <3> QED
      BY <1>1, <3>2, <3>3, <3>4
  <2> QED
    BY <2>1, <2>2, <2>3, <2>4, <2>5
<1>4. TypeOK'
  BY <1>1, <1>2, <1>3 DEF Inv, TypeOK, PC, Acquiring, WithHandle
<1>5. HandlesKnow'
  <2> SUFFICES ASSUME NEW q \in Proc PROVE HandleKnows(q)'
    BY DEF HandlesKnow
  <2>1. pc[q] \in OwnSteps => handle[q] # None
    BY Known DEF WithHandle, OwnSteps
  <2> QED
    BY <1>1, <1>3, <2>1, Known DEF HandleKnows, OwnSteps
<1>6. PathOwned'
  <2>1. path # None => path \in Inode
    BY DEF Inv, TypeOK
  <2> QED
    BY <1>1, <1>3, <2>1 DEF Inv, PathOwned, Dead, OwnSteps, Releasing
<1>7. ASSUME explicit, NEW q \in Proc PROVE ProcOrderly(q)'
  <2>1. CASE q = p
    BY <1>1, <1>3, <1>7, <2>1, Known DEF ProcOrderly, OwnSteps, Breaking
  <2>2. CASE q # p
    <3>1. pc[q] \notin Breaking
      BY <1>1, <1>7, <2>2, Known DEF ProcOrderly, Others, Acquiring
    <3>2. path # None => path \in Inode
      BY DEF Inv, TypeOK
    <3> QED
      BY <1>3, <1>7, <2>2, <3>1, <3>2, Known DEF ProcOrderly, Breaking
  <2> QED
    BY <2>1, <2>2
<1> QED
  BY <1>3, <1>4, <1>5, <1>6, <1>7 DEF Inv, Orderly

-------------------------------------------------------------------------------
LEMMA NextInv == Inv /\ [Next]_vars => Inv'
<1> SUFFICES ASSUME Inv, [Next]_vars PROVE Inv'
  OBVIOUS
<1>1. ASSUME NEW p \in Proc, Step(p), UNCHANGED explicit PROVE Inv'
  <2>1. CASE Acquire(p) \/ AcquireBreaking(p)
    BY <1>1, <2>1, AcquireInv
  <2>2. CASE OpenStale(p) \/ Judge(p) \/ CompareStale(p) \/ BreakStale(p)
    BY <1>1, <2>2, OpenStaleInv, JudgeInv, CompareStaleInv, BreakStaleInv
  <2>3. CASE Create(p) \/ Write(p) \/ WriteFails(p)
    BY <1>1, <2>3, CreateInv, WriteInv
  <2>4. CASE CompareOwn(p) \/ Undo(p)
    BY <1>1, <2>4, CompareOwnInv, UndoInv
  <2>5. CASE Release(p) \/ ReadToken(p) \/ Remove(p) \/ Die(p)
    BY <1>1, <2>5, ReleaseInv, ReadTokenInv, RemoveInv, DieInv
  <2> QED
    BY <1>1, <2>1, <2>2, <2>3, <2>4, <2>5 DEF Step, Continue
<1>2. CASE UNCHANGED vars
  BY <1>2 DEF vars, Inv, TypeOK, HandlesKnow, HandleKnows, PathOwned, Orderly, ProcOrderly, Dead
<1> QED
  BY <1>1, <1>2 DEF Next

\* The invariant the theorems rest on.
THEOREM Invariance == Spec => []Inv
BY InitInv, NextInv, PTL DEF Spec

\* Every variable keeps its shape, and handles are open just where they are used.
THEOREM TypeCorrect == Spec => []TypeOK
BY Invariance, PTL DEF Inv

\* No two processes hold the lock, for any number of processes that die or fail
\* anywhere, as long as nobody acquires while one breaks a lock.
THEOREM Exclusion == Spec => []OneHolder
<1>1. Inv => OneHolder
  <2> SUFFICES ASSUME Inv, explicit, NEW p \in Proc, NEW q \in Proc,
                      pc[p] = "held", pc[q] = "held"
               PROVE  p = q
    BY DEF OneHolder
  <2>1. handle[p] = path /\ handle[q] = path
    BY Known DEF ProcOrderly, OwnSteps
  <2>2. file[handle[p]].by = p /\ file[handle[q]].by = q
    BY Known DEF HandleKnows, OwnSteps
  <2> QED
    BY <2>1, <2>2
<1> QED
  BY <1>1, Invariance, PTL

\* A call that fails leaves no lock file of its own, whoever breaks locks and when.
THEOREM NothingLeft == Spec => []SurvivorsLeaveNoLock
<1>1. Inv => SurvivorsLeaveNoLock
  BY DEF Inv, SurvivorsLeaveNoLock, PathOwned, Dead, OwnSteps, Releasing
<1> QED
  BY <1>1, Invariance, PTL

-------------------------------------------------------------------------------
\* A call is over, killed by the outer deadline, or has settled first.
Over ==
  /\ outcome # "none" => ~helper
  /\ outer # "off" => mode = "sync"
  /\ outer = "armed" => helper
  /\ outer = "fired" => outcome # "none"
  /\ outcome # "none" =>
       \/ outcome \in {"FRAME_TOO_LARGE", "COMMAND_UNSUPPORTED"} /\ child = "none"
       \/ outcome = "TIMEOUT" /\ outer = "fired"
       \/ outcome = result /\ outer # "fired"

\* What decided a settled call stays as it is.
Decided ==
  /\ result # "none" => child \in {"failed", "exited"}
  /\ result # "none" /\ child = "failed" => result = "SPAWN"
  /\ result # "none" /\ child = "exited" =>
       /\ descendant # "holding" /\ taken = Len(sent) /\ errTaken = errSent
       /\ result = Closed

\* Why the child was told to stop.
Told ==
  /\ child = "none" => terminal = "none"
  /\ deadline = "fired" => terminal # "none"
  /\ terminal = "TIMEOUT" => deadline = "fired"
  /\ terminal = "FRAME_TOO_LARGE" => taken > Limit
  /\ terminal = "STDERR_TOO_LARGE" => errTaken > Limit

SidecarInv == SidecarTypeOK /\ Over /\ Decided /\ Told

\* Initially nothing has happened.
LEMMA SidecarInitInv == SidecarInit => SidecarInv
<1> SUFFICES ASSUME SidecarInit PROVE SidecarInv
  OBVIOUS
<1>1. SidecarTypeOK
  <2>1. sent \in Seq(Chunk) /\ Len(sent) = 0
    BY DEF SidecarInit
  <2>2. taken \in 0 .. Len(sent) /\ errSent \in Nat /\ errTaken \in 0 .. errSent
    BY <2>1 DEF SidecarInit
  <2>3. stdinError \in BOOLEAN /\ sigkill \in BOOLEAN /\ helper \in BOOLEAN
    BY DEF SidecarInit
  <2>4. /\ mode \in {"async", "sync"} /\ {outer, deadline, killTimer} \subseteq {"off", "armed", "fired"}
        /\ child \in {"none", "failed", "running", "exited"}
        /\ status \in {"none", "zero", "other"} /\ descendant \in {"none", "holding", "gone"}
        /\ terminal \in {"none", "TIMEOUT", "FRAME_TOO_LARGE", "STDERR_TOO_LARGE"}
    BY DEF SidecarInit
  <2> QED BY <2>1, <2>2, <2>3, <2>4 DEF SidecarTypeOK
<1>2. Over /\ Told
  BY SidecarAssumption DEF SidecarInit, Over, Told
<1>3. Decided
  BY DEF SidecarInit, Decided
<1> QED BY <1>1, <1>2, <1>3 DEF SidecarInv

\* Only one frame of the command decodes to an answer.
LEMMA DecodesToAnswer ==
  ASSUME NEW b
  PROVE  Decode(b) = "answer" <=> b = <<"head", "tail">>
  BY DEF Decode

\* What has been read is what was sent when all of it was read.
LEMMA AllRead ==
  ASSUME SidecarTypeOK, taken = Len(sent)
  PROVE  SubSeq(sent, 1, taken) = sent
  BY SubSeqFull DEF SidecarTypeOK

\* The type invariant is kept by each step.
LEMMA TypeStep == SidecarTypeOK /\ [SidecarNext]_sidecarVars => SidecarTypeOK'
<1> SUFFICES ASSUME SidecarTypeOK, [SidecarNext]_sidecarVars PROVE SidecarTypeOK'
  OBVIOUS
<1> USE SidecarAssumption DEF SidecarTypeOK
<1>1. CASE RefuseFrame \/ Call \/ Spawn \/ StdinError \/ Return \/ OuterDeadline
  <2>1. CASE Return
    BY <2>1 DEF Return, output, timers, Clear
  <2>2. CASE RefuseFrame
    BY <2>2 DEF RefuseFrame, output, timers
  <2>3. CASE StdinError
    <3>1. stdinError' \in BOOLEAN
      BY <2>3 DEF StdinError
    <3> QED BY <2>3, <3>1 DEF StdinError, output, timers
  <2>4. CASE Call
    <3>1. outer' \in {"off", "armed", "fired"} /\ helper' \in BOOLEAN
      BY <2>4 DEF Call
    <3> QED BY <2>4, <3>1 DEF Call, output, timers
  <2>5. CASE OuterDeadline
    BY <2>5 DEF OuterDeadline, output, timers
  <2>6. CASE Spawn
    BY <2>6 DEF Spawn, output
  <2> QED BY <1>1, <2>1, <2>2, <2>3, <2>4, <2>5, <2>6
<1>2. CASE Deadline \/ KillTimer
  <2>1. CASE Deadline
    BY <2>1 DEF Deadline, TerminateWith, output
  <2>2. CASE KillTimer
    <3>1. sigkill' \in BOOLEAN
      BY <2>2 DEF KillTimer
    <3> QED BY <2>2, <3>1 DEF KillTimer, output
  <2> QED BY <1>2, <2>1, <2>2
<1>3. CASE Fork \/ LetGo \/ Exit \/ Killed
  BY <1>3 DEF Fork, LetGo, Exit, Killed, output, timers
<1>4. CASE Stdout \/ Stderr
  BY <1>4 DEF Stdout, Stderr, TerminateWith
<1>5. CASE SpawnError \/ Close
  BY <1>5 DEF SpawnError, Close, SettleWith, Clear, output
<1>6. CASE WriteOutput
  <2>1. PICK c \in Chunk : sent' = Append(sent, c)
    BY <1>6 DEF WriteOutput
  <2>2. sent' \in Seq(Chunk) /\ Len(sent') = Len(sent) + 1
    BY <2>1
  <2>3. taken' \in 0 .. Len(sent')
    BY <1>6, <2>2 DEF WriteOutput
  <2> QED BY <1>6, <2>2, <2>3 DEF WriteOutput, timers
<1>7. CASE WriteError
  BY <1>7 DEF WriteError, timers
<1>8. CASE Done \/ UNCHANGED sidecarVars
  BY <1>8 DEF Done, sidecarVars, output, timers
<1> QED BY <1>1, <1>2, <1>3, <1>4, <1>5, <1>6, <1>7, <1>8 DEF SidecarNext, Host, Child

\* Who may answer the caller.
LEMMA OverStep == SidecarInv /\ [SidecarNext]_sidecarVars => Over'
<1> SUFFICES ASSUME SidecarInv, [SidecarNext]_sidecarVars PROVE Over'
  OBVIOUS
<1> USE SidecarAssumption DEF SidecarInv, Over
<1>1. CASE RefuseFrame \/ Call \/ Spawn \/ Return \/ OuterDeadline
  BY <1>1 DEF RefuseFrame, Call, Spawn, Return, OuterDeadline, Unstarted, Clear, SidecarTypeOK
<1>2. CASE Deadline \/ KillTimer \/ Stdout \/ Stderr \/ StdinError
  BY <1>2 DEF Deadline, KillTimer, Stdout, Stderr, StdinError
<1>3. CASE SpawnError \/ Close
  BY <1>3 DEF SpawnError, Close, SettleWith, Waiting
<1>4. CASE Child
  BY <1>4 DEF Child, WriteOutput, WriteError, Fork, LetGo, Exit, Killed
<1>5. CASE Done \/ UNCHANGED sidecarVars
  BY <1>5 DEF Done, sidecarVars
<1> QED BY <1>1, <1>2, <1>3, <1>4, <1>5 DEF SidecarNext, Host

\* A settled call stays decided.
LEMMA DecidedStep == SidecarInv /\ [SidecarNext]_sidecarVars => Decided'
<1> SUFFICES ASSUME SidecarInv, [SidecarNext]_sidecarVars PROVE Decided'
  OBVIOUS
<1> USE SidecarAssumption DEF SidecarInv, Decided
<1>1. CASE RefuseFrame \/ Call \/ Return \/ OuterDeadline
  BY <1>1 DEF RefuseFrame, Call, Return, OuterDeadline, output, timers, Closed
<1>2. CASE Spawn
  BY <1>2 DEF Spawn
<1>3. CASE Deadline \/ KillTimer \/ Stdout \/ Stderr \/ StdinError
  BY <1>3 DEF Deadline, KillTimer, Stdout, Stderr, StdinError, Waiting
<1>4. CASE SpawnError
  BY <1>4 DEF SpawnError, SettleWith, Waiting
<1>5. CASE Close
  BY <1>5 DEF Close, SettleWith, Closed, output
<1>6. CASE WriteOutput \/ WriteError \/ Fork \/ LetGo
  BY <1>6 DEF WriteOutput, WriteError, Writer, Fork, LetGo, output, timers, Closed
<1>7. CASE Exit \/ Killed
  BY <1>7 DEF Exit, Killed
<1>8. CASE Done \/ UNCHANGED sidecarVars
  BY <1>8 DEF Done, sidecarVars, output, timers, Closed
<1> QED BY <1>1, <1>2, <1>3, <1>4, <1>5, <1>6, <1>7, <1>8 DEF SidecarNext, Host, Child

\* Terminal error, deadline and limits go together.
LEMMA ToldStep == SidecarInv /\ [SidecarNext]_sidecarVars => Told'
<1> SUFFICES ASSUME SidecarInv, [SidecarNext]_sidecarVars PROVE Told'
  OBVIOUS
<1> USE SidecarAssumption DEF SidecarInv, Told
<1>1. CASE Deadline
  BY <1>1 DEF Deadline, Waiting, TerminateWith, output
<1>2. CASE Stdout \/ Stderr
  <2>1. CASE Stdout
    BY <2>1 DEF Stdout, Waiting, TerminateWith, SidecarTypeOK
  <2>2. CASE Stderr
    BY <2>2 DEF Stderr, Waiting, TerminateWith, SidecarTypeOK
  <2> QED BY <1>2, <2>1, <2>2
<1>3. CASE SpawnError \/ Close
  BY <1>3 DEF SpawnError, Close, SettleWith, Clear, output
<1>4. CASE RefuseFrame \/ Call \/ Spawn \/ KillTimer \/ StdinError \/ Return \/ OuterDeadline
  <2>1. CASE Spawn
    BY <2>1 DEF Spawn, output
  <2> QED BY <1>4, <2>1 DEF RefuseFrame, Call, KillTimer, StdinError, Return, OuterDeadline,
                            output, timers
<1>5. CASE Child
  BY <1>5 DEF Child, WriteOutput, WriteError, Fork, LetGo, Exit, Killed, output, timers
<1>6. CASE Done \/ UNCHANGED sidecarVars
  BY <1>6 DEF Done, sidecarVars, output, timers
<1> QED BY <1>1, <1>2, <1>3, <1>4, <1>5, <1>6 DEF SidecarNext, Host

\* The invariant holds in every state of a call.
LEMMA SidecarInvariance == SidecarSpec => []SidecarInv
<1>1. SidecarInv /\ [SidecarNext]_sidecarVars => SidecarInv'
  BY TypeStep, OverStep, DecidedStep, ToldStep DEF SidecarInv
<1> QED BY SidecarInitInv, <1>1, PTL DEF SidecarSpec

\* The variables of a call have their types.
THEOREM SidecarTypeCorrect == SidecarSpec => []SidecarTypeOK
<1>1. SidecarInv => SidecarTypeOK
  BY DEF SidecarInv
<1> QED BY SidecarInvariance, <1>1, PTL

\* A call is answered exactly by one complete frame of a child that exited with
\* status zero in time.
THEOREM AnswerIsComplete == SidecarSpec => []AnsweredIffComplete
<1>1. SidecarInv => AnsweredIffComplete
  <2> SUFFICES ASSUME SidecarInv PROVE AnsweredIffComplete
    OBVIOUS
  <2> USE SidecarAssumption DEF SidecarInv
  <2>1. ASSUME result = "answer"
        PROVE  child = "exited" /\ terminal = "none" /\ deadline # "fired"
    BY <2>1 DEF Decided, Closed, Told, SidecarTypeOK
  <2>2. outcome = "answer" => child = "exited" /\ deadline # "fired" /\ outer # "fired"
    BY <2>1 DEF Over
  <2>3. ASSUME result # "none", child = "exited", ~stdinError, deadline # "fired",
               Len(sent) <= Limit, errSent <= Limit
        PROVE  result = "answer" <=> status = "zero" /\ sent = <<"head", "tail">>
    <3>1. terminal = "none"
      BY <2>3 DEF Told, SidecarTypeOK, Decided
    <3>2. result = IF status # "zero" THEN "EXIT" ELSE Decode(sent)
      BY <2>3, <3>1, AllRead DEF Decided, Closed
    <3> QED BY <3>2, DecodesToAnswer
  <2> QED BY <2>2, <2>3 DEF AnsweredIffComplete
<1> QED BY SidecarInvariance, <1>1, PTL

\* A call that returns leaves no running child, unless its helper was killed.
THEOREM ReturnsAlone == SidecarSpec => []NoChildLeft
<1>1. SidecarInv => NoChildLeft
  BY SidecarAssumption DEF SidecarInv, Over, Decided, NoChildLeft
<1> QED BY SidecarInvariance, <1>1, PTL
==================================================================================
