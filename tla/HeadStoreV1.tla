------------------------------ MODULE HeadStoreV1 ------------------------------
(***************************************************************************)
(* DirectoryBranchHeadStore (src/src/v1/directory_storage.mjs): the head of *)
(* one (run, branch) as a directory of append-only generation files.  The  *)
(* processes that share the directory take no lock: readHead lists the     *)
(* directory, then reads the files one by one and validates the chain;     *)
(* advanceHeadIfCurrent reads, compares, checks that the Frame block is    *)
(* retained and creates the next file with link(2), which fails if it      *)
(* exists.  Every file operation is a step of its own, so the steps of     *)
(* several processes interleave as the operating system lets them, and a   *)
(* process may stop between any two of them.                               *)
(***************************************************************************)
EXTENDS Naturals, FiniteSets

CONSTANTS Proc,            \* processes that share the store directory
          App,             \* application identities
          Frame,           \* Frame blocks (frameRef and frameId together)
          MaxGeneration,   \* bound: the last generation a writer may ask for
          None             \* null

Generation == 0 .. MaxGeneration

\* The fields of makeHead that sameHead compares; status follows from the Frame.
Head == [generation : Generation, app : App, frame : Frame]

Envelope == [previousHead : Head \cup {None}, head : Head]

\* The calls of readHead and advanceHeadIfCurrent, with their arguments.
Call ==
  {[kind |-> "read"]} \cup [kind : {"advance"}, expected : Head \cup {None}, next : Head]

ASSUME HeadStoreAssumption ==
  /\ MaxGeneration \in Nat
  /\ None \notin Head \cup Envelope \cup Call

VARIABLES
  file,       \* file[g]: the envelope in "<g>.json", or None
  block,      \* the Frame blocks in the block store
  pc,         \* pc[p]: the next file operation of p's call, or "idle"
  goal,       \* goal[p]: what p's read is for: "read", "advance" or "conflict"
  expected,   \* arguments of p's advanceHeadIfCurrent
  next,
  listed,     \* listed[p]: generation files at opendir, then the names readdir returned
  index,      \* index[p]: the loop counter of readHead
  previous,   \* previous[p]: the last validated head of p's read
  answer,     \* answer[p]: what p's last call returned
  began       \* history: generation files that existed when p's call began

vars == <<file, block, pc, goal, expected, next, listed, index, previous, answer, began>>
callVars == <<goal, expected, next, began>>
readVars == <<listed, index, previous>>

Present == {g \in Generation : file[g] # None}

Init ==
  /\ file = [g \in Generation |-> None]
  /\ block = {}
  /\ pc = [p \in Proc |-> "idle"]
  /\ goal = [p \in Proc |-> "read"]
  /\ expected = [p \in Proc |-> None]
  /\ next = [p \in Proc |-> None]
  /\ listed = [p \in Proc |-> {}]
  /\ index = [p \in Proc |-> 0]
  /\ previous = [p \in Proc |-> None]
  /\ answer = [p \in Proc |-> None]
  /\ began = [p \in Proc |-> {}]

-------------------------------------------------------------------------------
\* A call's local variables die with it.
Forget(p) ==
  /\ pc' = [pc EXCEPT ![p] = "idle"]
  /\ goal' = [goal EXCEPT ![p] = "read"]
  /\ expected' = [expected EXCEPT ![p] = None]
  /\ next' = [next EXCEPT ![p] = None]
  /\ listed' = [listed EXCEPT ![p] = {}]
  /\ index' = [index EXCEPT ![p] = 0]
  /\ previous' = [previous EXCEPT ![p] = None]
  /\ began' = [began EXCEPT ![p] = {}]

\* The end of a call: kind is "head", "advanced", "conflict" or "error".
Return(p, kind, h) ==
  /\ answer' = [answer EXCEPT ![p] = [kind |-> kind, head |-> h]]
  /\ Forget(p)

\* readdir starts: the files present now are sure to be listed.
OpenDirectory(p) ==
  /\ pc' = [pc EXCEPT ![p] = "readdir"]
  /\ listed' = [listed EXCEPT ![p] = Present]
  /\ index' = [index EXCEPT ![p] = 0]
  /\ previous' = [previous EXCEPT ![p] = None]

Begin(p, kind, e, n) ==
  /\ pc[p] = "idle"
  /\ goal' = [goal EXCEPT ![p] = kind]
  /\ expected' = [expected EXCEPT ![p] = e]
  /\ next' = [next EXCEPT ![p] = n]
  /\ answer' = [answer EXCEPT ![p] = None]
  /\ began' = [began EXCEPT ![p] = Present]
  /\ OpenDirectory(p)
  /\ UNCHANGED <<file, block>>

CallReadHead(p) == Begin(p, "read", None, None)

CallAdvanceHead(p, e, n) == Begin(p, "advance", e, n)

\* readdir ends: a file created while the directory was being listed may or
\* may not be among the names it returns.
ReadDirectory(p) ==
  /\ pc[p] = "readdir"
  /\ \E names \in SUBSET Present :
       /\ listed[p] \subseteq names
       /\ listed' = [listed EXCEPT ![p] = names]
  /\ pc' = [pc EXCEPT ![p] = "envelope"]
  /\ UNCHANGED <<file, block, callVars, index, previous, answer>>

\* generations[index] !== index in readHead's loop.
ListingHasGap(p) == index[p] \notin listed[p] /\ \E g \in listed[p] : g > index[p]

ListingDone(p) == \A g \in listed[p] : g < index[p]

ChainHolds(p) ==
  /\ file[index[p]].head.generation = index[p]
  /\ file[index[p]].previousHead = previous[p]

ReadEnvelope(p) ==
  /\ pc[p] = "envelope"
  /\ index[p] \in listed[p]
  /\ ChainHolds(p)
  /\ previous' = [previous EXCEPT ![p] = file[index[p]].head]
  /\ index' = [index EXCEPT ![p] = @ + 1]
  /\ UNCHANGED <<file, block, pc, callVars, listed, answer>>

RejectHistory(p) ==
  /\ pc[p] = "envelope"
  /\ \/ ListingHasGap(p)
     \/ index[p] \in listed[p] /\ ~ChainHolds(p)
  /\ Return(p, "error", None)
  /\ UNCHANGED <<file, block>>

\* Mutant: a head is taken to be identified by its generation.
SameGeneration(left, right) ==
  IF left = None \/ right = None THEN left = right
                                ELSE left.generation = right.generation

SameHead(left, right) == left = right

\* readHead returns to its caller.
ReturnHead(p) ==
  /\ pc[p] = "envelope" /\ ListingDone(p)
  /\ goal[p] = "read"
  /\ Return(p, "head", previous[p])
  /\ UNCHANGED <<file, block>>

\* The losing writer's second read: it reports the winner.
ReturnConflict(p) ==
  /\ pc[p] = "envelope" /\ ListingDone(p)
  /\ \/ goal[p] = "conflict"
     \/ goal[p] = "advance" /\ ~SameHead(previous[p], expected[p])
  /\ Return(p, "conflict", previous[p])
  /\ UNCHANGED <<file, block>>

RequiredGeneration(h) == IF h = None THEN 0 ELSE h.generation + 1

AdmitsNext(p) ==
  /\ next[p].generation = RequiredGeneration(previous[p])
  /\ previous[p] # None => next[p].app = previous[p].app

CompareHead(p) ==
  /\ pc[p] = "envelope" /\ ListingDone(p)
  /\ goal[p] = "advance" /\ SameHead(previous[p], expected[p])
  /\ AdmitsNext(p)
  /\ pc' = [pc EXCEPT ![p] = "hasBlock"]
  /\ UNCHANGED <<file, block, callVars, readVars, answer>>

\* ERR_APPLICATION_V1_HEAD_GENERATION and ERR_APPLICATION_V1_HEAD_APPLICATION.
RejectNext(p) ==
  /\ pc[p] = "envelope" /\ ListingDone(p)
  /\ goal[p] = "advance" /\ SameHead(previous[p], expected[p])
  /\ ~AdmitsNext(p)
  /\ Return(p, "error", None)
  /\ UNCHANGED <<file, block>>

HasBlock(p) ==
  /\ pc[p] = "hasBlock"
  /\ next[p].frame \in block
  /\ pc' = [pc EXCEPT ![p] = "link"]
  /\ UNCHANGED <<file, block, callVars, readVars, answer>>

\* ERR_APPLICATION_V1_HEAD_FRAME_BLOCK_MISSING.
RejectMissingBlock(p) ==
  /\ pc[p] = "hasBlock"
  /\ next[p].frame \notin block
  /\ Return(p, "error", None)
  /\ UNCHANGED <<file, block>>

\* writeJsonNew: the temporary file is complete before link(2) publishes it.
CreateGeneration(p) ==
  /\ pc[p] = "link"
  /\ file[next[p].generation] = None
  /\ file' = [file EXCEPT ![next[p].generation] =
                [previousHead |-> previous[p], head |-> next[p]]]
  /\ Return(p, "advanced", next[p])
  /\ UNCHANGED block

\* Mutant: the loser tries the same file again.
RetryGeneration(p) ==
  /\ pc[p] = "link"
  /\ file[next[p].generation] # None
  /\ UNCHANGED vars

\* EEXIST: another writer created the generation first; read again.
LoseGeneration(p) ==
  /\ pc[p] = "link"
  /\ file[next[p].generation] # None
  /\ goal' = [goal EXCEPT ![p] = "conflict"]
  /\ OpenDirectory(p)
  /\ UNCHANGED <<file, block, expected, next, answer, began>>

\* DirectoryBlockStore.putBlock of a Frame, by any process.
PutFrame(f) ==
  /\ f \notin block
  /\ block' = block \cup {f}
  /\ UNCHANGED <<file, pc, callVars, readVars, answer>>

\* The process stops; its next incarnation starts without a call.
Crash(p) ==
  /\ answer' = [answer EXCEPT ![p] = None]
  /\ Forget(p)
  /\ UNCHANGED <<file, block>>

Step(p) ==
  \/ ReadDirectory(p) \/ ReadEnvelope(p) \/ RejectHistory(p)
  \/ ReturnHead(p) \/ ReturnConflict(p) \/ CompareHead(p) \/ RejectNext(p)
  \/ HasBlock(p) \/ RejectMissingBlock(p)
  \/ CreateGeneration(p) \/ LoseGeneration(p)

\* A caller may present null or any head, of this branch or of another; the
\* last generation is left out because its successor is beyond the bound.
Presentable == {h \in Head : h.generation < MaxGeneration} \cup {None}

Next ==
  \/ \E p \in Proc :
       \/ CallReadHead(p)
       \/ \E e \in Presentable, n \in Head : CallAdvanceHead(p, e, n)
       \/ Step(p)
       \/ Crash(p)
  \/ \E f \in Frame : PutFrame(f)

Fairness == \A p \in Proc : WF_vars(Step(p))

Spec == Init /\ [][Next]_vars

FairSpec == Spec /\ Fairness

-------------------------------------------------------------------------------
TypeOK ==
  /\ file \in [Generation -> Envelope \cup {None}]
  /\ block \in SUBSET Frame
  /\ pc \in [Proc -> {"idle", "readdir", "envelope", "hasBlock", "link"}]
  /\ goal \in [Proc -> {"read", "advance", "conflict"}]
  /\ expected \in [Proc -> Head \cup {None}]
  /\ next \in [Proc -> Head \cup {None}]
  /\ listed \in [Proc -> SUBSET Generation]
  /\ index \in [Proc -> Nat]
  /\ previous \in [Proc -> Head \cup {None}]
  /\ answer \in [Proc -> [kind : {"head", "advanced", "conflict", "error"},
                          head : Head \cup {None}] \cup {None}]
  /\ began \in [Proc -> SUBSET Generation]

\* readHead's validation never fails on the stored history itself: the files
\* are the generations 0..n, each naming the head before it, all of one
\* application.  Only a listing raced by writers can be rejected.
HistoryIsChain ==
  \A g \in Present :
    /\ file[g].head.generation = g
    /\ IF g = 0 THEN file[g].previousHead = None
                ELSE /\ g - 1 \in Present
                     /\ file[g].previousHead = file[g - 1].head
                     /\ file[g].head.app = file[g - 1].head.app

\* No head points to a Frame that is not retained, whichever process published
\* it and wherever the others were stopped.
HeadFrameRetained == \A g \in Present : file[g].head.frame \in block

\* Published generations are never overwritten or removed: the loser of a race
\* for a generation leaves the winner's file as it is.
HistoryIsAppendOnly ==
  [][\A g \in Generation : file[g] # None => file'[g] = file[g]]_vars

-------------------------------------------------------------------------------
\* The directory implements the abstract pointer: its value is the head in the
\* newest file, and a process has witnessed the heads published since its call
\* began.
Newest(gs) == IF gs = {} THEN None
              ELSE file[CHOOSE g \in gs : \A other \in gs : other <= g].head

CallOf(p) ==
  IF pc[p] = "idle" THEN None
  ELSE IF goal[p] = "read" THEN [kind |-> "read"]
  ELSE [kind |-> "advance", expected |-> expected[p], next |-> next[p]]

WitnessedBy(p) ==
  IF pc[p] = "idle" THEN {}
  ELSE {Newest(began[p])} \cup {file[g].head : g \in Present \ began[p]}

Pointer == Newest(Present)

Calls == [p \in Proc |-> CallOf(p)]

Witnessed == [p \in Proc |-> WitnessedBy(p)]

Abstract == INSTANCE BranchHead WITH head <- Pointer, call <- Calls, witnessed <- Witnessed

\* Every answer is one the single pointer could have given: an advance succeeds
\* only from the complete expected head, a conflict and a read report a head
\* that was current during the call (docs/frame_storage.md).
ImplementsBranchHead == Abstract!Spec

\* A call returns: a loser rereads once and never waits for the winner.
CallsReturn == \A p \in Proc : pc[p] # "idle" ~> pc[p] = "idle"

===============================================================================
