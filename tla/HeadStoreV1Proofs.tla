--------------------------- MODULE HeadStoreV1Proofs ---------------------------
(***************************************************************************)
(* The generation files of a branch form one append-only chain whose heads  *)
(* all point to retained Frames, and the calls on them implement a single   *)
(* pointer that is read and conditionally advanced, for any number of       *)
(* processes, applications, Frames and generations.                         *)
(***************************************************************************)
EXTENDS HeadStoreV1, TLAPS

\* What a read has validated so far is the stored prefix below its index.
ReadPrefix ==
  \A p \in Proc :
    /\ listed[p] \subseteq Present
    /\ pc[p] = "readdir" => index[p] = 0
    /\ pc[p] \in {"readdir", "envelope"} =>
         IF index[p] = 0 THEN previous[p] = None
         ELSE /\ index[p] - 1 \in Present
              /\ previous[p] = file[index[p] - 1].head
    /\ pc[p] # "idle" /\ goal[p] # "read" => next[p] \in Head

\* A writer about to create a generation holds the head that precedes it.
WriterHoldsPredecessor ==
  \A p \in Proc :
    /\ pc[p] \in {"hasBlock", "link"} =>
         /\ next[p] \in Head
         /\ AdmitsNext(p)
         /\ previous[p] # None =>
              /\ previous[p].generation \in Present
              /\ previous[p] = file[previous[p].generation].head
    /\ pc[p] = "link" => next[p].frame \in block

IInv ==
  /\ TypeOK
  /\ HistoryIsChain
  /\ HeadFrameRetained
  /\ ReadPrefix
  /\ WriterHoldsPredecessor

AnswerKind == {"head", "advanced", "conflict", "error"}

LEMMA InitEstablishes == Init => IInv
  BY HeadStoreAssumption
  DEF Init, IInv, TypeOK, HistoryIsChain, HeadFrameRetained, ReadPrefix,
      WriterHoldsPredecessor, Present, AdmitsNext

\* Returning from a call forgets p's locals and leaves the store alone.
LEMMA ReturnPreserves ==
  ASSUME IInv, NEW p \in Proc,
         NEW a \in [kind : AnswerKind, head : Head \cup {None}] \cup {None},
         answer' = [answer EXCEPT ![p] = a],
         Forget(p), UNCHANGED <<file, block>>
  PROVE  IInv'
  <1> USE DEF Forget, IInv
  <1>1. TypeOK'
    BY DEF TypeOK, AnswerKind
  <1>2. HistoryIsChain' /\ HeadFrameRetained'
    BY DEF HistoryIsChain, HeadFrameRetained, Present
  <1>3. ReadPrefix'
    BY DEF ReadPrefix, TypeOK, Present
  <1>4. WriterHoldsPredecessor'
    BY DEF WriterHoldsPredecessor, TypeOK, Present, AdmitsNext, RequiredGeneration
  <1> QED
    BY <1>1, <1>2, <1>3, <1>4

\* Starting to list the directory, with the call's arguments set beforehand.
LEMMA OpenPreserves ==
  ASSUME IInv, NEW p \in Proc, OpenDirectory(p), UNCHANGED <<file, block>>,
         NEW kind \in {"read", "advance", "conflict"},
         goal' = [goal EXCEPT ![p] = kind],
         NEW e \in Head \cup {None}, expected' = [expected EXCEPT ![p] = e],
         NEW n \in Head \cup {None}, next' = [next EXCEPT ![p] = n],
         kind # "read" => n \in Head,
         answer' = [answer EXCEPT ![p] = None] \/ answer' = answer,
         began' \in [Proc -> SUBSET Generation]
  PROVE  IInv'
  <1> USE DEF OpenDirectory, IInv
  <1>1. TypeOK'
    BY DEF TypeOK, Present
  <1>2. HistoryIsChain' /\ HeadFrameRetained'
    BY DEF HistoryIsChain, HeadFrameRetained, Present
  <1>3. ReadPrefix'
    BY DEF ReadPrefix, TypeOK, Present
  <1>4. WriterHoldsPredecessor'
    BY DEF WriterHoldsPredecessor, TypeOK, Present, AdmitsNext, RequiredGeneration
  <1> QED
    BY <1>1, <1>2, <1>3, <1>4

\* Creating the next generation extends the chain by a link.
LEMMA CreatePreserves ==
  ASSUME IInv, NEW p \in Proc, CreateGeneration(p)
  PROVE  IInv'
  <1> USE DEF IInv
  <1> DEFINE g == next[p].generation
             e == [previousHead |-> previous[p], head |-> next[p]]
  <1>1. /\ next[p] \in Head /\ g \in Generation /\ e \in Envelope
        /\ e # None
    BY HeadStoreAssumption DEF CreateGeneration, WriterHoldsPredecessor, TypeOK, Head, Envelope
  <1>2. file[g] = None /\ file' = [file EXCEPT ![g] = e] /\ Present' = Present \cup {g}
    BY <1>1 DEF CreateGeneration, TypeOK, Present
  <1>3. TypeOK'
    BY <1>1, <1>2 DEF CreateGeneration, Return, Forget, TypeOK
  <1>4. HistoryIsChain'
    <2> SUFFICES ASSUME NEW k \in Present'
                 PROVE  /\ file'[k].head.generation = k
                        /\ IF k = 0 THEN file'[k].previousHead = None
                           ELSE /\ k - 1 \in Present'
                                /\ file'[k].previousHead = file'[k - 1].head
                                /\ file'[k].head.app = file'[k - 1].head.app
      BY DEF HistoryIsChain
    <2>1. CASE k = g
      <3>1. file'[k] = e
        BY <1>1, <1>2, <2>1 DEF TypeOK
      <3>2. CASE previous[p] = None
        BY <1>1, <2>1, <3>1, <3>2
        DEF CreateGeneration, WriterHoldsPredecessor, AdmitsNext, RequiredGeneration
      <3>3. CASE previous[p] # None
        <4> DEFINE j == previous[p].generation
        <4>1. /\ j \in Present /\ previous[p] = file[j].head
              /\ g = j + 1 /\ next[p].app = previous[p].app
          BY <3>3 DEF CreateGeneration, WriterHoldsPredecessor, AdmitsNext, RequiredGeneration
        <4>2. j \in Nat /\ j # g /\ k - 1 = j /\ k # 0
          BY <4>1, <2>1, HeadStoreAssumption DEF Present, Generation
        <4>3. file'[j] = file[j]
          BY <1>2, <4>1, <4>2 DEF TypeOK, Present
        <4> QED
          BY <1>2, <2>1, <3>1, <4>1, <4>2, <4>3
      <3> QED
        BY <3>2, <3>3
    <2>2. CASE k # g
      <3>1. k \in Present /\ file'[k] = file[k]
        BY <1>2, <2>2 DEF TypeOK, Present
      <3>2. k # 0 => k - 1 \in Present /\ file'[k - 1] = file[k - 1]
        BY <1>2, <3>1 DEF HistoryIsChain, TypeOK, Present
      <3> QED
        BY <1>2, <3>1, <3>2 DEF HistoryIsChain
    <2> QED
      BY <2>1, <2>2
  <1>5. HeadFrameRetained'
    BY <1>1, <1>2 DEF HeadFrameRetained, CreateGeneration, WriterHoldsPredecessor, Present, TypeOK
  <1>6. \A k \in Present : k \in Present' /\ file'[k] = file[k]
    BY <1>2 DEF Present, TypeOK
  <1>7. ReadPrefix'
    BY <1>2, <1>6 DEF ReadPrefix, TypeOK, CreateGeneration, Return, Forget
  <1>8. WriterHoldsPredecessor'
    BY <1>2, <1>6
    DEF WriterHoldsPredecessor, TypeOK, CreateGeneration, Return, Forget, AdmitsNext, RequiredGeneration
  <1> QED
    BY <1>3, <1>4, <1>5, <1>7, <1>8

LEMMA StepPreserves ==
  ASSUME IInv, NEW p \in Proc, Step(p)
  PROVE  IInv'
  <1> USE DEF IInv
  <1>1. CASE ReadDirectory(p)
    <2> USE <1>1 DEF ReadDirectory, callVars
    <2>1. TypeOK'
      BY DEF TypeOK, Present
    <2>2. HistoryIsChain' /\ HeadFrameRetained'
      BY DEF HistoryIsChain, HeadFrameRetained, Present
    <2>3. ReadPrefix'
      BY DEF ReadPrefix, TypeOK, Present
    <2>4. WriterHoldsPredecessor'
      BY DEF WriterHoldsPredecessor, TypeOK, Present, AdmitsNext, RequiredGeneration
    <2> QED
      BY <2>1, <2>2, <2>3, <2>4
  <1>2. CASE ReadEnvelope(p)
    <2> USE <1>2 DEF ReadEnvelope, callVars
    <2>1. index[p] \in Present /\ file[index[p]] \in Envelope
      BY DEF ReadPrefix, TypeOK, Present
    <2>2. TypeOK'
      BY <2>1 DEF TypeOK, Envelope
    <2>3. HistoryIsChain' /\ HeadFrameRetained'
      BY DEF HistoryIsChain, HeadFrameRetained, Present
    <2>4. ReadPrefix'
      BY <2>1 DEF ReadPrefix, TypeOK, Present
    <2>5. WriterHoldsPredecessor'
      BY DEF WriterHoldsPredecessor, TypeOK, Present, AdmitsNext, RequiredGeneration
    <2> QED
      BY <2>2, <2>3, <2>4, <2>5
  <1>3. CASE RejectHistory(p) \/ RejectNext(p) \/ RejectMissingBlock(p)
    <2> DEFINE a == [kind |-> "error", head |-> None]
    <2>1. a \in [kind : AnswerKind, head : Head \cup {None}]
      BY DEF AnswerKind
    <2>2. answer' = [answer EXCEPT ![p] = a] /\ Forget(p) /\ UNCHANGED <<file, block>>
      BY <1>3 DEF RejectHistory, RejectNext, RejectMissingBlock, Return
    <2> QED
      BY <2>1, <2>2, ReturnPreserves
  <1>4. CASE ReturnHead(p) \/ ReturnConflict(p)
    <2>1. PICK kind \in {"head", "conflict"} :
            Return(p, kind, previous[p]) /\ UNCHANGED <<file, block>>
      BY <1>4 DEF ReturnHead, ReturnConflict
    <2> DEFINE a == [kind |-> kind, head |-> previous[p]]
    <2>2. a \in [kind : AnswerKind, head : Head \cup {None}]
      BY DEF AnswerKind, TypeOK
    <2>3. answer' = [answer EXCEPT ![p] = a] /\ Forget(p) /\ UNCHANGED <<file, block>>
      BY <2>1 DEF Return
    <2> QED
      BY <2>2, <2>3, ReturnPreserves
  <1>5. CASE CompareHead(p)
    <2> USE <1>5 DEF CompareHead, callVars, readVars
    <2>1. next[p] \in Head /\ ReadPrefix
      BY DEF ReadPrefix
    <2>2. previous[p] # None =>
            previous[p].generation \in Present /\ previous[p] = file[previous[p].generation].head
      BY DEF ReadPrefix, HistoryIsChain
    <2>3. TypeOK'
      BY DEF TypeOK
    <2>4. HistoryIsChain' /\ HeadFrameRetained'
      BY DEF HistoryIsChain, HeadFrameRetained, Present
    <2>5. ReadPrefix'
      BY DEF ReadPrefix, TypeOK, Present
    <2>6. WriterHoldsPredecessor'
      BY <2>1, <2>2 DEF WriterHoldsPredecessor, TypeOK, Present, AdmitsNext, RequiredGeneration
    <2> QED
      BY <2>3, <2>4, <2>5, <2>6
  <1>6. CASE HasBlock(p)
    <2> USE <1>6 DEF HasBlock, callVars, readVars
    <2>1. TypeOK'
      BY DEF TypeOK
    <2>2. HistoryIsChain' /\ HeadFrameRetained'
      BY DEF HistoryIsChain, HeadFrameRetained, Present
    <2>3. ReadPrefix'
      BY DEF ReadPrefix, TypeOK, Present
    <2>4. WriterHoldsPredecessor'
      BY DEF WriterHoldsPredecessor, TypeOK, Present, AdmitsNext, RequiredGeneration
    <2> QED
      BY <2>1, <2>2, <2>3, <2>4
  <1>7. CASE CreateGeneration(p)
    BY <1>7, CreatePreserves
  <1>8. CASE LoseGeneration(p)
    <2>1. /\ OpenDirectory(p) /\ UNCHANGED <<file, block>>
          /\ goal' = [goal EXCEPT ![p] = "conflict"]
          /\ expected[p] \in Head \cup {None} /\ expected' = [expected EXCEPT ![p] = expected[p]]
          /\ next[p] \in Head /\ next' = [next EXCEPT ![p] = next[p]]
          /\ answer' = answer /\ began' \in [Proc -> SUBSET Generation]
      BY <1>8 DEF LoseGeneration, TypeOK, WriterHoldsPredecessor
    <2> QED
      BY <2>1, OpenPreserves
  <1> QED
    BY <1>1, <1>2, <1>3, <1>4, <1>5, <1>6, <1>7, <1>8 DEF Step

LEMMA NextPreserves == IInv /\ [Next]_vars => IInv'
  <1> SUFFICES ASSUME IInv, [Next]_vars
               PROVE  IInv'
    OBVIOUS
  <1> USE DEF IInv
  <1>1. ASSUME NEW p \in Proc, CallReadHead(p)
        PROVE  IInv'
    <2>1. /\ OpenDirectory(p) /\ UNCHANGED <<file, block>>
          /\ goal' = [goal EXCEPT ![p] = "read"]
          /\ expected' = [expected EXCEPT ![p] = None]
          /\ next' = [next EXCEPT ![p] = None]
          /\ answer' = [answer EXCEPT ![p] = None]
          /\ began' \in [Proc -> SUBSET Generation]
      BY <1>1 DEF CallReadHead, Begin, TypeOK, Present
    <2> QED
      BY <2>1, OpenPreserves
  <1>2. ASSUME NEW p \in Proc, NEW e \in Presentable, NEW n \in Head, CallAdvanceHead(p, e, n)
        PROVE  IInv'
    <2>1. /\ OpenDirectory(p) /\ UNCHANGED <<file, block>>
          /\ goal' = [goal EXCEPT ![p] = "advance"]
          /\ e \in Head \cup {None} /\ expected' = [expected EXCEPT ![p] = e]
          /\ next' = [next EXCEPT ![p] = n]
          /\ answer' = [answer EXCEPT ![p] = None]
          /\ began' \in [Proc -> SUBSET Generation]
      BY <1>2 DEF CallAdvanceHead, Begin, TypeOK, Present, Presentable
    <2> QED
      BY <2>1, OpenPreserves
  <1>3. ASSUME NEW p \in Proc, Step(p)
        PROVE  IInv'
    BY <1>3, StepPreserves
  <1>4. ASSUME NEW p \in Proc, Crash(p)
        PROVE  IInv'
    BY <1>4, ReturnPreserves DEF Crash
  <1>5. ASSUME NEW f \in Frame, PutFrame(f)
        PROVE  IInv'
    <2> USE <1>5 DEF PutFrame, callVars, readVars
    <2>1. TypeOK' /\ HistoryIsChain'
      BY DEF TypeOK, HistoryIsChain, Present
    <2>2. HeadFrameRetained' /\ ReadPrefix'
      BY DEF HeadFrameRetained, ReadPrefix, Present
    <2>3. WriterHoldsPredecessor'
      BY DEF WriterHoldsPredecessor, Present, AdmitsNext, RequiredGeneration
    <2> QED
      BY <2>1, <2>2, <2>3
  <1>6. CASE UNCHANGED vars
    <2> USE <1>6 DEF vars
    <2>1. TypeOK' /\ HistoryIsChain' /\ HeadFrameRetained'
      BY DEF TypeOK, HistoryIsChain, HeadFrameRetained, Present
    <2>2. ReadPrefix' /\ WriterHoldsPredecessor'
      BY DEF ReadPrefix, WriterHoldsPredecessor, Present, AdmitsNext, RequiredGeneration
    <2> QED
      BY <2>1, <2>2
  <1> QED
    BY <1>1, <1>2, <1>3, <1>4, <1>5, <1>6 DEF Next

\* Every reachable state satisfies the inductive invariant.
THEOREM Invariance == Spec => []IInv
  BY InitEstablishes, NextPreserves, PTL DEF Spec

\* Every variable keeps the type the code gives it.
THEOREM TypeCorrect == Spec => []TypeOK
  <1>1. IInv => TypeOK
    BY DEF IInv
  <1> QED
    BY <1>1, Invariance, PTL

\* The stored generations of DirectoryBranchHeadStore are a gap-free chain of one
\* application: readHead's validation cannot fail on what is stored.
THEOREM ChainHolding == Spec => []HistoryIsChain
  <1>1. IInv => HistoryIsChain
    BY DEF IInv
  <1> QED
    BY <1>1, Invariance, PTL

\* advanceHeadIfCurrent never publishes a head whose Frame is not retained.
THEOREM FrameRetention == Spec => []HeadFrameRetained
  <1>1. IInv => HeadFrameRetained
    BY DEF IInv
  <1> QED
    BY <1>1, Invariance, PTL

\* No step overwrites or removes a published generation file.
THEOREM AppendOnly == Spec => HistoryIsAppendOnly
  <1> DEFINE Keep == \A g \in Generation : file[g] # None => file'[g] = file[g]
  <1>1. IInv /\ [Next]_vars => [Keep]_vars
    <2> SUFFICES ASSUME IInv, Next
                 PROVE  Keep
      BY DEF vars
    <2>1. ASSUME NEW p \in Proc, CreateGeneration(p)
          PROVE  Keep
      BY <2>1 DEF CreateGeneration, IInv, TypeOK
    <2>2. CASE UNCHANGED file
      BY <2>2
    <2>3. \/ \E p \in Proc : CreateGeneration(p)
          \/ UNCHANGED file
      BY DEF Next, Step, CallReadHead, CallAdvanceHead, Begin, ReadDirectory, ReadEnvelope,
             RejectHistory, ReturnHead, ReturnConflict, CompareHead, RejectNext, HasBlock,
             RejectMissingBlock, LoseGeneration, PutFrame, Crash
    <2> QED
      BY <2>1, <2>2, <2>3
  <1> QED
    BY <1>1, Invariance, PTL DEF Spec, HistoryIsAppendOnly

-------------------------------------------------------------------------------
(***************************************************************************)
(* The refinement of BranchHead: what a call in progress knows of the files *)
(* that were there when it began.                                           *)
(***************************************************************************)
HasNewest(gs) == gs = {} \/ \E m \in gs : \A other \in gs : other <= m

\* The files are 0 .. n for some n, or none.
NoGap ==
  /\ HasNewest(Present)
  /\ \A g \in Present, k \in Generation : k < g => k \in Present

\* A read sees what was there before its call; a writer about to create the next
\* generation holds the head it was asked to replace; a loser rereads the
\* directory with the winner's file in it.
CallWindow(p) ==
  pc[p] # "idle" =>
    /\ began[p] \subseteq Present /\ HasNewest(began[p])
    /\ pc[p] \in {"readdir", "envelope"} => began[p] \subseteq listed[p]
    /\ pc[p] \in {"hasBlock", "link"} => goal[p] = "advance" /\ previous[p] = expected[p]
    /\ goal[p] = "conflict" =>
         /\ pc[p] \in {"readdir", "envelope"}
         /\ next[p].generation = RequiredGeneration(expected[p])
         /\ next[p].generation \in listed[p]

Windows == IInv /\ NoGap /\ \A p \in Proc : CallWindow(p)

\* What a step of p leaves as it is.
Elsewhere(p) ==
  \A q \in Proc \ {p} :
    /\ pc'[q] = pc[q] /\ goal'[q] = goal[q] /\ expected'[q] = expected[q] /\ next'[q] = next[q]
    /\ listed'[q] = listed[q] /\ previous'[q] = previous[q] /\ began'[q] = began[q]

LEMMA InitWindows == Init => Windows
<1> SUFFICES ASSUME Init PROVE Windows
  OBVIOUS
<1>1. Present = {} /\ \A p \in Proc : pc[p] = "idle"
  BY DEF Init, Present
<1> QED
  BY <1>1, InitEstablishes DEF Windows, NoGap, HasNewest, CallWindow

\* Without a new file, only the call that steps is to be looked at.
LEMMA SameFiles ==
  ASSUME Windows, IInv', NEW p \in Proc, UNCHANGED file, Elsewhere(p), CallWindow(p)'
  PROVE  Windows'
<1>1. Present' = Present
  BY DEF Present
<1>2. NoGap'
  BY <1>1 DEF Windows, NoGap
<1>3. \A q \in Proc \ {p} : CallWindow(q)'
  BY <1>1 DEF Windows, CallWindow, Elsewhere
<1> QED
  BY <1>2, <1>3 DEF Windows

LEMMA ForgetLeaves ==
  ASSUME IInv, NEW p \in Proc, Forget(p)
  PROVE  pc'[p] = "idle" /\ Elsewhere(p)
BY DEF Forget, IInv, TypeOK, Elsewhere

\* A call begins with what is there.
LEMMA BeginWindow ==
  ASSUME Windows, IInv', NEW p \in Proc, NEW kind \in {"read", "advance"}, NEW e, NEW n,
         Begin(p, kind, e, n)
  PROVE  Windows' /\ Elsewhere(p)
<1>1. /\ Elsewhere(p) /\ UNCHANGED file
      /\ pc'[p] = "readdir" /\ goal'[p] = kind /\ began'[p] = Present /\ listed'[p] = Present
  BY DEF Begin, OpenDirectory, Windows, IInv, TypeOK, Elsewhere
<1>2. Present' = Present
  BY <1>1 DEF Present
<1>3. CallWindow(p)'
  BY <1>1, <1>2 DEF CallWindow, Windows, NoGap
<1> QED
  BY <1>1, <1>3, SameFiles

\* The head a finished listing ends with is the newest of those before the call,
\* or one published since.
LEMMA LastRead ==
  ASSUME Windows, NEW p \in Proc, pc[p] = "envelope", ListingDone(p)
  PROVE  /\ previous[p] \in WitnessedBy(p)
         /\ goal[p] = "conflict" => previous[p] # expected[p]
<1> DEFINE last == index[p] - 1
<1>1. /\ index[p] \in Nat /\ began[p] \subseteq listed[p] /\ listed[p] \subseteq Present
      /\ IF index[p] = 0 THEN previous[p] = None
         ELSE last \in Present /\ previous[p] = file[last].head
  BY DEF Windows, IInv, TypeOK, ReadPrefix, CallWindow
<1>2. \A g \in listed[p] : g \in Nat /\ g < index[p]
  BY <1>1 DEF ListingDone, Present, Generation
<1>3. previous[p] \in WitnessedBy(p)
  <2>1. CASE index[p] = 0
    <3>1. began[p] = {}
      BY <1>1, <1>2, <2>1
    <3> QED
      BY <1>1, <2>1, <3>1 DEF WitnessedBy, Newest
  <2>2. CASE index[p] # 0 /\ last \notin began[p]
    BY <1>1, <2>2 DEF WitnessedBy
  <2>3. CASE index[p] # 0 /\ last \in began[p]
    <3>1. \A g \in began[p] : g <= last /\ g \in Nat
      BY <1>1, <1>2
    <3>2. (CHOOSE g \in began[p] : \A other \in began[p] : other <= g) = last
      BY <2>3, <3>1
    <3> QED
      BY <1>1, <2>3, <3>2 DEF WitnessedBy, Newest
  <2> QED
    BY <2>1, <2>2, <2>3
<1>4. ASSUME goal[p] = "conflict" PROVE previous[p] # expected[p]
  <2>1. /\ next[p].generation = RequiredGeneration(expected[p])
        /\ next[p].generation \in listed[p] /\ expected[p] \in Head \cup {None}
    BY <1>4 DEF Windows, IInv, TypeOK, CallWindow
  <2>2. next[p].generation <= last /\ next[p].generation \in Nat
    BY <1>1, <1>2, <2>1
  <2>3. previous[p].generation = last /\ previous[p] \in Head /\ previous[p] # None
    <3>1. index[p] # 0 /\ last \in Present
      BY <1>1, <2>2
    <3> QED
      BY <1>1, <3>1, HeadStoreAssumption
      DEF Windows, IInv, TypeOK, HistoryIsChain, Present, Envelope
  <2>4. CASE expected[p] = None
    BY <2>3, <2>4
  <2>5. CASE expected[p] # None
    <3>1. expected[p].generation \in Nat
      BY <2>1, <2>5 DEF Head, Generation
    <3> QED
      BY <1>1, <2>1, <2>2, <2>3, <2>5, <3>1 DEF RequiredGeneration
  <2> QED
    BY <2>4, <2>5
<1> QED
  BY <1>3, <1>4

\* The file that is created is the next after the newest, whose head its writer
\* was asked to replace.
LEMMA CreatesNewest ==
  ASSUME Windows, NEW p \in Proc, CreateGeneration(p)
  PROVE  LET g == next[p].generation
         IN /\ g \in Generation \ Present /\ next[p] \in Head
            /\ \A k \in Present : k < g
            /\ g = 0 \/ g - 1 \in Present
            /\ Newest(Present) = expected[p] /\ goal[p] = "advance"
            /\ AdmitsNext(p) /\ previous[p] = expected[p]
            /\ Present' = Present \cup {g} /\ file'[g].head = next[p]
            /\ \A k \in Present : file'[k] = file[k]
<1> DEFINE g == next[p].generation
           e == [previousHead |-> previous[p], head |-> next[p]]
<1>1. /\ pc[p] = "link" /\ next[p] \in Head /\ AdmitsNext(p) /\ file[g] = None
      /\ goal[p] = "advance" /\ previous[p] = expected[p] /\ previous[p] \in Head \cup {None}
      /\ previous[p] # None => /\ previous[p].generation \in Present
                               /\ previous[p] = file[previous[p].generation].head
  BY DEF CreateGeneration, Windows, IInv, TypeOK, WriterHoldsPredecessor, CallWindow
<1>2. g \in Generation /\ g \in Nat /\ g \notin Present /\ e \in Envelope /\ e # None
  BY <1>1, HeadStoreAssumption DEF Head, Generation, Present, Envelope
<1>3. file' = [file EXCEPT ![g] = e] /\ file \in [Generation -> Envelope \cup {None}]
  BY DEF CreateGeneration, Windows, IInv, TypeOK
<1>4. Present' = Present \cup {g} /\ file'[g] = e /\ \A k \in Present : file'[k] = file[k]
  BY <1>2, <1>3 DEF Present
<1>5. \A k \in Present : k < g
  <2>1. \A k \in Present : k \in Nat
    BY DEF Present, Generation
  <2> QED
    BY <1>2, <2>1 DEF Windows, NoGap
<1>6. Newest(Present) = previous[p] /\ (g = 0 \/ g - 1 \in Present)
  <2>1. CASE previous[p] = None
    <3>1. g = 0
      BY <1>1, <2>1 DEF AdmitsNext, RequiredGeneration
    <3>2. Present = {}
      BY <1>5, <3>1 DEF Present, Generation
    <3> QED
      BY <2>1, <3>1, <3>2 DEF Newest
  <2>2. CASE previous[p] # None
    <3> DEFINE j == previous[p].generation
    <3>1. j \in Present /\ previous[p] = file[j].head /\ g = j + 1 /\ j \in Nat
      BY <1>1, <2>2 DEF AdmitsNext, RequiredGeneration, Present, Generation
    <3>2. \A k \in Present : k <= j /\ k \in Nat
      BY <1>5, <3>1 DEF Present, Generation
    <3> HIDE DEF j
    <3>3. (CHOOSE k \in Present : \A other \in Present : other <= k) = j
      BY <3>1, <3>2
    <3>4. Present # {} /\ g - 1 = j
      BY <1>2, <3>1
    <3> QED
      BY <3>1, <3>3, <3>4 DEF Newest
  <2> QED
    BY <2>1, <2>2
<1> QED
  BY <1>1, <1>2, <1>4, <1>5, <1>6

LEMMA CreateWindow ==
  ASSUME Windows, IInv', NEW p \in Proc, CreateGeneration(p)
  PROVE  Windows' /\ Elsewhere(p) /\ pc'[p] = "idle"
<1> DEFINE g == next[p].generation
<1>1. /\ g \in Generation \ Present /\ g \in Nat /\ Present' = Present \cup {g}
      /\ \A k \in Present : k < g
      /\ g = 0 \/ g - 1 \in Present
  BY CreatesNewest DEF Generation
<1>2. pc'[p] = "idle" /\ Elsewhere(p)
  BY ForgetLeaves DEF CreateGeneration, Return, Windows
<1> HIDE DEF g
<1>3. HasNewest(Present)'
  <2>1. \A k \in Present' : k <= g
    BY <1>1 DEF Present, Generation
  <2> QED
    BY <1>1, <2>1 DEF HasNewest
<1>4. \A h \in Present', k \in Generation : k < h => k \in Present'
  <2> SUFFICES ASSUME NEW h \in Present', NEW k \in Generation, k < h PROVE k \in Present'
    OBVIOUS
  <2>1. k \in Nat
    BY DEF Generation
  <2>2. CASE h = g
    <3>1. g # 0 /\ g - 1 \in Present
      BY <1>1, <2>1, <2>2
    <3>2. k = g - 1 \/ k < g - 1
      BY <1>1, <2>1, <2>2
    <3> QED
      BY <1>1, <3>1, <3>2 DEF Windows, NoGap
  <2>3. CASE h # g
    BY <1>1, <2>3 DEF Windows, NoGap
  <2> QED
    BY <2>2, <2>3
<1>5. \A q \in Proc : CallWindow(q)'
  BY <1>1, <1>2 DEF Windows, CallWindow, Elsewhere
<1> QED
  BY <1>2, <1>3, <1>4, <1>5 DEF Windows, NoGap

\* Every other step leaves the files alone, and keeps what its call knows.
LEMMA StepWindow ==
  ASSUME Windows, IInv', NEW p \in Proc, Step(p), ~CreateGeneration(p)
  PROVE  Windows' /\ Elsewhere(p) /\ UNCHANGED file
<1> USE DEF Windows
<1>1. CASE ReadDirectory(p) \/ ReadEnvelope(p)
  <2>1. /\ Elsewhere(p) /\ UNCHANGED <<file, goal, expected, next, began>>
        /\ pc'[p] = "envelope" /\ pc[p] \in {"readdir", "envelope"} /\ listed[p] \subseteq listed'[p]
    BY <1>1 DEF ReadDirectory, ReadEnvelope, callVars, IInv, TypeOK, Elsewhere
  <2>2. CallWindow(p)'
    BY <2>1 DEF CallWindow, Present
  <2> QED
    BY <2>1, <2>2, SameFiles
<1>2. CASE \/ RejectHistory(p) \/ RejectNext(p) \/ RejectMissingBlock(p)
           \/ ReturnHead(p) \/ ReturnConflict(p)
  <2>1. Forget(p) /\ UNCHANGED file
    BY <1>2 DEF RejectHistory, RejectNext, RejectMissingBlock, ReturnHead, ReturnConflict, Return
  <2>2. CallWindow(p)'
    BY <2>1, ForgetLeaves DEF CallWindow
  <2> QED
    BY <2>1, <2>2, ForgetLeaves, SameFiles
<1>3. CASE CompareHead(p) \/ HasBlock(p)
  <2>1. /\ Elsewhere(p) /\ UNCHANGED <<file, goal, expected, next, began, previous>>
        /\ pc'[p] \in {"hasBlock", "link"} /\ pc[p] # "idle"
        /\ goal[p] = "advance" /\ previous[p] = expected[p]
    BY <1>3 DEF CompareHead, HasBlock, callVars, readVars, IInv, TypeOK, Elsewhere, SameHead,
                CallWindow
  <2>2. CallWindow(p)'
    BY <2>1 DEF CallWindow, Present
  <2> QED
    BY <2>1, <2>2, SameFiles
<1>4. CASE LoseGeneration(p)
  <2>1. /\ Elsewhere(p) /\ UNCHANGED <<file, expected, next, began>>
        /\ pc'[p] = "readdir" /\ pc[p] = "link" /\ listed'[p] = Present
        /\ previous[p] = expected[p]
    BY <1>4 DEF LoseGeneration, OpenDirectory, IInv, TypeOK, Elsewhere, CallWindow
  <2>2. /\ next[p].generation = RequiredGeneration(expected[p])
        /\ next[p].generation \in Present
    <3>1. next[p] \in Head /\ AdmitsNext(p) /\ file[next[p].generation] # None
      BY <1>4, <2>1 DEF IInv, WriterHoldsPredecessor, LoseGeneration
    <3> QED
      BY <2>1, <3>1 DEF AdmitsNext, Present, Head
  <2>3. CallWindow(p)'
    BY <2>1, <2>2 DEF CallWindow, Present, RequiredGeneration
  <2> QED
    BY <2>1, <2>3, SameFiles
<1> QED
  BY <1>1, <1>2, <1>3, <1>4 DEF Step

LEMMA NextWindows == Windows /\ [Next]_vars => Windows'
<1> SUFFICES ASSUME Windows, [Next]_vars PROVE Windows'
  OBVIOUS
<1>1. IInv'
  BY NextPreserves DEF Windows
<1>2. ASSUME NEW p \in Proc, CallReadHead(p) PROVE Windows'
  BY <1>1, <1>2, BeginWindow DEF CallReadHead
<1>3. ASSUME NEW p \in Proc, NEW e \in Presentable, NEW n \in Head, CallAdvanceHead(p, e, n)
      PROVE  Windows'
  BY <1>1, <1>3, BeginWindow DEF CallAdvanceHead
<1>4. ASSUME NEW p \in Proc, Step(p) PROVE Windows'
  BY <1>1, <1>4, CreateWindow, StepWindow
<1>5. ASSUME NEW p \in Proc, Crash(p) PROVE Windows'
  <2>1. Forget(p) /\ UNCHANGED file
    BY <1>5 DEF Crash
  <2> QED
    BY <1>1, <2>1, ForgetLeaves, SameFiles DEF CallWindow, Windows
<1>6. ASSUME NEW f \in Frame, PutFrame(f) PROVE Windows'
  BY <1>1, <1>6 DEF PutFrame, callVars, readVars, Windows, NoGap, CallWindow, Present
<1>7. CASE UNCHANGED vars
  BY <1>1, <1>7 DEF vars, Windows, NoGap, CallWindow, Present
<1> QED
  BY <1>2, <1>3, <1>4, <1>5, <1>6, <1>7 DEF Next

\* Every read sees at least the files that were there when its call began.
THEOREM ReadWindows == Spec => []Windows
  BY InitWindows, NextWindows, PTL DEF Spec

-------------------------------------------------------------------------------
\* The abstract store, as the directory shows it, seen from one step.
\* A step that creates no file leaves the pointer and the other calls alone.
LEMMA ViewElsewhere ==
  ASSUME NEW p \in Proc, UNCHANGED file, Elsewhere(p)
  PROVE  /\ Pointer' = Pointer
         /\ \A q \in Proc \ {p} : CallOf(q)' = CallOf(q) /\ WitnessedBy(q)' = WitnessedBy(q)
<1>1. Present' = Present
  BY DEF Present
<1>2. Pointer' = Pointer
  BY <1>1 DEF Pointer, Newest
<1>3. ASSUME NEW q \in Proc \ {p} PROVE CallOf(q)' = CallOf(q)
  BY DEF Elsewhere, CallOf
<1>4. ASSUME NEW q \in Proc \ {p} PROVE WitnessedBy(q)' = WitnessedBy(q)
  BY <1>1 DEF Elsewhere, WitnessedBy, Newest
<1> QED
  BY <1>2, <1>3, <1>4

\* A call that neither begins nor returns is not seen to move.
LEMMA ViewInside ==
  ASSUME NEW p \in Proc, UNCHANGED <<file, expected, next, began, answer>>, Elsewhere(p),
         pc[p] # "idle", pc'[p] # "idle", goal[p] = "read" <=> goal'[p] = "read"
  PROVE  UNCHANGED <<Pointer, Calls, Witnessed, answer>>
<1>1. CallOf(p)' = CallOf(p)
  BY DEF CallOf
<1>2. WitnessedBy(p)' = WitnessedBy(p)
  BY DEF WitnessedBy, Newest, Present
<1> QED
  BY <1>1, <1>2, ViewElsewhere DEF Calls, Witnessed

\* A call that returns, or dies, is forgotten.
LEMMA ViewReturn ==
  ASSUME IInv, NEW p \in Proc, UNCHANGED file, Forget(p)
  PROVE  /\ Pointer' = Pointer
         /\ Calls' = [Calls EXCEPT ![p] = None]
         /\ Witnessed' = [Witnessed EXCEPT ![p] = {}]
<1>1. pc'[p] = "idle" /\ Elsewhere(p)
  BY ForgetLeaves
<1>2. CallOf(p)' = None /\ WitnessedBy(p)' = {}
  BY <1>1 DEF CallOf, WitnessedBy, Newest
<1> QED
  BY <1>1, <1>2, ViewElsewhere DEF Calls, Witnessed

\* A call begins with the pointer as its one witness.
LEMMA ViewBegin ==
  ASSUME Windows, IInv', NEW p \in Proc, NEW kind \in {"read", "advance"}, NEW e, NEW n,
         Begin(p, kind, e, n)
  PROVE  /\ Pointer' = Pointer
         /\ Calls' = [Calls EXCEPT ![p] = CallOf(p)']
         /\ Witnessed' = [Witnessed EXCEPT ![p] = {Pointer}]
         /\ pc'[p] = "readdir" /\ goal'[p] = kind /\ expected'[p] = e /\ next'[p] = n
<1>1. /\ Elsewhere(p) /\ UNCHANGED file
      /\ pc'[p] = "readdir" /\ goal'[p] = kind /\ began'[p] = Present
      /\ expected'[p] = e /\ next'[p] = n
  <2>1. Elsewhere(p)
    BY BeginWindow
  <2>2. IInv
    BY DEF Windows
  <2> QED
    BY <2>1, <2>2 DEF Begin, OpenDirectory, IInv, TypeOK
<1>2. WitnessedBy(p)' = {Pointer}
  <2>1. Present' = Present
    BY <1>1 DEF Present
  <2>2. WitnessedBy(p)' = {Pointer} \cup {file'[g].head : g \in Present' \ began'[p]}
    BY <1>1, <2>1 DEF WitnessedBy, Newest, Pointer
  <2> QED
    BY <1>1, <2>1, <2>2
<1> QED
  BY <1>1, <1>2, ViewElsewhere DEF Calls, Witnessed

\* The one step that moves the pointer: the other calls witness its new value.
LEMMA ViewCreate ==
  ASSUME Windows, IInv', NEW p \in Proc, CreateGeneration(p)
  PROVE  /\ Pointer' = next[p]
         /\ Calls' = [Calls EXCEPT ![p] = None]
         /\ \A q \in Proc :
              WitnessedBy(q)' = IF q = p \/ pc[q] = "idle" THEN {}
                                ELSE WitnessedBy(q) \cup {next[p]}
<1> DEFINE g == next[p].generation
<1>1. /\ g \in Generation \ Present /\ g \in Nat /\ Present' = Present \cup {g}
      /\ \A k \in Present : k < g
      /\ file'[g].head = next[p] /\ \A k \in Present : file'[k] = file[k]
  BY CreatesNewest DEF Generation
<1>2. pc'[p] = "idle" /\ Elsewhere(p)
  BY CreateWindow
<1> HIDE DEF g
<1>3. Pointer' = next[p]
  <2>1. \A k \in Present' : k <= g /\ k \in Nat
    BY <1>1 DEF Present, Generation
  <2>2. (CHOOSE k \in Present' : \A other \in Present' : other <= k) = g
    BY <1>1, <2>1
  <2>3. Present' # {}
    BY <1>1
  <2> QED
    BY <1>1, <2>2, <2>3 DEF Pointer, Newest
<1>4. Calls' = [Calls EXCEPT ![p] = None]
  <2>1. \A q \in Proc \ {p} : CallOf(q)' = CallOf(q)
    BY <1>2 DEF Elsewhere, CallOf
  <2>2. CallOf(p)' = None
    BY <1>2 DEF CallOf
  <2> QED
    BY <2>1, <2>2 DEF Calls
<1>5. ASSUME NEW q \in Proc, q # p, pc[q] # "idle"
      PROVE  WitnessedBy(q)' = WitnessedBy(q) \cup {next[p]}
  <2>1. /\ pc'[q] # "idle" /\ began'[q] = began[q]
        /\ began[q] \subseteq Present /\ HasNewest(began[q])
    BY <1>2, <1>5 DEF Elsewhere, Windows, CallWindow
  <2> DEFINE fresh == {file[k].head : k \in Present \ began[q]}
  <2>2. {file'[k].head : k \in Present' \ began'[q]} = fresh \cup {next[p]}
    BY <1>1, <2>1
  <2>3. CASE began[q] = {}
    <3>1. WitnessedBy(q) = {None} \cup fresh
      BY <1>5, <2>3 DEF WitnessedBy, Newest
    <3>2. WitnessedBy(q)' = {None} \cup {file'[k].head : k \in Present' \ began'[q]}
      BY <2>1, <2>3 DEF WitnessedBy, Newest
    <3> QED
      BY <2>2, <3>1, <3>2
  <2>4. CASE began[q] # {}
    <3> DEFINE m == CHOOSE k \in began[q] : \A other \in began[q] : other <= k
    <3>1. m \in began[q]
      BY <2>1, <2>4 DEF HasNewest
    <3>2. WitnessedBy(q) = {file[m].head} \cup fresh
      BY <1>5, <2>4 DEF WitnessedBy, Newest
    <3>3. WitnessedBy(q)' = {file'[m].head} \cup {file'[k].head : k \in Present' \ began'[q]}
      BY <2>1, <2>4 DEF WitnessedBy, Newest
    <3>4. file'[m] = file[m]
      BY <1>1, <2>1, <3>1
    <3> HIDE DEF m, fresh
    <3> QED
      BY <2>2, <3>2, <3>3, <3>4
  <2> QED
    BY <2>3, <2>4
<1>6. ASSUME NEW q \in Proc, q = p \/ pc[q] = "idle" PROVE WitnessedBy(q)' = {}
  BY <1>2, <1>6 DEF Elsewhere, WitnessedBy, Newest
<1> QED
  BY <1>3, <1>4, <1>5, <1>6

-------------------------------------------------------------------------------
LEMMA BeginImplements ==
  ASSUME Windows, IInv', NEW p \in Proc, NEW kind \in {"read", "advance"}, NEW e, NEW n,
         Begin(p, kind, e, n),
         kind = "advance" => e \in Head \cup {None} /\ n \in Head
  PROVE  Abstract!Next
<1>1. /\ pc[p] = "idle" /\ answer' = [answer EXCEPT ![p] = None]
      /\ Pointer' = Pointer
      /\ Calls' = [Calls EXCEPT ![p] = CallOf(p)']
      /\ Witnessed' = [Witnessed EXCEPT ![p] = {Pointer}]
      /\ pc'[p] = "readdir" /\ goal'[p] = kind /\ expected'[p] = e /\ next'[p] = n
  BY ViewBegin DEF Begin
<1>2. Calls[p] = None
  BY <1>1 DEF Calls, CallOf
<1>3. CallOf(p)' \in {Abstract!ReadCall} \cup Abstract!AdvanceCall
  <2>1. CASE kind = "read"
    BY <1>1, <2>1 DEF CallOf, Abstract!ReadCall
  <2>2. CASE kind = "advance"
    BY <1>1, <2>2 DEF CallOf, Abstract!AdvanceCall
  <2> QED
    BY <2>1, <2>2
<1>4. Abstract!Invoke(p, CallOf(p)')
  BY <1>1, <1>2 DEF Abstract!Invoke
<1> QED
  BY <1>3, <1>4 DEF Abstract!Next

\* A call that throws, answers or dies.
LEMMA ReturnImplements ==
  ASSUME Windows, NEW p \in Proc,
         \/ RejectHistory(p) \/ RejectNext(p) \/ RejectMissingBlock(p)
         \/ ReturnHead(p) \/ ReturnConflict(p) \/ Crash(p)
  PROVE  Abstract!Next
<1>1. /\ Pointer' = Pointer
      /\ Calls' = [Calls EXCEPT ![p] = None]
      /\ Witnessed' = [Witnessed EXCEPT ![p] = {}]
  <2>1. Forget(p) /\ UNCHANGED file
    BY DEF RejectHistory, RejectNext, RejectMissingBlock, ReturnHead, ReturnConflict, Crash, Return
  <2> QED
    BY <2>1, ViewReturn DEF Windows
<1>2. /\ Calls[p] = CallOf(p) /\ Witnessed[p] = WitnessedBy(p)
      /\ pc[p] # "idle" /\ goal[p] = "read" => CallOf(p) = Abstract!ReadCall
      /\ pc[p] # "idle" /\ goal[p] # "read" => CallOf(p) \in Abstract!AdvanceCall
                                               /\ CallOf(p).expected = expected[p]
      /\ pc[p] # "idle" => CallOf(p) # None
  <2>1. Calls[p] = CallOf(p) /\ Witnessed[p] = WitnessedBy(p)
    BY DEF Calls, Witnessed
  <2>2. ASSUME pc[p] # "idle", goal[p] = "read"
        PROVE  CallOf(p) = Abstract!ReadCall /\ CallOf(p) \in Call
    BY <2>2 DEF CallOf, Abstract!ReadCall, Call
  <2>3. ASSUME pc[p] # "idle", goal[p] # "read"
        PROVE  /\ CallOf(p) \in Abstract!AdvanceCall /\ CallOf(p).expected = expected[p]
               /\ CallOf(p) \in Call
    <3>1. next[p] \in Head /\ expected[p] \in Head \cup {None}
      BY <2>3 DEF Windows, IInv, TypeOK, ReadPrefix
    <3> QED
      BY <2>3, <3>1 DEF CallOf, Abstract!AdvanceCall, Call
  <2> QED
    BY <2>1, <2>2, <2>3, HeadStoreAssumption
<1>3. CASE RejectHistory(p) \/ RejectNext(p) \/ RejectMissingBlock(p)
  <2>1. Return(p, "error", None) /\ pc[p] # "idle"
    BY <1>3 DEF RejectHistory, RejectNext, RejectMissingBlock
  <2>2. Abstract!Fail(p)
    BY <1>1, <1>2, <2>1 DEF Abstract!Fail, Abstract!Reply, Abstract!Answer, Return
  <2> QED
    BY <2>2 DEF Abstract!Next
<1>4. CASE ReturnHead(p)
  <2>1. /\ Return(p, "head", previous[p]) /\ pc[p] # "idle" /\ goal[p] = "read"
        /\ previous[p] \in WitnessedBy(p)
    BY <1>4, LastRead DEF ReturnHead
  <2>2. Abstract!Reply(p, Abstract!Answer("head", previous[p]))
    BY <1>1, <2>1 DEF Abstract!Reply, Abstract!Answer, Return
  <2>3. Abstract!AnswerHead(p)
    BY <1>1, <1>2, <2>1, <2>2 DEF Abstract!AnswerHead
  <2> QED
    BY <2>3 DEF Abstract!Next
<1>5. CASE ReturnConflict(p)
  <2>1. /\ Return(p, "conflict", previous[p]) /\ pc[p] # "idle" /\ goal[p] # "read"
        /\ previous[p] \in WitnessedBy(p) /\ previous[p] # expected[p]
    BY <1>5, LastRead DEF ReturnConflict, SameHead
  <2>2. Abstract!Reply(p, Abstract!Answer("conflict", previous[p]))
    BY <1>1, <2>1 DEF Abstract!Reply, Abstract!Answer, Return
  <2>3. Abstract!AnswerConflict(p)
    BY <1>1, <1>2, <2>1, <2>2 DEF Abstract!AnswerConflict
  <2> QED
    BY <2>3 DEF Abstract!Next
<1>6. CASE Crash(p)
  <2>1. Abstract!Crash(p)
    BY <1>1, <1>6 DEF Abstract!Crash, Abstract!Reply, Crash
  <2> QED
    BY <2>1 DEF Abstract!Next
<1> QED
  BY <1>3, <1>4, <1>5, <1>6

\* Creating the file is the moment an advance takes effect.
LEMMA CreateImplements ==
  ASSUME Windows, IInv', NEW p \in Proc, CreateGeneration(p)
  PROVE  Abstract!Next
<1>1. /\ pc[p] = "link" /\ goal[p] = "advance" /\ next[p] \in Head
      /\ Pointer = expected[p] /\ previous[p] = expected[p] /\ AdmitsNext(p)
      /\ expected[p] \in Head \cup {None}
      /\ answer' = [answer EXCEPT ![p] = [kind |-> "advanced", head |-> next[p]]]
  BY CreatesNewest DEF CreateGeneration, Return, Pointer, Windows, IInv, TypeOK
<1>2. Calls[p] = [kind |-> "advance", expected |-> expected[p], next |-> next[p]]
  BY <1>1 DEF Calls, CallOf
<1>3. Calls[p] \in Abstract!AdvanceCall
  BY <1>1, <1>2 DEF Abstract!AdvanceCall
<1>4. Abstract!Admits(Pointer, Calls[p].next)
  BY <1>1, <1>2 DEF Abstract!Admits, AdmitsNext, RequiredGeneration
<1>5. ASSUME NEW q \in Proc PROVE Calls[q] = None <=> pc[q] = "idle"
  <2>1. pc[q] # "idle" => CallOf(q) \in Call
    BY DEF CallOf, Call, Windows, IInv, TypeOK, ReadPrefix
  <2> QED
    BY <2>1, HeadStoreAssumption DEF Calls, CallOf
<1>6. /\ Pointer' = next[p]
      /\ Calls' = [Calls EXCEPT ![p] = None]
  BY ViewCreate
<1>7. Witnessed' = [q \in Proc |-> IF q = p \/ Calls[q] = None
                                   THEN {} ELSE Witnessed[q] \cup {Pointer'}]
  BY <1>5, <1>6, ViewCreate DEF Witnessed
<1>8. Abstract!Reply(p, Abstract!Answer("advanced", Pointer'))
  BY <1>1, <1>6 DEF Abstract!Reply, Abstract!Answer
<1>9. Abstract!Advance(p)
  BY <1>1, <1>2, <1>3, <1>4, <1>6, <1>7, <1>8 DEF Abstract!Advance
<1> QED
  BY <1>9 DEF Abstract!Next

\* The directory of generation files, read and written without a lock, is one
\* pointer: an advance takes effect when its file is created, and only from the
\* complete expected head; every other answer is a head of the call's time.
THEOREM ImplementsPointer == Spec => ImplementsBranchHead
<1>1. Init => Abstract!Init
  <2> SUFFICES ASSUME Init PROVE Abstract!Init
    OBVIOUS
  <2>1. Present = {} /\ \A p \in Proc : pc[p] = "idle"
    BY DEF Init, Present
  <2>2. Pointer = None /\ answer = [p \in Proc |-> None]
    BY <2>1 DEF Pointer, Newest, Init
  <2>3. Calls = [p \in Proc |-> None] /\ Witnessed = [p \in Proc |-> {}]
    BY <2>1 DEF Calls, Witnessed, CallOf, WitnessedBy, Newest
  <2> QED
    BY <2>2, <2>3 DEF Abstract!Init
<1>2. Windows /\ [Next]_vars => [Abstract!Next]_(Abstract!branchVars)
  <2> SUFFICES ASSUME Windows, [Next]_vars PROVE [Abstract!Next]_(Abstract!branchVars)
    OBVIOUS
  <2>1. IInv'
    BY NextPreserves DEF Windows
  <2>2. CASE UNCHANGED <<file, pc, goal, expected, next, began, answer>>
    BY <2>2 DEF Abstract!branchVars, Pointer, Calls, Witnessed, CallOf, WitnessedBy, Newest, Present
  <2>3. ASSUME NEW p \in Proc, CallReadHead(p) PROVE Abstract!Next
    BY <2>1, <2>3, BeginImplements DEF CallReadHead
  <2>4. ASSUME NEW p \in Proc, NEW e \in Presentable, NEW n \in Head, CallAdvanceHead(p, e, n)
        PROVE  Abstract!Next
    BY <2>1, <2>4, BeginImplements DEF CallAdvanceHead, Presentable
  <2>5. ASSUME NEW p \in Proc,
               ReadDirectory(p) \/ ReadEnvelope(p) \/ CompareHead(p) \/ HasBlock(p)
                 \/ LoseGeneration(p)
        PROVE  UNCHANGED Abstract!branchVars
    <3>1. Elsewhere(p) /\ ~CreateGeneration(p)
      <4>1. ~CreateGeneration(p)
        BY <2>5 DEF ReadDirectory, ReadEnvelope, CompareHead, HasBlock, LoseGeneration,
                    CreateGeneration
      <4> QED
        BY <2>1, <2>5, <4>1, StepWindow DEF Step
    <3>2. /\ UNCHANGED <<file, expected, next, began, answer>>
          /\ pc[p] # "idle" /\ pc'[p] # "idle"
          /\ goal[p] = "read" <=> goal'[p] = "read"
      BY <2>5 DEF ReadDirectory, ReadEnvelope, CompareHead, HasBlock, LoseGeneration,
                  OpenDirectory, callVars, readVars, Windows, IInv, TypeOK, CallWindow
    <3> QED
      BY <3>1, <3>2, ViewInside DEF Abstract!branchVars
  <2>6. ASSUME NEW p \in Proc, CreateGeneration(p) PROVE Abstract!Next
    BY <2>1, <2>6, CreateImplements
  <2>7. ASSUME NEW p \in Proc,
               \/ RejectHistory(p) \/ RejectNext(p) \/ RejectMissingBlock(p)
               \/ ReturnHead(p) \/ ReturnConflict(p) \/ Crash(p)
        PROVE  Abstract!Next
    BY <2>7, ReturnImplements
  <2>8. ASSUME NEW f \in Frame, PutFrame(f)
        PROVE  UNCHANGED <<file, pc, goal, expected, next, began, answer>>
    BY <2>8 DEF PutFrame, callVars
  <2>9. CASE UNCHANGED vars
    BY <2>2, <2>9 DEF vars
  <2> QED
    BY <2>2, <2>3, <2>4, <2>5, <2>6, <2>7, <2>8, <2>9 DEF Next, Step
<1> QED
  BY <1>1, <1>2, ReadWindows, PTL DEF Spec, ImplementsBranchHead, Abstract!Spec

===============================================================================
