------------------------- MODULE RunControllerV1Proofs -------------------------
(***************************************************************************)
(* Proofs about RunControllerV1.  The inductive invariant says what a call *)
(* knows at each of its program points: a result about to be linked is in  *)
(* the block store, a Frame about to be reduced has its inputs in the      *)
(* journal, a Frame about to be published is retained and is the reduction *)
(* of those inputs.  Blocks and records only accumulate, so what one call  *)
(* knows survives the steps of all the others.  From it follow where every  *)
(* branch's Frames come from, what retries, bundles and forks show, and the *)
(* refinement of ReplayLog.                                                *)
(***************************************************************************)
EXTENDS RunControllerV1, SequenceTheorems, TLAPS

\* At most one record per branch-local request key.
KeyUnique(J) == \A r, s \in J : SameKey(r, s) => r = s

\* The call c reduces the Frame of the head it read, with inputs in J.
Input(c, J) ==
  /\ IsHead(c.head) /\ c.binding = c.head.binding
  /\ IF Parked(c.head.frame)
       THEN \E r \in J : /\ r.branch = c.branch /\ r.parent = c.head.frame
                         /\ r.binding = c.binding /\ Recorded(r, c.result, c.fuel)
       ELSE c.result = None

Persisting(c, F, R) ==
  /\ c.op \in {"advance", "import"} /\ c.result \in Result /\ c.fuel \in Fuel
  /\ c.op = "advance" => /\ IsHead(c.head) /\ c.binding = c.head.binding
                         /\ Parked(c.head.frame)
  /\ c.op = "import" => c.frame \in F
  /\ c.pc = "link" => c.result \in R

Stepping(c, J) ==
  /\ c.op \in {"initialize", "advance", "retry"} /\ c.fuel \in Fuel
  /\ IF c.op = "initialize" THEN c.result = None ELSE Input(c, J)

Publishing(c, F, J) ==
  /\ c.op \in {"initialize", "advance", "retry", "fork", "import"}
  /\ c.frame \in F
  /\ c.op \in {"advance", "retry"} =>
       /\ c.fuel \in Fuel /\ Input(c, J)
       /\ c.frame = Guest[c.head.frame, c.result, c.fuel]
       /\ CausalOutput(c.head.frame, c.result, c.frame)

\* What a call knows at its program point, of the Frames F, the results R and
\* the records J that are stored.
Phase(c, F, R, J) ==
  /\ c.pc \notin {"idle", "bundle"} => c.branch \in Branch
  /\ c.pc \in {"lookup", "block", "link"} => Persisting(c, F, R)
  /\ c.pc = "retained" => /\ c.op \in {"advance", "retry"}
                          /\ IsHead(c.head) /\ c.binding = c.head.binding
                          /\ Parked(c.head.frame)
  /\ c.pc = "step" => Stepping(c, J)
  /\ c.pc = "publish" => Publishing(c, F, J)
  /\ c.pc \in {"inspect", "advance"} =>
       c.op = "retry" /\ c.result = None /\ IsHead(c.inspected)
  /\ c.pc = "source" => c.op = "fork" /\ c.source \in Branch
  /\ c.pc \in {"record", "copy"} =>
       /\ c.op = "fork" /\ c.source \in Branch /\ IsHead(c.head)
       /\ c.frame = c.head.frame /\ c.frame \in F
  /\ c.pc = "bundle" => c.source \in Branch /\ IsHead(c.head)

CallsKnow == \A p \in Proc : Phase(call[p], frames, results, journal)

Inv == TypeOK /\ KeyUnique(journal) /\ BlocksRetained /\ CallsKnow

-------------------------------------------------------------------------------
\* Any sequence can be extended by any element.
IsSeq(s) == s \in Seq({s[i] : i \in DOMAIN s})

Extends(t, s, e) == t = Append(s, e)

LEMMA AppendAny ==
  ASSUME NEW s, IsSeq(s), NEW e, NEW t, Extends(t, s, e)
  PROVE  /\ IsSeq(t)
         /\ Len(t) = Len(s) + 1 /\ DOMAIN t = 1 .. Len(s) + 1
         /\ Len(s) \in Nat /\ DOMAIN s = 1 .. Len(s)
         /\ \A i \in DOMAIN s : t[i] = s[i]
         /\ t[Len(s) + 1] = e
         /\ t # <<>>
<1> DEFINE S == {s[i] : i \in DOMAIN s} \cup {e}
<1>1. s \in Seq(S)
  <2>1. \A i \in 1 .. Len(s) : s[i] \in S
    BY LenProperties DEF IsSeq
  <2> QED
    BY <2>1, IsASeq, LenProperties DEF IsSeq
<1>2. /\ t \in Seq(S) /\ Len(t) = Len(s) + 1
      /\ \A i \in 1 .. Len(s) : t[i] = s[i]
      /\ t[Len(s) + 1] = e
  BY <1>1, AppendProperties DEF Extends
<1>3. DOMAIN t = 1 .. Len(s) + 1 /\ Len(s) \in Nat /\ DOMAIN s = 1 .. Len(s)
  BY <1>1, <1>2, LenProperties
<1>4. IsSeq(t)
  BY <1>2, <1>3, IsASeq, LenProperties DEF IsSeq
<1> QED
  BY <1>2, <1>3, <1>4

\* The head of a branch that has begun is a head, and its Frame is retained.
LEMMA CurrentIsHead ==
  ASSUME TypeOK, NEW b \in Branch, Begun(b)
  PROVE  /\ Len(heads[b]) \in DOMAIN heads[b]
         /\ IsHead(Current(b))
         /\ BlocksRetained => Current(b).frame \in frames
<1>1. heads[b] \in Seq({heads[b][i] : i \in DOMAIN heads[b]}) /\ heads[b] # <<>>
  BY DEF TypeOK, Begun
<1>2. Len(heads[b]) \in Nat \ {0} /\ DOMAIN heads[b] = 1 .. Len(heads[b])
  BY <1>1, EmptySeq, LenProperties
<1>3. Len(heads[b]) \in DOMAIN heads[b]
  BY <1>2
<1> QED
  BY <1>3 DEF TypeOK, Current, BlocksRetained

\* What a call knows stays true while blocks and records accumulate.
LEMMA KnowledgeGrows ==
  ASSUME NEW c, NEW F, NEW R, NEW J, NEW F2, NEW R2, NEW J2,
         F \subseteq F2, R \subseteq R2, J \subseteq J2, Phase(c, F, R, J)
  PROVE  Phase(c, F2, R2, J2)
<1>1. Input(c, J) => Input(c, J2)
  BY DEF Input
<1>2. Persisting(c, F, R) => Persisting(c, F2, R2)
  BY DEF Persisting
<1>3. Stepping(c, J) => Stepping(c, J2)
  BY <1>1 DEF Stepping
<1>4. Publishing(c, F, J) => Publishing(c, F2, J2)
  BY <1>1 DEF Publishing
<1> QED
  BY <1>2, <1>3, <1>4 DEF Phase

\* A step of p that only adds blocks and records keeps the invariant, if p knows
\* what it must at the point it goes to.
LEMMA StoreStep ==
  ASSUME Inv, NEW p \in Proc, NEW c, IsCall(c), Goto(p, c),
         frames \subseteq frames', frames' \subseteq Frame,
         results \subseteq results', results' \subseteq Result,
         journal \subseteq journal', \A r \in journal' : IsRecord(r) /\ r.result \in results',
         KeyUnique(journal'),
         bundles' \subseteq Bundle,
         UNCHANGED heads, DOMAIN origin' = Branch,
         Phase(c, frames', results', journal')
  PROVE  Inv'
<1>1. DOMAIN call' = Proc /\ call'[p] = c /\ \A q \in Proc \ {p} : call'[q] = call[q]
  BY DEF Inv, TypeOK, Goto
<1>2. TypeOK'
  BY <1>1 DEF Inv, TypeOK
<1>3. BlocksRetained'
  BY DEF Inv, BlocksRetained
<1>4. CallsKnow'
  <2> SUFFICES ASSUME NEW q \in Proc PROVE Phase(call'[q], frames', results', journal')
    BY DEF CallsKnow
  <2>1. CASE q = p
    BY <2>1, <1>1
  <2>2. CASE q # p
    <3>1. Phase(call[q], frames, results, journal)
      BY DEF Inv, CallsKnow
    <3> QED
      BY <2>2, <3>1, <1>1, KnowledgeGrows
  <2> QED
    BY <2>1, <2>2
<1> QED
  BY <1>2, <1>3, <1>4 DEF Inv

\* The same for a step that changes nothing but p's call.
LEMMA CallStep ==
  ASSUME Inv, NEW p \in Proc, NEW c, IsCall(c), Goto(p, c),
         UNCHANGED <<heads, frames, results, journal, bundles, origin>>,
         Phase(c, frames, results, journal)
  PROVE  Inv'
BY StoreStep DEF Inv, TypeOK, BlocksRetained

LEMMA IdleKnows ==
  ASSUME NEW F, NEW R, NEW J
  PROVE  IsCall(Idle) /\ Phase(Idle, F, R, J)
BY DEF IsCall, Idle, Phase, Pc, Op

LEMMA AbandonStep ==
  ASSUME Inv, NEW p \in Proc, Abandon(p)
  PROVE  Inv'
BY CallStep, IdleKnows DEF Abandon

-------------------------------------------------------------------------------
\* The calls begin.
LEMMA BeginStep ==
  ASSUME Inv, NEW p \in Proc, Begin(p)
  PROVE  Inv'
<1> USE ControllerAssumption
<1>1. ASSUME NEW b \in Branch, NEW asked \in Asked, Initialize(p, b, asked)
      PROVE  Inv'
  <2> DEFINE c == [Idle EXCEPT !.pc = "step", !.op = "initialize", !.branch = b,
                               !.fuel = IF asked = None THEN MaximumFuel ELSE asked]
  <2>1. (IF asked = None THEN MaximumFuel ELSE asked) \in Fuel
    BY DEF Fuel
  <2>2. IsCall(c) /\ Phase(c, frames, results, journal)
    BY <2>1 DEF IsCall, Phase, Stepping, Idle, Pc, Op
  <2> QED
    BY <1>1, <2>2, CallStep DEF Initialize
<1>2. ASSUME NEW b \in Branch, NEW result \in Result \cup {None}, NEW asked \in Asked,
             Advance(p, b, result, asked)
      PROVE  Inv'
  <2> DEFINE h == Current(b)
             c == [Idle EXCEPT !.op = "advance", !.branch = b, !.result = result,
                               !.fuel = asked]
             d == [c EXCEPT
                    !.head = h,
                    !.binding = h.binding,
                    !.pc = IF ~Parked(h.frame) THEN "step"
                           ELSE IF c.result # None THEN "lookup" ELSE "retained",
                    !.fuel = IF c.fuel = None /\ (c.result # None \/ ~Parked(h.frame))
                               THEN MaximumFuel ELSE c.fuel]
  <2>1. IsHead(h)
    BY <1>2, CurrentIsHead DEF Advance, Inv
  <2>2. c.result # None => Parked(h.frame)
    BY <1>2 DEF Advance, AdvanceFrom
  <2>3. IsCall(d)
    <3>1. d.pc \in {"step", "lookup", "retained"} /\ d.fuel \in Fuel \cup {None}
      BY DEF Idle, Fuel
    <3>2. d.pc = "step" => d.fuel \in Fuel
      BY DEF Idle, Fuel
    <3>3. /\ DOMAIN d = DOMAIN Idle
          /\ d.op = "advance" /\ d.branch = b /\ d.source = None /\ d.head = h
          /\ d.inspected = None /\ d.result = result /\ d.frame = None
      BY DEF Idle
    <3> HIDE DEF d, h
    <3> QED
      BY <2>1, <3>1, <3>2, <3>3 DEF IsCall, Pc, Op
  <2>4. Phase(d, frames, results, journal)
    BY <2>1, <2>2 DEF Phase, Persisting, Stepping, Input, Idle, Fuel
  <2>5. Goto(p, d) /\ UNCHANGED <<heads, frames, results, journal, bundles, origin>>
    BY <1>2 DEF Advance, AdvanceFrom
  <2> QED
    BY <2>3, <2>4, <2>5, CallStep
<1>3. ASSUME NEW b \in Branch, NEW asked \in Asked, RetryInspect(p, b, asked)
      PROVE  Inv'
  <2> DEFINE c == [Idle EXCEPT !.pc = "inspect", !.op = "retry", !.branch = b,
                               !.fuel = asked, !.inspected = Current(b)]
  <2>1. IsHead(Current(b))
    BY <1>3, CurrentIsHead DEF RetryInspect, Inv
  <2>2. IsCall(c) /\ Phase(c, frames, results, journal)
    BY <2>1 DEF IsCall, Phase, Idle, Pc, Op
  <2> QED
    BY <1>3, <2>2, CallStep DEF RetryInspect
<1>4. ASSUME NEW source \in Branch, NEW target \in Branch, ForkTarget(p, source, target)
      PROVE  Inv'
  <2> DEFINE c == [Idle EXCEPT !.pc = "source", !.op = "fork", !.branch = target,
                               !.source = source]
  <2>1. IsCall(c) /\ Phase(c, frames, results, journal)
    BY DEF IsCall, Phase, Idle, Pc, Op
  <2> QED
    BY <1>4, <2>1, CallStep DEF ForkTarget
<1>5. ASSUME NEW b \in Branch, ExportHead(p, b)
      PROVE  Inv'
  <2> DEFINE c == [Idle EXCEPT !.pc = "bundle", !.op = "export", !.source = b,
                               !.head = Current(b)]
  <2>1. IsHead(Current(b))
    BY <1>5, CurrentIsHead DEF ExportHead, Inv
  <2>2. IsCall(c) /\ Phase(c, frames, results, journal)
    BY <2>1 DEF IsCall, Phase, Idle, Pc, Op
  <2> QED
    BY <1>5, <2>2, CallStep DEF ExportHead
<1>6. ASSUME NEW bundle \in bundles, NEW b \in Branch, Import(p, bundle, b)
      PROVE  Inv'
  <2> DEFINE c == [Idle EXCEPT !.op = "import", !.branch = b, !.frame = bundle.frame,
                               !.result = bundle.result, !.fuel = bundle.fuel,
                               !.pc = IF bundle.result = None THEN "publish" ELSE "lookup"]
  <2>1. /\ bundle.frame \in Frame /\ bundle.result \in Result \cup {None}
        /\ bundle.fuel \in Fuel \cup {None}
    BY DEF Inv, TypeOK, Bundle
  <2>2. /\ frames' = frames \cup {bundle.frame} /\ Goto(p, c)
        /\ (bundle.result = None) = (bundle.fuel = None)
        /\ UNCHANGED <<heads, results, journal, bundles, origin>>
    BY <1>6 DEF Import
  <2>3. IsCall(c)
    BY <2>1 DEF IsCall, Idle, Pc, Op
  <2>4. Phase(c, frames', results', journal')
    BY <2>1, <2>2 DEF Phase, Persisting, Publishing, Idle
  <2>5. frames' \subseteq Frame
    BY <2>1, <2>2 DEF Inv, TypeOK
  <2> QED
    BY <2>2, <2>3, <2>4, <2>5, StoreStep DEF Inv, TypeOK, BlocksRetained
<1> QED
  BY <1>1, <1>2, <1>3, <1>4, <1>5, <1>6 DEF Begin

-------------------------------------------------------------------------------
\* What p's call knows before a step.
LEMMA CallKnows ==
  ASSUME Inv, NEW p \in Proc
  PROVE  IsCall(call[p]) /\ Phase(call[p], frames, results, journal)
BY DEF Inv, TypeOK, CallsKnow

\* persistResult has found or written its record: p goes on to its next point.
LEMMA PersistedKnows ==
  ASSUME Inv, NEW p \in Proc, call[p].pc \in {"lookup", "link"},
         NEW F, NEW R, NEW J, frames \subseteq F, results \subseteq R, journal \subseteq J,
         NEW r \in J, Recorded(r, call[p].result, call[p].fuel),
         r.branch = call[p].branch, r.parent = Asking(p), r.binding = call[p].binding
  PROVE  LET c == [call[p] EXCEPT !.pc = IF call[p].op = "import" THEN "publish" ELSE "step"]
         IN  IsCall(c) /\ Phase(c, F, R, J)
<1> DEFINE c == [call[p] EXCEPT !.pc = IF call[p].op = "import" THEN "publish" ELSE "step"]
<1> SUFFICES IsCall(c) /\ Phase(c, F, R, J)
  OBVIOUS
<1>1. IsCall(call[p]) /\ Persisting(call[p], frames, results) /\ call[p].branch \in Branch
  BY CallKnows DEF Phase
<1>2. IsCall(c)
  BY <1>1 DEF IsCall, Pc, Idle, Persisting
<1>3. CASE call[p].op = "import"
  <2>1. c.pc = "publish" /\ c.op = "import" /\ c.frame \in F /\ c.branch \in Branch
    BY <1>1, <1>3 DEF Persisting, IsCall, Idle
  <2> HIDE DEF c
  <2> QED
    BY <1>2, <2>1 DEF Phase, Publishing
<1>4. CASE call[p].op = "advance"
  <2>1. /\ c.pc = "step" /\ c.op = "advance" /\ c.branch = call[p].branch
        /\ c.head = call[p].head /\ c.binding = call[p].binding
        /\ c.result = call[p].result /\ c.fuel = call[p].fuel
    BY <1>1, <1>4 DEF IsCall, Idle
  <2>2. Asking(p) = c.head.frame
    BY <1>4, <2>1 DEF Asking
  <2> HIDE DEF c
  <2>3. Input(c, J)
    BY <1>1, <1>4, <2>1, <2>2 DEF Input, Persisting
  <2> QED
    BY <1>1, <1>2, <2>1, <2>3 DEF Phase, Stepping, Persisting
<1> QED
  BY <1>1, <1>3, <1>4 DEF Persisting

LEMMA PersistStep ==
  ASSUME Inv, NEW p \in Proc,
         PersistLookup(p) \/ RejectLookup(p) \/ PersistBlock(p) \/ PersistLink(p) \/ LoseLink(p)
  PROVE  Inv'
<1>0. IsCall(call[p]) /\ Phase(call[p], frames, results, journal)
  BY CallKnows
<1>1. CASE RejectLookup(p) \/ LoseLink(p)
  BY <1>1, AbandonStep DEF RejectLookup, LoseLink
<1>2. CASE PersistLookup(p)
  <2>1. CASE Own(p) = {}
    <3> DEFINE c == [call[p] EXCEPT !.pc = "block"]
    <3>1. IsCall(c) /\ Phase(c, frames, results, journal)
      BY <1>0, <1>2 DEF PersistLookup, IsCall, Phase, Persisting, Pc, Idle
    <3> QED
      BY <1>2, <2>1, <3>1, CallStep DEF PersistLookup
  <2>2. CASE Own(p) # {}
    <3> DEFINE c == [call[p] EXCEPT !.pc = IF call[p].op = "import" THEN "publish" ELSE "step"]
    <3>1. PICK r \in Own(p) : Agrees(r, call[p].result, call[p].fuel)
      BY <1>2, <2>2 DEF PersistLookup
    <3>2. IsCall(c) /\ Phase(c, frames, results, journal)
      BY <1>2, <3>1, PersistedKnows DEF PersistLookup, Own, RecordsAt, Agrees, Recorded
    <3> QED
      BY <1>2, <2>2, <3>2, CallStep DEF PersistLookup, Persisted
  <2> QED
    BY <2>1, <2>2
<1>3. CASE PersistBlock(p)
  <2> DEFINE c == [call[p] EXCEPT !.pc = "link"]
  <2>1. /\ results' = results \cup {call[p].result} /\ call[p].result \in Result
        /\ UNCHANGED <<heads, frames, journal, bundles, origin>> /\ Goto(p, c)
    BY <1>0, <1>3 DEF PersistBlock, Phase, Persisting
  <2>2. IsCall(c) /\ Phase(c, frames', results', journal')
    BY <1>0, <1>3, <2>1 DEF PersistBlock, IsCall, Phase, Persisting, Pc, Idle
  <2> QED
    BY <2>1, <2>2, StoreStep DEF Inv, TypeOK, BlocksRetained
<1>4. CASE PersistLink(p)
  <2> DEFINE c == [call[p] EXCEPT !.pc = IF call[p].op = "import" THEN "publish" ELSE "step"]
             n == NewRecord(call[p].branch, Asking(p), call[p].binding,
                            call[p].result, call[p].fuel, call[p].op)
  <2>0. /\ call[p].pc = "link" /\ Goto(p, c)
        /\ UNCHANGED <<heads, frames, results, bundles, origin>>
    BY <1>4 DEF PersistLink, Persisted
  <2>1. CASE Own(p) = {}
    <3>1. journal' = journal \cup {n}
      BY <1>4, <2>1 DEF PersistLink
    <3>2. Persisting(call[p], frames, results) /\ call[p].branch \in Branch
      BY <1>0, <2>0 DEF Phase
    <3>3. Asking(p) \in Frame
      BY <3>2 DEF Asking, Persisting, Inv, TypeOK, IsHead
    <3>4. IsRecord(n) /\ n.result \in results
      BY <2>0, <3>2, <3>3 DEF IsRecord, NewRecord, Persisting, Via
    <3>5. KeyUnique(journal')
      BY <2>1, <3>1 DEF Inv, KeyUnique, SameKey, Own, RecordsAt, NewRecord
    <3>6. IsCall(c) /\ Phase(c, frames', results', journal')
      <4>1. /\ n \in journal' /\ Recorded(n, call[p].result, call[p].fuel)
            /\ n.branch = call[p].branch /\ n.parent = Asking(p)
            /\ n.binding = call[p].binding
        BY <3>1 DEF NewRecord, Recorded
      <4>2. frames \subseteq frames' /\ results \subseteq results' /\ journal \subseteq journal'
        BY <2>0, <3>1
      <4> HIDE DEF n
      <4> QED
        BY <2>0, <4>1, <4>2, PersistedKnows
    <3> QED
      BY <2>0, <3>1, <3>4, <3>5, <3>6, StoreStep DEF Inv, TypeOK, BlocksRetained
  <2>2. CASE Own(p) # {}
    <3>1. PICK r \in Own(p) : Agrees(r, call[p].result, call[p].fuel)
      BY <1>4, <2>2 DEF PersistLink
    <3>2. UNCHANGED journal
      BY <1>4, <2>2 DEF PersistLink
    <3>3. IsCall(c) /\ Phase(c, frames, results, journal)
      BY <2>0, <3>1, PersistedKnows DEF Own, RecordsAt, Agrees, Recorded
    <3> QED
      BY <2>0, <3>2, <3>3, CallStep
  <2> QED
    BY <2>1, <2>2
<1> QED
  BY <1>1, <1>2, <1>3, <1>4

LEMMA RetainedStep ==
  ASSUME Inv, NEW p \in Proc, ReadRetained(p) \/ RejectRetained(p)
  PROVE  Inv'
<1>1. CASE RejectRetained(p)
  BY <1>1, AbandonStep DEF RejectRetained
<1>2. CASE ReadRetained(p)
  <2>1. PICK r \in Own(p) :
          /\ FuelAllowed(call[p].fuel, r.fuel)
          /\ Goto(p, [call[p] EXCEPT !.pc = "step", !.result = r.result,
                                     !.fuel = FuelUsed(call[p].fuel, r.fuel)])
    BY <1>2 DEF ReadRetained
  <2> DEFINE c == [call[p] EXCEPT !.pc = "step", !.result = r.result,
                                  !.fuel = FuelUsed(call[p].fuel, r.fuel)]
  <2>2. IsCall(call[p]) /\ Phase(call[p], frames, results, journal) /\ call[p].pc = "retained"
    BY <1>2, CallKnows DEF ReadRetained
  <2>3. /\ call[p].op \in {"advance", "retry"} /\ call[p].branch \in Branch
        /\ IsHead(call[p].head) /\ call[p].binding = call[p].head.binding
        /\ Parked(call[p].head.frame)
    BY <2>2 DEF Phase
  <2>4. /\ r \in journal /\ IsRecord(r) /\ r.branch = call[p].branch
        /\ r.parent = call[p].head.frame /\ r.binding = call[p].binding
    BY <2>3 DEF Own, RecordsAt, Asking, Inv, TypeOK
  <2>5. /\ FuelUsed(call[p].fuel, r.fuel) \in Fuel
        /\ r.fuel \in {FuelUsed(call[p].fuel, r.fuel), None}
    BY <2>1, <2>2, <2>4 DEF FuelUsed, FuelAllowed, IsRecord, IsCall
  <2>6. /\ DOMAIN c = DOMAIN Idle /\ c.pc = "step" /\ c.result = r.result
        /\ c.fuel = FuelUsed(call[p].fuel, r.fuel)
        /\ c.op = call[p].op /\ c.branch = call[p].branch /\ c.source = call[p].source
        /\ c.head = call[p].head /\ c.inspected = call[p].inspected
        /\ c.frame = call[p].frame /\ c.binding = call[p].binding
    BY <2>2 DEF IsCall, Idle
  <2>7. Goto(p, c) /\ UNCHANGED <<heads, frames, results, journal, bundles, origin>>
    BY <1>2, <2>1 DEF ReadRetained
  <2> HIDE DEF c
  <2>8. IsCall(c)
    BY <2>2, <2>4, <2>5, <2>6 DEF IsCall, IsRecord, Pc
  <2>9. Input(c, journal)
    BY <2>3, <2>4, <2>5, <2>6 DEF Input, Recorded
  <2>10. Phase(c, frames, results, journal)
    BY <2>3, <2>5, <2>6, <2>9 DEF Phase, Stepping
  <2> QED
    BY <2>7, <2>8, <2>10, CallStep
<1> QED
  BY <1>1, <1>2

LEMMA ExecuteStep ==
  ASSUME Inv, NEW p \in Proc, Execute(p) \/ RejectStep(p)
  PROVE  Inv'
<1>1. CASE RejectStep(p)
  BY <1>1, AbandonStep DEF RejectStep
<1>2. CASE Execute(p)
  <2> DEFINE f == Reduction(p)
             c == [call[p] EXCEPT !.pc = "publish", !.frame = f]
  <2>1. /\ call[p].pc = "step" /\ CausalOutput(ParentFrame(p), call[p].result, f)
        /\ frames' = frames \cup {f} /\ Goto(p, c)
        /\ UNCHANGED <<heads, results, journal, bundles, origin>>
    BY <1>2 DEF Execute
  <2>2. IsCall(call[p]) /\ Stepping(call[p], journal) /\ call[p].branch \in Branch
    BY <2>1, CallKnows DEF Phase
  <2>3. ParentFrame(p) \in Frame \cup {None}
    BY <2>2 DEF ParentFrame, Stepping, Input, IsHead
  <2>4. f \in Frame
    BY <2>1, <2>2, <2>3, ControllerAssumption DEF Reduction, CausalOutput, IsCall, Stepping
  <2>5. /\ DOMAIN c = DOMAIN Idle /\ c.pc = "publish" /\ c.result = call[p].result
        /\ c.fuel = call[p].fuel /\ c.frame = f
        /\ c.op = call[p].op /\ c.branch = call[p].branch /\ c.source = call[p].source
        /\ c.head = call[p].head /\ c.inspected = call[p].inspected
        /\ c.binding = call[p].binding
    BY <2>2 DEF IsCall, Idle
  <2>6. c.op # "initialize" => f = Guest[c.head.frame, c.result, c.fuel]
                               /\ CausalOutput(c.head.frame, c.result, f)
    BY <2>1, <2>5 DEF Reduction, ParentFrame
  <2> HIDE DEF c, f
  <2>7. IsCall(c)
    BY <2>2, <2>4, <2>5 DEF IsCall, Pc
  <2>8. c.op # "initialize" => Input(c, journal')
    BY <2>1, <2>2, <2>5 DEF Stepping, Input
  <2>9. Publishing(c, frames', journal')
    BY <2>1, <2>2, <2>5, <2>6, <2>8 DEF Publishing, Stepping
  <2>10. Phase(c, frames', results', journal')
    BY <2>2, <2>5, <2>9 DEF Phase
  <2> QED
    BY <2>1, <2>4, <2>7, <2>10, StoreStep DEF Inv, TypeOK, BlocksRetained
<1> QED
  BY <1>1, <1>2

LEMMA RetryStep ==
  ASSUME Inv, NEW p \in Proc,
         RetryRecord(p) \/ RejectRetry(p) \/ RetryAdvance(p) \/ LoseRetry(p)
  PROVE  Inv'
<1>0. IsCall(call[p]) /\ Phase(call[p], frames, results, journal)
  BY CallKnows
<1>1. CASE RejectRetry(p) \/ LoseRetry(p)
  BY <1>1, AbandonStep DEF RejectRetry, LoseRetry
<1>2. CASE RetryRecord(p)
  <2>1. PICK r \in Inspected(p) :
          /\ FuelAllowed(call[p].fuel, r.fuel)
          /\ Goto(p, [call[p] EXCEPT !.pc = "advance",
                                     !.fuel = FuelUsed(call[p].fuel, r.fuel)])
    BY <1>2 DEF RetryRecord
  <2> DEFINE c == [call[p] EXCEPT !.pc = "advance", !.fuel = FuelUsed(call[p].fuel, r.fuel)]
  <2>2. FuelUsed(call[p].fuel, r.fuel) \in Fuel \cup {None}
    BY <1>0 DEF FuelUsed, Inspected, RecordsAt, Inv, TypeOK, IsCall, IsRecord
  <2>3. IsCall(c) /\ Phase(c, frames, results, journal)
    BY <1>0, <1>2, <2>2 DEF RetryRecord, IsCall, Phase, Pc, Idle
  <2> QED
    BY <1>2, <2>1, <2>3, CallStep DEF RetryRecord
<1>3. CASE RetryAdvance(p)
  <2> DEFINE h == Current(call[p].branch)
             d == [call[p] EXCEPT
                    !.head = h,
                    !.binding = h.binding,
                    !.pc = IF ~Parked(h.frame) THEN "step"
                           ELSE IF call[p].result # None THEN "lookup" ELSE "retained",
                    !.fuel = IF call[p].fuel = None /\ (call[p].result # None \/ ~Parked(h.frame))
                               THEN MaximumFuel ELSE call[p].fuel]
  <2>1. call[p].op = "retry" /\ call[p].result = None /\ call[p].branch \in Branch
    BY <1>0, <1>3 DEF RetryAdvance, Phase
  <2>2. h = call[p].inspected /\ IsHead(h)
    BY <1>0, <1>3 DEF RetryAdvance, IsExpectedHead, Phase
  <2>3. Goto(p, d) /\ UNCHANGED <<heads, frames, results, journal, bundles, origin>>
    BY <1>3 DEF RetryAdvance, AdvanceFrom
  <2>4. /\ DOMAIN d = DOMAIN Idle /\ d.op = "retry" /\ d.result = None
        /\ d.branch = call[p].branch /\ d.source = call[p].source
        /\ d.head = h /\ d.inspected = call[p].inspected
        /\ d.frame = call[p].frame /\ d.binding = h.binding
    BY <1>0, <2>1 DEF IsCall, Idle
  <2>5. /\ d.pc = (IF ~Parked(h.frame) THEN "step" ELSE "retained")
        /\ d.fuel \in Fuel \cup {None} /\ (d.pc = "step" => d.fuel \in Fuel)
    <3>1. MaximumFuel \in Fuel /\ call[p].fuel \in Fuel \cup {None}
      BY <1>0, ControllerAssumption DEF IsCall, Fuel
    <3>2. d.pc = (IF ~Parked(h.frame) THEN "step" ELSE "retained")
      BY <1>0, <2>1 DEF IsCall, Idle
    <3>3. d.fuel = IF call[p].fuel = None /\ ~Parked(h.frame) THEN MaximumFuel ELSE call[p].fuel
      BY <1>0, <2>1 DEF IsCall, Idle
    <3> HIDE DEF d
    <3> QED
      BY <3>1, <3>2, <3>3
  <2> HIDE DEF d, h
  <2>6. IsCall(d)
    BY <1>0, <2>2, <2>4, <2>5 DEF IsCall, Pc, Op
  <2>7. Phase(d, frames, results, journal)
    BY <2>1, <2>2, <2>4, <2>5 DEF Phase, Stepping, Input
  <2> QED
    BY <2>3, <2>6, <2>7, CallStep
<1> QED
  BY <1>1, <1>2, <1>3

LEMMA ForkStep ==
  ASSUME Inv, NEW p \in Proc,
         ForkSource(p) \/ RejectFork(p) \/ ForkRecord(p) \/ ForkCopy(p)
  PROVE  Inv'
<1>0. IsCall(call[p]) /\ Phase(call[p], frames, results, journal)
  BY CallKnows
<1>1. CASE RejectFork(p)
  BY <1>1, AbandonStep DEF RejectFork
<1>2. CASE ForkSource(p)
  <2> DEFINE h == Current(call[p].source)
             c == [call[p] EXCEPT !.pc = "record", !.head = h, !.frame = h.frame]
  <2>1. /\ call[p].op = "fork" /\ call[p].source \in Branch /\ call[p].branch \in Branch
        /\ Begun(call[p].source) /\ Goto(p, c)
    BY <1>0, <1>2 DEF ForkSource, Phase
  <2>2. IsHead(h) /\ h.frame \in frames /\ h.frame \in Frame
    BY <2>1, CurrentIsHead DEF Inv, IsHead
  <2> HIDE DEF h
  <2>3. IsCall(c)
    BY <1>0, <2>2 DEF IsCall, Pc, Idle
  <2>4. Phase(c, frames, results, journal)
    BY <1>0, <2>1, <2>2 DEF Phase, IsCall, Idle
  <2> QED
    BY <1>2, <2>1, <2>3, <2>4, CallStep DEF ForkSource
<1>3. CASE ForkRecord(p)
  <2>1. /\ call[p].op = "fork" /\ call[p].source \in Branch /\ call[p].branch \in Branch
        /\ IsHead(call[p].head) /\ call[p].frame = call[p].head.frame /\ call[p].frame \in frames
    BY <1>0, <1>3 DEF ForkRecord, Phase
  <2>2. ASSUME NEW pc \in {"copy", "publish"}, NEW result \in Result \cup {None},
               NEW fuel \in Fuel \cup {None}, Snapshot(p, pc, result, fuel)
        PROVE  Inv'
    <3> DEFINE n == JournalBinding(call[p].source, call[p].branch, call[p].head, result, fuel)
               c == [call[p] EXCEPT !.pc = pc, !.result = result, !.fuel = fuel, !.binding = n]
    <3>1. IsCall(c)
      BY <1>0 DEF IsCall, Pc, Idle
    <3>2. /\ c.pc = pc /\ c.op = "fork" /\ c.branch = call[p].branch /\ c.source = call[p].source
          /\ c.head = call[p].head /\ c.frame = call[p].frame
      BY <1>0, <2>1 DEF IsCall, Idle
    <3>3. Goto(p, c)
      BY <2>2 DEF Snapshot
    <3> HIDE DEF c
    <3>4. Phase(c, frames, results, journal)
      BY <2>1, <3>2 DEF Phase, Publishing
    <3> QED
      BY <1>3, <3>1, <3>3, <3>4, CallStep DEF ForkRecord
  <2>3. CASE \E r \in FromSource(p) : Snapshot(p, "copy", r.result, r.fuel)
    <3>1. \A r \in FromSource(p) : r.result \in Result /\ r.fuel \in Fuel \cup {None}
      BY DEF FromSource, RecordsAt, Inv, TypeOK, IsRecord
    <3> QED
      BY <2>2, <2>3, <3>1
  <2> QED
    BY <1>3, <2>2, <2>3 DEF ForkRecord
<1>4. CASE ForkCopy(p)
  <2> DEFINE c == [call[p] EXCEPT !.pc = "publish"]
  <2>1. /\ call[p].op = "fork" /\ call[p].branch \in Branch
        /\ IsHead(call[p].head) /\ call[p].frame = call[p].head.frame /\ call[p].frame \in frames
    BY <1>0, <1>4 DEF ForkCopy, Phase
  <2>2. Goto(p, c) /\ UNCHANGED <<heads, frames, results, bundles, origin>>
    BY <1>4 DEF ForkCopy
  <2>3. IsCall(c) /\ Phase(c, frames', results', journal')
    BY <1>0, <2>1, <2>2 DEF IsCall, Pc, Idle, Phase, Publishing
  <2>4. PICK r \in FromSource(p) :
          journal' = IF RecordsAt(call[p].branch, call[p].frame, call[p].binding) = {}
                       THEN journal \cup {NewRecord(call[p].branch, call[p].frame,
                                                    call[p].binding, r.result, r.fuel, "fork")}
                       ELSE journal
    BY <1>4 DEF ForkCopy
  <2> DEFINE n == NewRecord(call[p].branch, call[p].frame, call[p].binding,
                            r.result, r.fuel, "fork")
  <2>5. IsRecord(n) /\ n.result \in results
    BY <2>1 DEF FromSource, RecordsAt, Inv, TypeOK, BlocksRetained, IsRecord, NewRecord, Via
  <2>6. KeyUnique(journal')
    BY <2>4 DEF Inv, KeyUnique, SameKey, RecordsAt, NewRecord
  <2> HIDE DEF n, c
  <2>7. journal \subseteq journal' /\ \A s \in journal' : IsRecord(s) /\ s.result \in results'
    BY <2>2, <2>4, <2>5 DEF n, Inv, TypeOK, BlocksRetained
  <2> QED
    BY <2>2, <2>3, <2>6, <2>7, StoreStep DEF Inv, TypeOK
<1> QED
  BY <1>1, <1>2, <1>3, <1>4

LEMMA ExportStep ==
  ASSUME Inv, NEW p \in Proc, ExportBundle(p) \/ RejectExport(p)
  PROVE  Inv'
<1>1. CASE RejectExport(p)
  BY <1>1, AbandonStep DEF RejectExport
<1>2. CASE ExportBundle(p)
  <2>1. call[p].source \in Branch /\ IsHead(call[p].head)
    BY <1>2, CallKnows DEF ExportBundle, Phase
  <2>2. \A r \in FromSource(p) : r.result \in Result /\ r.fuel \in Fuel \cup {None}
    BY DEF FromSource, RecordsAt, Inv, TypeOK, IsRecord
  <2>3. \A result \in Result \cup {None}, fuel \in Fuel \cup {None} :
          BundleOf(call[p].source, call[p].head, result, fuel) \in Bundle
    BY <2>1 DEF BundleOf, Bundle, IsHead
  <2>4. bundles' \subseteq Bundle
    BY <1>2, <2>2, <2>3 DEF ExportBundle, Inv, TypeOK
  <2> QED
    BY <1>2, <2>4, StoreStep, IdleKnows DEF ExportBundle, Inv, TypeOK, BlocksRetained
<1> QED
  BY <1>1, <1>2

LEMMA EarlyReleaseStep ==
  ASSUME Inv, NEW b \in Branch, NEW result \in Result, EarlyReleasePersist(b, result)
  PROVE  Inv'
<1> DEFINE f == Current(b).frame
           n == NewRecord(b, f, NoBinding, result, None, "legacy")
<1>1. /\ RecordsAt(b, f, NoBinding) = {} /\ journal' = journal \cup {n}
      /\ results' = results \cup {result} /\ Begun(b)
      /\ UNCHANGED <<heads, frames, bundles, call, origin>>
  BY DEF EarlyReleasePersist
<1>2. f \in Frame
  BY <1>1, CurrentIsHead DEF Inv, IsHead
<1>3. IsRecord(n) /\ n.result = result
  BY <1>2 DEF IsRecord, NewRecord, Via
<1>4. KeyUnique(journal')
  BY <1>1 DEF Inv, KeyUnique, SameKey, RecordsAt, NewRecord
<1> HIDE DEF n, f
<1>5. TypeOK' /\ BlocksRetained'
  BY <1>1, <1>3 DEF Inv, TypeOK, BlocksRetained
<1>6. CallsKnow'
  BY <1>1, KnowledgeGrows DEF Inv, CallsKnow
<1> QED
  BY <1>4, <1>5, <1>6 DEF Inv

LEMMA PublishStep ==
  ASSUME Inv, NEW p \in Proc, Publish(p) \/ LosePublish(p)
  PROVE  Inv'
<1>1. CASE LosePublish(p)
  BY <1>1, AbandonStep DEF LosePublish
<1>2. CASE Publish(p)
  <2> DEFINE b == call[p].branch
             h == [generation |-> Len(heads[b]), frame |-> call[p].frame,
                   binding |-> call[p].binding]
  <2>1. /\ call[p].pc = "publish" /\ call[p].frame \in frames
        /\ heads' = [heads EXCEPT ![b] = Append(heads[b], h)]
        /\ Goto(p, Idle) /\ UNCHANGED <<frames, results, journal, bundles>>
        /\ DOMAIN origin' = Branch
    BY <1>2 DEF Publish, Inv, TypeOK
  <2>2. b \in Branch
    BY <2>1, CallKnows DEF Phase
  <2>3. IsHead(h) /\ h.frame \in frames
    <3>1. Len(heads[b]) \in Nat
      BY <2>2, LenProperties DEF Inv, TypeOK
    <3> QED
      BY <2>1, <3>1 DEF IsHead, Inv, TypeOK
  <2> HIDE DEF h
  <2>4. /\ heads'[b] \in Seq({heads'[b][i] : i \in DOMAIN heads'[b]})
        /\ \A i \in DOMAIN heads'[b] : IsHead(heads'[b][i]) /\ heads'[b][i].frame \in frames
    <3>1. IsSeq(heads[b]) /\ Extends(heads'[b], heads[b], h)
      BY <2>1, <2>2 DEF Inv, TypeOK, IsSeq, Extends
    <3>2. /\ IsSeq(heads'[b])
          /\ DOMAIN heads'[b] = 1 .. Len(heads[b]) + 1 /\ Len(heads[b]) \in Nat
          /\ DOMAIN heads[b] = 1 .. Len(heads[b])
          /\ \A i \in DOMAIN heads[b] : heads'[b][i] = heads[b][i]
          /\ heads'[b][Len(heads[b]) + 1] = h
      BY <3>1, AppendAny
    <3>3. \A i \in DOMAIN heads[b] : IsHead(heads[b][i]) /\ heads[b][i].frame \in frames
      BY <2>2 DEF Inv, TypeOK, BlocksRetained
    <3>4. \A i \in DOMAIN heads'[b] : i \in DOMAIN heads[b] \/ i = Len(heads[b]) + 1
      BY <3>2
    <3> QED
      BY <2>3, <3>2, <3>3, <3>4 DEF IsSeq
  <2>5. DOMAIN heads' = Branch /\ \A a \in Branch \ {b} : heads'[a] = heads[a]
    BY <2>1, <2>2 DEF Inv, TypeOK
  <2>6. DOMAIN call' = Proc /\ call'[p] = Idle /\ \A q \in Proc \ {p} : call'[q] = call[q]
    BY <2>1 DEF Inv, TypeOK, Goto
  <2> HIDE DEF b
  <2>7. TypeOK'
    <3>1. \A a \in Branch : /\ heads'[a] \in Seq({heads'[a][i] : i \in DOMAIN heads'[a]})
                            /\ \A i \in DOMAIN heads'[a] : IsHead(heads'[a][i])
      BY <2>4, <2>5 DEF Inv, TypeOK
    <3>2. \A q \in Proc : IsCall(call'[q])
      BY <2>6, IdleKnows DEF Inv, TypeOK
    <3> QED
      BY <2>1, <2>5, <2>6, <3>1, <3>2 DEF Inv, TypeOK
  <2>8. BlocksRetained'
    BY <2>1, <2>4, <2>5 DEF Inv, BlocksRetained
  <2>9. CallsKnow'
    BY <2>1, <2>6, IdleKnows DEF Inv, CallsKnow
  <2> QED
    BY <2>1, <2>7, <2>8, <2>9 DEF Inv
<1> QED
  BY <1>1, <1>2

LEMMA ContinueStep ==
  ASSUME Inv, NEW p \in Proc, Continue(p)
  PROVE  Inv'
BY PersistStep, RetainedStep, ExecuteStep, PublishStep, RetryStep, ForkStep, ExportStep
   DEF Continue

LEMMA InitInv == Init => Inv
BY ControllerAssumption, IdleKnows, EmptySeq
   DEF Init, Inv, TypeOK, KeyUnique, BlocksRetained, CallsKnow

\* The invariant is inductive.
LEMMA NextInv == Inv /\ [Next]_vars => Inv'
<1> SUFFICES ASSUME Inv, [Next]_vars PROVE Inv'
  OBVIOUS
<1>1. CASE UNCHANGED vars
  BY <1>1 DEF vars, Inv, TypeOK, BlocksRetained, CallsKnow
<1>2. ASSUME NEW p \in Proc, Begin(p) \/ Continue(p) \/ Crash(p) PROVE Inv'
  BY <1>2, BeginStep, ContinueStep, AbandonStep DEF Crash
<1>3. ASSUME NEW b \in Branch, NEW result \in Result, EarlyReleasePersist(b, result)
      PROVE  Inv'
  BY <1>3, EarlyReleaseStep
<1> QED
  BY <1>1, <1>2, <1>3 DEF Next

\* At every moment, what a call of the controller knows at its program point is so:
\* a record it links has its block, a Frame it publishes is retained and is the
\* reduction of what the journal holds.
THEOREM Invariance == Spec => []Inv
BY InitInv, NextInv, PTL DEF Spec

\* Type correctness of the controller's variables.
THEOREM TypeCorrect == Spec => []TypeOK
<1>1. Inv => TypeOK
  BY DEF Inv
<1> QED
  BY <1>1, Invariance, PTL

\* No head and no record ever names a block the store does not hold.
THEOREM Retention == Spec => []BlocksRetained
<1>1. Inv => BlocksRetained
  BY DEF Inv
<1> QED
  BY <1>1, Invariance, PTL

-------------------------------------------------------------------------------
\* The journal's part of JournalWriteOnce.
WritesOnce(J, K) ==
  /\ J \subseteq K
  /\ \A r \in K \ J : \A s \in K : SameKey(r, s) => r = s

\* Which steps write the heads, the bundles and the journal.
LEMMA StepShape ==
  ASSUME [Next]_vars
  PROVE  /\ UNCHANGED <<heads, origin>> \/ \E p \in Proc : Publish(p)
         /\ UNCHANGED bundles \/ \E p \in Proc : ExportBundle(p)
         /\ \/ UNCHANGED journal
            \/ \E p \in Proc : PersistLink(p) \/ ForkCopy(p)
            \/ \E b \in Branch, result \in Result : EarlyReleasePersist(b, result)
<1>1. CASE UNCHANGED vars
  BY <1>1 DEF vars
<1>2. ASSUME NEW p \in Proc, Begin(p)
      PROVE  UNCHANGED <<heads, origin, bundles, journal>>
  BY <1>2 DEF Begin, Initialize, Advance, AdvanceFrom, RetryInspect, ForkTarget,
              ExportHead, Import
<1>3. ASSUME NEW p \in Proc, Continue(p),
             ~PersistLink(p), ~ForkCopy(p), ~Publish(p), ~ExportBundle(p)
      PROVE  UNCHANGED <<heads, origin, bundles, journal>>
  BY <1>3 DEF Continue, PersistLookup, RejectLookup, PersistBlock, LoseLink, ReadRetained,
              RejectRetained, Execute, RejectStep, LosePublish, RetryRecord, RejectRetry,
              RetryAdvance, AdvanceFrom, LoseRetry, ForkSource, RejectFork, ForkRecord,
              RejectExport, Abandon
<1>4. ASSUME NEW p \in Proc, PersistLink(p) \/ ForkCopy(p)
      PROVE  UNCHANGED <<heads, origin, bundles>>
  BY <1>4 DEF PersistLink, ForkCopy
<1>5. ASSUME NEW b \in Branch, NEW result \in Result, EarlyReleasePersist(b, result)
      PROVE  UNCHANGED <<heads, origin, bundles>>
  BY <1>5 DEF EarlyReleasePersist
<1>6. ASSUME NEW p \in Proc, Crash(p)
      PROVE  UNCHANGED <<heads, origin, bundles, journal>>
  BY <1>6 DEF Crash, Abandon
<1>7. ASSUME NEW p \in Proc, Publish(p)
      PROVE  UNCHANGED <<bundles, journal>>
  BY <1>7 DEF Publish
<1>8. ASSUME NEW p \in Proc, ExportBundle(p)
      PROVE  UNCHANGED <<heads, origin, journal>>
  BY <1>8 DEF ExportBundle
<1> QED
  BY <1>1, <1>2, <1>3, <1>4, <1>5, <1>6, <1>7, <1>8 DEF Next

\* A step never replaces a record, and writes heads only to publish.
LEMMA StepEffect ==
  ASSUME [Next]_vars
  PROVE  /\ WritesOnce(journal, journal')
         /\ \/ UNCHANGED heads
            \/ \E p \in Proc : Publish(p)
<1>1. ASSUME NEW p \in Proc, PersistLink(p)
      PROVE  WritesOnce(journal, journal')
  BY <1>1 DEF PersistLink, WritesOnce, Own, RecordsAt, NewRecord, SameKey
<1>2. ASSUME NEW p \in Proc, ForkCopy(p)
      PROVE  WritesOnce(journal, journal')
  BY <1>2 DEF ForkCopy, WritesOnce, RecordsAt, NewRecord, SameKey
<1>3. ASSUME NEW b \in Branch, NEW result \in Result, EarlyReleasePersist(b, result)
      PROVE  WritesOnce(journal, journal')
  BY <1>3 DEF EarlyReleasePersist, WritesOnce, RecordsAt, NewRecord, SameKey
<1>4. UNCHANGED journal => WritesOnce(journal, journal')
  BY DEF WritesOnce
<1> QED
  BY <1>1, <1>2, <1>3, <1>4, StepShape

\* A record, once written, stays what it is and the only one under its key.
THEOREM WriteOnce == Spec => JournalWriteOnce
<1>1. Inv /\ [Next]_vars =>
        [ /\ journal \subseteq journal'
          /\ \A r \in journal' \ journal : \A s \in journal' : SameKey(r, s) => r = s ]_vars
  BY StepEffect DEF WritesOnce
<1> QED
  BY <1>1, Invariance, PTL DEF Spec, JournalWriteOnce

-------------------------------------------------------------------------------
\* The head y follows the head x on branch b, by the records J.
Follows(b, x, y, J) ==
  /\ y.generation = x.generation + 1 /\ y.binding = x.binding
  /\ IF Parked(x.frame)
       THEN \E r \in J, f \in Fuel :
              /\ r.branch = b /\ r.parent = x.frame /\ r.binding = x.binding
              /\ r.fuel \in {f, None}
              /\ y.frame = Guest[x.frame, r.result, f]
              /\ CausalOutput(x.frame, r.result, y.frame)
       ELSE \E f \in Fuel : /\ y.frame = Guest[x.frame, None, f]
                            /\ CausalOutput(x.frame, None, y.frame)

IsChain(b, s, J) ==
  \A i \in DOMAIN s : /\ s[i].generation = i - 1
                      /\ i + 1 \in DOMAIN s => Follows(b, s[i], s[i + 1], J)

Chained == \A b \in Branch : IsChain(b, heads[b], journal)

LEMMA ChainGrows ==
  ASSUME NEW b, NEW s, NEW J, NEW K, J \subseteq K, IsChain(b, s, J)
  PROVE  IsChain(b, s, K)
BY DEF IsChain, Follows

\* Publish appends one head, the call's, to its branch.
LEMMA PublishAppends ==
  ASSUME Inv, NEW p \in Proc, Publish(p)
  PROVE  LET b == call[p].branch
             n == Len(heads[b])
         IN  /\ b \in Branch /\ n \in Nat /\ DOMAIN heads[b] = 1 .. n
             /\ DOMAIN heads'[b] = 1 .. n + 1
             /\ \A i \in 1 .. n : heads'[b][i] = heads[b][i]
             /\ heads'[b][n + 1] = [generation |-> n, frame |-> call[p].frame,
                                    binding |-> call[p].binding]
             /\ heads'[b] = Append(heads[b], heads'[b][n + 1])
             /\ \A a \in Branch \ {b} : heads'[a] = heads[a]
<1> DEFINE b == call[p].branch
           s == heads[b]
           h == [generation |-> Len(s), frame |-> call[p].frame, binding |-> call[p].binding]
<1>1. b \in Branch /\ heads' = [heads EXCEPT ![b] = Append(s, h)]
  BY CallKnows DEF Publish, Phase
<1>2. /\ IsSeq(s) /\ Extends(heads'[b], s, h)
      /\ \A a \in Branch \ {b} : heads'[a] = heads[a]
  BY <1>1 DEF Inv, TypeOK, IsSeq, Extends
<1> HIDE DEF h
<1> QED
  BY <1>1, <1>2, AppendAny DEF h, Extends

\* A call that advances publishes a head that follows the one it read.
LEMMA PublishFollows ==
  ASSUME Inv, Chained, NEW p \in Proc, Publish(p)
  PROVE  Chained'
<1> DEFINE b == call[p].branch
           s == heads[b]
           n == Len(s)
           h == heads'[b][n + 1]
<1>1. AsExpected(p) /\ UNCHANGED journal
  BY DEF Publish
<1>2. b \in Branch /\ Publishing(call[p], frames, journal)
  BY CallKnows DEF Publish, Phase
<1>3. \A a \in Branch \ {b} : heads'[a] = heads[a]
  BY PublishAppends
<1>4. h.generation = n /\ h.frame = call[p].frame /\ h.binding = call[p].binding
  <2>1. h = [generation |-> n, frame |-> call[p].frame, binding |-> call[p].binding]
    BY PublishAppends
  <2> QED
    BY <2>1
<1>5. /\ n \in Nat /\ DOMAIN s = 1 .. n /\ DOMAIN heads'[b] = 1 .. n + 1
      /\ \A i \in 1 .. n : heads'[b][i] = s[i]
      /\ heads'[b][n + 1] = h
  BY PublishAppends
<1> HIDE DEF h
<1>6. ASSUME n # 0 PROVE Follows(b, s[n], h, journal)
  <2>1. s # <<>>
    BY <1>5, <1>6
  <2>2. Advancing(p) /\ Current(b) = call[p].head
    BY <1>1, <2>1 DEF AsExpected, Begun
  <2>3. /\ s[n] = call[p].head /\ call[p].fuel \in Fuel /\ Input(call[p], journal)
        /\ call[p].frame = Guest[s[n].frame, call[p].result, call[p].fuel]
        /\ CausalOutput(s[n].frame, call[p].result, call[p].frame)
    BY <1>2, <2>2 DEF Current, Advancing, Publishing
  <2>4. s[n].generation = n - 1
    BY <1>2, <1>5, <1>6 DEF Chained, IsChain
  <2> HIDE DEF n, s, b
  <2>5. h.generation = s[n].generation + 1 /\ h.binding = s[n].binding
    <3>1. s[n].binding = call[p].binding
      BY <2>3 DEF Input
    <3> QED
      BY <1>4, <1>5, <2>4, <3>1
  <2>6. CASE Parked(s[n].frame)
    <3>1. PICK r \in journal : /\ r.branch = call[p].branch /\ r.parent = s[n].frame
                               /\ r.binding = s[n].binding
                               /\ r.result = call[p].result /\ r.fuel \in {call[p].fuel, None}
      BY <2>3, <2>6 DEF Input, Recorded
    <3> QED
      BY <1>4, <2>3, <2>5, <2>6, <3>1 DEF Follows, b
  <2>7. CASE ~Parked(s[n].frame)
    BY <1>4, <2>3, <2>5, <2>7 DEF Follows, Input
  <2> QED
    BY <2>6, <2>7
<1> HIDE DEF n, s, b
<1>7. IsChain(b, heads'[b], journal')
  <2> SUFFICES ASSUME NEW i \in 1 .. n + 1
               PROVE  /\ heads'[b][i].generation = i - 1
                      /\ i + 1 \in 1 .. n + 1 =>
                           Follows(b, heads'[b][i], heads'[b][i + 1], journal)
    BY <1>1, <1>5 DEF IsChain
  <2>0. IsChain(b, s, journal)
    BY <1>2 DEF Chained, s
  <2>1. CASE i = n + 1
    BY <1>4, <1>5, <2>1
  <2>2. CASE i = n
    BY <1>5, <1>6, <2>0, <2>2 DEF IsChain
  <2>3. CASE i \in 1 .. n - 1
    <3>1. i \in 1 .. n /\ i + 1 \in 1 .. n
      BY <1>5, <2>3
    <3> QED
      BY <1>5, <2>0, <3>1 DEF IsChain
  <2> QED
    BY <1>5, <2>1, <2>2, <2>3
<1> QED
  BY <1>1, <1>3, <1>7 DEF Chained

LEMMA ChainedInv == Spec => []Chained
<1>1. Init => Chained
  BY DEF Init, Chained, IsChain
<1>2. Inv /\ Chained /\ [Next]_vars => Chained'
  <2> SUFFICES ASSUME Inv, Chained, [Next]_vars PROVE Chained'
    OBVIOUS
  <2>1. journal \subseteq journal'
    BY StepEffect DEF WritesOnce
  <2>2. CASE UNCHANGED heads
    BY <2>1, <2>2, ChainGrows DEF Chained
  <2>3. CASE \E p \in Proc : Publish(p)
    BY <2>3, PublishFollows
  <2> QED
    BY <2>2, <2>3, StepEffect
<1> QED
  BY <1>1, <1>2, Invariance, PTL DEF Spec

\* Every published child is the application's reduction of its parent and of the
\* inputs the journal retains for it.
THEOREM Replay == Spec => []ChildrenReplay
<1>1. Chained => ChildrenReplay
  <2> SUFFICES ASSUME Chained, NEW b \in Branch, NEW i \in DOMAIN heads[b],
                      i + 1 \in DOMAIN heads[b]
               PROVE  IF Parked(heads[b][i].frame)
                        THEN \E r \in RecordsAt(b, heads[b][i].frame, heads[b][i].binding),
                                f \in Fuel :
                               /\ r.fuel \in {f, None}
                               /\ heads[b][i + 1].frame =
                                    Guest[heads[b][i].frame, r.result, f]
                        ELSE \E f \in Fuel : heads[b][i + 1].frame =
                                              Guest[heads[b][i].frame, None, f]
    BY DEF ChildrenReplay
  <2>1. Follows(b, heads[b][i], heads[b][i + 1], journal)
    BY DEF Chained, IsChain
  <2> QED
    BY <2>1 DEF Follows, RecordsAt
<1> QED
  BY <1>1, ChainedInv, PTL

\* CausalHistory, of one head x and the head y after it.
Caused(b, x, y) ==
  /\ y.generation = x.generation + 1 /\ y.binding = x.binding
  /\ Parent[y.frame] = x.frame /\ Sequence[y.frame] = Sequence[x.frame] + 1
  /\ Parked(x.frame) =>
       \E r \in RecordsAt(b, x.frame, x.binding) : Accepted[y.frame] = r.result

LEMMA FollowsCaused ==
  ASSUME NEW b, NEW x, NEW y, Follows(b, x, y, journal), x.frame # None
  PROVE  Caused(b, x, y)
<1>1. CASE Parked(x.frame)
  <2>1. PICK r \in journal : /\ r.branch = b /\ r.parent = x.frame /\ r.binding = x.binding
                             /\ CausalOutput(x.frame, r.result, y.frame)
    BY <1>1 DEF Follows
  <2> QED
    BY <2>1, <1>1 DEF CausalOutput, RecordsAt, Caused, Follows
<1>2. CASE ~Parked(x.frame)
  <2>1. CausalOutput(x.frame, None, y.frame)
    BY <1>2 DEF Follows
  <2> QED
    BY <2>1, <1>2 DEF CausalOutput, Caused, Follows
<1> QED
  BY <1>1, <1>2

\* The heads of a branch form a causal chain.
THEOREM Causality == Spec => []CausalHistory
<1>1. Inv /\ Chained => CausalHistory
  <2> SUFFICES ASSUME Inv, Chained, NEW b \in Branch, NEW i \in DOMAIN heads[b],
                      i + 1 \in DOMAIN heads[b]
               PROVE  Caused(b, heads[b][i], heads[b][i + 1])
    BY DEF CausalHistory, Caused
  <2>1. Follows(b, heads[b][i], heads[b][i + 1], journal)
    BY DEF Chained, IsChain
  <2>2. heads[b][i].frame \in Frame
    BY DEF Inv, TypeOK, IsHead
  <2>3. heads[b][i].frame # None
    BY <2>2, ControllerAssumption
  <2> QED
    BY <2>1, <2>3, FollowsCaused
<1> QED
  BY <1>1, ChainedInv, Invariance, PTL

-------------------------------------------------------------------------------
\* Where inputs and bindings come from.  The heads of a branch carry the binding
\* it began with, and one that names a result began as the fork that read it.
BoundAtOrigin ==
  \A b \in Branch : \A i \in DOMAIN heads[b] :
    /\ heads[b][i].binding = heads[b][1].binding
    /\ heads[b][i].binding.result # None =>
         origin[b] = [op |-> "fork", result |-> heads[b][i].binding.result,
                                     fuel |-> heads[b][i].binding.fuel]

\* A copied record holds what its binding names.
CopiesNamed ==
  \A r \in journal : r.via = "fork" => r.binding.result = r.result /\ r.binding.fuel = r.fuel

\* J has a record under the key (b, f, binding) with this result and fuel.
Retains(J, b, f, binding, result, fuel) ==
  \E r \in J : /\ r.branch = b /\ r.parent = f /\ r.binding = binding
               /\ r.result = result /\ r.fuel = fuel

\* h is the head of its generation in the history s.
HeadOf(h, s) == h.generation + 1 \in DOMAIN s /\ s[h.generation + 1] = h

\* What a call knows of the heads H and the records J it has read.
Provenance(c, H, J) ==
  /\ c.op \in {"initialize", "import"} => c.binding.result = None
  /\ c.op = "retry" => /\ Parked(c.inspected.frame)
                       /\ c.pc \in {"retained", "step", "publish"} => c.head = c.inspected
  /\ c.op = "fork" /\ c.pc \in {"copy", "publish"} =>
       c.binding.result = c.result /\ c.binding.fuel = c.fuel
  /\ c.op = "fork" /\ c.pc = "copy" =>
       Retains(J, c.source, c.head.frame, c.head.binding, c.result, c.fuel)
  /\ c.pc = "bundle" => HeadOf(c.head, H[c.source])

CallsFrom == \A p \in Proc : Provenance(call[p], heads, journal)

\* An exported bundle with a result holds a parked Frame of its branch and the
\* record retained for it.
Exported(m, s, J) ==
  /\ m.generation + 1 \in DOMAIN s
  /\ s[m.generation + 1].frame = m.frame /\ Parked(m.frame)
  /\ m.fuel # None
  /\ Retains(J, m.branch, m.frame, s[m.generation + 1].binding, m.result, m.fuel)

BundlesFrom ==
  \A m \in bundles \ ForeignBundle :
    m.result # None => m.branch \in Branch /\ Exported(m, heads[m.branch], journal)

Sourced == BoundAtOrigin /\ CopiesNamed /\ CallsFrom /\ BundlesFrom

\* A step only adds records, and heads behind the ones a branch has.
LEMMA Accumulates ==
  ASSUME Inv, [Next]_vars
  PROVE  /\ journal \subseteq journal'
         /\ \A b \in Branch : \A i \in DOMAIN heads[b] :
              i \in DOMAIN heads'[b] /\ heads'[b][i] = heads[b][i]
<1>1. CASE UNCHANGED heads
  BY <1>1, StepEffect DEF WritesOnce
<1>2. ASSUME NEW p \in Proc, Publish(p)
      PROVE  \A b \in Branch : \A i \in DOMAIN heads[b] :
               i \in DOMAIN heads'[b] /\ heads'[b][i] = heads[b][i]
  <2> SUFFICES ASSUME NEW b \in Branch, NEW i \in DOMAIN heads[b]
               PROVE  i \in DOMAIN heads'[b] /\ heads'[b][i] = heads[b][i]
    OBVIOUS
  <2>1. CASE b = call[p].branch
    <3>1. /\ Len(heads[b]) \in Nat /\ DOMAIN heads[b] = 1 .. Len(heads[b])
          /\ DOMAIN heads'[b] = 1 .. Len(heads[b]) + 1
          /\ \A j \in 1 .. Len(heads[b]) : heads'[b][j] = heads[b][j]
      BY <1>2, <2>1, PublishAppends
    <3> QED
      BY <3>1
  <2>2. CASE b # call[p].branch
    <3>1. heads'[b] = heads[b]
      BY <1>2, <2>2, PublishAppends
    <3> QED
      BY <3>1
  <2> QED
    BY <2>1, <2>2
<1> QED
  BY <1>1, <1>2, StepEffect DEF WritesOnce

\* The newest head of a branch is the head of its generation.
LEMMA CurrentHeadOf ==
  ASSUME Inv, Chained, NEW b \in Branch, Begun(b)
  PROVE  HeadOf(Current(b), heads[b])
<1>1. Len(heads[b]) \in DOMAIN heads[b]
  BY CurrentIsHead DEF Inv
<1>2. Current(b).generation = Len(heads[b]) - 1
  BY <1>1 DEF Chained, IsChain, Current
<1>3. Len(heads[b]) \in Nat
  BY LenProperties DEF Inv, TypeOK
<1> QED
  BY <1>1, <1>2, <1>3 DEF HeadOf, Current

LEMMA IdleFrom == ASSUME NEW H, NEW J PROVE Provenance(Idle, H, J)
BY DEF Provenance, Idle

\* If p's new call knows where its inputs come from, so do all the others.
LEMMA ReadsLast ==
  ASSUME Inv, CallsFrom, [Next]_vars, NEW p \in Proc, NEW c, Goto(p, c),
         Provenance(c, heads', journal')
  PROVE  CallsFrom'
<1>1. call'[p] = c /\ \A q \in Proc \ {p} : call'[q] = call[q]
  BY DEF Inv, TypeOK, Goto
<1> SUFFICES ASSUME NEW q \in Proc, q # p PROVE Provenance(call[q], heads', journal')
  BY <1>1 DEF CallsFrom
<1>2. Provenance(call[q], heads, journal)
  BY DEF CallsFrom
<1>3. call[q].pc = "bundle" => HeadOf(call[q].head, heads'[call[q].source])
  <2> SUFFICES ASSUME call[q].pc = "bundle"
               PROVE  HeadOf(call[q].head, heads'[call[q].source])
    OBVIOUS
  <2>1. call[q].source \in Branch /\ HeadOf(call[q].head, heads[call[q].source])
    BY <1>2, CallKnows DEF Provenance, Phase
  <2> QED
    BY <2>1, Accumulates DEF HeadOf
<1>4. journal \subseteq journal'
  BY Accumulates
<1> QED
  BY <1>2, <1>3, <1>4 DEF Provenance, Retains

\* A call that goes on to pc with the head it inspected and the binding it has.
LEMMA GoesOn ==
  ASSUME Inv, CallsFrom, [Next]_vars, NEW p \in Proc, NEW c, Goto(p, c),
         c.op = call[p].op, c.op # "fork", c.pc # "bundle",
         c.inspected = call[p].inspected, c.binding = call[p].binding \/ c.op = "retry",
         c.op = "retry" /\ c.pc \in {"retained", "step", "publish"} => c.head = c.inspected
  PROVE  CallsFrom'
<1>1. Provenance(call[p], heads, journal)
  BY DEF CallsFrom
<1>2. Provenance(c, heads', journal')
  BY <1>1 DEF Provenance
<1> QED
  BY <1>2, ReadsLast

LEMMA AbandonFrom ==
  ASSUME Inv, CallsFrom, [Next]_vars, NEW p \in Proc, Goto(p, Idle)
  PROVE  CallsFrom'
BY ReadsLast, IdleFrom

LEMMA BeginFrom ==
  ASSUME Inv, Chained, CallsFrom, [Next]_vars, NEW p \in Proc, Begin(p)
  PROVE  CallsFrom'
<1>1. ASSUME NEW b \in Branch, NEW asked \in Asked, Initialize(p, b, asked)
      PROVE  CallsFrom'
  <2> DEFINE c == [Idle EXCEPT !.pc = "step", !.op = "initialize", !.branch = b,
                               !.fuel = IF asked = None THEN MaximumFuel ELSE asked]
  <2>1. Goto(p, c) /\ Provenance(c, heads', journal')
    BY <1>1 DEF Initialize, Provenance, Idle, NoBinding, JournalBinding
  <2> QED
    BY <2>1, ReadsLast
<1>2. ASSUME NEW b \in Branch, NEW result \in Result \cup {None}, NEW asked \in Asked,
             Advance(p, b, result, asked)
      PROVE  CallsFrom'
  <2> DEFINE h == Current(b)
             c == [Idle EXCEPT !.op = "advance", !.branch = b, !.result = result,
                               !.fuel = asked]
             d == [c EXCEPT
                    !.head = h,
                    !.binding = h.binding,
                    !.pc = IF ~Parked(h.frame) THEN "step"
                           ELSE IF c.result # None THEN "lookup" ELSE "retained",
                    !.fuel = IF c.fuel = None /\ (c.result # None \/ ~Parked(h.frame))
                               THEN MaximumFuel ELSE c.fuel]
  <2>1. Goto(p, d)
    BY <1>2 DEF Advance, AdvanceFrom
  <2>2. d.op = "advance" /\ d.pc # "bundle"
    BY DEF Idle
  <2> HIDE DEF d
  <2>3. Provenance(d, heads', journal')
    BY <2>2 DEF Provenance
  <2> QED
    BY <2>1, <2>3, ReadsLast
<1>3. ASSUME NEW b \in Branch, NEW asked \in Asked, RetryInspect(p, b, asked)
      PROVE  CallsFrom'
  <2> DEFINE c == [Idle EXCEPT !.pc = "inspect", !.op = "retry", !.branch = b,
                               !.fuel = asked, !.inspected = Current(b)]
  <2>1. Goto(p, c) /\ Provenance(c, heads', journal')
    BY <1>3 DEF RetryInspect, Provenance, Idle
  <2> QED
    BY <2>1, ReadsLast
<1>4. ASSUME NEW source \in Branch, NEW target \in Branch, ForkTarget(p, source, target)
      PROVE  CallsFrom'
  <2> DEFINE c == [Idle EXCEPT !.pc = "source", !.op = "fork", !.branch = target,
                               !.source = source]
  <2>1. Goto(p, c) /\ Provenance(c, heads', journal')
    BY <1>4 DEF ForkTarget, Provenance, Idle
  <2> QED
    BY <2>1, ReadsLast
<1>5. ASSUME NEW b \in Branch, ExportHead(p, b)
      PROVE  CallsFrom'
  <2> DEFINE c == [Idle EXCEPT !.pc = "bundle", !.op = "export", !.source = b,
                               !.head = Current(b)]
  <2>1. Goto(p, c) /\ UNCHANGED heads /\ HeadOf(Current(b), heads[b])
    BY <1>5, CurrentHeadOf DEF ExportHead
  <2>2. Provenance(c, heads', journal')
    BY <2>1 DEF Provenance, Idle
  <2> QED
    BY <2>1, <2>2, ReadsLast
<1>6. ASSUME NEW bundle \in bundles, NEW b \in Branch, Import(p, bundle, b)
      PROVE  CallsFrom'
  <2> DEFINE c == [Idle EXCEPT !.op = "import", !.branch = b, !.frame = bundle.frame,
                               !.result = bundle.result, !.fuel = bundle.fuel,
                               !.pc = IF bundle.result = None THEN "publish" ELSE "lookup"]
  <2>1. Goto(p, c) /\ Provenance(c, heads', journal')
    BY <1>6 DEF Import, Provenance, Idle, NoBinding, JournalBinding
  <2> QED
    BY <2>1, ReadsLast
<1> QED
  BY <1>1, <1>2, <1>3, <1>4, <1>5, <1>6 DEF Begin

\* The calls of initialize, advance, retry and import go on with what they read.
LEMMA AdvanceCallsFrom ==
  ASSUME Inv, CallsFrom, [Next]_vars, NEW p \in Proc,
         \/ PersistLookup(p) \/ PersistBlock(p) \/ PersistLink(p)
         \/ ReadRetained(p) \/ Execute(p) \/ RetryRecord(p) \/ RetryAdvance(p)
  PROVE  CallsFrom'
<1>0. /\ IsCall(call[p]) /\ Phase(call[p], frames, results, journal)
      /\ Provenance(call[p], heads, journal)
  BY CallKnows DEF CallsFrom
<1>1. CASE PersistLookup(p) \/ PersistBlock(p) \/ PersistLink(p)
  <2>1. PICK pc \in {"block", "link", "publish", "step"} : Goto(p, [call[p] EXCEPT !.pc = pc])
    BY <1>1 DEF PersistLookup, Persisted, PersistBlock, PersistLink
  <2>2. call[p].op \in {"advance", "import"}
    BY <1>0, <1>1 DEF PersistLookup, PersistBlock, PersistLink, Phase, Persisting
  <2> DEFINE d == [call[p] EXCEPT !.pc = pc]
  <2>3. /\ d.op = call[p].op /\ d.pc = pc /\ d.inspected = call[p].inspected
        /\ d.binding = call[p].binding
    BY <1>0 DEF IsCall, Idle
  <2> HIDE DEF d
  <2> QED
    BY <2>1, <2>2, <2>3, GoesOn DEF d
<1>2. CASE ReadRetained(p)
  <2>1. PICK r \in Own(p) :
          Goto(p, [call[p] EXCEPT !.pc = "step", !.result = r.result,
                                  !.fuel = FuelUsed(call[p].fuel, r.fuel)])
    BY <1>2 DEF ReadRetained
  <2> DEFINE d == [call[p] EXCEPT !.pc = "step", !.result = r.result,
                                  !.fuel = FuelUsed(call[p].fuel, r.fuel)]
  <2>2. /\ d.op = call[p].op /\ d.pc = "step" /\ d.inspected = call[p].inspected
        /\ d.binding = call[p].binding /\ d.head = call[p].head
    BY <1>0 DEF IsCall, Idle
  <2>3. call[p].pc = "retained" /\ call[p].op \in {"advance", "retry"}
    BY <1>0, <1>2 DEF ReadRetained, Phase
  <2>4. Goto(p, d)
    BY <2>1
  <2> HIDE DEF d
  <2>5. d.op = "retry" => d.head = d.inspected
    BY <1>0, <2>2, <2>3 DEF Provenance
  <2> QED
    BY <2>2, <2>3, <2>4, <2>5, GoesOn
<1>3. CASE Execute(p)
  <2> DEFINE d == [call[p] EXCEPT !.pc = "publish", !.frame = Reduction(p)]
  <2>1. Goto(p, d) /\ call[p].pc = "step"
    BY <1>3 DEF Execute
  <2>2. /\ d.op = call[p].op /\ d.pc = "publish" /\ d.inspected = call[p].inspected
        /\ d.binding = call[p].binding /\ d.head = call[p].head
    BY <1>0 DEF IsCall, Idle
  <2>3. call[p].op \in {"initialize", "advance", "retry"}
    BY <1>0, <2>1 DEF Phase, Stepping
  <2> HIDE DEF d
  <2>4. d.op = "retry" => d.head = d.inspected
    BY <1>0, <2>1, <2>2 DEF Provenance
  <2> QED
    BY <2>1, <2>2, <2>3, <2>4, GoesOn
<1>4. CASE RetryRecord(p)
  <2>1. PICK fuel : Goto(p, [call[p] EXCEPT !.pc = "advance", !.fuel = fuel])
    BY <1>4 DEF RetryRecord
  <2> DEFINE d == [call[p] EXCEPT !.pc = "advance", !.fuel = fuel]
  <2>2. /\ d.op = call[p].op /\ d.pc = "advance" /\ d.inspected = call[p].inspected
        /\ d.binding = call[p].binding
    BY <1>0 DEF IsCall, Idle
  <2>3. call[p].op = "retry"
    BY <1>0, <1>4 DEF RetryRecord, Phase
  <2>4. Goto(p, d)
    BY <2>1
  <2> HIDE DEF d
  <2> QED
    BY <2>2, <2>3, <2>4, GoesOn
<1>5. CASE RetryAdvance(p)
  <2> DEFINE h == Current(call[p].branch)
  <2> DEFINE d == [call[p] EXCEPT
                    !.head = h,
                    !.binding = h.binding,
                    !.pc = IF ~Parked(h.frame) THEN "step"
                           ELSE IF call[p].result # None THEN "lookup" ELSE "retained",
                    !.fuel = IF call[p].fuel = None /\ (call[p].result # None \/ ~Parked(h.frame))
                               THEN MaximumFuel ELSE call[p].fuel]
  <2>1. Goto(p, d)
    BY <1>5 DEF RetryAdvance, AdvanceFrom
  <2>2. call[p].op = "retry" /\ h = call[p].inspected
    BY <1>0, <1>5 DEF RetryAdvance, IsExpectedHead, Phase
  <2>3. /\ d.op = call[p].op /\ d.inspected = call[p].inspected /\ d.head = h
        /\ d.pc # "bundle"
    BY <1>0 DEF IsCall, Idle
  <2> HIDE DEF d, h
  <2> QED
    BY <2>1, <2>2, <2>3, GoesOn
<1> QED
  BY <1>1, <1>2, <1>3, <1>4, <1>5

LEMMA ForkCallsFrom ==
  ASSUME Inv, CallsFrom, [Next]_vars, NEW p \in Proc,
         ForkSource(p) \/ ForkRecord(p) \/ ForkCopy(p)
  PROVE  CallsFrom'
<1>0. /\ IsCall(call[p]) /\ Phase(call[p], frames, results, journal)
      /\ Provenance(call[p], heads, journal)
  BY CallKnows DEF CallsFrom
<1>1. CASE ForkSource(p)
  <2> DEFINE h == Current(call[p].source)
             d == [call[p] EXCEPT !.pc = "record", !.head = h, !.frame = h.frame]
  <2>1. Goto(p, d) /\ d.op = "fork" /\ d.pc = "record"
    BY <1>0, <1>1 DEF ForkSource, Phase, IsCall, Idle
  <2> HIDE DEF d
  <2>2. Provenance(d, heads', journal')
    BY <2>1 DEF Provenance
  <2> QED
    BY <2>1, <2>2, ReadsLast
<1>2. CASE ForkRecord(p)
  <2>1. call[p].op = "fork" /\ UNCHANGED journal
    BY <1>0, <1>2 DEF ForkRecord, Phase
  <2>2. ASSUME NEW pc \in {"copy", "publish"}, NEW result, NEW fuel,
               Snapshot(p, pc, result, fuel),
               pc = "copy" => Retains(journal, call[p].source, call[p].head.frame,
                                      call[p].head.binding, result, fuel)
        PROVE  CallsFrom'
    <3> DEFINE n == JournalBinding(call[p].source, call[p].branch, call[p].head, result, fuel)
               d == [call[p] EXCEPT !.pc = pc, !.result = result, !.fuel = fuel, !.binding = n]
    <3>1. Goto(p, d)
      BY <2>2 DEF Snapshot
    <3>2. /\ d.op = "fork" /\ d.pc = pc /\ d.result = result /\ d.fuel = fuel
          /\ d.source = call[p].source /\ d.head = call[p].head
          /\ d.binding = n
      BY <1>0, <2>1 DEF IsCall, Idle
    <3>3. n.result = result /\ n.fuel = fuel
      BY DEF JournalBinding
    <3> HIDE DEF d, n
    <3>4. Provenance(d, heads', journal')
      BY <2>1, <2>2, <3>2, <3>3 DEF Provenance
    <3> QED
      BY <3>1, <3>4, ReadsLast
  <2>3. ASSUME NEW r \in FromSource(p), Snapshot(p, "copy", r.result, r.fuel)
        PROVE  CallsFrom'
    <3>1. Retains(journal, call[p].source, call[p].head.frame, call[p].head.binding,
                  r.result, r.fuel)
      BY DEF FromSource, RecordsAt, Retains
    <3> QED
      BY <2>2, <2>3, <3>1
  <2>4. Snapshot(p, "publish", None, None) => CallsFrom'
    BY <2>2
  <2> QED
    BY <1>2, <2>3, <2>4 DEF ForkRecord
<1>3. CASE ForkCopy(p)
  <2> DEFINE d == [call[p] EXCEPT !.pc = "publish"]
  <2>1. Goto(p, d) /\ call[p].op = "fork" /\ call[p].pc = "copy"
    BY <1>0, <1>3 DEF ForkCopy, Phase
  <2>2. /\ d.op = "fork" /\ d.pc = "publish" /\ d.binding = call[p].binding
        /\ d.result = call[p].result /\ d.fuel = call[p].fuel
    BY <1>0, <2>1 DEF IsCall, Idle
  <2> HIDE DEF d
  <2>3. Provenance(d, heads', journal')
    BY <1>0, <2>1, <2>2 DEF Provenance
  <2> QED
    BY <2>1, <2>3, ReadsLast
<1> QED
  BY <1>1, <1>2, <1>3

LEMMA CallsFromStep ==
  ASSUME Inv, Chained, CallsFrom, [Next]_vars
  PROVE  CallsFrom'
<1>1. CASE UNCHANGED vars
  BY <1>1 DEF vars, CallsFrom
<1>2. ASSUME NEW p \in Proc, Continue(p)
      PROVE  CallsFrom'
  <2>1. CASE \/ RejectLookup(p) \/ LoseLink(p) \/ RejectRetained(p) \/ RejectStep(p)
             \/ LosePublish(p) \/ RejectRetry(p) \/ LoseRetry(p) \/ RejectFork(p)
             \/ RejectExport(p)
    BY <2>1, AbandonFrom DEF RejectLookup, LoseLink, RejectRetained, RejectStep, LosePublish,
                             RejectRetry, LoseRetry, RejectFork, RejectExport, Abandon
  <2>2. CASE Publish(p) \/ ExportBundle(p)
    BY <2>2, AbandonFrom DEF Publish, ExportBundle
  <2> QED
    BY <1>2, <2>1, <2>2, AdvanceCallsFrom, ForkCallsFrom DEF Continue
<1>3. ASSUME NEW p \in Proc, Crash(p)
      PROVE  CallsFrom'
  BY <1>3, AbandonFrom DEF Crash, Abandon
<1>4. ASSUME NEW b \in Branch, NEW result \in Result, EarlyReleasePersist(b, result)
      PROVE  CallsFrom'
  <2>1. UNCHANGED <<heads, call>> /\ journal \subseteq journal'
    BY <1>4, Accumulates DEF EarlyReleasePersist
  <2> QED
    BY <2>1 DEF CallsFrom, Provenance, Retains
<1> QED
  BY <1>1, <1>2, <1>3, <1>4, BeginFrom DEF Next

\* The record a fork copies is still the one it read.
LEMMA CopiesNamedStep ==
  ASSUME Inv, CallsFrom, CopiesNamed, [Next]_vars
  PROVE  CopiesNamed'
<1>1. ASSUME NEW p \in Proc, PersistLink(p)
      PROVE  CopiesNamed'
  <2>1. call[p].op # "fork"
    BY <1>1, CallKnows DEF PersistLink, Phase, Persisting
  <2> QED
    BY <1>1, <2>1 DEF PersistLink, NewRecord, CopiesNamed
<1>2. ASSUME NEW p \in Proc, ForkCopy(p)
      PROVE  CopiesNamed'
  <2>1. /\ call[p].op = "fork" /\ call[p].pc = "copy"
        /\ Provenance(call[p], heads, journal)
    BY <1>2, CallKnows DEF ForkCopy, Phase, CallsFrom
  <2>2. \A r \in FromSource(p) : r.result = call[p].binding.result
                                 /\ r.fuel = call[p].binding.fuel
    <3>1. PICK s \in journal :
            /\ s.branch = call[p].source /\ s.parent = call[p].head.frame
            /\ s.binding = call[p].head.binding
            /\ s.result = call[p].result /\ s.fuel = call[p].fuel
      BY <2>1 DEF Provenance, Retains
    <3>2. \A r \in FromSource(p) : r = s
      BY <3>1 DEF FromSource, RecordsAt, Inv, KeyUnique, SameKey
    <3> QED
      BY <2>1, <3>1, <3>2 DEF Provenance
  <2> QED
    BY <1>2, <2>2 DEF ForkCopy, NewRecord, CopiesNamed
<1>3. ASSUME NEW b \in Branch, NEW result \in Result, EarlyReleasePersist(b, result)
      PROVE  CopiesNamed'
  BY <1>3 DEF EarlyReleasePersist, NewRecord, CopiesNamed
<1> QED
  BY <1>1, <1>2, <1>3, StepShape DEF CopiesNamed

LEMMA BoundAtOriginStep ==
  ASSUME Inv, CallsFrom, BoundAtOrigin, [Next]_vars
  PROVE  BoundAtOrigin'
<1>1. CASE UNCHANGED <<heads, origin>>
  BY <1>1 DEF BoundAtOrigin
<1>2. ASSUME NEW p \in Proc, Publish(p)
      PROVE  BoundAtOrigin'
  <2> DEFINE b == call[p].branch
             n == Len(heads[b])
             h == heads'[b][n + 1]
             Bound(o, binding) == binding.result # None =>
               o = [op |-> "fork", result |-> binding.result, fuel |-> binding.fuel]
  <2>1. /\ b \in Branch /\ n \in Nat /\ DOMAIN heads[b] = 1 .. n
        /\ DOMAIN heads'[b] = 1 .. n + 1
        /\ \A i \in 1 .. n : heads'[b][i] = heads[b][i]
        /\ \A a \in Branch \ {b} : heads'[a] = heads[a]
    BY <1>2, PublishAppends
  <2>2. h.binding = call[p].binding
    <3>1. h = [generation |-> n, frame |-> call[p].frame, binding |-> call[p].binding]
      BY <1>2, PublishAppends
    <3> QED
      BY <3>1
  <2>3. /\ AsExpected(p) /\ Publishing(call[p], frames, journal)
        /\ Provenance(call[p], heads, journal) /\ call[p].pc = "publish"
    BY <1>2, CallKnows DEF Publish, Phase, CallsFrom
  <2>4. /\ origin'[b] = IF Advancing(p) THEN origin[b]
                          ELSE [op |-> call[p].op, result |-> call[p].result,
                                fuel |-> call[p].fuel]
        /\ \A a \in Branch \ {b} : origin'[a] = origin[a]
    BY <1>2, <2>1 DEF Publish, Inv, TypeOK
  <2>5. \A i \in 1 .. n : heads[b][i].binding = heads[b][1].binding
                          /\ Bound(origin[b], heads[b][i].binding)
    BY <2>1 DEF BoundAtOrigin
  <2>6. ASSUME \A i \in 1 .. n + 1 : /\ heads'[b][i].binding = heads'[b][1].binding
                                     /\ Bound(origin'[b], heads'[b][i].binding)
        PROVE  BoundAtOrigin'
    <3> SUFFICES ASSUME NEW a \in Branch, NEW i \in DOMAIN heads'[a]
                 PROVE  /\ heads'[a][i].binding = heads'[a][1].binding
                        /\ Bound(origin'[a], heads'[a][i].binding)
      BY DEF BoundAtOrigin
    <3> HIDE DEF b, n
    <3>1. CASE a = b
      BY <2>1, <2>6, <3>1
    <3>2. CASE a # b
      <4>1. heads'[a] = heads[a] /\ origin'[a] = origin[a]
        BY <2>1, <2>4, <3>2
      <4> QED
        BY <4>1 DEF BoundAtOrigin
    <3> QED
      BY <3>1, <3>2
  <2>7. CASE Advancing(p)
    <3>1. heads[b] # <<>> /\ heads[b][n] = call[p].head
      BY <2>3, <2>7 DEF AsExpected, Begun, Current
    <3>2. n # 0
      BY <2>1, <3>1, EmptySeq, LenProperties DEF Inv, TypeOK
    <3>3. heads[b][n].binding = call[p].binding
      BY <2>3, <2>7, <3>1 DEF Publishing, Input, Advancing
    <3> HIDE DEF n, b, h, Bound
    <3>4. n \in 1 .. n /\ 1 \in 1 .. n
      BY <2>1, <3>2
    <3>5. h.binding = heads[b][1].binding /\ Bound(origin[b], h.binding)
      BY <2>2, <2>5, <3>3, <3>4
    <3>6. \A i \in 1 .. n + 1 : /\ heads'[b][i].binding = heads'[b][1].binding
                                /\ Bound(origin'[b], heads'[b][i].binding)
      <4> SUFFICES ASSUME NEW i \in 1 .. n + 1
                   PROVE  /\ heads'[b][i].binding = heads'[b][1].binding
                          /\ Bound(origin'[b], heads'[b][i].binding)
        OBVIOUS
      <4>1. CASE i = n + 1
        BY <2>1, <2>4, <2>7, <3>4, <3>5, <4>1 DEF h
      <4>2. CASE i \in 1 .. n
        BY <2>1, <2>4, <2>5, <2>7, <3>4, <4>2
      <4> QED
        BY <2>1, <4>1, <4>2
    <3> QED
      BY <2>6, <3>6
  <2>8. CASE ~Advancing(p)
    <3>1. heads[b] = <<>>
      BY <2>3, <2>8 DEF AsExpected, Begun
    <3>2. n = 0
      BY <3>1, EmptySeq
    <3>3. Bound(origin'[b], h.binding)
      BY <2>2, <2>3, <2>4, <2>8 DEF Publishing, Provenance, Advancing
    <3> HIDE DEF n, b, h, Bound
    <3>4. \A i \in 1 .. n + 1 : heads'[b][i] = h /\ heads'[b][1] = h
      BY <3>2 DEF h
    <3> QED
      BY <2>6, <3>3, <3>4
  <2> QED
    BY <2>7, <2>8
<1> QED
  BY <1>1, <1>2, StepShape

LEMMA BundlesFromStep ==
  ASSUME Inv, CallsFrom, BundlesFrom, [Next]_vars
  PROVE  BundlesFrom'
<1> SUFFICES ASSUME NEW m \in bundles' \ ForeignBundle, m.result # None
             PROVE  m.branch \in Branch /\ Exported(m, heads'[m.branch], journal')
  BY DEF BundlesFrom
<1>1. m.branch \in Branch /\ Exported(m, heads[m.branch], journal)
  <2>1. CASE m \in bundles
    BY <2>1 DEF BundlesFrom
  <2>2. CASE m \notin bundles
    <3>1. PICK p \in Proc : ExportBundle(p)
      BY <2>2, StepShape
    <3> DEFINE c == call[p]
    <3>2. /\ c.pc = "bundle" /\ c.source \in Branch /\ HeadOf(c.head, heads[c.source])
      BY <3>1, CallKnows DEF ExportBundle, Phase, CallsFrom, Provenance
    <3>3. PICK r \in FromSource(p) :
            /\ Exportable(r) /\ Parked(c.head.frame)
            /\ m = BundleOf(c.source, c.head, r.result, r.fuel)
      BY <2>2, <3>1 DEF ExportBundle, BundleOf
    <3>4. /\ m.branch = c.source /\ m.generation = c.head.generation
          /\ m.frame = c.head.frame /\ m.result = r.result /\ m.fuel = r.fuel
      BY <3>3 DEF BundleOf
    <3>5. Retains(journal, c.source, c.head.frame, c.head.binding, r.result, r.fuel)
      BY DEF FromSource, RecordsAt, Retains
    <3> QED
      BY <3>2, <3>3, <3>4, <3>5 DEF Exported, HeadOf, Exportable
  <2> QED
    BY <2>1, <2>2
<1>2. /\ journal \subseteq journal'
      /\ \A i \in DOMAIN heads[m.branch] :
           i \in DOMAIN heads'[m.branch] /\ heads'[m.branch][i] = heads[m.branch][i]
  BY <1>1, Accumulates
<1> QED
  BY <1>1, <1>2 DEF Exported, Retains

\* At every moment, what a call has read of a branch it retries, forks from or exports
\* is a head and the records of that branch.
THEOREM SourcedInv == Spec => []Sourced
<1>1. Init => Sourced
  BY IdleFrom, EmptySeq
     DEF Init, Sourced, BoundAtOrigin, CopiesNamed, CallsFrom, BundlesFrom
<1>2. Inv /\ Chained /\ Sourced /\ [Next]_vars => Sourced'
  BY CallsFromStep, CopiesNamedStep, BoundAtOriginStep, BundlesFromStep DEF Sourced
<1> QED
  BY <1>1, <1>2, Invariance, ChainedInv, PTL DEF Spec

\* A retry reduces and publishes the Frame it inspected, with the result and the
\* budget retained for it, whatever the other calls do in between.
THEOREM RetryApplication == Spec => []RetryAppliesInspected
<1>1. Inv /\ Sourced => RetryAppliesInspected
  <2> SUFFICES ASSUME Inv, Sourced, NEW p \in Proc, call[p].op = "retry",
                      call[p].pc \in {"step", "publish"}
               PROVE  /\ call[p].head = call[p].inspected
                      /\ \E r \in Inspected(p) : Recorded(r, call[p].result, call[p].fuel)
    BY DEF RetryAppliesInspected
  <2>1. call[p].head = call[p].inspected /\ Parked(call[p].head.frame)
    BY DEF Sourced, CallsFrom, Provenance
  <2>2. Input(call[p], journal)
    BY CallKnows DEF Phase, Stepping, Publishing
  <2> QED
    BY <2>1, <2>2 DEF Input, Inspected, RecordsAt
<1> QED
  BY <1>1, Invariance, SourcedInv, PTL

\* What a receiver of an exported bundle computes is what its source published,
\* although the export read the head and the record in two steps.
THEOREM BundleReplay == Spec => []BundlesReplay
<1>1. Inv /\ Chained /\ Sourced => BundlesReplay
  <2> SUFFICES ASSUME Inv, Chained, Sourced, NEW m \in bundles \ ForeignBundle,
                      m.result # None, m.generation + 2 \in DOMAIN heads[m.branch]
               PROVE  heads[m.branch][m.generation + 2].frame = Guest[m.frame, m.result, m.fuel]
    BY DEF BundlesReplay
  <2> DEFINE i == m.generation + 1
             x == heads[m.branch][i]
             y == heads[m.branch][m.generation + 2]
  <2>1. m.branch \in Branch /\ Exported(m, heads[m.branch], journal)
    BY DEF Sourced, BundlesFrom
  <2>2. i \in DOMAIN heads[m.branch] /\ i + 1 = m.generation + 2
    BY <2>1 DEF Exported, Inv, TypeOK, Bundle
  <2>3. Follows(m.branch, x, y, journal) /\ Parked(x.frame) /\ x.frame = m.frame
    BY <2>1, <2>2 DEF Chained, IsChain, Exported
  <2>4. PICK r \in journal :
          /\ r.branch = m.branch /\ r.parent = x.frame /\ r.binding = x.binding
          /\ r.result = m.result /\ r.fuel = m.fuel
    BY <2>1, <2>3 DEF Exported, Retains
  <2>5. PICK s \in journal, f \in Fuel :
          /\ s.branch = m.branch /\ s.parent = x.frame /\ s.binding = x.binding
          /\ s.fuel \in {f, None} /\ y.frame = Guest[x.frame, s.result, f]
    BY <2>3 DEF Follows
  <2>6. s = r
    BY <2>4, <2>5 DEF Inv, KeyUnique, SameKey
  <2>7. f = m.fuel
    BY <2>1, <2>4, <2>5, <2>6 DEF Exported
  <2> QED
    BY <2>3, <2>4, <2>5, <2>6, <2>7
<1> QED
  BY <1>1, Invariance, ChainedInv, SourcedInv, PTL

\* The copied record a branch shows is the one its own fork had read.
THEOREM ForkSnapshot == Spec => []ForkShowsOwnSnapshot
<1>1. Inv /\ Sourced => ForkShowsOwnSnapshot
  <2> SUFFICES ASSUME Inv, Sourced, NEW b \in Branch, NEW i \in DOMAIN heads[b],
                      NEW r \in RecordsAt(b, heads[b][i].frame, heads[b][i].binding),
                      r.via = "fork"
               PROVE  origin[b] = [op |-> "fork", result |-> r.result, fuel |-> r.fuel]
    BY DEF ForkShowsOwnSnapshot
  <2>1. /\ r \in journal /\ r.binding = heads[b][i].binding
        /\ r.binding.result = r.result /\ r.binding.fuel = r.fuel
    BY DEF RecordsAt, Sourced, CopiesNamed
  <2>2. r.result # None
    BY <2>1, ControllerAssumption DEF Inv, TypeOK, IsRecord
  <2> QED
    BY <2>1, <2>2 DEF Sourced, BoundAtOrigin
<1> QED
  BY <1>1, Invariance, SourcedInv, PTL

-------------------------------------------------------------------------------
\* The controller implements the replay log.  What a branch has published, and
\* the record r as a decision:
FramesOf(s) == [i \in 1 .. Len(s) |-> s[i].frame]

DecisionOf(r) ==
  [branch |-> r.branch, parent |-> r.parent, result |-> r.result, fuel |-> r.fuel]

\* r counts, when the heads are H: its branch has begun, with r's binding.
Counts(r, H) == H[r.branch] # <<>> /\ r.binding = H[r.branch][1].binding

LEMMA FramesSeq ==
  ASSUME NEW s, IsSeq(s), \A i \in DOMAIN s : IsHead(s[i])
  PROVE  /\ Len(s) \in Nat /\ DOMAIN s = 1 .. Len(s)
         /\ FramesOf(s) \in Seq(Frame) /\ Len(FramesOf(s)) = Len(s)
         /\ \A i \in 1 .. Len(s) : FramesOf(s)[i] = s[i].frame
         /\ (FramesOf(s) = <<>>) <=> (s = <<>>)
<1>1. Len(s) \in Nat /\ DOMAIN s = 1 .. Len(s)
  BY LenProperties DEF IsSeq
<1>2. FramesOf(s) \in [1 .. Len(s) -> Frame]
  BY <1>1 DEF FramesOf, IsHead
<1>3. FramesOf(s) \in Seq(Frame)
  BY <1>1, <1>2, SeqDef
<1>4. Len(FramesOf(s)) = Len(s)
  BY <1>1, <1>2, <1>3, LenProperties
<1>5. (FramesOf(s) = <<>>) <=> Len(FramesOf(s)) = 0
  BY <1>3, EmptySeq
<1>6. (s = <<>>) <=> Len(s) = 0
  BY EmptySeq DEF IsSeq
<1> QED
  BY <1>1, <1>3, <1>4, <1>5, <1>6 DEF FramesOf

LEMMA PublishedIs ==
  ASSUME Inv, NEW b \in Branch
  PROVE  /\ Published[b] = FramesOf(heads[b])
         /\ IsSeq(heads[b]) /\ \A i \in DOMAIN heads[b] : IsHead(heads[b][i])
         /\ DOMAIN Published = Branch
BY DEF Published, FramesOf, Inv, TypeOK, IsSeq

LEMMA DecisionsAre ==
  Decisions = {DecisionOf(r) : r \in {s \in journal : Counts(s, heads)}}
BY DEF Decisions, DecisionOf, Counts

\* A step that writes one new record decides its Frame's inputs, or the record
\* does not count.
LEMMA NewRecordDecides ==
  ASSUME Inv, Inv', UNCHANGED heads, NEW n, n \notin journal, journal' = journal \cup {n}
  PROVE  [Log!Next]_(Log!vars)
<1>1. IsRecord(n)
  BY DEF Inv, TypeOK
<1>2. UNCHANGED Published
  BY DEF Published
<1>3. CASE ~Counts(n, heads)
  <2>1. UNCHANGED Decisions
    BY <1>3 DEF Decisions, Counts
  <2> QED
    BY <1>2, <2>1 DEF Log!vars
<1>4. CASE Counts(n, heads)
  <2> DEFINE b == n.branch
             d == DecisionOf(n)
  <2>1. Decisions' = Decisions \cup {d}
    BY <1>4, DecisionsAre DEF Decisions, DecisionOf, Counts
  <2>2. d \in Log!Decision /\ d.branch = b /\ b \in Branch /\ d.parent = n.parent
    BY <1>1 DEF IsRecord, DecisionOf, Log!Decision
  <2>3. ~Log!Decided(b, d.parent)
    <3> SUFFICES ASSUME NEW e \in Decisions, e.branch = b, e.parent = n.parent
                 PROVE  FALSE
      BY <2>2 DEF Log!Decided
    <3>1. PICK r \in journal : e = DecisionOf(r) /\ Counts(r, heads)
      BY DecisionsAre
    <3>2. r.branch = n.branch /\ r.parent = n.parent
      BY <3>1 DEF DecisionOf
    <3>3. r = n
      BY <1>4, <3>1, <3>2 DEF Inv, KeyUnique, SameKey, Counts
    <3> QED
      BY <3>3
  <2>4. Published[b] # <<>>
    BY <1>4, <2>2, PublishedIs, FramesSeq DEF Counts
  <2> HIDE DEF b, d
  <2>5. Log!Decide(b)
    BY <1>2, <2>1, <2>2, <2>3, <2>4 DEF Log!Decide
  <2> QED
    BY <2>2, <2>5 DEF Log!Next
<1> QED
  BY <1>3, <1>4

LEMMA JournalDecides ==
  ASSUME Inv, [Next]_vars, UNCHANGED heads
  PROVE  [Log!Next]_(Log!vars)
<1>1. Inv'
  BY NextInv
<1>2. UNCHANGED journal => [Log!Next]_(Log!vars)
  BY DEF Log!vars, Published, Decisions
<1>3. ASSUME NEW p \in Proc, PersistLink(p)
      PROVE  [Log!Next]_(Log!vars)
  <2> DEFINE n == NewRecord(call[p].branch, Asking(p), call[p].binding,
                            call[p].result, call[p].fuel, call[p].op)
  <2>1. UNCHANGED journal \/ (Own(p) = {} /\ journal' = journal \cup {n})
    BY <1>3 DEF PersistLink
  <2>2. Own(p) = {} => n \notin journal
    BY DEF Own, RecordsAt, NewRecord
  <2> HIDE DEF n
  <2> QED
    BY <1>1, <1>2, <2>1, <2>2, NewRecordDecides
<1>4. ASSUME NEW p \in Proc, ForkCopy(p)
      PROVE  [Log!Next]_(Log!vars)
  <2>1. PICK r \in FromSource(p) :
          journal' = IF RecordsAt(call[p].branch, call[p].frame, call[p].binding) = {}
                       THEN journal \cup {NewRecord(call[p].branch, call[p].frame,
                                                    call[p].binding, r.result, r.fuel, "fork")}
                       ELSE journal
    BY <1>4 DEF ForkCopy
  <2> DEFINE n == NewRecord(call[p].branch, call[p].frame, call[p].binding,
                            r.result, r.fuel, "fork")
  <2>2. RecordsAt(call[p].branch, call[p].frame, call[p].binding) = {} => n \notin journal
    BY DEF RecordsAt, NewRecord
  <2> HIDE DEF n
  <2>3. UNCHANGED journal \/ (n \notin journal /\ journal' = journal \cup {n})
    BY <2>1, <2>2 DEF n
  <2> QED
    BY <1>1, <1>2, <2>3, NewRecordDecides
<1>5. ASSUME NEW b \in Branch, NEW result \in Result, EarlyReleasePersist(b, result)
      PROVE  [Log!Next]_(Log!vars)
  <2> DEFINE n == NewRecord(b, Current(b).frame, NoBinding, result, None, "legacy")
  <2>1. RecordsAt(b, Current(b).frame, NoBinding) = {} /\ journal' = journal \cup {n}
    BY <1>5 DEF EarlyReleasePersist
  <2>2. n \notin journal
    BY <2>1 DEF RecordsAt, NewRecord
  <2> HIDE DEF n
  <2> QED
    BY <1>1, <2>1, <2>2, NewRecordDecides
<1> QED
  BY <1>2, <1>3, <1>4, <1>5, StepShape

\* A first head begins its branch's log with the decisions that count for it.
LEMMA FirstHeadBegins ==
  ASSUME Inv, NEW p \in Proc, Publish(p), ~Advancing(p)
  PROVE  Log!Next
<1> DEFINE b == call[p].branch
           f == call[p].frame
<1>0. Inv' /\ b \in Branch
  BY NextInv, PublishAppends DEF Next, Continue
<1>1. /\ heads[b] = <<>> /\ f \in Frame
      /\ UNCHANGED journal /\ \A a \in Branch \ {b} : heads'[a] = heads[a]
  <2>1. AsExpected(p) /\ f \in frames /\ UNCHANGED journal
    BY DEF Publish
  <2> QED
    BY <2>1, PublishAppends DEF AsExpected, Begun, Inv, TypeOK
<1>2. Len(heads[b]) = 0 /\ Published[b] = <<>>
  BY <1>0, <1>1, EmptySeq, PublishedIs, FramesSeq
<1>3. Published'[b] = <<f>>
  <2>1. /\ IsSeq(heads'[b]) /\ \A i \in DOMAIN heads'[b] : IsHead(heads'[b][i])
        /\ Published'[b] = FramesOf(heads'[b])
    BY <1>0 DEF Published, FramesOf, Inv, TypeOK, IsSeq
  <2>2. DOMAIN heads'[b] = 1 .. 1 /\ heads'[b][1].frame = f
    <3>1. /\ DOMAIN heads'[b] = 1 .. Len(heads[b]) + 1
          /\ heads'[b][Len(heads[b]) + 1] = [generation |-> Len(heads[b]), frame |-> f,
                                             binding |-> call[p].binding]
      BY PublishAppends
    <3> QED
      BY <1>2, <3>1
  <2>3. /\ Published'[b] \in Seq(Frame)
        /\ Len(Published'[b]) = Len(heads'[b]) /\ Len(heads'[b]) \in Nat
        /\ DOMAIN heads'[b] = 1 .. Len(heads'[b])
        /\ \A i \in 1 .. Len(heads'[b]) : Published'[b][i] = heads'[b][i].frame
    BY <2>1, FramesSeq
  <2>4. Len(heads'[b]) = 1
    <3>1. ASSUME NEW k \in Nat, 1 .. k = 1 .. 1 PROVE k = 1
      <4>1. 1 \in 1 .. k /\ ~(2 \in 1 .. k)
        BY <3>1
      <4> QED
        BY <4>1
    <3> QED
      BY <2>2, <2>3, <3>1
  <2>5. Published'[b][1] = f
    BY <2>2, <2>3, <2>4
  <2>6. <<f>> \in Seq(Frame) /\ Len(<<f>>) = 1 /\ <<f>>[1] = f
    BY <1>1
  <2> HIDE DEF b, f
  <2> QED
    BY <2>3, <2>4, <2>5, <2>6, SeqEqual
<1>4. Published' = [Published EXCEPT ![b] = <<f>>]
  <2>1. \A a \in Branch \ {b} : Published'[a] = Published[a]
    BY <1>1 DEF Published
  <2>2. /\ Published' = [a \in Branch |-> Published'[a]]
        /\ Published = [a \in Branch |-> Published[a]]
    BY DEF Published
  <2> HIDE DEF b, f
  <2> QED
    BY <1>0, <1>3, <2>1, <2>2
<1>5. ASSUME NEW r \in journal, r.branch # b PROVE Counts(r, heads') <=> Counts(r, heads)
  BY <1>1, <1>5 DEF Counts, Inv, TypeOK, IsRecord
<1>6. ASSUME NEW r \in journal, Counts(r, heads) PROVE r.branch # b
  BY <1>1, <1>6 DEF Counts
<1>7. Decisions' = {DecisionOf(r) : r \in {s \in journal : Counts(s, heads')}}
  BY <1>1 DEF Decisions, DecisionOf, Counts
<1>8. Decisions \subseteq Decisions'
  BY <1>5, <1>6, <1>7, DecisionsAre
<1>9. ASSUME NEW d \in Decisions' \ Decisions
      PROVE  \E r \in journal : d = DecisionOf(r) /\ Counts(r, heads') /\ r.branch = b
  <2>1. PICK r \in journal : d = DecisionOf(r) /\ Counts(r, heads')
    BY <1>7
  <2> QED
    BY <1>5, <2>1, DecisionsAre
<1>10. \A d \in Decisions' \ Decisions : d \in Log!Decision /\ d.branch = b
  <2> SUFFICES ASSUME NEW d \in Decisions' \ Decisions
               PROVE  d \in Log!Decision /\ d.branch = b
    OBVIOUS
  <2>1. PICK r \in journal : d = DecisionOf(r) /\ r.branch = b
    BY <1>9
  <2> QED
    BY <2>1 DEF Inv, TypeOK, IsRecord, DecisionOf, Log!Decision
<1>11. \A d, e \in Decisions' \ Decisions : d.parent = e.parent => d = e
  <2> SUFFICES ASSUME NEW d \in Decisions' \ Decisions, NEW e \in Decisions' \ Decisions,
                      d.parent = e.parent
               PROVE  d = e
    OBVIOUS
  <2>1. PICK r \in journal : d = DecisionOf(r) /\ Counts(r, heads') /\ r.branch = b
    BY <1>9
  <2>2. PICK s \in journal : e = DecisionOf(s) /\ Counts(s, heads') /\ s.branch = b
    BY <1>9
  <2>3. r.parent = s.parent /\ r.binding = s.binding
    BY <2>1, <2>2 DEF DecisionOf, Counts
  <2> QED
    BY <2>1, <2>2, <2>3 DEF Inv, KeyUnique, SameKey
<1> HIDE DEF b, f
<1>12. Log!Begin(b)
  BY <1>1, <1>2, <1>4, <1>8, <1>10, <1>11 DEF Log!Begin
<1> QED
  BY <1>0, <1>12 DEF Log!Next

\* A later head extends the log by the reduction of its last Frame.
LEMMA NextHeadExtends ==
  ASSUME Inv, Chained, BoundAtOrigin, NEW p \in Proc, Publish(p), Advancing(p)
  PROVE  Log!Next
<1> DEFINE b == call[p].branch
           n == Len(heads[b])
           x == call[p].head
           f == call[p].frame
<1>0. Inv' /\ b \in Branch /\ b = call[p].branch
  BY NextInv, PublishAppends DEF Next, Continue
<1>1. /\ heads[b] # <<>> /\ heads[b][n] = x /\ UNCHANGED journal
      /\ Publishing(call[p], frames, journal)
  BY CallKnows DEF Publish, AsExpected, Begun, Current, Phase
<1>2. /\ Input(call[p], journal) /\ call[p].fuel \in Fuel
      /\ f = Guest[x.frame, call[p].result, call[p].fuel]
      /\ call[p].result \in Result \cup {None} /\ f \in Frame
  BY <1>1, CallKnows DEF Publishing, Advancing, IsCall, Inv, TypeOK
<1>3. /\ n \in Nat /\ DOMAIN heads[b] = 1 .. n /\ DOMAIN heads'[b] = 1 .. n + 1
      /\ \A i \in 1 .. n : heads'[b][i] = heads[b][i]
      /\ heads'[b][n + 1].frame = f
      /\ \A a \in Branch \ {b} : heads'[a] = heads[a]
  <2>1. heads'[b][n + 1] = [generation |-> n, frame |-> f, binding |-> call[p].binding]
    BY PublishAppends
  <2>2. heads'[b][n + 1].frame = f
    BY <2>1
  <2> QED
    BY <2>2, PublishAppends
<1> HIDE DEF b, n, x, f
<1>4. /\ Published[b] \in Seq(Frame) /\ Len(Published[b]) = n /\ Published[b] # <<>>
      /\ \A i \in 1 .. n : Published[b][i] = heads[b][i].frame
  BY <1>0, <1>1, PublishedIs, FramesSeq DEF n
<1>5. n \in 1 .. n /\ 1 \in 1 .. n
  BY <1>3, <1>4, EmptySeq
<1>6. Log!Last(b) = x.frame
  BY <1>1, <1>4, <1>5 DEF Log!Last
<1>7. Published'[b] = Append(Published[b], f)
  <2>1. /\ Published'[b] \in Seq(Frame) /\ Len(Published'[b]) = Len(heads'[b])
        /\ Len(heads'[b]) \in Nat /\ DOMAIN heads'[b] = 1 .. Len(heads'[b])
        /\ \A i \in 1 .. Len(heads'[b]) : Published'[b][i] = heads'[b][i].frame
    <3>1. /\ IsSeq(heads'[b]) /\ \A i \in DOMAIN heads'[b] : IsHead(heads'[b][i])
          /\ Published'[b] = FramesOf(heads'[b])
      BY <1>0 DEF Published, FramesOf, Inv, TypeOK, IsSeq
    <3> QED
      BY <3>1, FramesSeq
  <2>2. Len(heads'[b]) = n + 1
    BY <1>3, <2>1
  <2>3. /\ Append(Published[b], f) \in Seq(Frame) /\ Len(Append(Published[b], f)) = n + 1
        /\ \A i \in 1 .. n : Append(Published[b], f)[i] = Published[b][i]
        /\ Append(Published[b], f)[n + 1] = f
    <3> DEFINE s == Published[b]
    <3>1. s \in Seq(Frame) /\ f \in Frame /\ Len(s) = n
      BY <1>2, <1>4
    <3> HIDE DEF s
    <3>2. /\ Append(s, f) \in Seq(Frame) /\ Len(Append(s, f)) = Len(s) + 1
          /\ \A i \in 1 .. Len(s) : Append(s, f)[i] = s[i]
          /\ Append(s, f)[Len(s) + 1] = f
      BY <3>1, AppendProperties
    <3> QED
      BY <3>1, <3>2 DEF s
  <2>4. \A i \in 1 .. n + 1 : Published'[b][i] = Append(Published[b], f)[i]
    <3>1. \A i \in 1 .. n + 1 : i \in 1 .. n \/ i = n + 1
      BY <1>3
    <3> QED
      BY <1>3, <1>4, <2>1, <2>2, <2>3, <3>1
  <2> QED
    BY <2>1, <2>2, <2>3, <2>4, SeqEqual
<1>8. Published' = [Published EXCEPT ![b] = Append(Published[b], f)]
  <2>1. \A a \in Branch \ {b} : Published'[a] = Published[a]
    BY <1>3 DEF Published
  <2>2. /\ Published' = [a \in Branch |-> Published'[a]]
        /\ Published = [a \in Branch |-> Published[a]]
    BY DEF Published
  <2> QED
    BY <1>0, <1>7, <2>1, <2>2
<1>9. UNCHANGED Decisions
  <2>1. \A r \in journal : Counts(r, heads') <=> Counts(r, heads)
    <3> SUFFICES ASSUME NEW r \in journal PROVE Counts(r, heads') <=> Counts(r, heads)
      OBVIOUS
    <3>1. CASE r.branch = b
      <4>1. heads'[b] # <<>>
        <5>1. Len(heads'[b]) # 0
          BY <1>0, <1>3, LenProperties DEF Inv, TypeOK
        <5> QED
          BY <5>1, EmptySeq
      <4> QED
        BY <1>1, <1>3, <1>5, <3>1, <4>1 DEF Counts
    <3>2. CASE r.branch # b
      BY <1>3, <3>2 DEF Counts, Inv, TypeOK, IsRecord
    <3> QED
      BY <3>1, <3>2
  <2>2. Decisions' = {DecisionOf(r) : r \in {s \in journal : Counts(s, heads')}}
    BY <1>1 DEF Decisions, DecisionOf, Counts
  <2> QED
    BY <2>1, <2>2, DecisionsAre
<1>10. ASSUME Parked(x.frame)
       PROVE  \E d \in Decisions : /\ d.branch = b /\ d.parent = x.frame
                                   /\ d.result = call[p].result
                                   /\ d.fuel \in {call[p].fuel, None}
  <2>1. PICK r \in journal :
          /\ r.branch = b /\ r.parent = x.frame /\ r.binding = x.binding
          /\ r.result = call[p].result /\ r.fuel \in {call[p].fuel, None}
    BY <1>2, <1>10 DEF Input, Recorded, b, x
  <2>2. heads[b][n].binding = heads[b][1].binding
    BY <1>0, <1>3, <1>5 DEF BoundAtOrigin
  <2>3. Counts(r, heads)
    BY <1>1, <2>1, <2>2 DEF Counts
  <2>4. DecisionOf(r) \in Decisions
    BY <2>3, DecisionsAre
  <2> QED
    BY <2>1, <2>4 DEF DecisionOf
<1>11. ~Parked(x.frame) => call[p].result = None
  BY <1>2 DEF Input, x
<1>12. Parked(x.frame) <=> x.frame \in {g \in Frame : Parked(g)}
  BY <1>2 DEF Input, IsHead, x
<1>13. Published' = [Published EXCEPT ![b] =
                       Append(Published[b], Guest[Log!Last(b), call[p].result, call[p].fuel])]
  BY <1>2, <1>6, <1>8
<1>14. Log!Extend(b)
  BY <1>2, <1>4, <1>6, <1>9, <1>10, <1>11, <1>12, <1>13 DEF Log!Extend
<1> QED
  BY <1>0, <1>14 DEF Log!Next

\* Branches grow only by reductions of decided inputs, and a decision is never
\* revised: RunControllerV1 implements ReplayLog.
THEOREM ImplementsReplayLog == Spec => LogSpec
<1>1. Init => Log!Init
  BY EmptySeq DEF Init, Log!Init, Published, Decisions
<1>2. Inv /\ Chained /\ Sourced /\ [Next]_vars => [Log!Next]_(Log!vars)
  <2> SUFFICES ASSUME Inv, Chained, BoundAtOrigin, [Next]_vars
               PROVE  [Log!Next]_(Log!vars)
    BY DEF Sourced
  <2>1. CASE UNCHANGED heads
    BY <2>1, JournalDecides
  <2>2. ASSUME NEW p \in Proc, Publish(p)
        PROVE  Log!Next
    BY <2>2, FirstHeadBegins, NextHeadExtends
  <2> QED
    BY <2>1, <2>2, StepShape
<1> QED
  BY <1>1, <1>2, Invariance, ChainedInv, SourcedInv, PTL DEF Spec, LogSpec, Log!Spec
===============================================================================
