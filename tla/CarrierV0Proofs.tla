----------------------------- MODULE CarrierV0Proofs -----------------------------
(***************************************************************************)
(* Proofs about CarrierV0.  The inductive invariant says what a call knows *)
(* at each of its program points: the head it started from is one of its   *)
(* branch's, nobody else writes the record of a key whose lock it holds,   *)
(* the outcome it submits is the journal's and stays so, and a turn it has *)
(* published is the one it is about to commit and to list.                 *)
(***************************************************************************)
EXTENDS CarrierV0, FiniteSetTheorems, SequenceTheorems, TLAPS

Submitted == {"submitted", "closure_committed"}

\* Outcomes are only dropped where a driver may be asked again and callers differ.
Kept == ~Reresolvable \/ policies = {Outcome}

\* At most one of the branch's heads asks for the effect.
AskedAtMostOnce(b, k) ==
  \A i, j \in DOMAIN heads[b] :
    Pending[heads[b][i].closure] = k /\ Pending[heads[b][j].closure] = k => i = j

Listed(b, head) == \E i \in DOMAIN heads[b] : heads[b][i] = head

-------------------------------------------------------------------------------
\* A task advances from a head of its branch, for the effect that head waits for.
AtHead(t) ==
  /\ call[t].branch \in Branch
  /\ Listed(call[t].branch, call[t].head)
  /\ call[t].key = Pending[call[t].head.closure]

HasKey(t) == call[t].branch \in Branch /\ call[t].key \in Key

Resolving == {"resolve", "observe", "preflight", "invoke", "driver", "answered"}

\* Where a call comes from.
Origin(t) ==
  /\ call[t].op = "advance" => AtHead(t)
  /\ call[t].pc \in Resolving \cup {"turn", "submit", "cas", "provenance"} =>
       call[t].op = "advance"
  /\ call[t].pc = "recover" => call[t].op \in {"advance", "recover"}
  /\ call[t].pc = "commit" => call[t].op \in {"advance", "reconcile"}
  /\ call[t].pc \in Resolving \cup {"recover", "commit"} => HasKey(t)
  /\ call[t].pc \in Resolving \cup {"recover"} => call[t].accepts \in policies
  /\ call[t].pc = "list" => /\ call[t].branch \in Branch
                            /\ Listed(call[t].branch, call[t].head)

\* What the record is while the key's lock is held.
Stage(t) ==
  /\ call[t].pc = "preflight" => Unresolved(t)
  /\ call[t].pc = "invoke" => Record(t).state = "observed"
  /\ call[t].pc \in {"driver", "answered"} => Record(t).state = "running"
  /\ call[t].pc = "recover" =>
       /\ Record(t).state \notin WithOutcome \cup {"none"}
       /\ call[t].op = "advance" => Record(t).state = "running"
  /\ call[t].pc \in {"preflight", "invoke", "driver"} /\ ~Reresolvable =>
       \A b \in Branch : effects[b][call[t].key].state \notin WithOutcome
  /\ call[t].pc = "driver" /\ ~Reresolvable =>
       invocations[call[t].branch][call[t].key] = 0

\* The turn is submitted with the outcome the journal holds.
HasOutcome(t) ==
  /\ call[t].outcome = None <=> call[t].key = None
  /\ Kept /\ call[t].key # None =>
       Record(t).state \in WithOutcome /\ Record(t).outcome = call[t].outcome

HasChild(t) ==
  call[t].child = World[call[t].head.closure, call[t].outcome] /\ call[t].child # None

\* From the turn to the last write.
Turn(t) ==
  /\ call[t].pc \in {"turn", "submit", "cas"} => HasOutcome(t)
  /\ call[t].pc \in {"submit", "cas"} => HasChild(t)
  /\ call[t].pc = "submit" => Confirmed(t)
  /\ call[t].pc = "cas" /\ Confirmed(t) =>
       (AskedAtMostOnce(call[t].branch, call[t].key) => Record(t).state \in Submitted)
  /\ call[t].pc = "commit" =>
       \E i \in DOMAIN heads[call[t].branch] :
         heads[call[t].branch][i].committed = call[t].key
  /\ call[t].pc \in {"commit", "provenance"} /\ call[t].op = "advance" =>
       Listed(call[t].branch, NextHead(t)) /\ call[t].child \in Closure

Knows(t) == Origin(t) /\ Stage(t) /\ Turn(t)

CallsKnow == \A t \in Task : Knows(t)

-------------------------------------------------------------------------------
\* No other task holds the lock of key k.
Sole(t, k) == \A u \in Task \ {t} : call[u].key = k => call[u].pc \notin Holding

Exclusion == \A t \in Task : call[t].pc \in Holding => Sole(t, call[t].key)

\* The generations of a branch's heads follow each other.
Numbered ==
  \A b \in Branch : \A i, j \in DOMAIN heads[b] :
    heads[b][j].generation + i = heads[b][i].generation + j

\* A head commits the effect that the head before it waited for.
CommitsAsked ==
  \A b \in Branch : \A i \in DOMAIN heads[b] :
    i + 1 \in DOMAIN heads[b] /\ heads[b][i + 1].committed # None =>
      heads[b][i + 1].committed = Pending[heads[b][i].closure]

\* A record belongs to a closure of the branch that asks for the effect.
RecordsAsked ==
  \A b \in Branch, k \in Key : effects[b][k].state # "none" =>
    \E i \in DOMAIN heads[b] :
      heads[b][i].closure = effects[b][k].parent /\ Pending[effects[b][k].parent] = k

\* The outcome a published closure was made from is still there.
CommittedKept ==
  Kept => \A b \in Branch, k \in Key : \A i \in DOMAIN heads[b] :
    i + 1 \in DOMAIN heads[b] /\ heads[b][i + 1].committed = k =>
      /\ effects[b][k].state \in WithOutcome
      /\ heads[b][i + 1].closure = World[heads[b][i].closure, effects[b][k].outcome]

\* An effect asked for once is submitted or committed when a head has applied it.
Finalizable ==
  \A b \in Branch, k \in Key :
    Len(heads[b]) > 1 /\ Current(b).committed = k /\ AskedAtMostOnce(b, k) =>
      effects[b][k].state \in Submitted

\* A driver that may not be asked again has not been while its effect is observed.
Invocations ==
  \A b \in Branch, k \in Key :
    /\ Reresolvable => invocations[b][k] = 0
    /\ ~Reresolvable => /\ invocations[b][k] < 2
                        /\ effects[b][k].state \in {"none", "observed"} =>
                             invocations[b][k] = 0

HeadsInv == HeadsAreTurns /\ Numbered /\ CommitsAsked /\ ListedHeadsPublished

EffectsInv ==
  /\ RecordsAsked /\ CommittedKept /\ CommittedEffectsPublished /\ Finalizable
  /\ Invocations

Inv == TypeOK /\ CallsKnow /\ Exclusion /\ HeadsInv /\ EffectsInv

-------------------------------------------------------------------------------
\* The types, variable by variable.
LEMMA HeadsType ==
  ASSUME TypeOK, NEW b \in Branch
  PROVE  /\ heads[b] \in Seq(RunHead)
         /\ DOMAIN heads[b] = 1 .. Len(heads[b]) /\ Len(heads[b]) \in Nat
         /\ \A i \in DOMAIN heads[b] : heads[b][i] \in RunHead
<1>1. heads[b] \in Seq(RunHead)
  BY DEF TypeOK
<1> QED
  BY <1>1

LEMMA RunHeadFields ==
  ASSUME NEW h \in RunHead
  PROVE  /\ h.generation \in Nat /\ h.closure \in Closure
         /\ h.parent \in Closure \cup {None} /\ h.committed \in Key \cup {None}
BY DEF RunHead

\* Rewriting a record changes that record only.
LEMMA PutRecord ==
  ASSUME TypeOK, NEW t \in Task, HasKey(t), NEW r, Put(t, r)
  PROVE  /\ \A b \in Branch, k \in Key :
              effects'[b][k] = IF b = call[t].branch /\ k = call[t].key THEN r
                               ELSE effects[b][k]
         /\ r \in EffectRecord \cup {NoRecord} =>
              effects' \in [Branch -> [Key -> EffectRecord \cup {NoRecord}]]
BY DEF TypeOK, HasKey, Put

LEMMA GotoCall ==
  ASSUME TypeOK, NEW t \in Task, NEW c, Goto(t, c)
  PROVE  /\ call'[t] = c /\ \A u \in Task \ {t} : call'[u] = call[u]
         /\ c \in Call => call' \in [Task -> Call]
BY DEF TypeOK, Goto

LEMMA IdleCall == Idle \in Call
BY DEF Idle, Call, PC

-------------------------------------------------------------------------------
\* Heads are only added.
Grown ==
  \A b \in Branch : \A i \in DOMAIN heads[b] :
    i \in DOMAIN heads'[b] /\ heads'[b][i] = heads[b][i]

\* What a step of t may do to the records.
Gentle(t) ==
  \A b \in Branch, k \in Key : effects'[b][k] # effects[b][k] =>
    /\ b = call[t].branch /\ k = call[t].key /\ Sole(t, k)
    /\ Kept /\ effects[b][k].state \in WithOutcome =>
         /\ effects'[b][k].state \in WithOutcome
         /\ effects'[b][k].outcome = effects[b][k].outcome
    /\ AskedAtMostOnce(b, k) /\ effects[b][k].state \in Submitted =>
         effects'[b][k].state \in Submitted

\* Only who holds the key's lock asks the driver.
Asking(t) ==
  \A b \in Branch, k \in Key : invocations'[b][k] # invocations[b][k] =>
    k = call[t].key /\ Sole(t, k)

LEMMA MoreHeads ==
  ASSUME Grown, NEW b \in Branch, NEW k
  PROVE  AskedAtMostOnce(b, k)' => AskedAtMostOnce(b, k)
BY DEF Grown, AskedAtMostOnce

\* What a call knows survives the steps of the others.
LEMMA OthersKnow ==
  ASSUME TypeOK, NEW t \in Task, NEW u \in Task \ {t}, Knows(u), call'[u] = call[u],
         UNCHANGED <<class, policies>>, Grown, Gentle(t), Asking(t)
  PROVE  Knows(u)'
<1>1. Origin(u)'
  BY DEF Knows, Origin, AtHead, HasKey, Listed, Grown
<1>2. Stage(u)'
  <2>1. ASSUME HasKey(u), call[u].pc \in Holding, NEW b \in Branch
        PROVE  /\ effects'[b][call[u].key] = effects[b][call[u].key]
               /\ invocations'[b][call[u].key] = invocations[b][call[u].key]
    BY <2>1 DEF Gentle, Asking, Sole, HasKey
  <2>2. call[u].pc \in {"preflight", "invoke", "driver", "answered", "recover"} =>
          HasKey(u) /\ call[u].pc \in Holding
    BY DEF Knows, Origin, Resolving, Holding
  <2> QED
    BY <2>1, <2>2 DEF Knows, Stage, HasKey, Record, Unresolved, Reresolvable
<1>3. Turn(u)'
  <2> USE DEF Knows, Turn
  <2>1. call[u].pc \in {"turn", "submit", "cas"} => AtHead(u) /\ call[u].branch \in Branch
    BY DEF Origin, AtHead
  <2>2. ASSUME call[u].pc \in {"turn", "submit", "cas"}
        PROVE  call[u].key \in Key \cup {None}
    BY <2>2 DEF TypeOK, Call
  <2>3. ASSUME call[u].pc \in {"turn", "submit", "cas"} PROVE HasOutcome(u)'
    <3>1. Kept' => Kept
      BY DEF Kept, Reresolvable
    <3> QED
      BY <2>1, <2>2, <2>3, <3>1 DEF HasOutcome, Record, Gentle
  <2>4. ASSUME call[u].pc = "cas", Confirmed(u),
               AskedAtMostOnce(call[u].branch, call[u].key)'
        PROVE  Record(u).state' \in Submitted
    <3>1. call[u].key \in Key
      BY <2>1, <2>2, <2>4, CarrierAssumption DEF Confirmed, HasOutcome
    <3>2. AskedAtMostOnce(call[u].branch, call[u].key)
      <4> SUFFICES ASSUME NEW i \in DOMAIN heads[call[u].branch],
                          NEW j \in DOMAIN heads[call[u].branch],
                          Pending[heads[call[u].branch][i].closure] = call[u].key,
                          Pending[heads[call[u].branch][j].closure] = call[u].key
                   PROVE  i = j
        BY DEF AskedAtMostOnce
      <4>1. /\ {i, j} \subseteq DOMAIN heads'[call[u].branch]
            /\ heads'[call[u].branch][i] = heads[call[u].branch][i]
            /\ heads'[call[u].branch][j] = heads[call[u].branch][j]
        BY <2>1, <2>4 DEF Grown
      <4> QED
        BY <2>4, <4>1 DEF AskedAtMostOnce
    <3> QED
      BY <2>1, <2>4, <3>1, <3>2 DEF Record, Gentle
  <2>5. call[u].pc = "commit" =>
          \E i \in DOMAIN heads'[call[u].branch] :
            heads'[call[u].branch][i].committed = call[u].key
    BY DEF Origin, HasKey, Grown, Resolving
  <2>6. call[u].pc \in {"commit", "provenance"} /\ call[u].op = "advance" =>
          Listed(call[u].branch, NextHead(u))' /\ call[u].child \in Closure
    BY DEF Origin, AtHead, Grown, Listed, NextHead, Confirmed, Parent
  <2> QED
    BY <2>3, <2>4, <2>5, <2>6 DEF HasChild, Confirmed, Parent
<1> QED
  BY <1>1, <1>2, <1>3 DEF Knows

LEMMA SameKnowledge ==
  ASSUME NEW t \in Task, Knows(t), UNCHANGED <<class, policies, heads, effects, call, invocations>>
  PROVE  Knows(t)'
<1>1. Origin(t)'
  BY DEF Knows, Origin, AtHead, HasKey, Listed
<1>2. Stage(t)'
  BY DEF Knows, Stage, Record, Unresolved, Reresolvable
<1>3. Turn(t)'
  BY DEF Knows, Turn, HasOutcome, HasChild, Confirmed, Record, Kept, Reresolvable, Parent,
         AskedAtMostOnce, Listed, NextHead
<1> QED
  BY <1>1, <1>2, <1>3 DEF Knows

\* After a step of t everybody knows what it should, and the locks exclude.
LEMMA AllKnow ==
  ASSUME Inv, NEW t \in Task, NEW c, Goto(t, c), UNCHANGED <<class, policies>>,
         Grown, Gentle(t), Asking(t), Knows(t)',
         c.pc \in Holding => Sole(t, c.key)
  PROVE  CallsKnow' /\ Exclusion'
<1>1. call'[t] = c /\ \A u \in Task \ {t} : call'[u] = call[u]
  BY GotoCall DEF Inv
<1>2. ASSUME NEW u \in Task \ {t} PROVE Knows(u)'
  BY <1>1, <1>2, OthersKnow DEF Inv, CallsKnow
<1>3. Exclusion'
  BY <1>1 DEF Inv, Exclusion, Sole
<1> QED
  BY <1>2, <1>3 DEF CallsKnow

-------------------------------------------------------------------------------
LEMMA SameTurns ==
  ASSUME HeadsInv, UNCHANGED heads
  PROVE  HeadsAreTurns' /\ Numbered' /\ CommitsAsked'
<1>1. HeadsAreTurns'
  BY DEF HeadsInv, HeadsAreTurns
<1>2. Numbered' /\ CommitsAsked'
  BY DEF HeadsInv, Numbered, CommitsAsked
<1> QED
  BY <1>1, <1>2

LEMMA SameHeads ==
  ASSUME HeadsInv, UNCHANGED <<heads, run>>
  PROVE  HeadsInv'
<1>1. ListedHeadsPublished'
  BY DEF HeadsInv, ListedHeadsPublished
<1> QED
  BY <1>1, SameTurns DEF HeadsInv

LEMMA SameRecords ==
  ASSUME EffectsInv, UNCHANGED <<heads, effects, class, policies>>, Invocations'
  PROVE  EffectsInv'
<1>1. RecordsAsked' /\ CommittedEffectsPublished'
  BY DEF EffectsInv, RecordsAsked, CommittedEffectsPublished
<1>2. CommittedKept'
  BY DEF EffectsInv, CommittedKept, Kept, Reresolvable
<1>3. Finalizable'
  BY DEF EffectsInv, Finalizable, Current, AskedAtMostOnce
<1> QED
  BY <1>1, <1>2, <1>3 DEF EffectsInv

\* Steps that change the local state of a call only.
LEMMA QuietStep ==
  ASSUME Inv, NEW t \in Task, NEW c \in Call, Goto(t, c),
         UNCHANGED <<class, policies, heads, run, effects, invocations>>,
         Knows(t)', c.pc \in Holding => Sole(t, c.key)
  PROVE  Inv'
<1>1. Grown /\ Gentle(t) /\ Asking(t)
  BY DEF Grown, Gentle, Asking
<1>2. CallsKnow' /\ Exclusion'
  BY <1>1, AllKnow
<1>3. TypeOK'
  BY GotoCall DEF Inv, TypeOK
<1>4. HeadsInv'
  BY SameHeads DEF Inv
<1>5. EffectsInv'
  <2>1. Invocations'
    BY DEF Inv, EffectsInv, Invocations, Reresolvable
  <2> QED
    BY <2>1, SameRecords DEF Inv
<1> QED
  BY <1>2, <1>3, <1>4, <1>5 DEF Inv

\* A call that is over knows nothing.
LEMMA IdleKnows ==
  ASSUME TypeOK, NEW t \in Task, Goto(t, Idle)
  PROVE  Knows(t)' /\ Idle.pc \notin Holding
<1>1. call'[t] = Idle
  BY GotoCall
<1> QED
  BY <1>1 DEF Knows, Origin, Stage, Turn, Idle, Resolving, Holding

LEMMA AbandonStep ==
  ASSUME Inv, NEW t \in Task, Abandon(t), UNCHANGED <<class, policies>>
  PROVE  Inv'
<1>1. Goto(t, Idle) /\ Knows(t)' /\ Idle.pc \notin Holding
  BY IdleKnows DEF Inv, Abandon
<1> QED
  BY <1>1, IdleCall, QuietStep DEF Abandon

\* The records that a call may write.
MayWrite(t, r) ==
  /\ HasKey(t) /\ Sole(t, call[t].key)
  /\ r \in EffectRecord \cup {NoRecord}
  /\ r.state \in WithOutcome => r.outcome # None
  /\ Kept /\ Record(t).state \in WithOutcome =>
       r.state \in WithOutcome /\ r.outcome = Record(t).outcome
  /\ AskedAtMostOnce(call[t].branch, call[t].key) /\ Record(t).state \in Submitted =>
       r.state \in Submitted
  /\ r.state # "none" =>
       \/ Record(t).state # "none" /\ r.parent = Record(t).parent
       \/ AtHead(t) /\ r.parent = Parent(t)
  /\ r.state = "closure_committed" =>
       \/ Record(t).state = "closure_committed"
       \/ \E i \in DOMAIN heads[call[t].branch] :
            heads[call[t].branch][i].committed = call[t].key
  /\ ~Reresolvable /\ r.state \in {"none", "observed"} =>
       Record(t).state \in {"none", "observed"}

\* Steps that write the record of the call's key.
LEMMA WriteStep ==
  ASSUME Inv, NEW t \in Task, NEW c \in Call, Goto(t, c), NEW r, MayWrite(t, r), Put(t, r),
         UNCHANGED <<class, policies, heads, run, invocations>>,
         Knows(t)', c.pc \in Holding => Sole(t, c.key)
  PROVE  Inv'
<1> DEFINE b0 == call[t].branch
           k0 == call[t].key
<1>1. /\ b0 \in Branch /\ k0 \in Key /\ TypeOK
      /\ HasKey(t)
  BY DEF MayWrite, HasKey, Inv
<1>2. \A b \in Branch, k \in Key :
        effects'[b][k] = IF b = b0 /\ k = k0 THEN r ELSE effects[b][k]
  BY <1>1, PutRecord
<1>3. Record(t) = effects[b0][k0]
  BY DEF Record
<1>4. Grown /\ Gentle(t) /\ Asking(t)
  <2>1. Grown /\ Asking(t)
    BY DEF Grown, Asking
  <2>2. Gentle(t)
    BY <1>2, <1>3 DEF Gentle, MayWrite
  <2> QED
    BY <2>1, <2>2
<1>5. CallsKnow' /\ Exclusion'
  BY <1>4, AllKnow
<1>6. TypeOK'
  <2>1. effects' \in [Branch -> [Key -> EffectRecord \cup {NoRecord}]]
    BY <1>1, PutRecord DEF MayWrite
  <2>2. \A b \in Branch, k \in Key :
          effects'[b][k].state \in WithOutcome => effects'[b][k].outcome # None
    <3>1. \A b \in Branch, k \in Key :
            effects[b][k].state \in WithOutcome => effects[b][k].outcome # None
      BY <1>1 DEF TypeOK
    <3>2. r.state \in WithOutcome => r.outcome # None
      BY DEF MayWrite
    <3> QED
      BY <1>2, <3>1, <3>2
  <2> QED
    BY <1>1, <2>1, <2>2, GotoCall DEF TypeOK
<1>7. HeadsInv'
  BY SameHeads DEF Inv
<1>8. EffectsInv'
  <2> USE DEF Inv, EffectsInv
  <2>1. RecordsAsked'
    <3>1. ASSUME r.state # "none"
          PROVE  \E i \in DOMAIN heads[b0] :
                   heads[b0][i].closure = r.parent /\ Pending[r.parent] = k0
      <4>1. CASE Record(t).state # "none" /\ r.parent = Record(t).parent
        BY <1>1, <1>3, <4>1 DEF RecordsAsked
      <4>2. CASE AtHead(t) /\ r.parent = Parent(t)
        BY <4>2 DEF AtHead, Listed, Parent
      <4> QED
        BY <3>1, <4>1, <4>2 DEF MayWrite
    <3> QED
      BY <1>2, <3>1 DEF RecordsAsked
  <2>2. CommittedKept'
    <3> SUFFICES ASSUME Kept', NEW b \in Branch, NEW k \in Key, NEW i \in DOMAIN heads[b],
                        i + 1 \in DOMAIN heads[b], heads[b][i + 1].committed = k
                 PROVE  /\ effects'[b][k].state \in WithOutcome
                        /\ heads[b][i + 1].closure =
                             World[heads[b][i].closure, effects'[b][k].outcome]
      BY DEF CommittedKept
    <3>1. Kept
      BY DEF Kept, Reresolvable
    <3>2. /\ effects[b][k].state \in WithOutcome
          /\ heads[b][i + 1].closure = World[heads[b][i].closure, effects[b][k].outcome]
      BY <3>1 DEF CommittedKept
    <3>3. /\ effects'[b][k].state \in WithOutcome
          /\ effects'[b][k].outcome = effects[b][k].outcome
      BY <1>2, <1>3, <3>1, <3>2 DEF MayWrite
    <3> QED
      BY <3>2, <3>3
  <2>3. CommittedEffectsPublished'
    BY <1>1, <1>2, <1>3 DEF CommittedEffectsPublished, MayWrite
  <2>4. Finalizable'
    BY <1>2, <1>3 DEF Finalizable, MayWrite, AskedAtMostOnce, Current
  <2>5. Invocations'
    BY <1>1, <1>2, <1>3 DEF Invocations, MayWrite, Reresolvable
  <2> QED
    BY <2>1, <2>2, <2>3, <2>4, <2>5
<1> QED
  BY <1>5, <1>6, <1>7, <1>8 DEF Inv

-------------------------------------------------------------------------------
\* What a call may rely on.
LEMMA CallFields ==
  ASSUME TypeOK, NEW t \in Task
  PROVE  /\ call[t] \in Call
         /\ call[t].accepts \subseteq Outcome
         /\ call[t].outcome \in Outcome \cup {None} /\ call[t].child \in Closure \cup {None}
         /\ call[t].key \in Key \cup {None}
<1>1. call[t] \in Call
  BY DEF TypeOK
<1> QED
  BY <1>1 DEF Call

LEMMA FromHead ==
  ASSUME TypeOK, NEW t \in Task, AtHead(t)
  PROVE  /\ call[t].head \in RunHead /\ Parent(t) \in Closure
         /\ call[t].branch \in Branch /\ heads[call[t].branch] # <<>>
<1>1. call[t].branch \in Branch /\ Listed(call[t].branch, call[t].head)
  BY DEF AtHead
<1>2. call[t].head \in RunHead /\ DOMAIN heads[call[t].branch] # {}
  BY <1>1, HeadsType DEF Listed
<1> QED
  BY <1>1, <1>2, RunHeadFields DEF Parent

LEMMA Locked ==
  ASSUME Inv, NEW t \in Task, call[t].pc \in Resolving \cup {"recover", "commit"}
  PROVE  /\ HasKey(t) /\ Record(t) \in EffectRecord \cup {NoRecord}
         /\ Record(t).state \in WithOutcome => Record(t).outcome # None
         /\ call[t].pc \in Holding => Sole(t, call[t].key)
<1>1. HasKey(t)
  BY DEF Inv, CallsKnow, Knows, Origin
<1>2. /\ Record(t) \in EffectRecord \cup {NoRecord}
      /\ Record(t).state \in WithOutcome => Record(t).outcome # None
  BY <1>1 DEF Inv, TypeOK, Record, HasKey
<1> QED
  BY <1>1, <1>2 DEF Inv, Exclusion

\* A call whose local state moves on keeps what the step does not set.
LEMMA NewPC ==
  ASSUME NEW c \in Call, NEW pc \in PC, NEW d, d = [c EXCEPT !.pc = pc]
  PROVE  /\ d \in Call /\ d.pc = pc /\ d.op = c.op /\ d.branch = c.branch /\ d.key = c.key
         /\ d.head = c.head /\ d.accepts = c.accepts /\ d.outcome = c.outcome
         /\ d.child = c.child
BY DEF Call

LEMMA NewRecord ==
  ASSUME NEW state \in WithOutcome \cup Parked \cup {"observed", "running"},
         NEW parent \in Closure, NEW outcome \in Outcome \cup {None}
  PROVE  [state |-> state, parent |-> parent, outcome |-> outcome] \in EffectRecord
BY DEF EffectRecord

LEMMA RecordFields ==
  ASSUME NEW r \in EffectRecord \cup {NoRecord}
  PROVE  /\ r.outcome \in Outcome \cup {None}
         /\ r.state # "none" =>
              /\ r.state \in WithOutcome \cup Parked \cup {"observed", "running"}
              /\ r.parent \in Closure /\ r \in EffectRecord
BY DEF EffectRecord, NoRecord

-------------------------------------------------------------------------------
\* A call begins from the current head.
LEMMA AdvanceStep ==
  ASSUME Inv, NEW t \in Task, NEW b \in Branch, NEW accepts, Advance(t, b, accepts),
         UNCHANGED <<class, policies>>
  PROVE  Inv'
<1> DEFINE h == Current(b)
           key == Pending[h.closure]
           c == [Idle EXCEPT !.op = "advance", !.branch = b, !.head = h,
                             !.accepts = accepts, !.key = key,
                             !.pc = IF key = None THEN "turn" ELSE "resolve"]
<1>1. Goto(t, c) /\ accepts \in policies /\ UNCHANGED <<heads, run, effects, invocations>>
  BY DEF Advance
<1>2. Len(heads[b]) \in DOMAIN heads[b] /\ h \in RunHead /\ TypeOK
  <2>1. heads[b] # <<>> /\ heads[b] \in Seq(RunHead) /\ TypeOK
    BY HeadsType DEF Advance, Begun, Inv
  <2> QED
    BY <2>1 DEF Current
<1>3. key \in Key \cup {None} /\ accepts \subseteq Outcome
  BY <1>1, <1>2, RunHeadFields, CarrierAssumption DEF TypeOK
<1>4. /\ c \in Call /\ c.op = "advance" /\ c.branch = b /\ c.head = h /\ c.accepts = accepts
      /\ c.key = key /\ c.pc = IF key = None THEN "turn" ELSE "resolve"
      /\ c.outcome = None
  BY <1>2, <1>3 DEF Idle, Call, PC
<1> HIDE DEF c
<1>5. call'[t] = c
  BY <1>1, <1>2, GotoCall
<1>6. Listed(b, h)
  BY <1>2 DEF Listed, Current
<1> HIDE DEF h, key
<1>7. Origin(t)'
  BY <1>1, <1>3, <1>4, <1>5, <1>6 DEF Origin, AtHead, HasKey, Listed, Resolving, key
<1>8. Stage(t)' /\ Turn(t)'
  BY <1>3, <1>4, <1>5 DEF Stage, Turn, HasOutcome
<1> QED
  BY <1>1, <1>4, <1>7, <1>8, QuietStep DEF Knows, Holding

LEMMA RecoverEffectStep ==
  ASSUME Inv, NEW t \in Task, NEW b \in Branch, NEW k \in Key, NEW accepts,
         RecoverEffect(t, b, k, accepts), UNCHANGED <<class, policies>>
  PROVE  Inv'
<1> DEFINE c == [Idle EXCEPT !.op = "recover", !.branch = b, !.key = k,
                             !.accepts = accepts, !.pc = "recover"]
<1>1. /\ Goto(t, c) /\ accepts \in policies /\ UNCHANGED <<heads, run, effects, invocations>>
      /\ effects[b][k].state \notin WithOutcome \cup {"none"} /\ Sole(t, k)
  BY DEF RecoverEffect, KeyFree, Sole
<1>2. TypeOK /\ accepts \subseteq Outcome
  BY <1>1 DEF Inv, TypeOK
<1>3. /\ c \in Call /\ c.op = "recover" /\ c.branch = b /\ c.accepts = accepts
      /\ c.key = k /\ c.pc = "recover"
  BY <1>2 DEF Idle, Call, PC
<1> HIDE DEF c
<1>4. call'[t] = c
  BY <1>1, <1>2, GotoCall
<1>5. Origin(t)' /\ Stage(t)' /\ Turn(t)'
  BY <1>1, <1>3, <1>4 DEF Origin, HasKey, Resolving, Stage, Record, Turn
<1> QED
  BY <1>1, <1>3, <1>5, QuietStep DEF Knows

LEMMA ReconcileStep ==
  ASSUME Inv, NEW t \in Task, NEW b \in Branch, NEW k \in Key, Reconcile(t, b, k),
         UNCHANGED <<class, policies>>
  PROVE  Inv'
<1> DEFINE c == [Idle EXCEPT !.op = "reconcile", !.branch = b, !.key = k, !.pc = "commit"]
<1>1. /\ Goto(t, c) /\ UNCHANGED <<heads, run, effects, invocations>>
      /\ heads[b] # <<>> /\ Current(b).committed = k
  BY DEF Reconcile, Begun, Commits
<1>2. TypeOK /\ Len(heads[b]) \in DOMAIN heads[b]
  BY <1>1, HeadsType DEF Inv
<1>3. /\ c \in Call /\ c.op = "reconcile" /\ c.branch = b /\ c.key = k /\ c.pc = "commit"
  BY DEF Idle, Call, PC
<1> HIDE DEF c
<1>4. call'[t] = c
  BY <1>1, <1>2, GotoCall
<1>5. Origin(t)' /\ Stage(t)' /\ Turn(t)'
  BY <1>1, <1>2, <1>3, <1>4 DEF Origin, HasKey, Resolving, Stage, Turn, Current
<1> QED
  BY <1>1, <1>3, <1>5, QuietStep DEF Knows, Holding

-------------------------------------------------------------------------------
\* With the key's lock: from the record to the driver.
LEMMA LockKeyStep ==
  ASSUME Inv, NEW t \in Task, LockKey(t), UNCHANGED <<class, policies>>
  PROVE  Inv'
<1> DEFINE r == Rebound(Record(t), Parent(t))
           c == [call[t] EXCEPT !.pc = "observe"]
<1>1. /\ call[t].pc = "resolve" /\ Goto(t, c) /\ Put(t, r) /\ Sole(t, call[t].key)
      /\ UNCHANGED <<heads, run, invocations>>
  BY DEF LockKey, At, KeyFree, Sole
<1>2. TypeOK /\ Knows(t) /\ call[t] \in Call /\ HasKey(t) /\ AtHead(t)
  BY <1>1, CallFields, Locked DEF Inv, CallsKnow, Knows, Origin, Resolving
<1>3. /\ Record(t) \in EffectRecord \cup {NoRecord} /\ Parent(t) \in Closure
      /\ Record(t).state \in WithOutcome => Record(t).outcome # None
  BY <1>1, <1>2, Locked, FromHead DEF Resolving
<1>4. /\ c \in Call /\ c.pc = "observe" /\ c.op = call[t].op /\ c.branch = call[t].branch
      /\ c.key = call[t].key /\ c.head = call[t].head /\ c.accepts = call[t].accepts
  BY <1>2, NewPC DEF PC
<1> HIDE DEF c
<1>5. call'[t] = c
  BY <1>1, <1>2, GotoCall
<1>6. Knows(t)'
  BY <1>1, <1>2, <1>4, <1>5
     DEF Knows, Origin, AtHead, HasKey, Listed, Resolving, Stage, Turn
<1>7. MayWrite(t, r)
  <2>1. CASE r = Record(t)
    BY <1>1, <1>2, <1>3, <2>1 DEF MayWrite
  <2>2. CASE r # Record(t)
    <3>1. /\ Record(t).state # "none" /\ Record(t).state \notin Parked
          /\ Record(t).parent # Parent(t)
          /\ r = [state |-> IF Record(t).state \in WithOutcome THEN "resolved"
                            ELSE Record(t).state,
                  parent |-> Parent(t), outcome |-> Record(t).outcome]
      BY <2>2 DEF Rebound
    <3>2. /\ Record(t).state \in WithOutcome \cup {"observed", "running"}
          /\ Record(t).outcome \in Outcome \cup {None}
      BY <1>3, <3>1, RecordFields
    <3>3. /\ r \in EffectRecord /\ r.parent = Parent(t) /\ r.outcome = Record(t).outcome
          /\ r.state = IF Record(t).state \in WithOutcome THEN "resolved"
                       ELSE Record(t).state
      BY <1>3, <3>1, <3>2, NewRecord DEF WithOutcome
    <3>4. ~AskedAtMostOnce(call[t].branch, call[t].key)
      <4>1. PICK i \in DOMAIN heads[call[t].branch] :
              /\ heads[call[t].branch][i].closure = Record(t).parent
              /\ Pending[Record(t).parent] = call[t].key
        BY <1>2, <3>1 DEF Inv, EffectsInv, RecordsAsked, Record, HasKey
      <4>2. PICK j \in DOMAIN heads[call[t].branch] :
              /\ heads[call[t].branch][j].closure = Parent(t)
              /\ Pending[Parent(t)] = call[t].key
        BY <1>2 DEF AtHead, Listed, Parent
      <4> QED
        BY <3>1, <4>1, <4>2 DEF AskedAtMostOnce
    <3> HIDE DEF r
    <3>5. r.state \in {"resolved", "observed", "running"}
      BY <3>2, <3>3
    <3>6. r.state \in WithOutcome <=> Record(t).state \in WithOutcome
      BY <3>2, <3>3 DEF WithOutcome
    <3> QED
      BY <1>1, <1>2, <1>3, <3>1, <3>3, <3>4, <3>5, <3>6 DEF MayWrite
  <2> QED
    BY <2>1, <2>2
<1> HIDE DEF r
<1> QED
  BY <1>1, <1>4, <1>6, <1>7, WriteStep

LEMMA ReuseStep ==
  ASSUME Inv, NEW t \in Task, Reuse(t), UNCHANGED <<class, policies>>
  PROVE  Inv'
<1> DEFINE o == Record(t).outcome
           c == [call[t] EXCEPT !.pc = "turn", !.outcome = o]
<1>1. /\ call[t].pc = "observe" /\ Record(t).state \in WithOutcome /\ Goto(t, c)
      /\ o \in call[t].accepts /\ UNCHANGED <<heads, run, effects, invocations>>
  BY DEF Reuse, Reuses
<1>2. /\ TypeOK /\ call[t] \in Call /\ HasKey(t) /\ AtHead(t) /\ call[t].op = "advance"
      /\ o \in Outcome
  BY <1>1, CallFields, Locked DEF Inv, CallsKnow, Knows, Origin, Resolving
<1>3. /\ c \in Call /\ c.pc = "turn" /\ c.op = call[t].op /\ c.branch = call[t].branch
      /\ c.key = call[t].key /\ c.head = call[t].head /\ c.outcome = o
  <2>1. "turn" \in PC /\ o \in Outcome \cup {None}
    BY <1>2 DEF PC
  <2> HIDE DEF o
  <2> QED
    BY <1>2, <2>1 DEF Call
<1> HIDE DEF c
<1>4. call'[t] = c
  BY <1>1, <1>2, GotoCall
<1>5. Origin(t)' /\ Stage(t)'
  BY <1>1, <1>2, <1>3, <1>4 DEF Origin, AtHead, Listed, Resolving, Stage
<1>6. HasOutcome(t)'
  BY <1>1, <1>2, <1>3, <1>4, CarrierAssumption DEF HasOutcome, Record, HasKey
<1>7. Turn(t)'
  BY <1>3, <1>4, <1>6 DEF Turn
<1> QED
  BY <1>1, <1>3, <1>5, <1>7, QuietStep DEF Knows, Holding

LEMMA ReuseElsewhereStep ==
  ASSUME Inv, NEW t \in Task, ReuseElsewhere(t), UNCHANGED <<class, policies>>
  PROVE  Inv'
<1>1. PICK o \in Reusable(t) :
        /\ Put(t, [state |-> "resolved", parent |-> Parent(t), outcome |-> o])
        /\ \/ Reuses(t, o)
           \/ o \notin call[t].accepts /\ UNCHANGED call
  BY DEF ReuseElsewhere
<1> DEFINE r == [state |-> "resolved", parent |-> Parent(t), outcome |-> o]
<1>2. call[t].pc = "observe" /\ Unresolved(t) /\ UNCHANGED <<heads, run, invocations>>
  BY DEF ReuseElsewhere
<1>3. /\ TypeOK /\ call[t] \in Call /\ HasKey(t) /\ AtHead(t) /\ call[t].op = "advance"
      /\ Sole(t, call[t].key) /\ Parent(t) \in Closure
  BY <1>2, CallFields, Locked, FromHead DEF Inv, CallsKnow, Knows, Origin, Resolving, Holding
<1>4. o \in Outcome
  <2>1. PICK b \in Branch : /\ effects[b][call[t].key].state \in WithOutcome
                            /\ o = effects[b][call[t].key].outcome
    BY <1>1 DEF Reusable, Elsewhere
  <2> QED
    BY <1>3, <2>1, RecordFields DEF TypeOK, HasKey
<1>5. r \in EffectRecord /\ r.state = "resolved" /\ r.parent = Parent(t) /\ r.outcome = o
  BY <1>3, <1>4, NewRecord DEF WithOutcome
<1>6. Put(t, r)
  BY <1>1
<1> HIDE DEF r
<1>7. MayWrite(t, r)
  BY <1>2, <1>3, <1>4, <1>5, CarrierAssumption
     DEF MayWrite, Unresolved, WithOutcome, Submitted
<1>8. PICK c \in Call :
        /\ Goto(t, c) /\ c.pc \in {"turn", "observe"} /\ c.op = call[t].op
        /\ c.branch = call[t].branch /\ c.key = call[t].key /\ c.head = call[t].head
        /\ c.accepts = call[t].accepts
        /\ c.pc = "turn" => c.outcome = o
  <2>1. CASE Reuses(t, o)
    <3>1. Goto(t, [call[t] EXCEPT !.pc = "turn", !.outcome = o]) /\ "turn" \in PC
      BY <2>1 DEF Reuses, PC
    <3> DEFINE d == [call[t] EXCEPT !.pc = "turn", !.outcome = o]
    <3>2. /\ d \in Call /\ d.pc = "turn" /\ d.op = call[t].op /\ d.branch = call[t].branch
          /\ d.key = call[t].key /\ d.head = call[t].head /\ d.outcome = o
          /\ d.accepts = call[t].accepts
      BY <1>3, <1>4, <3>1 DEF Call
    <3> HIDE DEF d
    <3> QED
      BY <3>1, <3>2 DEF d
  <2>2. CASE UNCHANGED call
    <3>1. Goto(t, call[t])
      BY <1>3, <2>2 DEF Goto, TypeOK
    <3> QED
      BY <1>2, <1>3, <3>1
  <2> QED
    BY <1>1, <2>1, <2>2
<1>9. /\ call'[t] = c
      /\ effects'[call[t].branch][call[t].key] = r
  BY <1>3, <1>6, <1>8, GotoCall, PutRecord DEF HasKey
<1>10. Origin(t)' /\ Stage(t)'
  <2>1. call[t].accepts \in policies
    BY <1>2 DEF Inv, CallsKnow, Knows, Origin, Resolving
  <2> QED
    BY <1>2, <1>3, <1>8, <1>9, <2>1 DEF Origin, HasKey, AtHead, Listed, Resolving, Stage
<1>11. Turn(t)'
  <2>1. c.pc = "turn" => HasOutcome(t)'
    BY <1>3, <1>4, <1>5, <1>8, <1>9, CarrierAssumption
       DEF HasOutcome, Record, HasKey, WithOutcome
  <2> QED
    BY <1>8, <1>9, <2>1 DEF Turn
<1> QED
  BY <1>2, <1>3, <1>6, <1>7, <1>8, <1>10, <1>11, WriteStep DEF Knows

LEMMA NothingToReuseStep ==
  ASSUME Inv, NEW t \in Task, NothingToReuse(t), UNCHANGED <<class, policies>>
  PROVE  Inv'
<1> DEFINE c == [call[t] EXCEPT !.pc = "preflight"]
<1>1. /\ call[t].pc = "observe" /\ Unresolved(t) /\ Reusable(t) = {} /\ Goto(t, c)
      /\ UNCHANGED <<heads, run, effects, invocations>>
  BY DEF NothingToReuse, At
<1>2. /\ TypeOK /\ Knows(t) /\ call[t] \in Call /\ HasKey(t)
      /\ Sole(t, call[t].key)
  BY <1>1, CallFields, Locked DEF Inv, CallsKnow, Resolving, Holding
<1>3. /\ c \in Call /\ c.pc = "preflight" /\ c.op = call[t].op /\ c.branch = call[t].branch
      /\ c.key = call[t].key /\ c.head = call[t].head /\ c.accepts = call[t].accepts
  BY <1>2, NewPC DEF PC
<1> HIDE DEF c
<1>4. call'[t] = c
  BY <1>1, <1>2, GotoCall
<1>5. ASSUME NEW b \in Branch PROVE effects[b][call[t].key].state \notin WithOutcome
  <2>1. CASE b = call[t].branch
    BY <1>1, <2>1 DEF Unresolved, Record, WithOutcome
  <2>2. CASE b # call[t].branch
    BY <1>1, <2>2 DEF Reusable, Elsewhere
  <2> QED
    BY <2>1, <2>2
<1>6. Origin(t)'
  BY <1>1, <1>2, <1>3, <1>4 DEF Knows, Origin, HasKey, AtHead, Listed, Resolving
<1>7. Stage(t)' /\ Turn(t)'
  BY <1>1, <1>3, <1>4, <1>5 DEF Stage, Turn, Unresolved, Record
<1> QED
  BY <1>1, <1>2, <1>3, <1>6, <1>7, QuietStep DEF Knows

LEMMA DropOutcomeStep ==
  ASSUME Inv, NEW t \in Task, DropOutcome(t), UNCHANGED <<class, policies>>
  PROVE  Inv'
<1> DEFINE r == [state |-> "observed", parent |-> Record(t).parent, outcome |-> None]
           c == [call[t] EXCEPT !.pc = "preflight"]
<1>1. /\ call[t].pc = "observe" /\ Record(t).state = "resolved" /\ Reresolvable
      /\ Record(t).outcome \notin call[t].accepts /\ Goto(t, c) /\ Put(t, r)
      /\ UNCHANGED <<heads, run, invocations>>
  BY DEF DropOutcome, At, MayDrop
<1>2. /\ TypeOK /\ Knows(t) /\ call[t] \in Call /\ HasKey(t)
      /\ Sole(t, call[t].key) /\ Record(t) \in EffectRecord \cup {NoRecord}
      /\ Record(t).outcome # None
  BY <1>1, CallFields, Locked DEF Inv, CallsKnow, Resolving, Holding, WithOutcome
<1>3. /\ c \in Call /\ c.pc = "preflight" /\ c.op = call[t].op /\ c.branch = call[t].branch
      /\ c.key = call[t].key /\ c.head = call[t].head /\ c.accepts = call[t].accepts
  BY <1>2, NewPC DEF PC
<1>4. /\ r \in EffectRecord /\ r.state = "observed" /\ r.parent = Record(t).parent
  BY <1>1, <1>2, RecordFields, NewRecord
<1>5. ~Kept
  <2>1. call[t].accepts \in policies /\ Record(t).outcome \in Outcome
    BY <1>1, <1>2, RecordFields DEF Knows, Origin, Resolving
  <2> QED
    BY <1>1, <2>1 DEF Kept
<1> HIDE DEF c, r
<1>6. MayWrite(t, r)
  BY <1>1, <1>2, <1>4, <1>5 DEF MayWrite, WithOutcome, Submitted
<1>7. call'[t] = c /\ effects'[call[t].branch][call[t].key] = r
  BY <1>1, <1>2, GotoCall, PutRecord DEF HasKey
<1>8. Origin(t)'
  BY <1>1, <1>2, <1>3, <1>7 DEF Knows, Origin, HasKey, AtHead, Listed, Resolving
<1>9. Stage(t)' /\ Turn(t)'
  BY <1>1, <1>3, <1>4, <1>7 DEF Stage, Turn, Unresolved, Record, Reresolvable
<1> QED
  BY <1>1, <1>2, <1>3, <1>6, <1>8, <1>9, WriteStep DEF Knows

LEMMA PreflightStep ==
  ASSUME Inv, NEW t \in Task, Preflight(t), UNCHANGED <<class, policies>>
  PROVE  Inv'
<1>1. /\ call[t].pc = "preflight" /\ UNCHANGED <<heads, run, invocations>>
      /\ TypeOK /\ Knows(t) /\ call[t] \in Call /\ HasKey(t) /\ AtHead(t)
      /\ Unresolved(t) /\ Sole(t, call[t].key) /\ Parent(t) \in Closure
  BY CallFields, Locked, FromHead
     DEF Preflight, Inv, CallsKnow, Knows, Origin, Stage, Resolving, Holding
<1>2. /\ call[t].op = "advance" /\ call[t].accepts \in policies
      /\ ~Reresolvable => \A b \in Branch : effects[b][call[t].key].state \notin WithOutcome
  BY <1>1 DEF Knows, Origin, Stage, Resolving
<1>3. ASSUME NEW pc \in {"recover", "invoke"}, At(t, pc)
      PROVE  \E c \in Call :
               /\ Goto(t, c) /\ call'[t] = c /\ c.pc = pc /\ c.op = call[t].op
               /\ c.branch = call[t].branch /\ c.key = call[t].key
               /\ c.head = call[t].head /\ c.accepts = call[t].accepts
  BY <1>1, <1>3, NewPC, GotoCall DEF At, PC
<1>4. ASSUME NEW pc \in {"recover", "invoke"}, At(t, pc), UNCHANGED effects,
             Record(t).state = IF pc = "recover" THEN "running" ELSE "observed"
      PROVE  Inv'
  <2>1. PICK c \in Call :
          /\ Goto(t, c) /\ call'[t] = c /\ c.pc = pc /\ c.op = call[t].op
          /\ c.branch = call[t].branch /\ c.key = call[t].key
          /\ c.head = call[t].head /\ c.accepts = call[t].accepts
    BY <1>3, <1>4
  <2>2. Origin(t)'
    BY <1>1, <1>2, <1>4, <2>1 DEF Knows, Origin, HasKey, AtHead, Listed, Resolving
  <2>3. Stage(t)' /\ Turn(t)'
    BY <1>1, <1>2, <1>4, <2>1 DEF Stage, Turn, Record, WithOutcome, Reresolvable
  <2> QED
    BY <1>1, <1>4, <2>1, <2>2, <2>3, QuietStep DEF Knows
<1>5. ASSUME NEW pc \in {"recover", "invoke"}, At(t, pc), NEW r, Put(t, r),
             Record(t).state = "none",
             r = [state |-> IF pc = "recover" THEN "running" ELSE "observed",
                  parent |-> Parent(t), outcome |-> None]
      PROVE  Inv'
  <2>1. PICK c \in Call :
          /\ Goto(t, c) /\ call'[t] = c /\ c.pc = pc /\ c.op = call[t].op
          /\ c.branch = call[t].branch /\ c.key = call[t].key
          /\ c.head = call[t].head /\ c.accepts = call[t].accepts
    BY <1>3, <1>5
  <2>2. /\ r \in EffectRecord /\ r.parent = Parent(t) /\ r.outcome = None
        /\ r.state = IF pc = "recover" THEN "running" ELSE "observed"
    BY <1>1, <1>5, NewRecord
  <2>3. MayWrite(t, r)
    BY <1>1, <1>5, <2>2 DEF MayWrite, WithOutcome, Submitted
  <2>4. \A b \in Branch, k \in Key :
          effects'[b][k] = IF b = call[t].branch /\ k = call[t].key THEN r ELSE effects[b][k]
    BY <1>1, <1>5, PutRecord
  <2>5. Origin(t)'
    BY <1>1, <1>2, <2>1 DEF Knows, Origin, HasKey, AtHead, Listed, Resolving
  <2>6. Stage(t)' /\ Turn(t)'
    BY <1>1, <1>2, <2>1, <2>2, <2>4
       DEF Stage, Turn, Record, HasKey, WithOutcome, Reresolvable
  <2> QED
    BY <1>1, <1>5, <2>1, <2>3, <2>5, <2>6, WriteStep DEF Knows
<1>6. CASE Record(t).state = "running" /\ At(t, "recover") /\ UNCHANGED effects
  BY <1>4, <1>6
<1>7. CASE Record(t).state = "observed" /\ At(t, "invoke") /\ UNCHANGED effects
  BY <1>4, <1>7
<1>8. CASE /\ Record(t).state = "none" /\ At(t, "recover")
           /\ Put(t, [state |-> "running", parent |-> Parent(t), outcome |-> None])
  BY <1>5, <1>8
<1>9. CASE /\ Record(t).state = "none" /\ At(t, "invoke")
           /\ Put(t, [state |-> "observed", parent |-> Parent(t), outcome |-> None])
  BY <1>5, <1>9
<1> QED
  BY <1>1, <1>6, <1>7, <1>8, <1>9 DEF Preflight, Unresolved

LEMMA InvokeStep ==
  ASSUME Inv, NEW t \in Task, Invoke(t), UNCHANGED <<class, policies>>
  PROVE  Inv'
<1> DEFINE r == [state |-> "running", parent |-> Record(t).parent, outcome |-> None]
           c == [call[t] EXCEPT !.pc = "driver"]
<1>1. /\ call[t].pc = "invoke" /\ Goto(t, c) /\ Put(t, r)
      /\ UNCHANGED <<heads, run, invocations>>
  BY DEF Invoke, At
<1>2. /\ TypeOK /\ Knows(t) /\ call[t] \in Call /\ HasKey(t) /\ Sole(t, call[t].key)
      /\ Record(t) \in EffectRecord \cup {NoRecord} /\ Record(t).state = "observed"
  BY <1>1, CallFields, Locked DEF Inv, CallsKnow, Resolving, Holding, Knows, Stage
<1>3. /\ c \in Call /\ c.pc = "driver" /\ c.op = call[t].op /\ c.branch = call[t].branch
      /\ c.key = call[t].key /\ c.head = call[t].head /\ c.accepts = call[t].accepts
  BY <1>2, NewPC DEF PC
<1>4. /\ r \in EffectRecord /\ r.state = "running" /\ r.parent = Record(t).parent
  BY <1>2, RecordFields, NewRecord
<1> HIDE DEF c, r
<1>5. MayWrite(t, r)
  BY <1>2, <1>4 DEF MayWrite, WithOutcome, Submitted
<1>6. call'[t] = c /\ \A b \in Branch, k \in Key :
        effects'[b][k] = IF b = call[t].branch /\ k = call[t].key THEN r ELSE effects[b][k]
  BY <1>1, <1>2, GotoCall, PutRecord
<1>7. Origin(t)'
  BY <1>1, <1>2, <1>3, <1>6 DEF Knows, Origin, HasKey, AtHead, Listed, Resolving
<1>8. Stage(t)' /\ Turn(t)'
  <2>1. ~Reresolvable => invocations[call[t].branch][call[t].key] = 0
    BY <1>2 DEF Inv, EffectsInv, Invocations, HasKey, Record
  <2>2. ~Reresolvable => \A b \in Branch : effects'[b][call[t].key].state \notin WithOutcome
    BY <1>1, <1>2, <1>4, <1>6 DEF Knows, Stage, HasKey, WithOutcome
  <2> QED
    BY <1>1, <1>2, <1>3, <1>4, <1>6, <2>1, <2>2
       DEF Stage, Turn, Record, HasKey, Reresolvable
<1> QED
  BY <1>1, <1>2, <1>3, <1>5, <1>7, <1>8, WriteStep DEF Knows

\* The driver is asked.
LEMMA DriveStep ==
  ASSUME Inv, NEW t \in Task, Drive(t), UNCHANGED <<class, policies>>
  PROVE  Inv'
<1> DEFINE b0 == call[t].branch
           k0 == call[t].key
<1>1. PICK answer \in Outcome \cup {None} :
        Goto(t, [call[t] EXCEPT !.pc = "answered", !.outcome = answer])
  BY DEF Drive
<1> DEFINE c == [call[t] EXCEPT !.pc = "answered", !.outcome = answer]
<1>2. /\ call[t].pc = "driver" /\ Counted(t) /\ Goto(t, c)
      /\ UNCHANGED <<heads, run, effects>>
  BY <1>1 DEF Drive
<1>3. /\ TypeOK /\ Knows(t) /\ call[t] \in Call /\ HasKey(t) /\ Sole(t, k0)
      /\ b0 \in Branch /\ k0 \in Key
  BY <1>2, CallFields, Locked DEF Inv, CallsKnow, Resolving, Holding, HasKey
<1>4. /\ c \in Call /\ c.pc = "answered" /\ c.op = call[t].op /\ c.branch = call[t].branch
      /\ c.key = call[t].key /\ c.head = call[t].head /\ c.accepts = call[t].accepts
  BY <1>3 DEF Call, PC
<1> HIDE DEF c
<1>5. call'[t] = c
  BY <1>2, <1>3, GotoCall
<1>6. /\ invocations' \in [Branch -> [Key -> 0 .. 2]]
      /\ \A b \in Branch, k \in Key :
           invocations'[b][k] = IF b = b0 /\ k = k0
                                  THEN IF Reresolvable THEN 0
                                       ELSE IF invocations[b][k] = 0 THEN 1 ELSE 2
                                  ELSE invocations[b][k]
  <2>1. invocations \in [Branch -> [Key -> 0 .. 2]]
    BY <1>3 DEF TypeOK
  <2> QED
    BY <1>2, <1>3, <2>1 DEF Counted
<1>7. Grown /\ Gentle(t) /\ Asking(t)
  BY <1>2, <1>3, <1>6 DEF Grown, Gentle, Asking
<1>8. Knows(t)'
  <2>1. Origin(t)'
    BY <1>2, <1>3, <1>4, <1>5 DEF Knows, Origin, HasKey, AtHead, Listed, Resolving
  <2>2. Stage(t)' /\ Turn(t)'
    BY <1>2, <1>3, <1>4, <1>5 DEF Knows, Stage, Turn, Record
  <2> QED
    BY <2>1, <2>2 DEF Knows
<1>9. CallsKnow' /\ Exclusion'
  BY <1>2, <1>3, <1>4, <1>7, <1>8, AllKnow
<1>10. TypeOK'
  BY <1>2, <1>3, <1>4, <1>6, GotoCall DEF TypeOK
<1>11. HeadsInv'
  BY <1>2, SameHeads DEF Inv
<1>12. Invocations'
  <2>1. ~Reresolvable => invocations[b0][k0] = 0 /\ effects[b0][k0].state = "running"
    BY <1>2, <1>3 DEF Knows, Stage, Record
  <2>2. Invocations
    BY DEF Inv, EffectsInv
  <2> QED
    BY <1>2, <1>3, <1>6, <2>1, <2>2 DEF Invocations, Reresolvable
<1>13. EffectsInv'
  BY <1>2, <1>12, SameRecords DEF Inv, EffectsInv
<1> QED
  BY <1>9, <1>10, <1>11, <1>13 DEF Inv

\* An effect that has no outcome gets one, and its call submits it or is over.
LEMMA ResolveStep ==
  ASSUME Inv, NEW t \in Task, call[t].pc \in {"answered", "recover"},
         Record(t).state \notin WithOutcome \cup {"none"},
         NEW o \in call[t].accepts, Resolved(t, o), NEW c \in Call, Goto(t, c),
         \/ c = Idle
         \/ /\ call[t].op = "advance" /\ c.pc = "turn" /\ c.op = call[t].op
            /\ c.branch = call[t].branch /\ c.key = call[t].key /\ c.head = call[t].head
            /\ c.outcome = o,
         UNCHANGED <<class, policies, heads, run, invocations>>
  PROVE  Inv'
<1> DEFINE r == [state |-> "resolved", parent |-> Record(t).parent, outcome |-> o]
<1>1. /\ TypeOK /\ Knows(t) /\ call[t] \in Call /\ HasKey(t) /\ Sole(t, call[t].key)
      /\ Record(t) \in EffectRecord \cup {NoRecord} /\ o \in Outcome
  BY CallFields, Locked DEF Inv, CallsKnow, Resolving, Holding
<1>2. Put(t, r)
  BY DEF Resolved
<1>3. /\ r \in EffectRecord /\ r.state = "resolved" /\ r.parent = Record(t).parent
      /\ r.outcome = o
  BY <1>1, RecordFields, NewRecord DEF WithOutcome
<1> HIDE DEF r
<1>4. MayWrite(t, r)
  BY <1>1, <1>3, CarrierAssumption DEF MayWrite, WithOutcome, Submitted
<1>5. call'[t] = c /\ effects'[call[t].branch][call[t].key] = r
  BY <1>1, <1>2, GotoCall, PutRecord DEF HasKey
<1>6. CASE c = Idle
  BY <1>1, <1>2, <1>4, <1>6, IdleKnows, WriteStep
<1>7. CASE c # Idle
  <2>1. Origin(t)' /\ Stage(t)'
    BY <1>1, <1>5, <1>7
       DEF Knows, Origin, HasKey, AtHead, Listed, Resolving, Stage
  <2>2. HasOutcome(t)'
    BY <1>1, <1>3, <1>5, <1>7, CarrierAssumption
       DEF HasOutcome, Record, HasKey, WithOutcome
  <2>3. Turn(t)'
    BY <1>5, <1>7, <2>2 DEF Turn
  <2> QED
    BY <1>1, <1>2, <1>4, <1>7, <2>1, <2>3, WriteStep DEF Knows, Holding
<1> QED
  BY <1>6, <1>7

\* An effect without an outcome stays so, or waits for an operator.
LEMMA ParkStep ==
  ASSUME Inv, NEW t \in Task, call[t].pc \in {"answered", "recover"},
         Record(t).state \notin WithOutcome \cup {"none"},
         NEW state \in Parked \cup {"running"}, PutState(t, state), Goto(t, Idle),
         UNCHANGED <<class, policies, heads, run, invocations>>
  PROVE  Inv'
<1> DEFINE r == [state |-> state, parent |-> Record(t).parent, outcome |-> Record(t).outcome]
<1>1. /\ TypeOK /\ HasKey(t) /\ Sole(t, call[t].key)
      /\ Record(t) \in EffectRecord \cup {NoRecord}
  BY Locked DEF Inv, Resolving, Holding
<1>2. Put(t, r)
  BY DEF PutState
<1>3. /\ r \in EffectRecord /\ r.state = state /\ r.parent = Record(t).parent
  BY <1>1, RecordFields, NewRecord
<1> HIDE DEF r
<1>4. MayWrite(t, r)
  BY <1>1, <1>3 DEF MayWrite, WithOutcome, Submitted, Parked
<1> QED
  BY <1>1, <1>2, <1>4, IdleKnows, IdleCall, WriteStep

LEMMA PersistStep ==
  ASSUME Inv, NEW t \in Task, Persist(t), UNCHANGED <<class, policies>>
  PROVE  Inv'
<1> DEFINE o == call[t].outcome
           c == [call[t] EXCEPT !.pc = "turn"]
<1>1. /\ call[t].pc = "answered" /\ Goto(t, c) /\ Resolved(t, o) /\ o \in call[t].accepts
      /\ UNCHANGED <<heads, run, invocations>>
  BY DEF Persist, At
<1>2. /\ call[t] \in Call /\ Record(t).state = "running" /\ call[t].op = "advance"
  BY <1>1, CallFields DEF Inv, CallsKnow, Resolving, Knows, Origin, Stage
<1>3. /\ c \in Call /\ c.pc = "turn" /\ c.op = call[t].op /\ c.branch = call[t].branch
      /\ c.key = call[t].key /\ c.head = call[t].head /\ c.outcome = o
  BY <1>2, NewPC DEF PC
<1> HIDE DEF c
<1> QED
  BY <1>1, <1>2, <1>3, ResolveStep DEF WithOutcome

LEMMA DriverFailedStep ==
  ASSUME Inv, NEW t \in Task, DriverFailed(t), UNCHANGED <<class, policies>>
  PROVE  Inv'
<1>1. /\ call[t].pc = "answered" /\ Goto(t, Idle) /\ UNCHANGED <<heads, run, invocations>>
      /\ Record(t).state = "running"
  BY DEF DriverFailed, Inv, CallsKnow, Knows, Stage
<1>2. PICK state \in Parked \cup {"running"} : PutState(t, state)
  BY DEF DriverFailed, DriverFailure, InvalidResolution, Parked
<1> QED
  BY <1>1, <1>2, ParkStep DEF WithOutcome

\* The journal's recovery of an effect without an outcome.
LEMMA RecoverStep ==
  ASSUME Inv, NEW t \in Task, Recover(t), UNCHANGED <<class, policies>>
  PROVE  Inv'
<1>1. /\ call[t].pc = "recover" /\ UNCHANGED <<heads, run, invocations>>
      /\ Record(t).state \notin WithOutcome \cup {"none"} /\ call[t] \in Call
      /\ call[t].op \in {"advance", "recover"}
  BY CallFields DEF Recover, Inv, CallsKnow, Knows, Origin, Stage
<1>2. ASSUME NEW state \in Parked, PutState(t, state), Goto(t, Idle)
      PROVE  Inv'
  BY <1>1, <1>2, ParkStep
<1>3. ASSUME UNCHANGED effects, Goto(t, Idle)
      PROVE  Inv'
  BY <1>1, <1>3, AbandonStep DEF Abandon
<1>4. ASSUME NEW o \in call[t].accepts, Resolved(t, o),
             Goto(t, IF call[t].op = "recover" THEN Idle
                     ELSE [call[t] EXCEPT !.pc = "turn", !.outcome = o])
      PROVE  Inv'
  <2>1. CASE call[t].op = "recover"
    BY <1>1, <1>4, <2>1, ResolveStep, IdleCall
  <2>2. CASE call[t].op = "advance"
    <3> DEFINE c == [call[t] EXCEPT !.pc = "turn", !.outcome = o]
    <3>1. o \in Outcome
      BY <1>4, CallFields DEF Inv
    <3>2. /\ c \in Call /\ c.pc = "turn" /\ c.op = call[t].op /\ c.branch = call[t].branch
          /\ c.key = call[t].key /\ c.head = call[t].head /\ c.outcome = o
      BY <1>1, <3>1 DEF Call, PC
    <3>3. Goto(t, c)
      BY <1>4, <2>2
    <3> HIDE DEF c
    <3> QED
      BY <1>1, <1>4, <2>2, <3>2, <3>3, ResolveStep
  <2> QED
    BY <1>1, <2>1, <2>2
<1> QED
  BY <1>2, <1>3, <1>4 DEF Recover, InvalidResolution, Parked

-------------------------------------------------------------------------------
LEMMA WorldType ==
  ASSUME NEW closure \in Closure, NEW o \in Outcome \cup {None}
  PROVE  World[closure, o] \in Closure \cup {None}
BY CarrierAssumption

\* From the turn to the head.
LEMMA SubmitTurnStep ==
  ASSUME Inv, NEW t \in Task, SubmitTurn(t), UNCHANGED <<class, policies>>
  PROVE  Inv'
<1> DEFINE child == World[Parent(t), call[t].outcome]
           pc == IF <<Parent(t), call[t].outcome>> \in Applied THEN "submit" ELSE "cas"
           c == [call[t] EXCEPT !.child = child, !.pc = pc]
<1>1. /\ call[t].pc = "turn" /\ child # None /\ Goto(t, c)
      /\ UNCHANGED <<heads, run, effects, invocations>>
  BY DEF SubmitTurn
<1>2. /\ TypeOK /\ Knows(t) /\ call[t] \in Call /\ call[t].op = "advance"
      /\ AtHead(t) /\ HasOutcome(t) /\ Parent(t) \in Closure
      /\ call[t].outcome \in Outcome \cup {None}
  BY <1>1, CallFields, FromHead DEF Inv, CallsKnow, Knows, Origin, Turn
<1>3. child \in Closure /\ pc \in PC /\ pc \in {"submit", "cas"}
  BY <1>1, <1>2, WorldType DEF PC
<1>4. pc = "submit" <=> Confirmed(t)
  BY DEF Confirmed
<1> HIDE DEF child, pc
<1>5. /\ c \in Call /\ c.pc = pc /\ c.op = call[t].op /\ c.branch = call[t].branch
      /\ c.key = call[t].key /\ c.head = call[t].head /\ c.outcome = call[t].outcome
      /\ c.child = child
  BY <1>2, <1>3 DEF Call
<1> HIDE DEF c
<1>6. call'[t] = c
  BY <1>1, <1>2, GotoCall
<1>7. Origin(t)' /\ Stage(t)'
  BY <1>1, <1>2, <1>3, <1>5, <1>6 DEF Origin, AtHead, Listed, Resolving, Stage
<1>8. HasOutcome(t)' /\ HasChild(t)' /\ (Confirmed(t)' <=> Confirmed(t))
  BY <1>1, <1>2, <1>5, <1>6
     DEF HasOutcome, HasChild, Record, Kept, Reresolvable, Confirmed, Parent, child
<1>9. Turn(t)'
  BY <1>3, <1>4, <1>5, <1>6, <1>8 DEF Turn
<1> QED
  BY <1>1, <1>3, <1>5, <1>7, <1>9, QuietStep DEF Knows, Holding

LEMMA MarkSubmittedStep ==
  ASSUME Inv, NEW t \in Task, MarkSubmitted(t), UNCHANGED <<class, policies>>
  PROVE  Inv'
<1> DEFINE r == [state |-> "submitted", parent |-> Record(t).parent,
                 outcome |-> Record(t).outcome]
           c == [call[t] EXCEPT !.pc = "cas"]
<1>1. /\ call[t].pc = "submit" /\ Record(t).outcome # None /\ Goto(t, c) /\ Put(t, r)
      /\ Sole(t, call[t].key) /\ UNCHANGED <<heads, run, invocations>>
  BY DEF MarkSubmitted, At, PutState, MayMark, KeyFree, Sole
<1>2. /\ TypeOK /\ Knows(t) /\ call[t] \in Call /\ call[t].op = "advance"
      /\ AtHead(t) /\ HasOutcome(t) /\ HasChild(t) /\ Confirmed(t)
      /\ call[t].key \in Key \cup {None} /\ call[t].outcome \in Outcome \cup {None}
  BY <1>1, CallFields DEF Inv, CallsKnow, Knows, Origin, Turn
<1>3. HasKey(t) /\ Record(t) \in EffectRecord
  <2>1. call[t].key \in Key
    BY <1>2, CarrierAssumption DEF Confirmed, HasOutcome
  <2>2. HasKey(t) /\ Record(t) \in EffectRecord \cup {NoRecord}
    BY <1>2, <2>1 DEF HasKey, AtHead, Record, TypeOK
  <2> QED
    BY <1>1, <2>2 DEF NoRecord
<1>4. /\ r \in EffectRecord /\ r.state = "submitted" /\ r.parent = Record(t).parent
      /\ r.outcome = Record(t).outcome /\ Record(t).state # "none"
  BY <1>3 DEF EffectRecord, WithOutcome, Parked
<1>5. /\ c \in Call /\ c.pc = "cas" /\ c.op = call[t].op /\ c.branch = call[t].branch
      /\ c.key = call[t].key /\ c.head = call[t].head /\ c.outcome = call[t].outcome
      /\ c.child = call[t].child
  BY <1>2, NewPC DEF PC
<1> HIDE DEF c, r
<1>6. MayWrite(t, r)
  BY <1>1, <1>3, <1>4 DEF MayWrite, WithOutcome, Submitted
<1>7. call'[t] = c /\ effects'[call[t].branch][call[t].key] = r
  BY <1>1, <1>2, <1>3, GotoCall, PutRecord DEF HasKey
<1>8. Origin(t)' /\ Stage(t)'
  BY <1>1, <1>2, <1>5, <1>7 DEF Origin, AtHead, Listed, Resolving, Stage
<1>9. Record(t)' = r
  BY <1>5, <1>7 DEF Record
<1>10. HasOutcome(t)' /\ HasChild(t)'
  BY <1>2, <1>4, <1>5, <1>7, <1>9
     DEF HasOutcome, HasChild, Kept, Reresolvable, WithOutcome
<1>11. Turn(t)'
  BY <1>4, <1>5, <1>7, <1>9, <1>10 DEF Turn, Submitted
<1> QED
  BY <1>1, <1>3, <1>5, <1>6, <1>8, <1>11, WriteStep DEF Knows, Holding

LEMMA MarkClosureCommittedStep ==
  ASSUME Inv, NEW t \in Task, MarkClosureCommitted(t), UNCHANGED <<class, policies>>
  PROVE  Inv'
<1> DEFINE r == [state |-> "closure_committed", parent |-> Record(t).parent,
                 outcome |-> Record(t).outcome]
           c == [call[t] EXCEPT !.pc = "provenance"]
<1>1. /\ call[t].pc = "commit" /\ Record(t).outcome # None /\ Put(t, r)
      /\ IF call[t].op = "reconcile" THEN Goto(t, Idle) ELSE Goto(t, c)
      /\ Sole(t, call[t].key) /\ UNCHANGED <<heads, run, invocations>>
  BY DEF MarkClosureCommitted, At, PutState, MayMark, KeyFree, Sole
<1>2. /\ TypeOK /\ Knows(t) /\ call[t] \in Call /\ HasKey(t)
      /\ call[t].op \in {"advance", "reconcile"}
      /\ Record(t) \in EffectRecord \cup {NoRecord}
  BY <1>1, CallFields, Locked DEF Inv, CallsKnow, Knows, Origin, Resolving
<1>3. /\ r \in EffectRecord /\ r.state = "closure_committed" /\ r.parent = Record(t).parent
      /\ r.outcome = Record(t).outcome /\ Record(t).state # "none"
  BY <1>1, <1>2 DEF EffectRecord, NoRecord, WithOutcome, Parked
<1>4. /\ c \in Call /\ c.pc = "provenance" /\ c.op = call[t].op /\ c.branch = call[t].branch
      /\ c.key = call[t].key /\ c.head = call[t].head /\ c.outcome = call[t].outcome
      /\ c.child = call[t].child
  BY <1>2, NewPC DEF PC
<1> HIDE DEF c, r
<1>5. MayWrite(t, r)
  BY <1>1, <1>2, <1>3 DEF MayWrite, WithOutcome, Submitted, Knows, Turn
<1>6. CASE call[t].op = "reconcile"
  BY <1>1, <1>2, <1>5, <1>6, IdleKnows, IdleCall, WriteStep
<1>7. CASE call[t].op = "advance"
  <2>1. Goto(t, c) /\ call'[t] = c
    BY <1>1, <1>2, <1>7, GotoCall
  <2>2. /\ AtHead(t) /\ Listed(call[t].branch, NextHead(t)) /\ call[t].child \in Closure
    BY <1>1, <1>2, <1>7 DEF Knows, Origin, Turn
  <2>3. Origin(t)' /\ Stage(t)'
    BY <1>1, <1>4, <1>7, <2>1, <2>2 DEF Origin, AtHead, Listed, Resolving, Stage
  <2>4. Turn(t)'
    <3>1. NextHead(t)' = NextHead(t)
      BY <1>4, <2>1 DEF NextHead, Confirmed, Parent
    <3> QED
      BY <1>1, <1>4, <2>1, <2>2, <3>1 DEF Turn, Listed
  <2> QED
    BY <1>1, <1>4, <1>5, <2>1, <2>3, <2>4, WriteStep DEF Knows, Holding
<1> QED
  BY <1>2, <1>6, <1>7

-------------------------------------------------------------------------------
\* Steps that write heads or the run record.
LEMMA OneMoreHead ==
  ASSUME TypeOK, NEW b0 \in Branch, NEW h \in RunHead,
         heads' = [heads EXCEPT ![b0] = Append(@, h)]
  PROVE  /\ heads' \in [Branch -> Seq(RunHead)] /\ Grown
         /\ \A b \in Branch \ {b0} : heads'[b] = heads[b]
         /\ Len(heads[b0]) \in Nat
         /\ DOMAIN heads[b0] = 1 .. Len(heads[b0])
         /\ DOMAIN heads'[b0] = 1 .. Len(heads[b0]) + 1
         /\ Len(heads'[b0]) = Len(heads[b0]) + 1
         /\ heads'[b0][Len(heads[b0]) + 1] = h
         /\ \A i \in 1 .. Len(heads[b0]) : heads'[b0][i] = heads[b0][i]
<1>1. heads \in [Branch -> Seq(RunHead)] /\ heads[b0] \in Seq(RunHead)
  BY DEF TypeOK
<1>2. /\ heads'[b0] = Append(heads[b0], h)
      /\ \A b \in Branch \ {b0} : heads'[b] = heads[b]
      /\ heads' \in [Branch -> Seq(RunHead)]
  BY <1>1
<1> QED
  BY <1>1, <1>2 DEF Grown

LEMMA SwapHeadStep ==
  ASSUME Inv, NEW t \in Task, SwapHead(t), UNCHANGED <<class, policies>>
  PROVE  Inv'
<1> DEFINE b0 == call[t].branch
           h == call[t].head
           n == Len(heads[b0])
           next == NextHead(t)
           c == [call[t] EXCEPT !.pc = IF Confirmed(t) THEN "commit" ELSE "provenance"]
<1>1. /\ call[t].pc = "cas" /\ Current(b0).generation = h.generation
      /\ heads' = [heads EXCEPT ![b0] = Append(@, next)] /\ Goto(t, c)
      /\ UNCHANGED <<run, effects, invocations>>
  BY DEF SwapHead, At, SameHead
<1>2. /\ TypeOK /\ Knows(t) /\ call[t] \in Call /\ call[t].op = "advance"
      /\ AtHead(t) /\ HasOutcome(t) /\ HasChild(t)
      /\ call[t].key \in Key \cup {None} /\ call[t].outcome \in Outcome \cup {None}
      /\ call[t].child \in Closure \cup {None}
  BY <1>1, CallFields DEF Inv, CallsKnow, Knows, Origin, Turn
<1>3. /\ b0 \in Branch /\ h \in RunHead /\ Parent(t) = h.closure /\ h.closure \in Closure
      /\ h.generation \in Nat /\ call[t].child \in Closure
  BY <1>2, FromHead, RunHeadFields DEF Parent, HasChild
<1>4. /\ next \in RunHead /\ next.generation = h.generation + 1 /\ next.parent = h.closure
      /\ next.closure = World[h.closure, call[t].outcome]
      /\ next.committed = IF Confirmed(t) THEN call[t].key ELSE None
  <2> DEFINE child == call[t].child
             key == IF Confirmed(t) THEN call[t].key ELSE None
  <2>1. next = [generation |-> h.generation + 1, closure |-> child, parent |-> Parent(t),
                committed |-> key]
    BY DEF NextHead
  <2>2. key \in Key \cup {None} /\ child = World[h.closure, call[t].outcome]
    BY <1>2 DEF HasChild
  <2>3. child \in Closure /\ Parent(t) = h.closure /\ h.closure \in Closure
        /\ h.generation + 1 \in Nat
    BY <1>3
  <2> HIDE DEF next, child, key, h
  <2>4. /\ next \in RunHead /\ next.generation = h.generation + 1 /\ next.parent = h.closure
        /\ next.closure = child /\ next.committed = key
    BY <2>1, <2>2, <2>3 DEF RunHead
  <2> QED
    BY <2>2, <2>4 DEF key
<1>5. /\ c \in Call /\ c.pc = (IF Confirmed(t) THEN "commit" ELSE "provenance")
      /\ c.op = call[t].op /\ c.branch = b0 /\ c.key = call[t].key /\ c.head = h
      /\ c.outcome = call[t].outcome /\ c.child = call[t].child
  BY <1>2, NewPC DEF PC
<1> HIDE DEF c, next
<1>6. /\ heads' \in [Branch -> Seq(RunHead)] /\ Grown
      /\ \A b \in Branch \ {b0} : heads'[b] = heads[b]
      /\ n \in Nat /\ DOMAIN heads[b0] = 1 .. n /\ DOMAIN heads'[b0] = 1 .. n + 1
      /\ Len(heads'[b0]) = n + 1 /\ heads'[b0][n + 1] = next
      /\ \A i \in 1 .. n : heads'[b0][i] = heads[b0][i]
  BY <1>1, <1>2, <1>3, <1>4, OneMoreHead
\* Generations number the heads, so the compared one is the head that was read.
<1>7. n > 0 /\ heads[b0][n] = h
  <2>1. PICK i \in 1 .. n : heads[b0][i] = h
    BY <1>2, <1>6 DEF AtHead, Listed
  <2>2. heads[b0][n].generation + i = heads[b0][i].generation + n
    BY <1>3, <1>6, <2>1 DEF Inv, HeadsInv, Numbered
  <2>3. heads[b0][n].generation = heads[b0][i].generation
    BY <1>1, <2>1 DEF Current
  <2> QED
    BY <1>3, <1>6, <2>1, <2>2, <2>3
<1>8. call'[t] = c
  BY <1>1, <1>2, GotoCall
<1>9. Confirmed(t) => call[t].key \in Key /\ call[t].outcome \in Outcome
  BY <1>2, CarrierAssumption DEF Confirmed, HasOutcome
<1>10. Knows(t)'
  <2>1. Origin(t)'
    BY <1>2, <1>3, <1>5, <1>6, <1>8, <1>9
       DEF Origin, AtHead, HasKey, Listed, Grown, Resolving
  <2>2. Stage(t)'
    BY <1>5, <1>8 DEF Stage
  <2>3. NextHead(t)' = next
    BY <1>5, <1>8 DEF next, NextHead, Confirmed, Parent
  <2>4. n + 1 \in DOMAIN heads'[b0] /\ heads'[b0][n + 1] = next
    BY <1>6
  <2>5. Listed(call[t].branch, NextHead(t))'
    <3>1. call'[t].branch = b0
      BY <1>5, <1>8
    <3> QED
      BY <2>3, <2>4, <3>1 DEF Listed
  <2>6. Confirmed(t) => \E i \in DOMAIN heads'[b0] : heads'[b0][i].committed = call[t].key
    BY <1>4, <2>4
  <2>7. Turn(t)'
    BY <1>3, <1>5, <1>8, <2>5, <2>6 DEF Turn
  <2> QED
    BY <2>1, <2>2, <2>7 DEF Knows
<1>11. CallsKnow' /\ Exclusion'
  <2>1. Gentle(t) /\ Asking(t)
    BY <1>1 DEF Gentle, Asking
  <2> QED
    BY <1>1, <1>5, <1>6, <1>10, <2>1, AllKnow DEF Holding
<1>12. TypeOK'
  BY <1>1, <1>2, <1>5, <1>6, GotoCall DEF TypeOK
<1>13. h = call[t].head /\ b0 = call[t].branch /\ Len(heads[b0]) = n
  OBVIOUS
<1> HIDE DEF b0, h, n
<1>14. HeadsInv'
  <2> USE DEF Inv, HeadsInv
  <2>1. Numbered'
    <3> SUFFICES ASSUME NEW b \in Branch, NEW i \in DOMAIN heads'[b], NEW j \in DOMAIN heads'[b]
                 PROVE  heads'[b][j].generation + i = heads'[b][i].generation + j
      BY DEF Numbered
    <3>1. CASE b # b0
      BY <1>6, <3>1 DEF Numbered
    <3>2. CASE b = b0
      <4>1. \A k \in 1 .. n : /\ heads'[b0][k] = heads[b0][k]
                              /\ heads[b0][k].generation \in Nat
                              /\ heads[b0][k].generation + n = h.generation + k
        <5>1. \A k \in 1 .. n : heads[b0][k] \in RunHead
          BY <1>2, <1>3, <1>6, HeadsType
        <5> QED
          BY <1>3, <1>6, <1>7, <5>1, RunHeadFields DEF Numbered
      <4>2. heads'[b0][n + 1].generation = h.generation + 1
        BY <1>4, <1>6
      <4>3. \A k \in 1 .. n + 1 : /\ heads'[b0][k].generation \in Nat
                                  /\ heads'[b0][k].generation + n = h.generation + k
        <5> SUFFICES ASSUME NEW k \in 1 .. n + 1
                     PROVE  /\ heads'[b0][k].generation \in Nat
                            /\ heads'[b0][k].generation + n = h.generation + k
          OBVIOUS
        <5>1. CASE k = n + 1
          <6>1. n \in Nat /\ h.generation \in Nat
            BY <1>3, <1>6
          <6> QED
            BY <4>2, <5>1, <6>1
        <5>2. CASE k \in 1 .. n
          BY <4>1, <5>2
        <5>3. n \in Nat
          BY <1>6
        <5> QED
          BY <5>1, <5>2, <5>3
      <4>4. i \in 1 .. n + 1 /\ j \in 1 .. n + 1 /\ n \in Nat /\ h.generation \in Nat
        BY <1>3, <1>6, <3>2
      <4>5. /\ heads'[b0][i].generation \in Nat /\ heads'[b0][j].generation \in Nat
            /\ heads'[b0][i].generation + n = h.generation + i
            /\ heads'[b0][j].generation + n = h.generation + j
        BY <4>3, <4>4
      <4> QED
        BY <3>2, <4>4, <4>5
    <3> QED
      BY <3>1, <3>2
  <2>2. HeadsAreTurns' /\ CommitsAsked'
    <3>1. ASSUME NEW b \in Branch, NEW i \in DOMAIN heads'[b], i + 1 \in DOMAIN heads'[b]
          PROVE  /\ heads'[b][i + 1].generation = heads'[b][i].generation + 1
                 /\ heads'[b][i + 1].parent = heads'[b][i].closure
                 /\ \E outcome \in Outcome \cup {None} :
                      heads'[b][i + 1].closure = World[heads'[b][i].closure, outcome]
                 /\ heads'[b][i + 1].committed # None =>
                      heads'[b][i + 1].committed = Pending[heads'[b][i].closure]
      <4>1. CASE b # b0 \/ i < n
        <5>1. /\ i \in DOMAIN heads[b] /\ i + 1 \in DOMAIN heads[b]
              /\ heads'[b][i] = heads[b][i] /\ heads'[b][i + 1] = heads[b][i + 1]
          BY <1>6, <3>1, <4>1
        <5> QED
          BY <5>1 DEF HeadsAreTurns, CommitsAsked
      <4>2. CASE b = b0 /\ ~(i < n)
        <5>1. heads'[b][i] = h /\ heads'[b][i + 1] = next
          BY <1>6, <1>7, <3>1, <4>2
        <5>2. Confirmed(t) => call[t].key = Pending[h.closure]
          BY <1>2, <1>13 DEF AtHead
        <5> QED
          BY <1>2, <1>4, <5>1, <5>2
      <4> QED
        BY <4>1, <4>2
    <3>2. HeadsAreTurns'
      BY <3>1 DEF HeadsAreTurns
    <3>3. CommitsAsked'
      BY <3>1 DEF CommitsAsked
    <3> QED
      BY <3>2, <3>3
  <2>3. ListedHeadsPublished'
    <3> SUFFICES ASSUME NEW b \in Branch, run[b] # Unlisted,
                        NEW x \in {run[b].current} \cup run[b].history
                 PROVE  x \in {heads'[b][i] : i \in DOMAIN heads'[b]}
      BY <1>1 DEF ListedHeadsPublished
    <3>1. PICK i \in DOMAIN heads[b] : x = heads[b][i]
      BY DEF ListedHeadsPublished
    <3> QED
      BY <1>6, <3>1 DEF Grown
  <2> QED
    BY <2>1, <2>2, <2>3
<1>15. EffectsInv'
  <2> USE DEF Inv, EffectsInv
  <2>1. RecordsAsked' /\ CommittedEffectsPublished'
    <3>1. RecordsAsked'
      BY <1>1, <1>6 DEF RecordsAsked, Grown
    <3>2. CommittedEffectsPublished'
      BY <1>1, <1>6 DEF CommittedEffectsPublished, Grown
    <3> QED
      BY <3>1, <3>2
  <2>2. CommittedKept'
    <3> SUFFICES ASSUME Kept', NEW b \in Branch, NEW k \in Key, NEW i \in DOMAIN heads'[b],
                        i + 1 \in DOMAIN heads'[b], heads'[b][i + 1].committed = k
                 PROVE  /\ effects'[b][k].state \in WithOutcome
                        /\ heads'[b][i + 1].closure =
                             World[heads'[b][i].closure, effects'[b][k].outcome]
      BY DEF CommittedKept
    <3>1. Kept
      BY DEF Kept, Reresolvable
    <3>2. CASE b # b0 \/ i < n
      <4>1. /\ i \in DOMAIN heads[b] /\ i + 1 \in DOMAIN heads[b]
            /\ heads'[b][i] = heads[b][i] /\ heads'[b][i + 1] = heads[b][i + 1]
        BY <1>6, <3>2
      <4> QED
        BY <1>1, <3>1, <4>1 DEF CommittedKept
    <3>3. CASE b = b0 /\ ~(i < n)
      <4>1. heads'[b][i] = h /\ heads'[b][i + 1] = next
        BY <1>6, <1>7, <3>3
      <4>2. next.committed = k /\ k # None
        BY <4>1, CarrierAssumption
      <4>3. Confirmed(t)
        BY <1>4, <4>2
      <4>4. k = call[t].key
        BY <1>4, <4>2, <4>3
      <4> QED
        BY <1>1, <1>2, <1>4, <1>13, <3>1, <3>3, <4>1, <4>2, <4>3, <4>4 DEF HasOutcome, Record
    <3> QED
      BY <3>2, <3>3
  <2>3. Finalizable'
    <3> SUFFICES ASSUME NEW b \in Branch, NEW k \in Key, Len(heads'[b]) > 1,
                        Current(b)'.committed = k, AskedAtMostOnce(b, k)'
                 PROVE  effects[b][k].state \in Submitted
      BY <1>1 DEF Finalizable, Current
    <3>1. AskedAtMostOnce(b, k)
      BY <1>6, MoreHeads
    <3>2. CASE b # b0
      BY <1>6, <3>1, <3>2 DEF Finalizable, Current
    <3>3. CASE b = b0
      <4>1. Confirmed(t) /\ k = call[t].key
        <5>1. Current(b)' = next
          BY <1>6, <3>3 DEF Current
        <5>2. next.committed = k /\ k # None
          BY <5>1, CarrierAssumption
        <5>3. Confirmed(t)
          BY <1>4, <5>2
        <5> QED
          BY <1>4, <5>2, <5>3
      <4> QED
        BY <1>1, <1>2, <1>13, <3>1, <3>3, <4>1 DEF Knows, Turn, Record
    <3> QED
      BY <3>2, <3>3
  <2>4. Invocations'
    BY <1>1 DEF Invocations, Reresolvable
  <2> QED
    BY <2>1, <2>2, <2>3, <2>4
<1> QED
  BY <1>11, <1>12, <1>14, <1>15 DEF Inv

\* The run record takes heads of the branch, and the call is over.
LEMMA ListStep ==
  ASSUME Inv, NEW t \in Task, Goto(t, Idle), call[t].branch \in Branch,
         UNCHANGED <<class, policies, heads, effects, invocations>>,
         NEW current \in {heads[call[t].branch][i] : i \in DOMAIN heads[call[t].branch]},
         NEW history \in SUBSET {heads[call[t].branch][i] : i \in DOMAIN heads[call[t].branch]},
         run' = [run EXCEPT ![call[t].branch] = [current |-> current, history |-> history]]
  PROVE  Inv'
<1> DEFINE b0 == call[t].branch
           entry == [current |-> current, history |-> history]
<1>1. TypeOK /\ HeadsInv /\ EffectsInv /\ b0 \in Branch
  BY DEF Inv
<1>2. entry \in [current : RunHead \cup {None}, history : SUBSET RunHead]
  BY <1>1, HeadsType
<1>3. /\ run' \in [Branch -> [current : RunHead \cup {None}, history : SUBSET RunHead]]
      /\ \A b \in Branch : run'[b] = IF b = b0 THEN entry ELSE run[b]
  <2>1. run' = [run EXCEPT ![b0] = entry]
    OBVIOUS
  <2> HIDE DEF entry, b0
  <2> QED
    BY <1>1, <1>2, <2>1 DEF TypeOK
<1>4. CallsKnow' /\ Exclusion'
  <2>1. Grown /\ Gentle(t) /\ Asking(t)
    BY DEF Grown, Gentle, Asking
  <2> QED
    BY <1>1, <2>1, IdleKnows, AllKnow
<1>5. TypeOK'
  BY <1>1, <1>3, GotoCall, IdleCall DEF TypeOK
<1>6. HeadsInv'
  <2>1. HeadsAreTurns' /\ Numbered' /\ CommitsAsked'
    BY <1>1, SameTurns
  <2>2. ListedHeadsPublished'
    <3> SUFFICES ASSUME NEW b \in Branch, run'[b] # Unlisted
                 PROVE  {run'[b].current} \cup run'[b].history
                          \subseteq {heads[b][i] : i \in DOMAIN heads[b]}
      BY DEF ListedHeadsPublished
    <3>1. CASE b = b0
      BY <1>3, <3>1
    <3>2. CASE b # b0
      BY <1>1, <1>3, <3>2 DEF HeadsInv, ListedHeadsPublished
    <3> QED
      BY <3>1, <3>2
  <2> QED
    BY <2>1, <2>2 DEF HeadsInv
<1>7. EffectsInv'
  <2>1. Invocations'
    BY <1>1 DEF EffectsInv, Invocations, Reresolvable
  <2> QED
    BY <1>1, <2>1, SameRecords
<1> QED
  BY <1>4, <1>5, <1>6, <1>7 DEF Inv

LEMMA RecordProvenanceStep ==
  ASSUME Inv, NEW t \in Task, RecordProvenance(t), UNCHANGED <<class, policies>>
  PROVE  Inv'
<1> DEFINE b0 == call[t].branch
<1>1. /\ call[t].pc = "provenance" /\ Goto(t, Idle)
      /\ UNCHANGED <<heads, effects, invocations>>
      /\ run' = IF run[b0] = Unlisted THEN run
                ELSE [run EXCEPT ![b0] =
                        [current |-> NextHead(t),
                         history |-> @.history \cup {@.current, call[t].head}]]
  BY DEF RecordProvenance
<1>2. /\ TypeOK /\ AtHead(t) /\ b0 \in Branch
      /\ Listed(b0, call[t].head) /\ Listed(b0, NextHead(t))
  BY <1>1 DEF Inv, CallsKnow, Knows, Origin, Turn, AtHead
<1>3. CASE run[b0] = Unlisted
  BY <1>1, <1>3, AbandonStep DEF Abandon
<1>4. CASE run[b0] # Unlisted
  <2> DEFINE Published == {heads[b0][i] : i \in DOMAIN heads[b0]}
             current == NextHead(t)
             history == run[b0].history \cup {run[b0].current, call[t].head}
  <2>1. current \in Published
    BY <1>2 DEF Listed
  <2>2. history \in SUBSET Published
    BY <1>2, <1>4 DEF Inv, HeadsInv, ListedHeadsPublished, Listed
  <2>3. run' = [run EXCEPT ![b0] = [current |-> current, history |-> history]]
    BY <1>1, <1>2, <1>4 DEF TypeOK
  <2> HIDE DEF current, history
  <2> QED
    BY <1>1, <1>2, <2>1, <2>2, <2>3, ListStep
<1> QED
  BY <1>3, <1>4

LEMMA ForkListStep ==
  ASSUME Inv, NEW t \in Task, ForkList(t), UNCHANGED <<class, policies>>
  PROVE  Inv'
<1>1. /\ call[t].pc = "list" /\ Goto(t, Idle) /\ UNCHANGED <<heads, effects, invocations>>
      /\ run' = [run EXCEPT ![call[t].branch] = [current |-> call[t].head, history |-> {}]]
  BY DEF ForkList
<1>2. call[t].branch \in Branch /\ Listed(call[t].branch, call[t].head)
  BY <1>1 DEF Inv, CallsKnow, Knows, Origin
<1>3. /\ call[t].head \in {heads[call[t].branch][i] : i \in DOMAIN heads[call[t].branch]}
      /\ {} \in SUBSET {heads[call[t].branch][i] : i \in DOMAIN heads[call[t].branch]}
  BY <1>2 DEF Listed
<1> QED
  BY <1>1, <1>2, <1>3, ListStep

\* A fork is made from a head of the run.
LEMMA ForkableHead ==
  ASSUME TypeOK, NEW source \in Branch, Begun(source), NEW h \in Forkable(source)
  PROVE  h \in RunHead
<1>1. Current(source) \in RunHead
  <2>1. heads[source] \in Seq(RunHead) /\ heads[source] # <<>>
    BY HeadsType DEF Begun
  <2> QED
    BY <2>1 DEF Current
<1>2. ASSUME NEW x \in Stored(source) PROVE x \in RunHead
  <2>1. run[source].current \in RunHead \cup {None} /\ run[source].history \subseteq RunHead
    BY DEF TypeOK
  <2>2. CASE x \in run[source].history
    BY <2>1, <2>2
  <2>3. CASE /\ run[source].current # None
             /\ x = [run[source].current EXCEPT !.parent = None, !.committed = None]
    BY <2>1, <2>3 DEF RunHead
  <2> QED
    BY <1>2, <2>2, <2>3 DEF Stored
<1> QED
  BY <1>1, <1>2 DEF Forkable

LEMMA ForkHeadStep ==
  ASSUME Inv, NEW t \in Task, NEW source \in Branch, NEW target \in Branch,
         ForkHead(t, source, target), UNCHANGED <<class, policies>>
  PROVE  Inv'
<1>1. PICK h \in ForkHeads(source, target) :
        /\ heads' = [heads EXCEPT ![target] = IF Begun(target) THEN @ ELSE <<h>>]
        /\ Goto(t, [Idle EXCEPT !.op = "fork", !.branch = target, !.head = h, !.pc = "list"])
  BY DEF ForkHead
<1> DEFINE c == [Idle EXCEPT !.op = "fork", !.branch = target, !.head = h, !.pc = "list"]
<1>2. /\ Begun(source) /\ run[target] = Unlisted /\ UNCHANGED <<run, effects, invocations>>
      /\ Goto(t, c) /\ TypeOK
  BY <1>1 DEF ForkHead, Inv
<1>3. /\ h \in RunHead
      /\ Begun(target) => \E i \in DOMAIN heads[target] : heads[target][i] = h
  <2>1. CASE Begun(target)
    <3>1. h = Current(target) /\ heads[target] \in Seq(RunHead) /\ heads[target] # <<>>
      BY <1>2, <2>1, HeadsType DEF ForkHeads, Begun
    <3>2. Len(heads[target]) \in DOMAIN heads[target] /\ h = heads[target][Len(heads[target])]
      BY <3>1 DEF Current
    <3> QED
      BY <1>2, <3>2, HeadsType
  <2>2. CASE ~Begun(target)
    BY <1>2, <2>2, ForkableHead DEF ForkHeads
  <2> QED
    BY <2>1, <2>2
<1>4. /\ c \in Call /\ c.op = "fork" /\ c.branch = target /\ c.head = h /\ c.pc = "list"
  BY <1>3 DEF Idle, Call, PC
<1> HIDE DEF c
<1>5. /\ \A b \in Branch : heads'[b] = IF b = target /\ heads[b] = <<>> THEN <<h>> ELSE heads[b]
      /\ heads' \in [Branch -> Seq(RunHead)]
  <2>1. heads \in [Branch -> Seq(RunHead)] /\ <<h>> \in Seq(RunHead)
    BY <1>2, <1>3 DEF TypeOK
  <2> QED
    BY <1>1, <2>1 DEF Begun
<1>6. \A b \in Branch : heads'[b] = heads[b] \/ (b = target /\ heads[b] = <<>> /\ heads'[b] = <<h>>)
  BY <1>5
<1>7. Grown
  BY <1>6 DEF Grown
<1>8. call'[t] = c
  BY <1>2, GotoCall
<1>9. Knows(t)'
  <2>1. \E i \in DOMAIN heads'[target] : heads'[target][i] = h
    <3>1. CASE heads[target] = <<>>
      <4>1. 1 \in DOMAIN heads'[target] /\ heads'[target][1] = h
        BY <1>5, <3>1
      <4> QED
        BY <4>1
    <3>2. CASE heads[target] # <<>>
      BY <1>3, <1>5, <3>2 DEF Begun
    <3> QED
      BY <3>1, <3>2
  <2> QED
    BY <1>4, <1>8, <2>1 DEF Knows, Origin, Listed, Stage, Turn, Resolving
<1>10. CallsKnow' /\ Exclusion'
  <2>1. Gentle(t) /\ Asking(t)
    BY <1>2 DEF Gentle, Asking
  <2> QED
    BY <1>2, <1>4, <1>7, <1>9, <2>1, AllKnow DEF Holding
<1>11. TypeOK'
  BY <1>2, <1>4, <1>5, GotoCall DEF TypeOK
<1>12. ASSUME NEW b \in Branch, heads'[b] # heads[b]
       PROVE  DOMAIN heads'[b] = {1} /\ Len(heads'[b]) = 1 /\ b = target
  <2>1. DOMAIN <<h>> = 1 .. 1 /\ Len(<<h>>) = 1
    OBVIOUS
  <2>2. heads'[b] = <<h>> /\ b = target
    BY <1>6, <1>12
  <2> QED
    BY <2>1, <2>2
<1>13. HeadsInv'
  <2> USE DEF Inv, HeadsInv
  <2>1. HeadsAreTurns'
    <3> SUFFICES ASSUME NEW b \in Branch, NEW i \in DOMAIN heads'[b], i + 1 \in DOMAIN heads'[b]
                 PROVE  /\ heads'[b][i + 1].generation = heads'[b][i].generation + 1
                        /\ heads'[b][i + 1].parent = heads'[b][i].closure
                        /\ \E outcome \in Outcome \cup {None} :
                             heads'[b][i + 1].closure = World[heads'[b][i].closure, outcome]
      BY DEF HeadsAreTurns
    <3>1. heads'[b] = heads[b]
      BY <1>12
    <3>2. i \in DOMAIN heads[b] /\ i + 1 \in DOMAIN heads[b]
      BY <3>1
    <3>3. /\ heads[b][i + 1].generation = heads[b][i].generation + 1
          /\ heads[b][i + 1].parent = heads[b][i].closure
          /\ \E outcome \in Outcome \cup {None} :
               heads[b][i + 1].closure = World[heads[b][i].closure, outcome]
      BY <3>2 DEF HeadsAreTurns
    <3> QED
      BY <3>1, <3>3
  <2>2. Numbered'
    BY <1>12 DEF Numbered
  <2>3. CommitsAsked'
    BY <1>12 DEF CommitsAsked
  <2>4. ListedHeadsPublished'
    BY <1>2, <1>12 DEF ListedHeadsPublished
  <2> QED
    BY <2>1, <2>2, <2>3, <2>4
<1>14. EffectsInv'
  <2> USE DEF Inv, EffectsInv
  <2>1. RecordsAsked'
    BY <1>2, <1>7 DEF RecordsAsked, Grown
  <2>2. CommittedEffectsPublished'
    BY <1>2, <1>7 DEF CommittedEffectsPublished, Grown
  <2>3. CommittedKept'
    <3> SUFFICES ASSUME Kept', NEW b \in Branch, NEW k \in Key, NEW i \in DOMAIN heads'[b],
                        i + 1 \in DOMAIN heads'[b], heads'[b][i + 1].committed = k
                 PROVE  /\ effects'[b][k].state \in WithOutcome
                        /\ heads'[b][i + 1].closure =
                             World[heads'[b][i].closure, effects'[b][k].outcome]
      BY DEF CommittedKept
    <3>1. heads'[b] = heads[b] /\ effects'[b][k] = effects[b][k] /\ Kept
      BY <1>2, <1>12 DEF Kept, Reresolvable
    <3>2. i \in DOMAIN heads[b] /\ i + 1 \in DOMAIN heads[b] /\ heads[b][i + 1].committed = k
      BY <3>1
    <3>3. /\ effects[b][k].state \in WithOutcome
          /\ heads[b][i + 1].closure = World[heads[b][i].closure, effects[b][k].outcome]
      BY <3>1, <3>2 DEF CommittedKept
    <3> QED
      BY <3>1, <3>3
  <2>4. Finalizable'
    BY <1>2, <1>12 DEF Finalizable, Current, AskedAtMostOnce
  <2>5. Invocations'
    BY <1>2 DEF Invocations, Reresolvable
  <2> QED
    BY <2>1, <2>2, <2>3, <2>4, <2>5
<1> QED
  BY <1>10, <1>11, <1>13, <1>14 DEF Inv

-------------------------------------------------------------------------------
\* The steps of one call.
LEMMA BeginInv ==
  ASSUME Inv, NEW t \in Task, Begin(t), UNCHANGED <<class, policies>>
  PROVE  Inv'
BY AdvanceStep, RecoverEffectStep, ReconcileStep, ForkHeadStep DEF Begin

LEMMA ContinueInv ==
  ASSUME Inv, NEW t \in Task, Continue(t), UNCHANGED <<class, policies>>
  PROVE  Inv'
<1>1. CASE RejectRecord(t) \/ Blocked(t) \/ RejectTurn(t) \/ RejectSubmitted(t)
           \/ LoseSwap(t) \/ RejectCommitted(t)
  BY <1>1, AbandonStep
     DEF RejectRecord, Blocked, RejectTurn, RejectSubmitted, LoseSwap, RejectCommitted
<1>2. CASE LockKey(t) \/ Reuse(t) \/ ReuseElsewhere(t) \/ NothingToReuse(t) \/ DropOutcome(t)
  BY <1>2, LockKeyStep, ReuseStep, ReuseElsewhereStep, NothingToReuseStep, DropOutcomeStep
<1>3. CASE Preflight(t) \/ Invoke(t) \/ Drive(t) \/ Persist(t) \/ DriverFailed(t) \/ Recover(t)
  BY <1>3, PreflightStep, InvokeStep, DriveStep, PersistStep, DriverFailedStep, RecoverStep
<1>4. CASE SubmitTurn(t) \/ MarkSubmitted(t) \/ SwapHead(t) \/ MarkClosureCommitted(t)
           \/ RecordProvenance(t) \/ ForkList(t)
  BY <1>4, SubmitTurnStep, MarkSubmittedStep, SwapHeadStep, MarkClosureCommittedStep,
     RecordProvenanceStep, ForkListStep
<1> QED
  BY <1>1, <1>2, <1>3, <1>4 DEF Continue

\* The invariant is inductive.
LEMMA NextInv == Inv /\ [Next]_vars => Inv'
<1> SUFFICES ASSUME Inv, [Next]_vars PROVE Inv'
  OBVIOUS
<1>1. CASE UNCHANGED vars
  <2>1. TypeOK' /\ Exclusion'
    BY <1>1 DEF vars, Inv, TypeOK, Exclusion, Sole
  <2>2. CallsKnow'
    BY <1>1, SameKnowledge DEF vars, Inv, CallsKnow
  <2>3. HeadsInv'
    BY <1>1, SameHeads DEF vars, Inv
  <2>4. EffectsInv'
    <3>1. Invocations'
      BY <1>1 DEF vars, Inv, EffectsInv, Invocations, Reresolvable
    <3> QED
      BY <1>1, <3>1, SameRecords DEF vars, Inv
  <2> QED
    BY <2>1, <2>2, <2>3, <2>4 DEF Inv
<1>2. ASSUME NEW t \in Task, Begin(t) \/ Continue(t) \/ Fail(t), UNCHANGED <<class, policies>>
      PROVE  Inv'
  BY <1>2, BeginInv, ContinueInv, AbandonStep DEF Fail
<1> QED
  BY <1>1, <1>2 DEF Next

LEMMA InitInv == Init => Inv
<1> SUFFICES ASSUME Init PROVE Inv
  OBVIOUS
<1>1. /\ FirstHead \in RunHead /\ FirstHead.committed = None
      /\ <<FirstHead>> \in Seq(RunHead) /\ <<>> \in Seq(RunHead)
  BY CarrierAssumption DEF FirstHead, RunHead
<1>2. /\ heads = [b \in Branch |-> IF b = Main THEN <<FirstHead>> ELSE <<>>]
      /\ effects = [b \in Branch |-> [k \in Key |-> NoRecord]]
      /\ call = [t \in Task |-> Idle]
      /\ invocations = [b \in Branch |-> [k \in Key |-> 0]]
      /\ run = [b \in Branch |-> IF b = Main THEN [current |-> FirstHead, history |-> {}]
                                 ELSE Unlisted]
  BY DEF Init
<1>3. NoRecord.state = "none" /\ NoRecord.state \notin WithOutcome
  BY DEF NoRecord, WithOutcome
<1>4. TypeOK
  <2>1. class \in RecoveryClass /\ policies \subseteq SUBSET Outcome
    BY CarrierAssumption DEF Init
  <2>2. heads \in [Branch -> Seq(RunHead)]
    BY <1>1, <1>2
  <2>3. run \in [Branch -> [current : RunHead \cup {None}, history : SUBSET RunHead]]
    BY <1>1, <1>2 DEF Unlisted
  <2>4. call \in [Task -> Call] /\ invocations \in [Branch -> [Key -> 0 .. 2]]
    BY <1>2, IdleCall
  <2>5. /\ effects \in [Branch -> [Key -> EffectRecord \cup {NoRecord}]]
        /\ \A b \in Branch, k \in Key :
             effects[b][k].state \in WithOutcome => effects[b][k].outcome # None
    BY <1>2, <1>3
  <2> QED
    BY <2>1, <2>2, <2>3, <2>4, <2>5 DEF TypeOK
<1>5. CallsKnow /\ Exclusion
  <2>1. \A t \in Task : call[t] = Idle
    BY <1>2
  <2>2. CallsKnow
    BY <2>1 DEF CallsKnow, Knows, Origin, Stage, Turn, Idle, Resolving
  <2>3. Exclusion
    BY <2>1 DEF Exclusion, Idle, Holding
  <2> QED
    BY <2>2, <2>3
<1>6. ASSUME NEW b \in Branch
      PROVE  /\ DOMAIN heads[b] \subseteq {1} /\ (Len(heads[b]) > 1) = FALSE
             /\ b = Main => 1 \in DOMAIN heads[b] /\ heads[b][1] = FirstHead
  <2>1. /\ DOMAIN <<FirstHead>> = 1 .. 1 /\ Len(<<FirstHead>>) = 1
        /\ <<FirstHead>>[1] = FirstHead /\ DOMAIN <<>> = {} /\ Len(<<>>) = 0
    OBVIOUS
  <2>2. heads[b] = IF b = Main THEN <<FirstHead>> ELSE <<>>
    BY <1>2
  <2> QED
    BY <2>1, <2>2
<1>7. ASSUME NEW b \in Branch, NEW i \in DOMAIN heads[b], i + 1 \in DOMAIN heads[b]
      PROVE  FALSE
  <2>1. i \in {1} /\ i + 1 \in {1}
    BY <1>6, <1>7
  <2> QED
    BY <2>1
<1>8. HeadsInv
  <2>2. HeadsAreTurns
    BY <1>7 DEF HeadsAreTurns
  <2>3. CommitsAsked
    BY <1>7 DEF CommitsAsked
  <2>4. Numbered
    BY <1>6 DEF Numbered
  <2>5. ListedHeadsPublished
    BY <1>2, <1>6 DEF ListedHeadsPublished
  <2> QED
    BY <2>2, <2>3, <2>4, <2>5 DEF HeadsInv
<1>9. EffectsInv
  <2>1. \A b \in Branch, k \in Key : effects[b][k].state = "none" /\ invocations[b][k] = 0
    BY <1>2, <1>3
  <2>2. RecordsAsked /\ CommittedEffectsPublished /\ Invocations
    BY <2>1 DEF RecordsAsked, CommittedEffectsPublished, Invocations
  <2>3. CommittedKept
    BY <1>7 DEF CommittedKept
  <2>4. Finalizable
    BY <1>6 DEF Finalizable
  <2> QED
    BY <2>2, <2>3, <2>4 DEF EffectsInv
<1> QED
  BY <1>4, <1>5, <1>8, <1>9 DEF Inv

\* At every moment, what a task knows of its head, of the record whose lock it holds
\* and of the turn it has published is so.
THEOREM Invariance == Spec => []Inv
BY InitInv, NextInv, PTL DEF Spec

\* The variables have their types, and an effect with an outcome state has an outcome.
THEOREM TypeCorrect == Spec => []TypeOK
<1>1. Inv => TypeOK
  BY DEF Inv
<1> QED
  BY Invariance, <1>1, PTL

\* A branch is a chain of turns, although the swap compares generations only.
THEOREM Turns == Spec => []HeadsAreTurns
<1>1. Inv => HeadsAreTurns
  BY DEF Inv, HeadsInv
<1> QED
  BY Invariance, <1>1, PTL

\* A driver whose effect may not be repeated is asked at most once for it on a branch.
THEOREM Invocation == Spec => []InvokedOnce
<1>1. Inv => InvokedOnce
  BY DEF Inv, EffectsInv, Invocations, InvokedOnce
<1> QED
  BY Invariance, <1>1, PTL

\* The outcome that a published closure was made from stays in the journal.
THEOREM OutcomeRetention == Spec => []CommittedOutcomesRetained
<1>1. Inv => CommittedOutcomesRetained
  BY DEF Inv, EffectsInv, CommittedKept, Kept, CommittedOutcomesRetained
<1> QED
  BY Invariance, <1>1, PTL

\* closure_committed is only said of an effect that a published turn has applied.
THEOREM Commitment == Spec => []CommittedEffectsPublished
<1>1. Inv => CommittedEffectsPublished
  BY DEF Inv, EffectsInv
<1> QED
  BY Invariance, <1>1, PTL

\* The run record lists heads of the branch only, whatever was interrupted.
THEOREM Listing == Spec => []ListedHeadsPublished
<1>1. Inv => ListedHeadsPublished
  BY DEF Inv, HeadsInv
<1> QED
  BY Invariance, <1>1, PTL

\* Of the effect that one head asks for, no two heads do.
LEMMA AskedOnceOnly ==
  ASSUME TypeOK, NEW b \in Branch, NEW k, AskedOnce(b, k)
  PROVE  AskedAtMostOnce(b, k)
<1> DEFINE S == {i \in DOMAIN heads[b] : Pending[heads[b][i].closure] = k}
<1>1. IsFiniteSet(S)
  <2>1. IsFiniteSet(DOMAIN heads[b]) /\ S \subseteq DOMAIN heads[b]
    BY HeadsType, FS_Interval
  <2> QED
    BY <2>1, FS_Subset
<1>2. \E x : S = {x}
  BY <1>1, FS_Singleton DEF AskedOnce
<1> QED
  BY <1>2 DEF AskedAtMostOnce

\* Whenever the host dies, recover finds the effect of a branch's head committed, or
\* submitted under the closure before the head.
THEOREM Finalization == Spec => []HeadEffectsFinalizable
<1>1. Inv => HeadEffectsFinalizable
  <2> SUFFICES ASSUME Inv, NEW b \in Branch, NEW k \in Key, Len(heads[b]) > 1,
                      AskedOnce(b, k), Current(b).committed = k
               PROVE  /\ effects[b][k].state \in Submitted
                      /\ effects[b][k].parent = Current(b).parent
    BY DEF HeadEffectsFinalizable, Submitted
  <2> USE DEF Inv, EffectsInv, HeadsInv
  <2>1. AskedAtMostOnce(b, k)
    BY AskedOnceOnly
  <2>2. effects[b][k].state \in Submitted
    BY <2>1 DEF Finalizable
  <2>3. PICK i \in DOMAIN heads[b] :
          heads[b][i].closure = effects[b][k].parent /\ Pending[effects[b][k].parent] = k
    BY <2>2 DEF RecordsAsked, Submitted
  <2> DEFINE m == Len(heads[b]) - 1
  <2>4. m \in DOMAIN heads[b] /\ m + 1 \in DOMAIN heads[b] /\ m + 1 = Len(heads[b])
    BY HeadsType
  <2>5. heads[b][m + 1].committed = k
    BY <2>4 DEF Current
  <2>6. /\ Pending[heads[b][m].closure] = k
        /\ Current(b).parent = heads[b][m].closure
    <3>1. k # None
      BY CarrierAssumption
    <3> HIDE DEF m
    <3> QED
      BY <2>4, <2>5, <3>1 DEF CommitsAsked, HeadsAreTurns, Current
  <2>7. i = m
    BY <2>1, <2>3, <2>4, <2>6 DEF AskedAtMostOnce
  <2> QED
    BY <2>2, <2>3, <2>6, <2>7
<1> QED
  BY Invariance, <1>1, PTL

-------------------------------------------------------------------------------
\* No mark moves a parked effect on.
LEMMA ParkedUnmarked ==
  ASSUME NEW t \in Task, Record(t).state \in Parked, NEW state \in Submitted
  PROVE  ~MayMark(t, state)
<1>1. Order[Record(t).state] = 6 /\ Order[state] \in {4, 5}
  BY DEF Order, Parked, Submitted, WithOutcome
<1> QED
  BY <1>1 DEF MayMark

\* Which steps rewrite a record, and which one a parked record.
LEMMA ParkedStep ==
  ASSUME Inv, NEW t \in Task, Begin(t) \/ Continue(t) \/ Fail(t),
         NEW b \in Branch, NEW k \in Key, effects[b][k].state \in Parked
  PROVE  \/ effects'[b][k] = effects[b][k]
         \/ call[t].op = "recover" /\ call[t].branch = b /\ call[t].key = k
<1> SUFFICES ASSUME effects' # effects
             PROVE  \/ effects'[b][k] = effects[b][k]
                    \/ call[t].op = "recover" /\ call[t].branch = b /\ call[t].key = k
  OBVIOUS
<1> USE DEF Parked
<1>1. TypeOK /\ Knows(t)
  BY DEF Inv, CallsKnow
<1>2. ASSUME NEW r, Put(t, r), call[t].branch = b /\ call[t].key = k => r = effects[b][k]
      PROVE  effects'[b][k] = effects[b][k]
  BY <1>1, <1>2 DEF TypeOK, Put
<1>3. \/ LockKey(t) \/ ReuseElsewhere(t) \/ DropOutcome(t) \/ Preflight(t) \/ Invoke(t)
      \/ Persist(t) \/ DriverFailed(t) \/ Recover(t) \/ MarkSubmitted(t)
      \/ MarkClosureCommitted(t)
  BY DEF Begin, Continue, Fail, Advance, RecoverEffect, Reconcile, ForkHead, Abandon, Reuse,
         NothingToReuse, RejectRecord, Blocked, Drive, SubmitTurn, RejectTurn,
         RejectSubmitted, SwapHead, LoseSwap, RejectCommitted, RecordProvenance, ForkList
<1>4. CASE LockKey(t)
  BY <1>2, <1>4 DEF LockKey, Rebound, Record
<1>5. CASE ReuseElsewhere(t) \/ DropOutcome(t)
  BY <1>2, <1>5 DEF ReuseElsewhere, DropOutcome, Unresolved, WithOutcome, Record
<1>6. CASE Preflight(t) \/ Invoke(t)
  BY <1>1, <1>2, <1>6 DEF Preflight, Invoke, Knows, Stage, Unresolved, Record
<1>7. CASE Persist(t) \/ DriverFailed(t)
  BY <1>1, <1>2, <1>7 DEF Persist, DriverFailed, Resolved, PutState, Knows, Stage, Record
<1>8. CASE Recover(t)
  BY <1>1, <1>2, <1>8 DEF Recover, Resolved, PutState, Knows, Origin, Stage, Record
<1>9. CASE MarkSubmitted(t) \/ MarkClosureCommitted(t)
  BY <1>2, <1>9, ParkedUnmarked
     DEF MarkSubmitted, MarkClosureCommitted, PutState, Submitted, Record
<1> QED
  BY <1>3, <1>4, <1>5, <1>6, <1>7, <1>8, <1>9

\* A failed or parked effect stays as it is until an operator has it recovered.
THEOREM ParkedStay == Spec => ParkedNeedsOperator
<1>1. Inv /\ [Next]_vars =>
        [\A b \in Branch, k \in Key : effects[b][k].state \in Parked =>
           \/ effects'[b][k] = effects[b][k]
           \/ \E t \in Task : call[t].op = "recover" /\ call[t].branch = b
                              /\ call[t].key = k]_vars
  <2>1. Inv /\ Next =>
          \A b \in Branch, k \in Key : effects[b][k].state \in Parked =>
            \/ effects'[b][k] = effects[b][k]
            \/ \E t \in Task : call[t].op = "recover" /\ call[t].branch = b /\ call[t].key = k
    BY ParkedStep DEF Next
  <2> QED
    BY <2>1
<1> QED
  BY Invariance, <1>1, PTL DEF Spec, ParkedNeedsOperator

\* Only Drive counts, and only where no branch holds the outcome.
LEMMA CountedStep ==
  ASSUME Inv, NEW t \in Task, Begin(t) \/ Continue(t) \/ Fail(t),
         NEW b \in Branch, NEW c \in Branch, NEW k \in Key,
         effects[c][k].state \in WithOutcome
  PROVE  invocations'[b][k] = invocations[b][k]
<1> SUFFICES ASSUME invocations' # invocations
             PROVE  invocations'[b][k] = invocations[b][k]
  OBVIOUS
<1>1. Drive(t)
  BY DEF Begin, Continue, Fail, Advance, RecoverEffect, Reconcile, ForkHead, Abandon,
         LockKey, Reuse, ReuseElsewhere, NothingToReuse, DropOutcome, RejectRecord,
         Preflight, Blocked, Invoke, Persist, DriverFailed, Recover, SubmitTurn, RejectTurn,
         MarkSubmitted, RejectSubmitted, SwapHead, LoseSwap, MarkClosureCommitted,
         RejectCommitted, RecordProvenance, ForkList
<1>2. invocations \in [Branch -> [Key -> 0 .. 2]] /\ Counted(t)
  BY <1>1 DEF Inv, TypeOK, Drive
<1>3. CASE Reresolvable
  <2>1. invocations[b][k] = 0
    BY <1>3 DEF Inv, EffectsInv, Invocations
  <2> QED
    BY <1>2, <1>3, <2>1 DEF Counted
<1>4. CASE ~Reresolvable
  <2>1. call[t].key # k
    BY <1>1, <1>4 DEF Drive, Inv, CallsKnow, Knows, Stage
  <2> QED
    BY <1>2, <2>1 DEF Counted
<1> QED
  BY <1>3, <1>4

\* A driver whose effect may not be repeated is not asked for an outcome the run has.
THEOREM SharedOutcomes == Spec => OutcomesShared
<1>1. Inv /\ [Next]_vars =>
        [\A b, c \in Branch, k \in Key :
           effects[c][k].state \in WithOutcome => invocations'[b][k] = invocations[b][k]]_vars
  <2>1. Inv /\ Next =>
          \A b, c \in Branch, k \in Key :
            effects[c][k].state \in WithOutcome => invocations'[b][k] = invocations[b][k]
    BY CountedStep DEF Next
  <2> QED
    BY <2>1
<1> QED
  BY Invariance, <1>1, PTL DEF Spec, OutcomesShared
===============================================================================
