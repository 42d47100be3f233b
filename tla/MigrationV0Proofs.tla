--------------------------- MODULE MigrationV0Proofs ---------------------------
(***************************************************************************)
(* Proofs about the export and the import of a run, for any number of turns, *)
(* bundles and outcomes.  They rest on one fact about every step, Keeps: a    *)
(* record of a turn of the source's head stays submitted or committed; where  *)
(* no outcome is dropped, a record that has an outcome has it for good; and   *)
(* where the driver is asked once, a record stays one that was asked for.  An *)
(* export reads the head before the records, so each of them is read when it  *)
(* is settled; an import compares before it writes, and the receiver does not *)
(* go on beside it.                                                          *)
(***************************************************************************)
EXTENDS MigrationV0, SequenceTheorems, TLAPS

State == {"none", "observed", "running", "parked"} \cup WithOutcome
Closure == {h \in Seq(Outcome) : Len(h) <= MaxTurns}
Record ==
  {r \in [state : State, parent : Closure \cup {None}, outcome : Outcome \cup {None}] :
     r.state \in WithOutcome => r.outcome \in Outcome}

Has(r, outcome) == r.state \in WithOutcome /\ r.outcome = outcome

\* The driver was asked for the effect of a record.
Asked(r) == r.state \notin {"none", "observed"}

\* The record of a turn that was made with an outcome and is published.
Settles(r, outcome) ==
  r.state \in {"submitted", "closure_committed"} /\ (Kept => r.outcome = outcome)

TypeOK ==
  /\ class \in Classes /\ policies \subseteq SUBSET Outcome
  /\ run = [s \in Store |-> run[s]]
  /\ head \in [Store -> Closure \cup {None}] /\ head["source"] \in Closure
  /\ effects \in [Store -> [Effect -> Record]]
  /\ turns \in [Store -> SUBSET Outcome]

\* The turns of the source's head are settled.
Settled ==
  \A k \in 1 .. Len(head["source"]) :
    k \in Effect /\ Settles(effects["source"][k], head["source"][k])

\* What the source's advances have taken is what the record has, where it is kept.
Taken ==
  Kept => \A outcome \in turns["source"] :
    Waits("source") \in Effect /\ Has(Found("source"), outcome)

\* The turns of the head that an export has read are settled, and were where it read them.
Exporting ==
  export # None =>
    /\ export = [run |-> export.run, head |-> export.head, effects |-> export.effects]
    /\ DOMAIN export.effects \subseteq Effect
    /\ \A k \in DOMAIN export.effects : export.effects[k] \in Record
    /\ export.effects = [k \in DOMAIN export.effects |-> export.effects[k]]
    /\ export.head = None => DOMAIN export.effects = {}
    /\ export.head # None =>
         /\ export.head \in Closure /\ Len(export.head) <= Len(head["source"])
         /\ \A k \in 1 .. Len(export.head) :
              /\ k \in Effect /\ Settles(effects["source"][k], export.head[k])
              /\ k \in DOMAIN export.effects => Settles(export.effects[k], export.head[k])

Bundled ==
  \A b \in bundles :
    /\ b.head \in Closure /\ b.head # None
    /\ b.effects \in [Effect -> Record]
    /\ \A k \in 1 .. Len(b.head) : Settles(b.effects[k], b.head[k])

Fits(b) == Recoverable(b) /\ Agrees(b) /\ EffectsAgree(b)

\* The receiver has of a bundle nothing but what the bundle says, until it goes on.
Imported ==
  /\ import # None =>
       /\ import = [bundle |-> import.bundle, left |-> import.left]
       /\ import.bundle \in bundles /\ import.left \subseteq Carried(import.bundle)
       /\ Fits(import.bundle)
       /\ \A k \in Carried(import.bundle) \ import.left :
            effects["receiver"][k] = import.bundle.effects[k]
       /\ cut = None
  /\ import = None /\ cut # None => Fits(cut)

\* What an import that returned has brought stays.
Completed ==
  completed # None =>
    \A k \in Effect :
      /\ Kept /\ completed.effects[k].state \in WithOutcome
           => effects["receiver"][k].state \in WithOutcome
      /\ ~Reresolvable /\ Asked(completed.effects[k]) => Asked(effects["receiver"][k])

Inv == TypeOK /\ Settled /\ Taken /\ Exporting /\ Bundled /\ Imported /\ Completed

\* What a step keeps of the record of effect k in s.
KeepsRecord(s, k) ==
  /\ Kept => \A outcome : Has(effects[s][k], outcome) => Has(effects'[s][k], outcome)
  /\ ~Reresolvable /\ Asked(effects[s][k]) => Asked(effects'[s][k])
  /\ s = "source" /\ k \in 1 .. Len(head["source"])
       => \A outcome : Settles(effects[s][k], outcome) => Settles(effects'[s][k], outcome)

Keeps == \A s \in Store : \A k \in Effect : KeepsRecord(s, k)

\* A step of the run that goes on leaves the other store alone, and the receiver's
\* excludes an import.
Local(s) ==
  /\ UNCHANGED <<class, policies, application, bundles, export, import, completed>>
  /\ s = "receiver" => import = None /\ cut' = None
  /\ s = "source" => cut' = cut
  /\ \A t \in Store \ {s} : run'[t] = run[t] /\ head'[t] = head[t] /\ effects'[t] = effects[t]
  /\ Len(head["source"]) <= Len(head'["source"])

-------------------------------------------------------------------------------
LEMMA SameKept ==
  ASSUME UNCHANGED <<class, policies>>
  PROVE  (Kept <=> Kept') /\ (Reresolvable <=> Reresolvable')
BY DEF Kept, Reresolvable

\* A record that is put keeps of the one it replaces what matters.
LEMMA PutKeeps ==
  ASSUME TypeOK, NEW s \in Store, NEW k \in Effect, NEW r \in Record, Put(s, k, r),
         UNCHANGED <<class, policies>>,
         Kept => \A outcome : Has(effects[s][k], outcome) => Has(r, outcome),
         ~Reresolvable /\ Asked(effects[s][k]) => Asked(r),
         s = "source" /\ k \in 1 .. Len(head["source"])
           => \A outcome : Settles(effects[s][k], outcome) => Settles(r, outcome)
  PROVE  /\ effects' \in [Store -> [Effect -> Record]]
         /\ Keeps
         /\ effects'[s][k] = r
         /\ \A j \in Effect \ {k} : effects'[s][j] = effects[s][j]
         /\ \A t \in Store \ {s} : effects'[t] = effects[t]
<1>1. effects \in [Store -> [Effect -> Record]]
  BY DEF TypeOK
<1>2. effects' = [effects EXCEPT ![s] = [effects[s] EXCEPT ![k] = r]]
  BY DEF Put
<1>3. [effects[s] EXCEPT ![k] = r] \in [Effect -> Record]
  BY <1>1
<1>4. effects' \in [Store -> [Effect -> Record]]
  BY <1>1, <1>2, <1>3
<1>5. /\ effects'[s][k] = r
      /\ \A j \in Effect \ {k} : effects'[s][j] = effects[s][j]
      /\ \A t \in Store \ {s} : effects'[t] = effects[t]
  BY <1>1, <1>2
<1>6. Keeps
  <2>1. SUFFICES ASSUME NEW t \in Store, NEW j \in Effect PROVE KeepsRecord(t, j)
    BY DEF Keeps
  <2>2. CASE t = s /\ j = k
    BY <2>2, <1>5 DEF KeepsRecord
  <2>3. CASE ~(t = s /\ j = k)
    BY <2>3, <1>5 DEF KeepsRecord
  <2> QED BY <2>2, <2>3
<1> QED BY <1>4, <1>5, <1>6

\* The run and the head of a store stand while a record of it is put.
LEMMA PutStep ==
  ASSUME TypeOK, Settled, Taken, NEW s \in Store, Runs(s), NEW k \in Effect, NEW r \in Record,
         Put(s, k, r), GoesOn(s), UNCHANGED <<run, head, turns>>,
         Kept => \A outcome : Has(effects[s][k], outcome) => Has(r, outcome),
         ~Reresolvable /\ Asked(effects[s][k]) => Asked(r),
         s = "source" /\ k \in 1 .. Len(head["source"])
           => \A outcome : Settles(effects[s][k], outcome) => Settles(r, outcome)
  PROVE  TypeOK' /\ Settled' /\ Taken' /\ Keeps /\ Local(s)
<1>1. /\ UNCHANGED <<class, policies, application, bundles, export, import, completed>>
      /\ s = "receiver" => import = None /\ cut' = None
      /\ s = "source" => cut' = cut
  BY DEF GoesOn, Runs
<1>2. /\ effects' \in [Store -> [Effect -> Record]] /\ Keeps
      /\ effects'[s][k] = r
      /\ \A j \in Effect \ {k} : effects'[s][j] = effects[s][j]
      /\ \A t \in Store \ {s} : effects'[t] = effects[t]
  BY <1>1, PutKeeps
<1>3. (Kept <=> Kept') /\ (Reresolvable <=> Reresolvable')
  BY <1>1, SameKept
<1>4. head' = head /\ run' = run /\ turns' = turns /\ "source" \in Store
      /\ head["source"] \in Closure
  BY DEF Store, TypeOK
<1>5. TypeOK'
  BY <1>1, <1>2, <1>4 DEF TypeOK
<1>6. Settled'
  <2>1. ASSUME NEW j \in 1 .. Len(head["source"])
        PROVE  j \in Effect /\ Settles(effects'["source"][j], head["source"][j])
    <3>1. j \in Effect /\ Settles(effects["source"][j], head["source"][j])
      BY DEF Settled
    <3> QED BY <1>2, <1>4, <3>1 DEF Keeps, KeepsRecord
  <2> QED BY <1>3, <1>4, <2>1 DEF Settled, Settles
<1>7. Taken'
  <2>1. SUFFICES ASSUME Kept, NEW outcome \in turns["source"]
                 PROVE  Waits("source") \in Effect /\ Has(effects'["source"][Waits("source")], outcome)
    BY <1>3, <1>4 DEF Taken, Waits, Found
  <2>2. Waits("source") \in Effect /\ Has(effects["source"][Waits("source")], outcome)
    BY <2>1 DEF Taken, Found
  <2> QED BY <1>2, <1>4, <2>1, <2>2 DEF Keeps, KeepsRecord
<1>8. Len(head["source"]) <= Len(head'["source"])
  BY <1>4 DEF Closure
<1> QED BY <1>1, <1>2, <1>4, <1>5, <1>6, <1>7, <1>8 DEF Local

\* What an advance writes of the effect that its closure waits for.
LEMMA WriteStep ==
  ASSUME TypeOK, Settled, Taken, NEW s \in Store, Resolving(s), NEW state \in State \ {"none"},
         NEW outcome \in Outcome \cup {None}, Writes(s, state, outcome),
         state \in WithOutcome => outcome \in Outcome,
         Kept /\ Found(s).state \in WithOutcome => state \in WithOutcome /\ outcome = Found(s).outcome,
         ~Reresolvable /\ Asked(Found(s)) => state # "observed"
  PROVE  TypeOK' /\ Settled' /\ Taken' /\ Keeps /\ Local(s)
<1> DEFINE k == Waits(s)
           r == [state |-> state, parent |-> head[s], outcome |-> outcome]
<1>1. k \in Effect /\ head[s] \in Closure \cup {None}
  BY DEF Resolving, TypeOK
<1>2. r \in Record
  BY <1>1 DEF Record
<1>3. /\ Runs(s) /\ Put(s, k, r) /\ GoesOn(s) /\ UNCHANGED <<run, head, turns>>
      /\ r.state = state /\ r.outcome = outcome
  BY DEF Resolving, Writes
<1>4. ~(s = "source" /\ k \in 1 .. Len(head["source"]))
  BY DEF TypeOK, Waits, Closure
<1>5. Kept => \A o : Has(effects[s][k], o) => Has(r, o)
  BY <1>3 DEF Has, Found
<1>6. ~Reresolvable /\ Asked(effects[s][k]) => Asked(r)
  BY <1>3 DEF Asked, Found
<1> HIDE DEF k, r
<1> QED BY <1>1, <1>2, <1>3, <1>4, <1>5, <1>6, PutStep

\* Steps that write no record and do not move the head.
LEMMA StandStep ==
  ASSUME TypeOK, Settled, Taken, NEW s \in Store, Runs(s), GoesOn(s), UNCHANGED <<head, effects>>,
         run' = [t \in Store |-> run'[t]], \A t \in Store \ {s} : run'[t] = run[t],
         turns' \in [Store -> SUBSET Outcome],
         \A outcome \in turns'["source"] :
           outcome \notin turns["source"] => Waits("source") \in Effect /\ Has(Found("source"), outcome)
  PROVE  TypeOK' /\ Settled' /\ Taken' /\ Keeps /\ Local(s)
<1>1. /\ UNCHANGED <<class, policies, application, bundles, export, import, completed>>
      /\ s = "receiver" => import = None /\ cut' = None
      /\ s = "source" => cut' = cut
  BY DEF GoesOn, Runs
<1>2. (Kept <=> Kept') /\ (Reresolvable <=> Reresolvable')
  BY <1>1, SameKept
<1>3. TypeOK'
  BY <1>1 DEF TypeOK
<1>4. Settled'
  BY <1>2 DEF Settled, Settles
<1>5. Taken'
  BY <1>2 DEF Taken, Waits, Found
<1>6. Keeps
  BY DEF Keeps, KeepsRecord
<1>7. Len(head["source"]) <= Len(head'["source"])
  BY DEF TypeOK, Closure
<1> QED BY <1>1, <1>3, <1>4, <1>5, <1>6, <1>7 DEF Local

\* The run goes on: records are kept, the head grows by an outcome its record has.
LEMMA AdvanceStep ==
  ASSUME TypeOK, Settled, Taken, NEW s \in Store, Advance(s)
  PROVE  TypeOK' /\ Settled' /\ Taken' /\ Keeps /\ Local(s)
<1>1. /\ effects \in [Store -> [Effect -> Record]] /\ head \in [Store -> Closure \cup {None}]
      /\ head["source"] \in Closure /\ policies \subseteq SUBSET Outcome
      /\ run = [t \in Store |-> run[t]] /\ turns \in [Store -> SUBSET Outcome]
      /\ "source" \in Store
  BY DEF TypeOK, Store
<1>2. ASSUME Resolving(s)
      PROVE  Found(s) \in Record /\ Found(s).outcome \in Outcome \cup {None}
             /\ (Found(s).state \in WithOutcome => Found(s).outcome \in Outcome)
  BY <1>1, <1>2 DEF Resolving, Found, Record
<1>3. CASE Rebind(s)
  <2>1. CASE Found(s).state \in WithOutcome /\ Writes(s, "resolved", Found(s).outcome)
    <3>1. Resolving(s) /\ "resolved" \in State \ {"none"}
      BY <1>3 DEF Rebind, State, WithOutcome
    <3> QED BY <1>2, <2>1, <3>1, WriteStep DEF WithOutcome
  <2>2. CASE Found(s).state \in {"observed", "running"} /\ Writes(s, Found(s).state, None)
    <3>1. Resolving(s) /\ Found(s).state \in State \ {"none"} /\ Found(s).state \notin WithOutcome
      BY <1>3, <2>2 DEF Rebind, State, WithOutcome
    <3>2. ~Reresolvable /\ Asked(Found(s)) => Found(s).state # "observed"
      BY DEF Asked
    <3> QED BY <2>2, <3>1, <3>2, WriteStep
  <2> QED BY <1>3, <2>1, <2>2 DEF Rebind
<1>4. CASE Observe(s)
  <2>1. /\ Resolving(s) /\ "observed" \in State \ {"none"} /\ "observed" \notin WithOutcome
        /\ Found(s).state \notin WithOutcome /\ ~Asked(Found(s)) /\ Writes(s, "observed", None)
    BY <1>4 DEF Observe, State, WithOutcome, Asked
  <2> QED BY <2>1, WriteStep
<1>5. CASE DropOutcome(s)
  <2>1. /\ Resolving(s) /\ "observed" \in State \ {"none"} /\ "observed" \notin WithOutcome
        /\ Found(s).state \in WithOutcome /\ Reresolvable /\ Writes(s, "observed", None)
    BY <1>5 DEF DropOutcome, Bound, State, WithOutcome
  <2>2. PICK accepts \in policies : Found(s).outcome \notin accepts
    BY <1>5 DEF DropOutcome
  <2>3. ~Kept
    BY <1>2, <2>1, <2>2 DEF Kept
  <2> QED BY <2>1, <2>3, WriteStep
<1>6. CASE Ask(s)
  <2>1. /\ Resolving(s) /\ "running" \in State \ {"none"} /\ "running" \notin WithOutcome
        /\ Found(s).state \notin WithOutcome /\ Writes(s, "running", None)
    BY <1>6 DEF Ask, Bound, State, WithOutcome
  <2> QED BY <2>1, WriteStep
<1>7. CASE Resolve(s)
  <2>1. PICK outcome \in UNION policies : Writes(s, "resolved", outcome)
    BY <1>7 DEF Resolve
  <2>2. outcome \in Outcome
    BY <1>1
  <2>3. /\ Resolving(s) /\ "resolved" \in State \ {"none"} /\ Found(s).state \notin WithOutcome
    BY <1>7 DEF Resolve, Bound, State, WithOutcome
  <2> QED BY <2>1, <2>2, <2>3, WriteStep
<1>8. CASE Park(s)
  <2>1. /\ Resolving(s) /\ "parked" \in State \ {"none"} /\ "parked" \notin WithOutcome
        /\ Found(s).state \notin WithOutcome /\ Writes(s, "parked", None)
    BY <1>8 DEF Park, Bound, State, WithOutcome
  <2> QED BY <2>1, WriteStep
<1>9. CASE MarkSubmitted(s)
  <2>1. /\ Resolving(s) /\ "submitted" \in State \ {"none"}
        /\ Found(s).state \in WithOutcome /\ Writes(s, "submitted", Found(s).outcome)
    BY <1>9 DEF MarkSubmitted, Bound, State, WithOutcome
  <2> QED BY <1>2, <2>1, WriteStep DEF WithOutcome
<1>10. CASE Commit(s)
  <2> DEFINE k == Len(head[s])
             r == [effects[s][k] EXCEPT !.state = "closure_committed"]
  <2>1. /\ Runs(s) /\ head[s] \in Closure /\ head[s] # <<>> /\ effects[s][k].state = "submitted"
        /\ GoesOn(s) /\ UNCHANGED <<run, head, turns>>
    BY <1>1, <1>10 DEF Commit, Runs
  <2>2. k \in Nat /\ k # 0
    BY <2>1 DEF Closure
  <2>3. k \in Effect
    BY <2>1, <2>2, MigrationAssumption DEF Closure, Effect
  <2>4. effects[s][k] \in Record
    BY <1>1, <2>3
  <2>5. r.state = "closure_committed" /\ r.outcome = effects[s][k].outcome /\ r.parent = effects[s][k].parent
    BY <2>4 DEF Record
  <2>6. r \in Record
    <3>1. r \in [state : State, parent : Closure \cup {None}, outcome : Outcome \cup {None}]
      BY <2>4 DEF Record, State, WithOutcome
    <3> QED BY <2>1, <2>4, <2>5, <3>1 DEF Record, WithOutcome
  <2>7. Put(s, k, r)
    BY <1>10 DEF Commit
  <2> HIDE DEF k, r
  <2>8. Kept => \A outcome : Has(effects[s][k], outcome) => Has(r, outcome)
    BY <2>5 DEF Has, WithOutcome
  <2>9. Asked(r)
    BY <2>5 DEF Asked
  <2>10. \A outcome : Settles(effects[s][k], outcome) => Settles(r, outcome)
    BY <2>5 DEF Settles
  <2> QED BY <2>1, <2>3, <2>6, <2>7, <2>8, <2>9, <2>10, PutStep
<1>11. CASE Take(s)
  <2>1. /\ Resolving(s) /\ Found(s).state \in WithOutcome /\ Found(s).outcome \in UNION policies
        /\ turns' = [turns EXCEPT ![s] = turns[s] \cup {Found(s).outcome}]
        /\ GoesOn(s) /\ UNCHANGED <<run, head, effects>>
    BY <1>11 DEF Take, Bound
  <2>2. Runs(s) /\ Waits(s) \in Effect
    BY <2>1 DEF Resolving
  <2>3. turns' \in [Store -> SUBSET Outcome]
    BY <1>1, <2>1
  <2>4. ASSUME NEW outcome \in turns'["source"], outcome \notin turns["source"]
        PROVE  Waits("source") \in Effect /\ Has(Found("source"), outcome)
    BY <1>1, <2>1, <2>2, <2>4 DEF Has
  <2> QED BY <1>1, <2>1, <2>2, <2>3, <2>4, StandStep
<1>12. CASE \E outcome \in Outcome : Abandon(s, outcome)
  <2>1. PICK outcome \in Outcome : Abandon(s, outcome)
    BY <1>12
  <2>2. /\ Runs(s) /\ turns' = [turns EXCEPT ![s] = turns[s] \ {outcome}]
        /\ GoesOn(s) /\ UNCHANGED <<run, head, effects>>
    BY <2>1 DEF Abandon
  <2>3. turns' \in [Store -> SUBSET Outcome] /\ turns'["source"] \subseteq turns["source"]
    BY <1>1, <2>2
  <2> QED BY <1>1, <2>2, <2>3, StandStep
<1>13. CASE RecordHead(s)
  <2>1. /\ Runs(s) /\ GoesOn(s) /\ UNCHANGED <<head, effects, turns>>
        /\ run' = [t \in Store |-> run'[t]] /\ \A t \in Store \ {s} : run'[t] = run[t]
    BY <1>1, <1>13 DEF RecordHead
  <2> QED BY <1>1, <2>1, StandStep
<1>14. CASE \E outcome \in Outcome : Publish(s, outcome)
  <2>1. PICK outcome \in Outcome : Publish(s, outcome)
    BY <1>14
  <2>2. /\ Resolving(s) /\ outcome \in turns[s] /\ Found(s).state = "submitted"
        /\ head' = [head EXCEPT ![s] = Append(head[s], outcome)]
        /\ turns' = [turns EXCEPT ![s] = {}]
        /\ GoesOn(s) /\ UNCHANGED <<run, effects>>
    BY <2>1 DEF Publish, Bound
  <2>3. head[s] \in Closure /\ Waits(s) \in Effect /\ Runs(s)
    BY <1>1, <2>2 DEF Resolving, Runs
  <2>4. Append(head[s], outcome) \in Closure
    BY <2>3, MigrationAssumption DEF Closure, Waits, Effect
  <2>5. /\ UNCHANGED <<class, policies, application, bundles, export, import, completed>>
        /\ s = "receiver" => import = None /\ cut' = None
        /\ s = "source" => cut' = cut
    BY <2>2, <2>3 DEF GoesOn, Runs
  <2>6. (Kept <=> Kept') /\ (Reresolvable <=> Reresolvable')
    BY <2>5, SameKept
  <2>7. turns' \in [Store -> SUBSET Outcome] /\ turns'["source"] \subseteq turns["source"]
        /\ (s = "source" => turns'["source"] = {})
    BY <1>1, <2>2
  <2>8. head' \in [Store -> Closure \cup {None}] /\ head'["source"] \in Closure
    BY <1>1, <2>2, <2>4
  <2>9. TypeOK'
    BY <1>1, <2>2, <2>5, <2>7, <2>8 DEF TypeOK
  <2>10. Settled'
    <3>1. CASE s = "source"
      <4>1. head'[s] = Append(head[s], outcome)
        BY <1>1, <2>2
      <4>2. ASSUME NEW k \in 1 .. Len(head'[s])
            PROVE  k \in Effect /\ Settles(effects[s][k], head'[s][k])
        <5>1. CASE k \in 1 .. Len(head[s])
          BY <5>1, <3>1, <4>1, <2>3 DEF Settled, Closure
        <5>2. CASE k = Len(head[s]) + 1
          <6>1. k = Waits(s) /\ head'[s][k] = outcome
            BY <5>2, <4>1, <2>3 DEF Waits, Closure
          <6>2. Kept => Found(s).outcome = outcome
            BY <3>1, <2>2 DEF Taken, Has
          <6> QED BY <6>1, <6>2, <2>2, <2>3 DEF Settles, Found
        <5> QED BY <4>1, <5>1, <5>2, <2>3 DEF Closure
      <4> QED BY <3>1, <4>2, <2>2, <2>6 DEF Settled, Settles
    <3>2. CASE s # "source"
      <4>1. head'["source"] = head["source"]
        BY <3>2, <1>1, <2>2
      <4> QED BY <4>1, <2>2, <2>6 DEF Settled, Settles
    <3> QED BY <3>1, <3>2
  <2>11. Taken'
    <3>1. CASE s = "source"
      BY <3>1, <2>7 DEF Taken
    <3>2. CASE s # "source"
      <4>1. head'["source"] = head["source"]
        BY <3>2, <1>1, <2>2
      <4> QED BY <4>1, <2>2, <2>6, <2>7 DEF Taken, Waits, Found
    <3> QED BY <3>1, <3>2
  <2>12. Keeps
    BY <2>2, <2>6 DEF Keeps, KeepsRecord
  <2>13. Len(head["source"]) <= Len(head'["source"])
    <3>1. CASE s = "source"
      BY <3>1, <1>1, <2>2, <2>3 DEF Closure
    <3>2. CASE s # "source"
      BY <3>2, <1>1, <2>2 DEF Closure
    <3> QED BY <3>1, <3>2
  <2>14. Local(s)
    BY <1>1, <2>2, <2>5, <2>13 DEF Local
  <2> QED BY <2>9, <2>10, <2>11, <2>12, <2>14
<1> QED BY <1>3, <1>4, <1>5, <1>6, <1>7, <1>8, <1>9, <1>10, <1>11, <1>12, <1>13, <1>14 DEF Advance

-------------------------------------------------------------------------------
\* A step that changes no store.
LEMMA Quiet ==
  ASSUME Inv, UNCHANGED <<class, policies, application, run, head, effects, turns>>
  PROVE  /\ TypeOK' /\ Settled' /\ Taken' /\ Keeps
         /\ UNCHANGED <<import, cut, bundles>> => Imported'
<1>1. (Kept <=> Kept') /\ (Reresolvable <=> Reresolvable')
  BY SameKept
<1>2. TypeOK' /\ Settled' /\ Taken'
  BY <1>1 DEF Inv, TypeOK, Settled, Settles, Taken, Waits, Found
<1>3. Keeps
  BY DEF Keeps, KeepsRecord
<1>4. ASSUME UNCHANGED <<import, cut, bundles>> PROVE Imported'
  BY <1>4 DEF Inv, Imported, Fits, Recoverable, Agrees, EffectsAgree, Carried
<1> QED BY <1>2, <1>3, <1>4

LEMMA InitInv == Init => Inv
<1> SUFFICES ASSUME Init PROVE Inv
  OBVIOUS
<1>1. TypeOK
  <2>1. NoRecord \in Record
    BY DEF NoRecord, Record, State, WithOutcome
  <2>2. <<>> \in Closure
    BY MigrationAssumption DEF Closure
  <2>3. effects \in [Store -> [Effect -> Record]]
    BY <2>1 DEF Init
  <2>4. head \in [Store -> Closure \cup {None}] /\ head["source"] \in Closure
    BY <2>2 DEF Init, Store
  <2>5. policies \subseteq SUBSET Outcome
    BY MigrationAssumption DEF Init
  <2> QED BY <2>3, <2>4, <2>5 DEF Init, TypeOK
<1>2. Settled /\ Taken
  BY DEF Init, Settled, Taken, Store
<1> QED BY <1>1, <1>2 DEF Inv, Init, Exporting, Bundled, Imported, Completed

\* What is left of the invariant when the records are kept and nothing else moves.
LEMMA Rest ==
  ASSUME Inv, Keeps, UNCHANGED <<class, policies, export, bundles>>,
         Len(head["source"]) <= Len(head'["source"]), head'["source"] \in Closure
  PROVE  Exporting' /\ Bundled'
<1>1. (Kept <=> Kept') /\ (Reresolvable <=> Reresolvable')
  BY SameKept
<1>2. Exporting'
  <2>1. CASE export = None
    BY <2>1 DEF Exporting
  <2>2. CASE export # None
    <3>1. /\ export = [run |-> export.run, head |-> export.head, effects |-> export.effects]
          /\ DOMAIN export.effects \subseteq Effect
          /\ \A k \in DOMAIN export.effects : export.effects[k] \in Record
          /\ export.effects = [k \in DOMAIN export.effects |-> export.effects[k]]
          /\ export.head = None => DOMAIN export.effects = {}
      BY <2>2 DEF Inv, Exporting
    <3>2. ASSUME export.head # None
          PROVE  /\ export.head \in Closure /\ Len(export.head) <= Len(head'["source"])
                 /\ \A k \in 1 .. Len(export.head) :
                      /\ k \in Effect /\ Settles(effects'["source"][k], export.head[k])
                      /\ k \in DOMAIN export.effects => Settles(export.effects[k], export.head[k])
      <4>1. /\ export.head \in Closure /\ Len(export.head) <= Len(head["source"])
            /\ \A k \in 1 .. Len(export.head) :
                 /\ k \in Effect /\ Settles(effects["source"][k], export.head[k])
                 /\ k \in DOMAIN export.effects => Settles(export.effects[k], export.head[k])
        BY <2>2, <3>2 DEF Inv, Exporting
      <4>2. head["source"] \in Closure
        BY DEF Inv, TypeOK
      <4>3. ASSUME NEW k \in 1 .. Len(export.head) PROVE k \in 1 .. Len(head["source"])
        BY <4>1, <4>2 DEF Closure
      <4>4. \A k \in 1 .. Len(export.head) : Settles(effects'["source"][k], export.head[k])
        BY <4>1, <4>3 DEF Keeps, KeepsRecord, Store
      <4>5. Len(export.head) <= Len(head'["source"])
        BY <4>1, <4>2 DEF Closure
      <4> QED BY <4>1, <4>4, <4>5
    <3> QED BY <1>1, <3>1, <3>2 DEF Exporting, Settles
  <2> QED BY <2>1, <2>2
<1>3. Bundled'
  BY <1>1 DEF Inv, Bundled, Settles
<1> QED BY <1>2, <1>3

LEMMA CompletedStays ==
  ASSUME Inv, Keeps, UNCHANGED <<class, policies, completed>>
  PROVE  Completed'
<1>1. (Kept <=> Kept') /\ (Reresolvable <=> Reresolvable')
  BY SameKept
<1>2. ASSUME NEW k \in Effect
      PROVE  /\ Kept /\ effects["receiver"][k].state \in WithOutcome
                  => effects'["receiver"][k].state \in WithOutcome
             /\ ~Reresolvable /\ Asked(effects["receiver"][k]) => Asked(effects'["receiver"][k])
  BY DEF Keeps, KeepsRecord, Has, Store
<1> QED BY <1>1, <1>2 DEF Inv, Completed

\* A run that goes on disturbs no export, no bundle and no import.
LEMMA AdvanceInv ==
  ASSUME Inv, NEW s \in Store, Advance(s)
  PROVE  Inv' /\ Keeps
<1>1. TypeOK' /\ Settled' /\ Taken' /\ Keeps /\ Local(s)
  BY AdvanceStep DEF Inv
<1>2. head'["source"] \in Closure
  BY <1>1 DEF TypeOK
<1>3. Exporting' /\ Bundled' /\ Completed'
  BY <1>1, <1>2, Rest, CompletedStays DEF Local
<1>4. Imported'
  <2>1. CASE s = "receiver"
    BY <2>1, <1>1 DEF Local, Imported
  <2>2. CASE s = "source"
    <3>1. UNCHANGED <<class, application, bundles, import, cut, run["receiver"], head["receiver"],
                      effects["receiver"]>>
      BY <1>1, <2>2 DEF Local, Store
    <3> QED BY <3>1 DEF Inv, Imported, Fits, Recoverable, Agrees, EffectsAgree, Carried
  <2> QED BY <2>1, <2>2 DEF Store
<1> QED BY <1>1, <1>3, <1>4 DEF Inv

Export == ExportRun \/ ExportHead \/ ExportDone \/ \E k \in Effect : ExportEffect(k)

\* Each read of an export finds the turns of the head that it has read settled.
LEMMA ExportInv ==
  ASSUME Inv, Export
  PROVE  Inv' /\ Keeps
<1>1. UNCHANGED <<class, policies, application, run, head, effects, turns, import, completed, cut>>
  BY DEF Export, ExportRun, ExportHead, ExportDone, ExportEffect, ReadsEffect
<1>2. TypeOK' /\ Settled' /\ Taken' /\ Keeps /\ Completed'
  BY <1>1, Quiet, CompletedStays
<1>3. Kept <=> Kept'
  BY <1>1, SameKept
<1>4. bundles' = bundles => Bundled'
  BY <1>3 DEF Inv, Bundled, Settles
<1>5. bundles \subseteq bundles' => Imported'
  BY <1>1 DEF Inv, Imported, Fits, Recoverable, Agrees, EffectsAgree, Carried
<1>6. CASE ExportRun
  <2>1. export' = [run |-> run["source"], head |-> None, effects |-> <<>>] /\ bundles' = bundles
    BY <1>6 DEF ExportRun
  <2>2. Exporting'
    BY <2>1 DEF Exporting
  <2> QED BY <1>2, <1>5, <1>4, <2>1, <2>2 DEF Inv
<1>7. CASE ExportHead
  <2>1. /\ export # None /\ export.head = None /\ bundles' = bundles
        /\ export' = [export EXCEPT !.head = head["source"], !.run.current = head["source"]]
    BY <1>7 DEF ExportHead
  <2>2. /\ export = [run |-> export.run, head |-> export.head, effects |-> export.effects]
        /\ DOMAIN export.effects = {} /\ export.effects = [k \in DOMAIN export.effects |-> export.effects[k]]
    BY <2>1 DEF Inv, Exporting
  <2>3. /\ export'.head = head["source"] /\ export'.effects = export.effects
        /\ export' = [run |-> export'.run, head |-> export'.head, effects |-> export'.effects]
    BY <2>1, <2>2
  <2>4. head["source"] \in Closure /\ effects' = effects
    BY <1>1 DEF Inv, TypeOK
  <2>5. \A k \in 1 .. Len(head["source"]) : k \in Effect /\ Settles(effects["source"][k], head["source"][k])
    BY DEF Inv, Settled
  <2>6. Len(head["source"]) <= Len(head'["source"]) /\ head' = head
    BY <1>1, <2>4 DEF Closure
  <2>7. Exporting'
    BY <1>3, <2>2, <2>3, <2>4, <2>5, <2>6 DEF Exporting, Settles
  <2> QED BY <1>2, <1>5, <1>4, <2>1, <2>7 DEF Inv
<1>8. CASE ExportDone
  <2>1. /\ export # None /\ export.head # None /\ DOMAIN export.effects = Effect
        /\ bundles' = bundles \cup {export} /\ export' = None
    BY <1>8 DEF ExportDone
  <2>2. /\ export.head \in Closure /\ export.effects \in [Effect -> Record]
        /\ \A k \in 1 .. Len(export.head) : Settles(export.effects[k], export.head[k])
    BY <2>1 DEF Inv, Exporting
  <2>3. Bundled'
    BY <1>3, <2>1, <2>2 DEF Inv, Bundled, Settles
  <2>4. Exporting'
    BY <2>1 DEF Exporting
  <2> QED BY <1>2, <1>5, <2>1, <2>3, <2>4 DEF Inv
<1>9. ASSUME NEW k \in Effect, ExportEffect(k) PROVE Inv' /\ Keeps
  <2> DEFINE read == [j \in DOMAIN export.effects \cup {k} |->
                        IF j = k THEN effects["source"][k] ELSE export.effects[j]]
  <2>1. /\ export # None /\ export.head # None /\ bundles' = bundles
        /\ export' = [export EXCEPT !.effects = read]
    BY <1>9 DEF ExportEffect, ReadsEffect
  <2>2. /\ export = [run |-> export.run, head |-> export.head, effects |-> export.effects]
        /\ DOMAIN export.effects \subseteq Effect
        /\ \A j \in DOMAIN export.effects : export.effects[j] \in Record
        /\ export.head \in Closure /\ Len(export.head) <= Len(head["source"])
        /\ \A j \in 1 .. Len(export.head) :
             /\ j \in Effect /\ Settles(effects["source"][j], export.head[j])
             /\ j \in DOMAIN export.effects => Settles(export.effects[j], export.head[j])
    BY <2>1 DEF Inv, Exporting
  <2>3. effects["source"][k] \in Record
    BY DEF Inv, TypeOK, Store
  <2>4. /\ DOMAIN read \subseteq Effect /\ \A j \in DOMAIN read : read[j] \in Record
        /\ read = [j \in DOMAIN read |-> read[j]]
        /\ \A j \in 1 .. Len(export.head) : j \in DOMAIN read => Settles(read[j], export.head[j])
    BY <2>2, <2>3
  <2> HIDE DEF read
  <2>5. /\ export'.head = export.head /\ export'.effects = read
        /\ export' = [run |-> export'.run, head |-> export'.head, effects |-> export'.effects]
    BY <2>1, <2>2
  <2>6. Exporting'
    BY <1>1, <1>3, <2>1, <2>2, <2>4, <2>5 DEF Exporting, Settles
  <2> QED BY <1>2, <1>5, <1>4, <2>1, <2>6 DEF Inv
<1> QED BY <1>6, <1>7, <1>8, <1>9 DEF Export

-------------------------------------------------------------------------------
ImportStep ==
  \/ \E b \in bundles : Import(b)
  \/ WriteApplication \/ WriteHead \/ WriteRun \/ WriteEffect \/ ImportDone \/ CutImport

\* An import writes what the bundle says where the receiver has nothing.
LEMMA ImportInv ==
  ASSUME Inv, ImportStep
  PROVE  Inv' /\ Keeps
<1>1. UNCHANGED <<class, policies, turns, export, bundles>>
  BY DEF ImportStep, Import, WriteApplication, WriteHead, WriteRun, WriteEffect, ImportDone, CutImport
<1>2. (Kept <=> Kept') /\ (Reresolvable <=> Reresolvable')
  BY <1>1, SameKept
<1>3. head["source"] \in Closure /\ Len(head["source"]) <= Len(head["source"])
  BY DEF Inv, TypeOK, Closure
<1>4. CASE \E b \in bundles : Import(b)
  <2>1. PICK b \in bundles : Import(b)
    BY <1>4
  <2>2. /\ UNCHANGED <<application, run, head, effects, completed>> /\ cut' = None
        /\ import' = [bundle |-> b, left |-> Carried(b)] /\ Fits(b)
    BY <2>1 DEF Import, Importable, Fits
  <2>3. TypeOK' /\ Settled' /\ Taken' /\ Keeps
    BY <1>1, <2>2, Quiet
  <2>4. Imported'
    BY <1>1, <2>1, <2>2 DEF Import, Inv, Imported, Fits, Recoverable, Agrees, EffectsAgree, Carried
  <2> QED BY <1>1, <2>2, <2>3, <2>4, <1>2, <1>3, Rest, CompletedStays DEF Inv
<1>5. CASE WriteApplication
  <2>1. UNCHANGED <<run, head, effects, completed, cut, import>> /\ application \subseteq application'
    BY <1>5 DEF WriteApplication
  <2>2. TypeOK' /\ Settled' /\ Taken' /\ Keeps
    BY <1>1, <1>2, <2>1 DEF Inv, TypeOK, Settled, Settles, Taken, Waits, Found, Keeps, KeepsRecord
  <2>3. Imported'
    BY <1>1, <2>1 DEF Inv, Imported, Fits, Recoverable, Agrees, EffectsAgree, Carried
  <2> QED BY <1>1, <2>1, <2>2, <2>3, <1>2, <1>3, Rest, CompletedStays DEF Inv
<1>6. CASE WriteHead
  <2>1. /\ UNCHANGED <<application, run, effects, completed, cut, import>>
        /\ import # None /\ "receiver" \in application
        /\ head' = [head EXCEPT !["receiver"] = import.bundle.head]
    BY <1>6 DEF WriteHead, Importing
  <2>2. import.bundle \in bundles /\ import.bundle.head \in Closure
    BY <2>1 DEF Inv, Imported, Bundled
  <2>3. /\ head' \in [Store -> Closure \cup {None}] /\ head'["source"] = head["source"]
        /\ head'["receiver"] = import.bundle.head
    BY <2>1, <2>2 DEF Inv, TypeOK, Store
  <2>4. TypeOK' /\ Settled' /\ Taken' /\ Keeps
    BY <1>1, <1>2, <2>1, <2>3 DEF Inv, TypeOK, Settled, Settles, Taken, Waits, Found, Keeps, KeepsRecord
  <2>5. Imported'
    BY <1>1, <2>1, <2>3 DEF Inv, Imported, Fits, Recoverable, Agrees, EffectsAgree, Carried
  <2> QED BY <1>1, <2>1, <2>4, <2>5, <1>2, <1>3, Rest, CompletedStays DEF Inv
<1>7. CASE WriteRun
  <2>1. /\ UNCHANGED <<application, head, effects, completed, cut, import>>
        /\ import # None /\ head["receiver"] # None
        /\ run' = [run EXCEPT !["receiver"] = import.bundle.run]
    BY <1>7 DEF WriteRun, Importing
  <2>2. run' = [s \in Store |-> run'[s]] /\ run'["receiver"] = import.bundle.run
    BY <2>1 DEF Inv, TypeOK, Store
  <2>3. TypeOK' /\ Settled' /\ Taken' /\ Keeps
    BY <1>1, <1>2, <2>1, <2>2 DEF Inv, TypeOK, Settled, Settles, Taken, Waits, Found, Keeps, KeepsRecord
  <2>4. Imported'
    BY <1>1, <2>1, <2>2 DEF Inv, Imported, Fits, Recoverable, Agrees, EffectsAgree, Carried
  <2> QED BY <1>1, <2>1, <2>3, <2>4, <1>2, <1>3, Rest, CompletedStays DEF Inv
<1>8. CASE WriteEffect
  <2>1. PICK k \in import.left :
          /\ Put("receiver", k, import.bundle.effects[k])
          /\ import' = [import EXCEPT !.left = @ \ {k}]
    BY <1>8 DEF WriteEffect
  <2>2. UNCHANGED <<application, run, head, completed, cut>> /\ import # None
    BY <1>8 DEF WriteEffect, Importing
  <2>3. /\ import = [bundle |-> import.bundle, left |-> import.left]
        /\ import.bundle \in bundles /\ import.left \subseteq Carried(import.bundle)
        /\ Fits(import.bundle)
        /\ \A j \in Carried(import.bundle) \ import.left :
             effects["receiver"][j] = import.bundle.effects[j]
    BY <2>2 DEF Inv, Imported
  <2> DEFINE r == import.bundle.effects[k]
  <2>4. k \in Effect /\ r \in Record /\ r.state # "none"
    BY <2>1, <2>3 DEF Carried, Inv, Bundled
  <2>5. effects["receiver"][k] \in {NoRecord, r}
    BY <2>1, <2>3 DEF Fits, EffectsAgree
  <2> HIDE DEF r
  <2>6. /\ \A outcome : Has(effects["receiver"][k], outcome) => Has(r, outcome)
        /\ Asked(effects["receiver"][k]) => Asked(r)
    BY <2>5 DEF Has, Asked, NoRecord, WithOutcome
  <2>7. Put("receiver", k, r)
    BY <2>1 DEF r
  <2>8. /\ effects' \in [Store -> [Effect -> Record]] /\ Keeps
        /\ effects'["receiver"][k] = r
        /\ \A j \in Effect \ {k} : effects'["receiver"][j] = effects["receiver"][j]
    BY <1>1, <2>4, <2>6, <2>7, PutKeeps DEF Inv, Store
  <2>9. effects'["source"] = effects["source"]
    BY <1>1, <2>4, <2>6, <2>7, PutKeeps DEF Inv, Store
  <2>10. TypeOK' /\ Settled' /\ Taken'
    BY <1>1, <1>2, <2>2, <2>8, <2>9 DEF Inv, TypeOK, Settled, Settles, Taken, Waits, Found
  <2>11. /\ import' = [bundle |-> import'.bundle, left |-> import'.left]
         /\ import'.bundle = import.bundle /\ import'.left = import.left \ {k}
    BY <2>1, <2>3
  <2>12. \A j \in Carried(import.bundle) :
           effects'["receiver"][j] = IF j = k THEN import.bundle.effects[j] ELSE effects["receiver"][j]
    BY <2>8 DEF Carried, r
  <2>13. Fits(import.bundle)'
    BY <1>1, <2>2, <2>3, <2>11, <2>12 DEF Fits, Recoverable, Agrees, EffectsAgree, Carried
  <2>14. cut' = None
    BY <2>2 DEF Inv, Imported
  <2> QED BY <1>1, <2>2, <2>3, <2>8, <2>10, <2>11, <2>12, <2>13, <2>14, <1>2, <1>3, Rest, CompletedStays
          DEF Inv, Imported, Carried
<1>9. CASE ImportDone
  <2>1. /\ UNCHANGED <<application, run, head, effects>> /\ import # None /\ import.left = {}
        /\ completed' = import.bundle /\ import' = None /\ cut' = cut /\ cut = None
    BY <1>9 DEF ImportDone, Importing, Inv, Imported
  <2>2. TypeOK' /\ Settled' /\ Taken' /\ Keeps
    BY <1>1, <2>1, Quiet
  <2>3. Completed'
    <3>1. ASSUME NEW k \in Effect, import.bundle.effects[k].state # "none"
          PROVE  effects["receiver"][k] = import.bundle.effects[k]
      BY <2>1, <3>1 DEF Inv, Imported, Carried
    <3> QED BY <1>2, <2>1, <3>1 DEF Completed, WithOutcome, Asked
  <2>4. Imported'
    BY <2>1 DEF Imported
  <2> QED BY <1>1, <2>1, <2>2, <2>3, <2>4, <1>2, <1>3, Rest DEF Inv
<1>10. CASE CutImport
  <2>1. /\ UNCHANGED <<application, run, head, effects, completed>> /\ import # None
        /\ import' = None /\ cut' = import.bundle
    BY <1>10 DEF CutImport, Importing
  <2>2. TypeOK' /\ Settled' /\ Taken' /\ Keeps
    BY <1>1, <2>1, Quiet
  <2>3. Imported'
    BY <1>1, <2>1 DEF Inv, Imported, Fits, Recoverable, Agrees, EffectsAgree, Carried
  <2> QED BY <1>1, <2>1, <2>2, <2>3, <1>2, <1>3, Rest, CompletedStays DEF Inv
<1> QED BY <1>4, <1>5, <1>6, <1>7, <1>8, <1>9, <1>10 DEF ImportStep

\* The invariant holds of every run.
LEMMA Invariance == Spec => []Inv
<1>1. ASSUME Inv, [Next]_vars PROVE Inv'
  <2>1. CASE UNCHANGED vars
    <3>1. UNCHANGED <<class, policies, application, run, head, effects, turns, export, import,
                      bundles, completed, cut>>
      BY <2>1 DEF vars
    <3>2. head["source"] \in Closure /\ Len(head["source"]) <= Len(head["source"])
      BY <1>1 DEF Inv, TypeOK, Closure
    <3> QED BY <1>1, <3>1, <3>2, Quiet, Rest, CompletedStays DEF Inv
  <2>2. CASE \E s \in Store : Advance(s)
    BY <2>2, <1>1, AdvanceInv
  <2>3. CASE Export
    BY <2>3, <1>1, ExportInv
  <2>4. CASE ImportStep
    BY <2>4, <1>1, ImportInv
  <2> QED BY <1>1, <2>1, <2>2, <2>3, <2>4 DEF Next, Export, ImportStep
<1> QED BY <1>1, InitInv, PTL DEF Spec

-------------------------------------------------------------------------------
\* The bundle of exportRun has an outcome of every turn of its head, however the run
\* goes on while it is read, and where no caller drops one, that of the head.
THEOREM BundlesAreWhole == Spec => []BundleHasItsOutcomes
<1>1. Inv => BundleHasItsOutcomes
  BY DEF Inv, Bundled, BundleHasItsOutcomes, Settles, WithOutcome
<1> QED BY <1>1, Invariance, PTL

\* An importRun that was cut can be repeated until the receiver goes on, or has
\* nothing left to write.
THEOREM CutsResume == Spec => []CutImportResumes
<1>1. Inv => CutImportResumes
  BY DEF Inv, Imported, Fits, CutImportResumes, Importable
<1> QED BY <1>1, Invariance, PTL

\* After importRun has returned, the receiver asks no driver for what the source had
\* asked for and may not be asked for again, nor, where all callers accept the same
\* outcomes, for what the source had answered.
THEOREM NothingAskedTwice == Spec => CarriedNotAsked
<1>1. ASSUME Inv, [Next]_vars
      PROVE  [\A k \in Effect : Ask("receiver") /\ k = Waits("receiver") => ~Owed(k)]_vars
  <2>1. SUFFICES ASSUME NEW k \in Effect, Ask("receiver"), k = Waits("receiver"), Owed(k)
                 PROVE  FALSE
    OBVIOUS
  <2>2. \/ effects["receiver"][k].state = "observed"
        \/ effects["receiver"][k].state = "running" /\ Reresolvable
    BY <2>1 DEF Ask, Found
  <2> QED BY <1>1, <2>1, <2>2 DEF Owed, Inv, Completed, WithOutcome, Asked
<1> QED BY <1>1, Invariance, PTL DEF Spec, CarriedNotAsked

\* importRun never replaces a record that the receiver has.
THEOREM ImportsAdd == Spec => ImportOnlyAdds
<1>1. ASSUME Inv, [Next]_vars
      PROVE  [import # None =>
                /\ run["receiver"] \in {None, run'["receiver"]}
                /\ head["receiver"] \in {None, head'["receiver"]}
                /\ \A k \in Effect : effects["receiver"][k] \in {NoRecord, effects'["receiver"][k]}]_vars
  <2>1. SUFFICES ASSUME Next, import # None
                 PROVE  /\ run["receiver"] \in {None, run'["receiver"]}
                        /\ head["receiver"] \in {None, head'["receiver"]}
                        /\ \A k \in Effect : effects["receiver"][k] \in {NoRecord, effects'["receiver"][k]}
    BY <1>1
  <2>2. CASE \E s \in Store : Advance(s)
    <3>1. PICK s \in Store : Advance(s)
      BY <2>2
    <3>2. Local(s)
      BY <1>1, <3>1, AdvanceStep DEF Inv
    <3> QED BY <2>1, <3>2 DEF Local, Store
  <2>3. CASE Export
    BY <2>3 DEF Export, ExportRun, ExportHead, ExportDone, ExportEffect, ReadsEffect
  <2>4. CASE WriteEffect
    <3>1. PICK k \in import.left : Put("receiver", k, import.bundle.effects[k])
      BY <2>4 DEF WriteEffect
    <3>2. effects["receiver"][k] \in {NoRecord, import.bundle.effects[k]} /\ k \in Effect
      BY <1>1, <2>1, <3>1 DEF Inv, Imported, Fits, EffectsAgree, Carried
    <3>3. effects \in [Store -> [Effect -> Record]] /\ "receiver" \in Store
      BY <1>1 DEF Inv, TypeOK, Store
    <3>4. effects'["receiver"] = [effects["receiver"] EXCEPT ![k] = import.bundle.effects[k]]
      BY <3>1, <3>3 DEF Put
    <3>5. \A j \in Effect : effects["receiver"][j] \in {NoRecord, effects'["receiver"][j]}
      BY <3>2, <3>3, <3>4
    <3> QED BY <2>4, <3>5 DEF WriteEffect
  <2>5. CASE WriteHead \/ WriteRun
    BY <1>1, <2>5 DEF WriteHead, WriteRun, Inv, TypeOK, Store
  <2>6. CASE (\E b \in bundles : Import(b)) \/ WriteApplication \/ ImportDone \/ CutImport
    BY <2>6 DEF Import, WriteApplication, ImportDone, CutImport
  <2> QED BY <2>1, <2>2, <2>3, <2>4, <2>5, <2>6 DEF Next, Export
<1> QED BY <1>1, Invariance, PTL DEF Spec, ImportOnlyAdds
===============================================================================
