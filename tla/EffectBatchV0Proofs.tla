-------------------------- MODULE EffectBatchV0Proofs --------------------------
(***************************************************************************)
(* Proofs about the effects of a turn, in two parts.                          *)
(* The scheduler, for any effects, groups and limits (SchedInv): its counters *)
(* count the effects that run and that have ended, the effects of a group are *)
(* started in order, and the batch is decided when nothing is left to do.     *)
(* The turn, for any drivers, policy and requests (BatchInv): what is asked   *)
(* goes back, through what is selected and bound, to a route of the accepted  *)
(* report, of which the rules of the plane say what the later checks find.    *)
(***************************************************************************)
EXTENDS EffectBatchV0, FiniteSetTheorems, SequenceTheorems, WellFoundedInduction, TLAPS

Status == {"idle", "running", "settled", "failed"}
Ended == {"settled", "failed"}
Active == {"running"}
InState(st, S, states) == {e \in S : st[e] \in states}

\* The state of one effect changes.
Moves(st, to, e, s) == to = [st EXCEPT ![e] = s]

Groups == Seq([effects : Seq(Effect), limit : Nat \ {0}])

Disjoint(G) ==
  \A g, h \in DOMAIN G : \A i \in DOMAIN G[g].effects : \A j \in DOMAIN G[h].effects :
    G[g].effects[i] = G[h].effects[j] => g = h /\ i = j

SchedType ==
  /\ groups \in Groups /\ Disjoint(groups)
  /\ globalLimit \in Nat
  /\ next \in [Group -> Nat] /\ active \in [Group -> Nat]
  /\ activeAll \in Nat /\ settled \in Nat
  /\ firstError \in Effect \cup {NoError}
  /\ launching \in BOOLEAN
  /\ promise \in {"none", "pending", "resolved", "rejected"}
  /\ status \in [Effect -> Status]

\* The counters count what runs, within the limits.
Counted ==
  /\ activeAll = Cardinality(InState(status, Effect, Active))
  /\ activeAll <= globalLimit
  /\ settled = Cardinality(InState(status, Effect, Ended))
  /\ \A g \in Group :
       /\ active[g] = Cardinality(InState(status, Members(groups, g), Active))
       /\ active[g] <= groups[g].limit

\* The effects of a group are started in order, and no others.
Ordered ==
  /\ \A g \in Group : \A i \in DOMAIN groups[g].effects :
       status[groups[g].effects[i]] = "idle" <=> i > next[g]
  /\ \A e \in Effect : status[e] # "idle" => e \in Batched(groups)

\* When the batch is decided.
Judged ==
  /\ promise = "none" => groups = <<>> /\ settled = 0 /\ ~launching /\ firstError = NoError
  /\ launching => promise = "pending" /\ firstError = NoError
  /\ firstError = NoError => \A e \in Effect : status[e] # "failed"
  /\ firstError # NoError => status[firstError] = "failed"
  /\ promise = "resolved" => settled = Total /\ firstError = NoError
  /\ promise = "rejected" => activeAll = 0 /\ firstError # NoError
  /\ promise = "pending" /\ firstError # NoError => activeAll > 0
  /\ promise = "pending" /\ firstError = NoError => settled # Total
  /\ promise = "pending" /\ firstError = NoError /\ ~launching =>
       activeAll = globalLimit \/ \A g \in Group : ~Ready(g)

SchedInv == SchedType /\ Counted /\ Ordered /\ Judged

-------------------------------------------------------------------------------
\* The effects of a set that are in some of the states are finitely many.
LEMMA Finite ==
  ASSUME NEW st, NEW S \in SUBSET Effect, NEW states
  PROVE  /\ IsFiniteSet(S)
         /\ IsFiniteSet(InState(st, S, states))
         /\ Cardinality(InState(st, S, states)) \in Nat
<1>1. IsFiniteSet(S)
  BY SchedulerAssumption, FS_Subset
<1>2. InState(st, S, states) \in SUBSET S
  BY DEF InState
<1> QED BY <1>1, <1>2, FS_Subset, FS_CardinalityType

\* An effect that enters some of the states is one more, if it is of the set.
LEMMA Enters ==
  ASSUME NEW st \in [Effect -> Status], NEW S, S \subseteq Effect, NEW states,
         NEW e \in Effect, NEW s, NEW to, Moves(st, to, e, s), s \in states, st[e] \notin states
  PROVE  Cardinality(InState(to, S, states)) =
           IF e \in S THEN Cardinality(InState(st, S, states)) + 1
                      ELSE Cardinality(InState(st, S, states))
<1>1. InState(to, S, states) =
        IF e \in S THEN InState(st, S, states) \cup {e} ELSE InState(st, S, states)
  BY DEF InState, Moves
<1>2. e \notin InState(st, S, states)
  BY DEF InState
<1> QED BY <1>1, <1>2, Finite, FS_AddElement

\* An effect that leaves some of the states is one less.
LEMMA Leaves ==
  ASSUME NEW st \in [Effect -> Status], NEW S, S \subseteq Effect, NEW states,
         NEW e \in Effect, NEW s, NEW to, Moves(st, to, e, s), s \notin states, st[e] \in states
  PROVE  Cardinality(InState(to, S, states)) =
           IF e \in S THEN Cardinality(InState(st, S, states)) - 1
                      ELSE Cardinality(InState(st, S, states))
<1>1. InState(to, S, states) =
        IF e \in S THEN InState(st, S, states) \ {e} ELSE InState(st, S, states)
  BY DEF InState, Moves
<1>2. e \in S => e \in InState(st, S, states)
  BY DEF InState
<1>3. IsFiniteSet(InState(st, S, states))
  BY Finite
<1>4. e \in S => Cardinality(InState(st, S, states) \ {e}) = Cardinality(InState(st, S, states)) - 1
  BY <1>2, <1>3, FS_RemoveElement
<1> QED BY <1>1, <1>4

\* A group has effects and a limit.
LEMMA GroupType ==
  ASSUME NEW G \in Groups, NEW g \in DOMAIN G
  PROVE  G[g].effects \in Seq(Effect) /\ G[g].limit \in Nat \ {0}
<1> DEFINE Rec == [effects : Seq(Effect), limit : Nat \ {0}]
<1>1. G \in Seq(Rec) /\ g \in 1 .. Len(G)
  BY DEF Groups
<1>2. G[g] \in Rec
  <2> HIDE DEF Rec
  <2> QED BY <1>1, ElementOfSeq
<1> QED BY <1>2

\* The members of the groups are effects of the batch.
LEMMA MembersAreEffects ==
  ASSUME NEW G \in Groups
  PROVE  /\ \A g \in DOMAIN G : Members(G, g) \subseteq Effect /\ Members(G, g) \subseteq Batched(G)
         /\ Batched(G) \subseteq Effect
<1>1. ASSUME NEW g \in DOMAIN G PROVE Members(G, g) \subseteq Effect
  <2>1. G[g].effects \in Seq(Effect)
    BY GroupType
  <2> QED BY <2>1 DEF Members
<1> QED BY <1>1 DEF Batched

\* Groups have no effect in common, so an effect's group is the one it is in.
LEMMA GroupIsUnique ==
  ASSUME SchedType, NEW e, NEW g \in Group, e \in Members(groups, g)
  PROVE  /\ GroupOf(e) = g
         /\ \A h \in Group \ {g} : e \notin Members(groups, h)
<1>1. ASSUME NEW h \in Group, e \in Members(groups, h) PROVE h = g
  BY <1>1 DEF SchedType, Disjoint, Members, Group
<1> QED BY <1>1 DEF GroupOf

\* Everything has ended exactly when as many effects have ended as there are.
LEMMA AllEnded ==
  ASSUME SchedType, Counted, Ordered
  PROVE  /\ Total \in Nat
         /\ settled = Total <=> \A e \in Batched(groups) : status[e] \in Ended
<1>1. Batched(groups) \subseteq Effect /\ IsFiniteSet(Batched(groups))
  BY MembersAreEffects, Finite DEF SchedType
<1>2. InState(status, Effect, Ended) \in SUBSET Batched(groups)
  BY DEF InState, Ordered, Ended
<1>3. Total \in Nat
  BY <1>1, FS_CardinalityType DEF Total
<1>4. settled = Total <=> InState(status, Effect, Ended) = Batched(groups)
  BY <1>1, <1>2, FS_Subset DEF Counted, Total
<1> QED BY <1>1, <1>2, <1>3, <1>4 DEF InState

-------------------------------------------------------------------------------
\* Before the batch nothing runs.
LEMMA SchedInitInv == SchedInit => SchedInv
<1> SUFFICES ASSUME SchedInit PROVE SchedInv
  OBVIOUS
<1>1. groups = <<>> /\ Group = {} /\ Batched(groups) = {}
  BY DEF SchedInit, Group, Batched
<1>2. SchedType
  <2>1. groups \in Groups /\ Disjoint(groups)
    BY <1>1 DEF SchedInit, Groups, Disjoint, Group
  <2>2. next \in [Group -> Nat] /\ active \in [Group -> Nat]
    BY <1>1 DEF SchedInit
  <2> QED BY <2>1, <2>2 DEF SchedInit, SchedType, Status
<1>3. Counted
  <2>1. InState(status, Effect, Active) = {} /\ InState(status, Effect, Ended) = {}
    BY DEF SchedInit, InState, Ended, Active
  <2>2. Cardinality(InState(status, Effect, Active)) = 0
        /\ Cardinality(InState(status, Effect, Ended)) = 0
    BY <2>1, FS_EmptySet
  <2>3. activeAll = 0 /\ settled = 0 /\ globalLimit = 0
    BY DEF SchedInit
  <2>4. \A g \in Group :
          /\ active[g] = Cardinality(InState(status, Members(groups, g), Active))
          /\ active[g] <= groups[g].limit
    BY <1>1
  <2> QED BY <2>2, <2>3, <2>4 DEF Counted
<1>4. Ordered
  BY <1>1 DEF SchedInit, Ordered
<1>5. Judged
  BY <1>1 DEF SchedInit, Judged
<1> QED BY <1>2, <1>3, <1>4, <1>5 DEF SchedInv

\* The start of a batch.
LEMMA StartStep ==
  ASSUME SchedInv, NEW b, IsBatch(b), Start(b)
  PROVE  SchedInv'
<1>1. groups' \in Groups /\ Disjoint(groups') /\ globalLimit' \in Nat \ {0}
  BY DEF Start, IsBatch, Groups, Disjoint
<1>2. promise = "none" /\ groups = <<>> /\ settled = 0 /\ firstError = NoError /\ Batched(groups) = {}
  BY DEF Start, SchedInv, Judged, Batched
<1>3. \A e \in Effect : status[e] = "idle"
  BY <1>2 DEF SchedInv, Ordered
<1>4. Group' = DOMAIN b.groups
  BY DEF Start, Group
<1>5. SchedType'
  <2>1. next' \in [Group' -> Nat] /\ active' \in [Group' -> Nat]
    BY <1>4 DEF Start
  <2>2. launching' \in BOOLEAN /\ promise' \in {"none", "pending", "resolved", "rejected"}
    BY DEF Start, Launch
  <2> QED BY <1>1, <2>1, <2>2 DEF Start, SchedType, SchedInv
<1>6. ASSUME NEW S \in SUBSET Effect, NEW states, "idle" \notin states
      PROVE  InState(status, S, states) = {}
  BY <1>3, <1>6 DEF InState
<1>7. Counted'
  <2>1. \A g \in Group' : Members(groups', g) \subseteq Effect
    BY <1>1, MembersAreEffects DEF Group
  <2>2. ASSUME NEW g \in Group'
        PROVE  /\ Cardinality(InState(status', Members(groups', g), Active)) = 0
               /\ groups'[g].limit \in Nat \ {0} /\ active'[g] = 0
    <3>1. InState(status', Members(groups', g), Active) = {}
      BY <1>6, <2>1 DEF Start, Active
    <3>2. groups'[g].limit \in Nat \ {0}
      BY <1>1, GroupType DEF Group
    <3> QED BY <3>1, <3>2, <1>4, FS_EmptySet DEF Start
  <2>3. Cardinality(InState(status', Effect, Active)) = 0
        /\ Cardinality(InState(status', Effect, Ended)) = 0
    BY <1>6, FS_EmptySet DEF Start, Ended, Active
  <2>4. activeAll' = 0 /\ settled' = 0
    BY <1>2, <1>6, FS_EmptySet DEF Start, SchedInv, Counted, Active
  <2> QED BY <1>1, <2>2, <2>3, <2>4 DEF Counted
<1>8. Ordered'
  <2>1. ASSUME NEW g \in Group', NEW i \in DOMAIN groups'[g].effects
        PROVE  status'[groups'[g].effects[i]] = "idle" /\ next'[g] = 0 /\ i > 0
    <3>1. groups'[g].effects \in Seq(Effect)
      BY <1>1, GroupType DEF Group
    <3>2. groups'[g].effects[i] \in Effect /\ i \in Nat \ {0}
      BY <3>1
    <3> QED BY <3>2, <1>3, <1>4 DEF Start
  <2> QED BY <2>1, <1>3 DEF Ordered, Start
<1>9. Judged'
  <2>1. Total' = Cardinality(Batched(b.groups))
    BY DEF Total, Start
  <2>2. \A g \in Group' : active'[g] = 0 /\ next'[g] = 0
    BY <1>4 DEF Start
  <2> QED BY <2>1, <1>2, <1>3 DEF Start, Launch, Judged
<1> QED BY <1>5, <1>7, <1>8, <1>9 DEF SchedInv

-------------------------------------------------------------------------------
\* The next effect of a ready group starts: one more runs, of its group and of all.
LEMMA LaunchStep ==
  ASSUME SchedInv, LaunchNext
  PROVE  SchedInv'
<1>1. PICK g \in Group :
        /\ NextReadyGroup(g)
        /\ status' = [status EXCEPT ![groups[g].effects[next[g] + 1]] = "running"]
        /\ next' = [next EXCEPT ![g] = @ + 1]
        /\ active' = [active EXCEPT ![g] = @ + 1]
  BY DEF LaunchNext
<1> DEFINE e == groups[g].effects[next[g] + 1]
<1>2. Ready(g)
  BY <1>1 DEF NextReadyGroup
<1>3. groups[g].effects \in Seq(Effect) /\ groups[g].limit \in Nat \ {0} /\ next[g] \in Nat
      /\ active[g] \in Nat
  BY GroupType DEF SchedInv, SchedType, Group
<1>4. next[g] + 1 \in DOMAIN groups[g].effects /\ e \in Effect /\ e \in Members(groups, g)
  <2>1. next[g] + 1 \in 1 .. Len(groups[g].effects)
    BY <1>2, <1>3 DEF Ready
  <2>2. e \in Effect
    BY <1>3, <2>1, ElementOfSeq
  <2> QED BY <1>3, <2>1, <2>2 DEF Members
<1>5. status[e] = "idle"
  BY <1>3, <1>4 DEF SchedInv, Ordered
<1> HIDE DEF e
<1>6. Moves(status, status', e, "running")
  BY <1>1 DEF e, Moves
<1>7. groups' = groups /\ Group' = Group /\ globalLimit' = globalLimit /\ settled' = settled
      /\ firstError' = firstError /\ launching' = launching /\ promise' = promise
      /\ activeAll' = activeAll + 1 /\ activeAll < globalLimit /\ launching
  BY DEF LaunchNext, Group
<1>8. status \in [Effect -> Status] /\ groups \in Groups
  BY DEF SchedInv, SchedType
<1>9. SchedType'
  <2>1. next' \in [Group -> Nat] /\ active' \in [Group -> Nat]
    BY <1>1, <1>3 DEF SchedInv, SchedType
  <2>2. status' \in [Effect -> Status]
    BY <1>6, <1>8 DEF Status, Moves
  <2> QED BY <1>7, <2>1, <2>2 DEF SchedInv, SchedType
<1>10. Counted'
  <2>1. Cardinality(InState(status', Effect, Active)) = activeAll + 1
    <3>1. Cardinality(InState(status, Effect, Active)) = activeAll
      BY DEF SchedInv, Counted
    <3>2. "running" \in Active /\ status[e] \notin Active
      BY <1>5 DEF Active
    <3> QED BY <3>1, <3>2, <1>4, <1>6, <1>8, Enters
  <2>2. InState(status', Effect, Ended) = InState(status, Effect, Ended)
    <3>1. status[e] \notin Ended /\ "running" \notin Ended
      BY <1>5 DEF Ended
    <3> QED BY <3>1, <1>4, <1>6, <1>8 DEF InState, Moves
  <2>3. ASSUME NEW h \in Group
        PROVE  /\ active'[h] = Cardinality(InState(status', Members(groups, h), Active))
               /\ active'[h] <= groups[h].limit
    <3>1. Members(groups, h) \in SUBSET Effect
      BY <1>8, MembersAreEffects DEF Group
    <3>2. active[h] = Cardinality(InState(status, Members(groups, h), Active))
          /\ active[h] <= groups[h].limit
      BY DEF SchedInv, Counted
    <3>3. e \in Members(groups, h) <=> h = g
      BY <1>4, GroupIsUnique DEF SchedInv
    <3>4. Cardinality(InState(status', Members(groups, h), Active)) =
            IF h = g THEN active[h] + 1 ELSE active[h]
      <4>1. "running" \in Active /\ status[e] \notin Active
        BY <1>5 DEF Active
      <4> QED BY <3>1, <3>2, <3>3, <4>1, <1>4, <1>6, <1>8, Enters
    <3>5. active'[h] = IF h = g THEN active[h] + 1 ELSE active[h]
      BY <1>1 DEF SchedInv, SchedType
    <3>6. active[g] + 1 <= groups[g].limit
      BY <1>2, <1>3 DEF Ready
    <3> QED BY <3>2, <3>3, <3>4, <3>5, <3>6
  <2>4. activeAll' = activeAll + 1 /\ activeAll + 1 <= globalLimit
    BY <1>7 DEF SchedInv, SchedType
  <2>5. settled' = Cardinality(InState(status', Effect, Ended))
    BY <1>7, <2>2 DEF SchedInv, Counted
  <2> QED BY <1>7, <2>1, <2>3, <2>4, <2>5 DEF Counted
<1>11. Ordered'
  <2>1. ASSUME NEW h \in Group, NEW i \in DOMAIN groups[h].effects
        PROVE  status'[groups[h].effects[i]] = "idle" <=> i > next'[h]
    <3>1. groups[h].effects \in Seq(Effect)
      BY <1>8, GroupType DEF Group
    <3>2. groups[h].effects[i] \in Effect /\ i \in Nat
      BY <3>1
    <3>3. status[groups[h].effects[i]] = "idle" <=> i > next[h]
      BY DEF SchedInv, Ordered
    <3>4. CASE h = g /\ i = next[g] + 1
      <4>1. status'[groups[h].effects[i]] = "running"
        BY <3>4, <3>2, <1>6, <1>8 DEF e, Moves
      <4>2. next'[h] = i
        BY <3>4, <1>1 DEF SchedInv, SchedType
      <4> QED BY <4>1, <4>2, <3>2
    <3>5. CASE ~(h = g /\ i = next[g] + 1)
      <4>1. groups[h].effects[i] # e
        BY <3>5, <1>4 DEF e, SchedInv, SchedType, Disjoint, Group
      <4>2. status'[groups[h].effects[i]] = status[groups[h].effects[i]]
        BY <4>1, <1>6, <1>8 DEF Moves
      <4>3. next'[h] = IF h = g THEN next[g] + 1 ELSE next[h]
        BY <1>1 DEF SchedInv, SchedType
      <4> QED BY <3>5, <3>3, <3>2, <1>3, <4>2, <4>3
    <3> QED BY <3>4, <3>5
  <2>2. ASSUME NEW f \in Effect, status'[f] # "idle"
        PROVE  f \in Batched(groups)
    <3>1. CASE f = e
      BY <3>1, <1>4, <1>8, MembersAreEffects DEF Group
    <3>2. CASE f # e
      BY <3>2, <2>2, <1>6, <1>8 DEF SchedInv, Ordered, Moves
    <3> QED BY <3>1, <3>2
  <2> QED BY <1>7, <2>1, <2>2 DEF Ordered
<1>12. Judged'
  <2>1. promise = "pending" /\ firstError = NoError /\ settled # Total
    BY <1>7 DEF SchedInv, Judged
  <2>2. \A f \in Effect : status'[f] # "failed"
    <3>1. \A f \in Effect : status[f] # "failed"
      BY <2>1 DEF SchedInv, Judged
    <3> QED BY <3>1, <1>6, <1>8 DEF Moves
  <2>3. Total' = Total
    BY <1>7 DEF Total
  <2> QED BY <1>7, <2>1, <2>2, <2>3 DEF Judged
<1> QED BY <1>9, <1>10, <1>11, <1>12 DEF SchedInv

\* The loop of launch() ends where no group is ready or the limit is reached.
LEMMA LaunchDoneStep ==
  ASSUME SchedInv, LaunchDone
  PROVE  SchedInv'
<1>1. UNCHANGED <<groups, globalLimit, next, active, activeAll, settled, firstError, promise, status>>
      /\ launching' = FALSE /\ launching
  BY DEF LaunchDone
<1>2. activeAll = globalLimit \/ \A g \in Group : ~Ready(g)
  <2>1. activeAll \in Nat /\ globalLimit \in Nat /\ activeAll <= globalLimit
    BY DEF SchedInv, SchedType, Counted
  <2> QED BY <2>1 DEF LaunchDone
<1>3. SchedType'
  BY <1>1 DEF SchedInv, SchedType, Group
<1>4. Counted'
  BY <1>1 DEF SchedInv, Counted, Group
<1>5. Ordered'
  BY <1>1 DEF SchedInv, Ordered, Group
<1>6. Judged'
  <2>1. promise' = "pending" /\ firstError' = NoError /\ settled' # Total' /\ launching' = FALSE
    BY <1>1 DEF SchedInv, Judged, Total
  <2>2. \A e \in Effect : status'[e] # "failed"
    BY <1>1 DEF SchedInv, Judged
  <2>3. activeAll' = globalLimit' \/ \A g \in Group' : ~Ready(g)'
    BY <1>1, <1>2 DEF Ready, Group
  <2> QED BY <2>1, <2>2, <2>3 DEF Judged
<1> QED BY <1>3, <1>4, <1>5, <1>6 DEF SchedInv

\* What an effect that ends leaves behind, whatever the batch makes of it.
LEMMA EndsCounts ==
  ASSUME SchedInv, NEW e \in Effect, NEW s \in Ended, Ends(e, s)
  PROVE  /\ Moves(status, status', e, s) /\ status[e] = "running"
         /\ groups' = groups /\ Group' = Group /\ Total' = Total /\ globalLimit' = globalLimit
         /\ next' = next /\ ~launching /\ promise = "pending"
         /\ activeAll > 0 /\ activeAll' = activeAll - 1 /\ settled' = settled + 1
         /\ activeAll' \in Nat /\ settled' \in Nat /\ active' \in [Group -> Nat]
         /\ status' \in [Effect -> Status]
         /\ Counted' /\ Ordered'
<1>1. Moves(status, status', e, s) /\ status[e] = "running" /\ ~launching
  BY DEF Ends, Moves
<1>2. groups' = groups /\ globalLimit' = globalLimit /\ next' = next
      /\ activeAll' = activeAll - 1 /\ settled' = settled + 1
  BY DEF Ends
<1>3. Group' = Group /\ Total' = Total
  BY <1>2 DEF Group, Total
<1>4. status \in [Effect -> Status] /\ groups \in Groups
  BY DEF SchedInv, SchedType
<1>5. e \in Batched(groups)
  BY <1>1 DEF SchedInv, Ordered
<1>6. PICK g \in Group : e \in Members(groups, g)
  BY <1>5 DEF Batched, Group
<1>7. GroupOf(e) = g /\ \A h \in Group \ {g} : e \notin Members(groups, h)
  BY <1>6, GroupIsUnique DEF SchedInv
<1>8. status[e] \in Active /\ s \notin Active /\ status[e] \notin Ended
  BY <1>1 DEF Active, Ended
<1>9. Cardinality(InState(status', Effect, Active)) = activeAll - 1
  <2>1. activeAll = Cardinality(InState(status, Effect, Active))
    BY DEF SchedInv, Counted
  <2> QED BY <2>1, <1>1, <1>4, <1>8, Leaves
<1>10. Cardinality(InState(status', Effect, Ended)) = settled + 1
  <2>1. settled = Cardinality(InState(status, Effect, Ended))
    BY DEF SchedInv, Counted
  <2> QED BY <2>1, <1>1, <1>4, <1>8, Enters
<1>11. activeAll \in Nat /\ settled \in Nat /\ globalLimit \in Nat /\ activeAll <= globalLimit
       /\ active \in [Group -> Nat]
  BY DEF SchedInv, SchedType, Counted
<1>12. activeAll > 0
  <2>1. Cardinality(InState(status', Effect, Active)) \in Nat
    BY Finite
  <2> QED BY <2>1, <1>9, <1>11
<1>13. active' = [active EXCEPT ![g] = @ - 1]
  BY <1>7 DEF Ends
<1>14. ASSUME NEW h \in Group
       PROVE  /\ active'[h] = Cardinality(InState(status', Members(groups, h), Active))
              /\ active'[h] \in Nat /\ active'[h] <= groups[h].limit
  <2>1. Members(groups, h) \subseteq Effect /\ groups[h].limit \in Nat
    BY <1>4, MembersAreEffects, GroupType DEF Group
  <2>2. active[h] = Cardinality(InState(status, Members(groups, h), Active))
        /\ active[h] <= groups[h].limit /\ active[h] \in Nat
    BY <1>11 DEF SchedInv, Counted
  <2>3. e \in Members(groups, h) <=> h = g
    BY <1>6, <1>7
  <2>4. Cardinality(InState(status', Members(groups, h), Active)) =
          IF h = g THEN active[h] - 1 ELSE active[h]
    BY <2>1, <2>2, <2>3, <1>1, <1>4, <1>8, Leaves
  <2>5. active'[h] = IF h = g THEN active[h] - 1 ELSE active[h]
    BY <1>11, <1>13
  <2>6. Cardinality(InState(status', Members(groups, h), Active)) \in Nat
    BY <2>1, Finite
  <2> QED BY <2>1, <2>2, <2>4, <2>5, <2>6
<1>15. status' \in [Effect -> Status]
  BY <1>1, <1>4 DEF Moves, Status, Ended
<1>16. active' \in [Group -> Nat]
  BY <1>11, <1>13, <1>14
<1>17. Counted'
  BY <1>2, <1>3, <1>9, <1>10, <1>11, <1>14 DEF Counted
<1>18. Ordered'
  <2>1. \A f \in Effect : status'[f] = "idle" <=> status[f] = "idle"
    BY <1>1, <1>4 DEF Moves, Ended
  <2>2. ASSUME NEW h \in Group, NEW i \in DOMAIN groups[h].effects
        PROVE  status'[groups[h].effects[i]] = "idle" <=> i > next[h]
    <3>1. groups[h].effects \in Seq(Effect)
      BY <1>4, GroupType DEF Group
    <3>2. groups[h].effects[i] \in Effect
      BY <3>1
    <3> QED BY <3>2, <2>1 DEF SchedInv, Ordered
  <2>3. \A f \in Effect : status'[f] # "idle" => f \in Batched(groups)
    BY <2>1 DEF SchedInv, Ordered
  <2> QED BY <1>2, <1>3, <2>2, <2>3 DEF Ordered
<1>19. promise = "pending"
  <2>1. promise # "none"
    BY <1>5 DEF SchedInv, Judged, Batched
  <2>2. promise # "rejected"
    BY <1>11, <1>12 DEF SchedInv, Judged
  <2>3. promise # "resolved"
    <3>1. promise = "resolved" => status[e] \in Ended
      BY <1>5, AllEnded DEF SchedInv, Judged
    <3> QED BY <3>1, <1>8
  <2> QED BY <2>1, <2>2, <2>3 DEF SchedInv, SchedType
<1> QED BY <1>1, <1>2, <1>3, <1>9, <1>10, <1>11, <1>12, <1>15, <1>16, <1>17, <1>18, <1>19

\* An effect settles: the batch is over, or what can start starts.
LEMMA SettleStep ==
  ASSUME SchedInv, NEW e \in Effect, Settle(e)
  PROVE  SchedInv'
<1>0. Ends(e, "settled") /\ "settled" \in Ended /\ firstError' = firstError
  BY DEF Settle, Ended
<1>1. SchedType'
  <2>1. launching' \in BOOLEAN /\ promise' \in {"none", "pending", "resolved", "rejected"}
    BY DEF Settle, RejectWhenIdle, Launch, SchedInv, SchedType
  <2> QED BY <1>0, <2>1, EndsCounts DEF SchedInv, SchedType
<1>2. \A f \in Effect : status'[f] = "failed" <=> status[f] = "failed"
  BY <1>0, EndsCounts DEF Moves, SchedInv, SchedType
<1>3. Judged'
  <2>1. firstError \in Effect \/ firstError = NoError
    BY DEF SchedInv, SchedType
  <2>2. /\ firstError' = NoError => \A f \in Effect : status'[f] # "failed"
        /\ firstError' # NoError => status'[firstError'] = "failed"
    BY <1>0, <1>2, <2>1 DEF SchedInv, Judged
  <2>3. CASE firstError = NoError
    BY <2>2, <2>3, <1>0, EndsCounts DEF Judged, Settle, Launch
  <2>4. CASE firstError # NoError
    BY <2>2, <2>4, <1>0, EndsCounts DEF Judged, Settle, RejectWhenIdle
  <2> QED BY <2>3, <2>4
<1> QED BY <1>0, <1>1, <1>3, EndsCounts DEF SchedInv

\* An effect fails: nothing more is started, and the batch waits for what runs.
LEMMA FailStep ==
  ASSUME SchedInv, NEW e \in Effect, Fail(e)
  PROVE  SchedInv'
<1>0. Ends(e, "failed") /\ "failed" \in Ended
  BY DEF Fail, Ended
<1>1. firstError' = (IF firstError = NoError THEN e ELSE firstError) /\ e # NoError
  BY SchedulerAssumption DEF Fail
<1>2. SchedType'
  <2>1. launching' \in BOOLEAN /\ promise' \in {"none", "pending", "resolved", "rejected"}
    BY DEF Fail, RejectWhenIdle, SchedInv, SchedType
  <2>2. firstError' \in Effect \cup {NoError}
    BY <1>1 DEF SchedInv, SchedType
  <2> QED BY <1>0, <2>1, <2>2, EndsCounts DEF SchedInv, SchedType
<1>3. firstError' # NoError /\ status'[firstError'] = "failed"
  <2>1. status'[e] = "failed" /\ \A f \in Effect : status[f] = "failed" => status'[f] = "failed"
    BY <1>0, EndsCounts DEF Moves, SchedInv, SchedType
  <2>2. firstError # NoError => firstError \in Effect /\ status[firstError] = "failed"
    BY DEF SchedInv, SchedType, Judged
  <2> QED BY <1>1, <2>1, <2>2
<1>4. Judged'
  BY <1>0, <1>3, EndsCounts DEF Judged, Fail, RejectWhenIdle
<1> QED BY <1>0, <1>2, <1>4, EndsCounts DEF SchedInv

\* A scheduler that does nothing keeps its invariant.
LEMMA SameSchedule == ASSUME SchedInv, UNCHANGED schedVars PROVE SchedInv'
<1>1. SchedType'
  BY DEF schedVars, SchedInv, SchedType, Group
<1>2. Counted'
  BY DEF schedVars, SchedInv, Counted, Group
<1>3. Ordered'
  BY DEF schedVars, SchedInv, Ordered, Group
<1>4. Judged'
  <2>1. (\A g \in Group : ~Ready(g)) => (\A g \in Group' : ~Ready(g)')
    BY DEF schedVars, Ready, Group
  <2>2. Total' = Total
    BY DEF schedVars, Total
  <2> QED BY <2>1, <2>2 DEF schedVars, SchedInv, Judged
<1> QED BY <1>1, <1>2, <1>3, <1>4 DEF SchedInv

\* The invariant holds of every run.
LEMMA SchedInvariance == SchedSpec => []SchedInv
<1>1. ASSUME SchedInv, [SchedNext]_schedVars PROVE SchedInv'
  <2>1. CASE UNCHANGED schedVars
    BY <2>1, <1>1, SameSchedule
  <2>2. CASE \E b \in Batches : Start(b)
    BY <2>2, <1>1, StartStep, SchedulerAssumption
  <2>3. CASE LaunchNext
    BY <2>3, <1>1, LaunchStep
  <2>4. CASE LaunchDone
    BY <2>4, <1>1, LaunchDoneStep
  <2>5. CASE \E e \in Effect : Settle(e) \/ Fail(e)
    BY <2>5, <1>1, SettleStep, FailStep
  <2> QED BY <1>1, <2>1, <2>2, <2>3, <2>4, <2>5 DEF SchedNext
<1> QED BY <1>1, SchedInitInv, PTL DEF SchedSpec

-------------------------------------------------------------------------------
\* What runs is what the counters count.
LEMMA RunningIsActive ==
  ASSUME NEW S
  PROVE  RunningIn(S) = InState(status, S, Active)
  BY DEF RunningIn, InState, Active

\* At no time do more effects run than the policy allows in all, nor more of one
\* driver than its limit: launch() of runGroupedBounded counts truly.
THEOREM WithinLimits == SchedSpec => []LimitsRespected
<1>1. SchedInv => LimitsRespected
  BY RunningIsActive DEF SchedInv, Counted, LimitsRespected
<1> QED BY <1>1, SchedInvariance, PTL

\* A decided batch is idle: what SettlesWhenIdle is about, in one state.
LEMMA SchedIdle == SchedInv => SettledOnlyWhenIdle
<1>1. ASSUME SchedInv PROVE SettledOnlyWhenIdle
  <2>1. activeAll = Cardinality(RunningIn(Effect)) /\ IsFiniteSet(RunningIn(Effect))
    BY <1>1, RunningIsActive, Finite DEF SchedInv, Counted
  <2>2. activeAll = 0 => RunningIn(Effect) = {}
    BY <2>1, FS_EmptySet
  <2>3. ASSUME promise = "resolved" PROVE \A e \in Batched(groups) : status[e] = "settled"
    <3>1. \A e \in Batched(groups) : status[e] \in Ended
      BY <1>1, <2>3, AllEnded DEF SchedInv, Judged
    <3>2. \A e \in Batched(groups) : status[e] # "failed"
      BY <1>1, <2>3, MembersAreEffects DEF SchedInv, SchedType, Judged
    <3> QED BY <3>1, <3>2 DEF Ended
  <2>4. promise = "resolved" => RunningIn(Effect) = {}
    BY <1>1, <2>3 DEF SchedInv, Ordered, RunningIn
  <2> QED BY <1>1, <2>2, <2>3, <2>4 DEF SettledOnlyWhenIdle, SchedInv, Judged
<1> QED BY <1>1

\* runGroupedBounded settles its promise only when nothing runs any more: resolved
\* with every effect settled, rejected with one that has failed.
THEOREM SettlesWhenIdle == SchedSpec => []SettledOnlyWhenIdle
  BY SchedIdle, SchedInvariance, PTL

\* After launch() no effect of runGroupedBounded waits that could run: the loop
\* stops at a full pool or with every group empty or full.
THEOREM NothingWaitsNeedlessly == SchedSpec => []NoIdleCapacity
<1>1. ASSUME SchedInv PROVE NoIdleCapacity
  <2>1. SUFFICES ASSUME promise = "pending", ~launching, firstError = NoError,
                        NEW g \in Group, NEW e \in Members(groups, g), status[e] = "idle"
                 PROVE  \/ Cardinality(RunningIn(Effect)) = globalLimit
                        \/ Cardinality(RunningIn(Members(groups, g))) = groups[g].limit
    BY DEF NoIdleCapacity
  <2>2. activeAll = globalLimit \/ ~Ready(g)
    BY <1>1, <2>1 DEF SchedInv, Judged
  <2>3. groups[g].effects \in Seq(Effect) /\ groups[g].limit \in Nat \ {0}
    BY <1>1, GroupType DEF SchedInv, SchedType, Group
  <2>4. PICK i \in DOMAIN groups[g].effects : e = groups[g].effects[i]
    BY <2>1 DEF Members
  <2>5. i > next[g] /\ i \in Nat /\ i <= Len(groups[g].effects) /\ next[g] \in Nat
    BY <1>1, <2>1, <2>3, <2>4 DEF SchedInv, SchedType, Ordered
  <2>6. next[g] < Len(groups[g].effects)
    BY <2>3, <2>5
  <2>7. active[g] = Cardinality(RunningIn(Members(groups, g))) /\ active[g] <= groups[g].limit
        /\ activeAll = Cardinality(RunningIn(Effect)) /\ active[g] \in Nat
    BY <1>1, RunningIsActive DEF SchedInv, SchedType, Counted
  <2> QED BY <2>2, <2>3, <2>6, <2>7 DEF Ready
<1> QED BY <1>1, SchedInvariance, PTL

-------------------------------------------------------------------------------
\* The effects of the pool are those of the batch.
LEMMA PoolEffects ==
  ASSUME NEW G
  PROVE  UNION {g.effects : g \in {[effects |-> Members(G, h), limit |-> G[h].limit] : h \in DOMAIN G}}
           = Batched(G)
<1> DEFINE P == {[effects |-> Members(G, h), limit |-> G[h].limit] : h \in DOMAIN G}
<1>1. ASSUME NEW h \in DOMAIN G PROVE \E g \in P : g.effects = Members(G, h)
  <2>1. [effects |-> Members(G, h), limit |-> G[h].limit] \in P
    OBVIOUS
  <2> QED BY <2>1
<1>2. ASSUME NEW g \in P PROVE \E h \in DOMAIN G : g.effects = Members(G, h)
  OBVIOUS
<1> HIDE DEF P
<1>3. UNION {g.effects : g \in P} = UNION {Members(G, h) : h \in DOMAIN G}
  BY <1>1, <1>2
<1> QED BY <1>3 DEF P, Batched

AllDone == settled = Total <=> \A f \in Batched(groups) : status[f] \in Ended

\* The counter says whether everything has ended, in every state.
LEMMA CountedAll == SchedInv => AllDone
  BY AllEnded DEF SchedInv, AllDone

\* The start of the scheduler is the pool's.
LEMMA StartIsBegin ==
  ASSUME SchedInv, NEW b, IsBatch(b), Start(b)
  PROVE  Pool!Begin
<1>1. SchedInv'
  BY StartStep
<1>2. \A g \in Group' : Members(groups', g) \subseteq Effect
  BY <1>1, MembersAreEffects DEF SchedInv, SchedType, Group
<1>3. Batched(groups') \subseteq Effect /\ IsFiniteSet(Batched(groups'))
  BY <1>1, MembersAreEffects, Finite DEF SchedInv, SchedType
<1>4. settled = 0 /\ promise = "none"
  BY DEF Start, SchedInv, Judged
<1>5. promise' = IF Batched(groups') = {} THEN "resolved" ELSE "pending"
  BY <1>3, <1>4, FS_EmptySet DEF Start, Launch
<1>6. UNION {g.effects : g \in {[effects |-> Members(groups', g), limit |-> groups'[g].limit] : g \in Group'}}
        = Batched(groups')
  BY PoolEffects DEF Group
<1>7. UNCHANGED <<status, firstError>>
  BY DEF Start
<1> QED BY <1>2, <1>4, <1>5, <1>6, <1>7 DEF Pool!Begin

\* An effect that the loop starts is one that the pool may start.
LEMMA LaunchIsLaunch ==
  ASSUME SchedInv, LaunchNext
  PROVE  \E e \in Effect : Pool!Launch(e)
<1>1. PICK g \in Group :
        /\ NextReadyGroup(g)
        /\ status' = [status EXCEPT ![groups[g].effects[next[g] + 1]] = "running"]
  BY DEF LaunchNext
<1> DEFINE e == groups[g].effects[next[g] + 1]
<1>2. Ready(g)
  BY <1>1 DEF NextReadyGroup
<1>3. groups[g].effects \in Seq(Effect) /\ groups[g].limit \in Nat \ {0} /\ next[g] \in Nat
      /\ active[g] \in Nat
  BY GroupType DEF SchedInv, SchedType, Group
<1>4. next[g] + 1 \in DOMAIN groups[g].effects /\ e \in Effect /\ e \in Members(groups, g)
  <2>1. next[g] + 1 \in 1 .. Len(groups[g].effects)
    BY <1>2, <1>3 DEF Ready
  <2>2. e \in Effect
    BY <1>3, <2>1, ElementOfSeq
  <2> QED BY <1>3, <2>1, <2>2 DEF Members
<1>5. status[e] = "idle"
  BY <1>3, <1>4 DEF SchedInv, Ordered
<1> HIDE DEF e
<1>6. status' = [status EXCEPT ![e] = "running"]
  BY <1>1 DEF e
<1>7. \A S : Pool!Ran(status, S) = RunningIn(S)
  BY DEF Pool!Ran, RunningIn
<1>8. Cardinality(Pool!Ran(status, Effect)) < globalLimit
  BY <1>7, RunningIsActive DEF LaunchNext, SchedInv, Counted
<1>9. Cardinality(Pool!Ran(status, Members(groups, g))) < groups[g].limit
  <2>1. active[g] = Cardinality(RunningIn(Members(groups, g)))
    BY RunningIsActive DEF SchedInv, Counted
  <2> QED BY <2>1, <1>2, <1>7 DEF Ready
<1>10. promise = "pending" /\ firstError = NoError
  BY DEF LaunchNext, SchedInv, Judged
<1>11. \E h \in {[effects |-> Members(groups, g_1), limit |-> groups[g_1].limit] : g_1 \in Group} :
          e \in h.effects /\ Cardinality(Pool!Ran(status, h.effects)) < h.limit
  <2> DEFINE h == [effects |-> Members(groups, g), limit |-> groups[g].limit]
  <2>1. h \in {[effects |-> Members(groups, g_1), limit |-> groups[g_1].limit] : g_1 \in Group}
    OBVIOUS
  <2>2. h.effects = Members(groups, g) /\ h.limit = groups[g].limit
    OBVIOUS
  <2> HIDE DEF h
  <2> QED BY <2>1, <2>2, <1>4, <1>9
<1>12. UNCHANGED <<{[effects |-> Members(groups, h), limit |-> groups[h].limit] : h \in Group},
                   globalLimit, firstError, promise>>
  BY DEF LaunchNext, Group
<1>13. Pool!Launch(e)
  <2> DEFINE P == {[effects |-> Members(groups, h), limit |-> groups[h].limit] : h \in Group}
  <2>1. \E h \in P : e \in h.effects /\ Cardinality(Pool!Ran(status, h.effects)) < h.limit
    BY <1>11
  <2>2. P' = P
    BY <1>12
  <2> HIDE DEF P
  <2>3. \A S : Pool!Cardinality(S) = Cardinality(S)
    BY DEF Pool!Cardinality, Cardinality
  <2>4. /\ promise = "pending" /\ firstError = NoError
        /\ status[e] = "idle"
        /\ Cardinality(Pool!Ran(status, Effect)) < globalLimit
        /\ \E h \in P : e \in h.effects /\ Cardinality(Pool!Ran(status, h.effects)) < h.limit
        /\ status' = [status EXCEPT ![e] = "running"]
        /\ P' = P /\ UNCHANGED <<globalLimit, firstError, promise>>
    BY <1>5, <1>6, <1>8, <1>10, <1>12, <2>1, <2>2
  <2> QED BY ONLY <2>3, <2>4 DEF P, Pool!Launch
<1> QED BY <1>4, <1>13

\* What the batch decides when an effect ends is the pool's verdict.
LEMMA EndIsEnd ==
  ASSUME SchedInv, NEW e \in Effect, Settle(e) \/ Fail(e)
  PROVE  \E o \in Pool!Ended : Pool!End(e, o)
<1>0. SchedInv'
  BY SettleStep, FailStep
<1>1. PICK o \in Ended :
        /\ Ends(e, o)
        /\ firstError' = IF o = "failed" /\ firstError = NoError THEN e ELSE firstError
  BY DEF Settle, Fail, Ended
<1>2. /\ Moves(status, status', e, o) /\ status[e] = "running" /\ promise = "pending"
      /\ groups' = groups /\ Group' = Group /\ globalLimit' = globalLimit
  BY <1>1, EndsCounts
<1>3. status' = [status EXCEPT ![e] = o]
  BY <1>2 DEF Moves
<1>4. promise' = Pool!Verdict(status', firstError')
  <2> DEFINE ran == {f \in Batched(groups) : status'[f] = "running"}
  <2>1. Batched(groups) \subseteq Effect
    BY MembersAreEffects DEF SchedInv, SchedType
  <2>2. ran = InState(status', Effect, Active)
    BY <1>0, <1>2, <2>1 DEF InState, Active, SchedInv, Ordered
  <2>3. IsFiniteSet(ran) /\ activeAll' = Cardinality(ran) /\ activeAll' \in Nat
    <3>1. IsFiniteSet(InState(status', Effect, Active))
      BY Finite
    <3> QED BY <3>1, <1>0, <2>2 DEF SchedInv, SchedType, Counted
  <2>4. ran = {} <=> activeAll' = 0
    BY <2>3, FS_EmptySet
  <2>5. settled' = Total' <=> \A f \in Batched(groups) : status'[f] \in Ended
    <3>1. AllDone'
      BY <1>0, CountedAll, PTL
    <3> QED BY <1>2, <3>1 DEF AllDone
  <2>6. Pool!Ran(status', Batched(groups)) = ran
    BY DEF Pool!Ran
  <2>7. Pool!Verdict(status', firstError') =
          IF ran # {} THEN "pending"
          ELSE IF firstError' # NoError THEN "rejected"
          ELSE IF \A f \in Batched(groups) : status'[f] \in Ended THEN "resolved" ELSE "pending"
    BY PoolEffects, <2>6 DEF Pool!Verdict, Pool!Ended, Ended, Group
  <2> HIDE DEF ran
  <2>8. promise' = IF activeAll' # 0 THEN "pending"
                   ELSE IF firstError' # NoError THEN "rejected"
                   ELSE IF settled' = Total' THEN "resolved" ELSE "pending"
    <3>1. promise' # "none"
      BY <1>2 DEF Settle, Fail, RejectWhenIdle, Launch
    <3>2. promise' = "resolved" => activeAll' = 0
      <4>1. ASSUME promise' = "resolved" PROVE ran = {}
        BY <4>1, <1>0, <2>5 DEF ran, SchedInv, Judged, Ended
      <4> QED BY <4>1, <2>4
    <3>3. promise' \in {"none", "pending", "resolved", "rejected"} /\ activeAll' \in Nat
      BY <1>0 DEF SchedInv, SchedType
    <3> QED BY <1>0, <3>1, <3>2, <3>3 DEF SchedInv, Judged
  <2> QED BY <2>4, <2>5, <2>7, <2>8
<1>5. UNCHANGED <<{[effects |-> Members(groups, g), limit |-> groups[g].limit] : g \in Group}, globalLimit>>
  BY <1>2
<1>6. Pool!End(e, o)
  BY <1>1, <1>2, <1>3, <1>4, <1>5 DEF Pool!End
<1> QED BY <1>1, <1>6 DEF Pool!Ended, Ended

\* runGroupedBounded implements EffectPool: it starts only what the pool may start,
\* nothing after an error, and decides as the pool does.
THEOREM SchedulerImplementsPool == SchedSpec => ImplementsPool
<1>1. SchedInit => Pool!Init
  BY DEF SchedInit, Pool!Init, Group
<1>2. ASSUME SchedInv, [SchedNext]_schedVars PROVE [Pool!Next]_(Pool!poolVars)
  <2>1. CASE UNCHANGED schedVars
    BY <2>1 DEF schedVars, Pool!poolVars, Group
  <2>2. CASE \E b \in Batches : Start(b)
    BY <2>2, <1>2, StartIsBegin, SchedulerAssumption DEF Pool!Next
  <2>3. CASE LaunchNext
    BY <2>3, <1>2, LaunchIsLaunch DEF Pool!Next
  <2>4. CASE LaunchDone
    BY <2>4 DEF LaunchDone, Pool!poolVars, Group
  <2>5. CASE \E e \in Effect : Settle(e) \/ Fail(e)
    BY <2>5, <1>2, EndIsEnd DEF Pool!Next
  <2> QED BY <1>2, <2>1, <2>2, <2>3, <2>4, <2>5 DEF SchedNext
<1> QED BY <1>1, <1>2, SchedInvariance, PTL DEF SchedSpec, Pool!Spec, ImplementsPool

-------------------------------------------------------------------------------
Less == OpToRel(<, Nat)

\* A set of natural numbers has a least element.
LEMMA Least ==
  ASSUME NEW T, T \subseteq Nat, T # {}
  PROVE  \E x \in T : \A y \in T : x <= y
<1>1. \A x, y \in Nat : <<x, y>> \in Less <=> x < y
  BY DEF Less, OpToRel
<1>2. IsWellFoundedOn(Less, Nat)
  BY NatLessThanWellFounded DEF Less
<1>3. PICK x \in T : \A y \in T : ~(<<y, x>> \in Less)
  BY <1>2, WFMin
<1>4. \A y \in T : ~(y < x)
  BY <1>1, <1>3
<1> QED BY <1>4

\* Induction, for what can be said by membership of a set.
LEMMA Inductive ==
  ASSUME NEW S, 0 \in S, \A n \in Nat : n \in S => n + 1 \in S
  PROVE  Nat \subseteq S
<1> SUFFICES ASSUME Nat \ S # {} PROVE FALSE
  OBVIOUS
<1>1. PICK x \in Nat \ S : \A y \in Nat \ S : x <= y
  BY Least
<1>2. x # 0 /\ x - 1 \in Nat
  BY <1>1
<1>3. x - 1 \in S
  BY <1>1, <1>2
<1> QED BY <1>1, <1>2, <1>3

Ascends(s) == \A i, j \in DOMAIN s : i < j => s[i] < s[j]

\* The numbers of a finite set can be put in order.
LEMMA OrderExists ==
  ASSUME NEW n \in Nat, NEW S, S \subseteq 1 .. n
  PROVE  \E s \in [1 .. Cardinality(S) -> S] : Ascends(s)
<1> DEFINE Orders(T) == \E s \in [1 .. Cardinality(T) -> T] : Ascends(s)
           Good == {m \in Nat : \A T \in SUBSET (1 .. m) : Orders(T)}
<1>1. 0 \in Good
  <2> SUFFICES ASSUME NEW T \in SUBSET (1 .. 0) PROVE Orders(T)
    OBVIOUS
  <2>1. 1 .. 0 = {}
    OBVIOUS
  <2>2. T = {} /\ Cardinality(T) = 0
    BY <2>1, FS_EmptySet
  <2> DEFINE s == [i \in {} |-> i]
  <2>3. s \in [1 .. Cardinality(T) -> T] /\ DOMAIN s = {}
    BY <2>1, <2>2
  <2> HIDE DEF s
  <2> QED BY <2>3 DEF Ascends
<1>2. ASSUME NEW m \in Nat, m \in Good PROVE m + 1 \in Good
  <2> SUFFICES ASSUME NEW T \in SUBSET (1 .. m + 1) PROVE Orders(T)
    OBVIOUS
  <2>1. CASE m + 1 \notin T
    <3>1. T \in SUBSET (1 .. m)
      BY <2>1
    <3> QED BY <1>2, <3>1
  <2>2. CASE m + 1 \in T
    <3> DEFINE U == T \ {m + 1}
               c == Cardinality(T)
    <3>1. U \in SUBSET (1 .. m)
      OBVIOUS
    <3>2. PICK u \in [1 .. Cardinality(U) -> U] : Ascends(u)
      BY <1>2, <3>1
    <3>3. IsFiniteSet(T) /\ c \in Nat /\ Cardinality(U) = c - 1
      <4>1. IsFiniteSet(1 .. m + 1)
        BY FS_Interval
      <4>2. IsFiniteSet(T)
        BY <4>1, FS_Subset
      <4> QED BY <4>2, <2>2, FS_CardinalityType, FS_RemoveElement
    <3>4. c # 0
      BY <2>2, <3>3, FS_EmptySet
    <3> DEFINE s == [i \in 1 .. c |-> IF i = c THEN m + 1 ELSE u[i]]
    <3> HIDE DEF c, U
    <3>5. \A i \in 1 .. c - 1 : u[i] \in T /\ u[i] \in 1 .. m
      BY <3>1, <3>2, <3>3 DEF U
    <3>6. s \in [1 .. c -> T]
      BY <2>2, <3>3, <3>4, <3>5
    <3>7. \A i, j \in 1 .. c - 1 : i < j => u[i] < u[j]
      BY <3>2, <3>3 DEF Ascends
    <3>8. Ascends(s)
      <4> SUFFICES ASSUME NEW i \in 1 .. c, NEW j \in 1 .. c, i < j PROVE s[i] < s[j]
        BY DEF Ascends
      <4>1. i \in 1 .. c - 1 /\ s[i] = u[i]
        BY <3>3, <3>4
      <4>2. CASE j = c
        BY <4>1, <4>2, <3>5
      <4>3. CASE j # c
        BY <4>1, <4>3, <3>3, <3>7
      <4> QED BY <4>2, <4>3
    <3> HIDE DEF s
    <3> QED BY <3>6, <3>8 DEF c
  <2> QED BY <2>1, <2>2
<1> HIDE DEF Good
<1>3. Nat \subseteq Good
  BY <1>1, <1>2, Inductive
<1>4. n \in Good
  BY <1>3
<1> QED BY <1>4 DEF Good

\* InOrder lists the numbers of a set, each of them once, in ascending order.
LEMMA InOrderLists ==
  ASSUME NEW n \in Nat, NEW S, S \subseteq 1 .. n
  PROVE  /\ InOrder(S) \in Seq(S) /\ Len(InOrder(S)) = Cardinality(S) /\ Cardinality(S) \in Nat
         /\ \A i, j \in DOMAIN InOrder(S) : InOrder(S)[i] = InOrder(S)[j] => i = j
         /\ \A x \in S : \E i \in DOMAIN InOrder(S) : InOrder(S)[i] = x
<1>1. IsFiniteSet(S) /\ Cardinality(S) \in Nat
  <2>1. IsFiniteSet(1 .. n)
    BY FS_Interval
  <2> QED BY <2>1, FS_Subset, FS_CardinalityType
<1> DEFINE s == InOrder(S)
<1>2. s \in [1 .. Cardinality(S) -> S] /\ \A i, j \in DOMAIN s : i < j => s[i] < s[j]
  BY OrderExists DEF InOrder, Ascends
<1> HIDE DEF s
<1>3. s \in Seq(S) /\ Len(s) = Cardinality(S) /\ DOMAIN s = 1 .. Cardinality(S)
  BY <1>1, <1>2
<1>a. S \subseteq Nat
  OBVIOUS
<1>4. ASSUME NEW i \in DOMAIN s, NEW j \in DOMAIN s, s[i] = s[j] PROVE i = j
  <2>1. s[i] \in S /\ s[j] \in S /\ i \in Nat /\ j \in Nat
    BY <1>1, <1>2, <1>3
  <2>2. s[i] \in Nat /\ s[j] \in Nat
    BY <2>1, <1>a
  <2> QED BY <2>1, <2>2, <1>2, <1>4
<1>5. s \in Injection(1 .. Cardinality(S), S)
  BY <1>2, <1>3, <1>4 DEF Injection, IsInjective
<1>6. Cardinality(1 .. Cardinality(S)) = Cardinality(S)
  BY <1>1, FS_Interval
<1>7. s \in Surjection(1 .. Cardinality(S), S)
  BY <1>1, <1>5, <1>6, FS_Injection
<1> QED BY <1>1, <1>3, <1>4, <1>7 DEF s, Surjection

-------------------------------------------------------------------------------
\* What the preflight permits the controller supports.
LEMMA PermittedIsSupported ==
  ASSUME NEW m, NEW r, NEW p, NEW deferred,
         Admissible(m, r, p), NeedsApproval(m, r, p) => deferred
  PROVE  Supports(m, r, p, deferred)
  BY DEF Admissible, Accepts, Permitted, Supports, IsHttp

\* Of what the preflight permits, the policy refuses with an approval only a best_effort
\* driver that durableAutomatic = FALSE let through.
LEMMA PermittedIsAllowed ==
  ASSUME NEW m, NEW r, NEW p, Admissible(m, r, p), ~p.auditOnly, ~Allows(m, r, p, TRUE, TRUE)
  PROVE  m.recovery = "best_effort" /\ ~p.bestEffort /\ ~p.durable
  BY DEF Admissible, Permitted, Allows, DurableAllowed

\* What is allowed while an outcome may be reused is allowed within the budget.
LEMMA AllowedInBudget ==
  ASSUME NEW m, NEW r, NEW p, NEW approved, Allows(m, r, p, approved, TRUE),
         IsLiveModel(m, r) => p.budget >= 1
  PROVE  Allows(m, r, p, approved, FALSE)
  BY DEF Allows

\* A candidate is a driver that the rules admit, and that needs no approval where
\* none can be given.
LEMMA CandidateFits ==
  ASSUME NEW s, NEW r, NEW d \in Candidates(s, r)
  PROVE  /\ d \in DOMAIN s.drivers
         /\ Admissible(s.drivers[d], r, s.policy)
         /\ NeedsApproval(s.drivers[d], r, s.policy) => s.deferred
  BY DEF Candidates

\* Of some drivers one is preferred: the first of the best.
LEMMA PreferredExists ==
  ASSUME NEW s, NEW r, NEW ds, ds # {}, ds \subseteq DOMAIN s.drivers,
         DOMAIN s.drivers \subseteq Nat, IsFiniteSet(r.prefers)
  PROVE  Preferred(s, r, ds) \in ds
<1> DEFINE score(d) == Score(s.drivers[d], r)
           most == Cardinality(r.prefers)
<1>1. most \in Nat /\ \A d \in ds : score(d) \in Nat /\ score(d) <= most
  <2>1. most \in Nat
    BY FS_CardinalityType
  <2>2. ASSUME NEW d \in ds PROVE score(d) \in Nat /\ score(d) <= most
    <3>1. s.drivers[d].labels \cap r.prefers \in SUBSET r.prefers
      OBVIOUS
    <3> HIDE DEF most
    <3>2. IsFiniteSet(s.drivers[d].labels \cap r.prefers)
          /\ Cardinality(s.drivers[d].labels \cap r.prefers) <= Cardinality(r.prefers)
      BY <3>1, FS_Subset
    <3> QED BY <3>2, FS_CardinalityType DEF Score, most
  <2> QED BY <2>1, <2>2
<1> HIDE DEF score, most
<1> DEFINE gaps == {most - score(d) : d \in ds}
<1>2. gaps \subseteq Nat /\ gaps # {}
  BY <1>1
<1>3. PICK x \in gaps : \A y \in gaps : x <= y
  BY <1>2, Least
<1> DEFINE best == {d \in ds : most - score(d) = x}
<1>4. best \subseteq Nat /\ best # {}
  BY <1>3
<1>5. PICK d \in best : \A c \in best : d <= c
  BY <1>4, Least
<1>6. ASSUME NEW c \in ds PROVE score(d) > score(c) \/ (score(d) = score(c) /\ d <= c)
  <2>1. most - score(d) = x /\ d \in ds
    BY <1>5
  <2>2. x <= most - score(c)
    BY <1>3
  <2>3. score(d) \in Nat /\ score(c) \in Nat /\ score(d) >= score(c)
    BY <1>1, <2>1, <2>2
  <2>4. ASSUME score(d) = score(c) PROVE c \in best
    BY <2>1, <2>4
  <2>5. c \in best => d <= c
    BY <1>5
  <2> QED BY <2>3, <2>4, <2>5
<1>7. d \in ds
  BY <1>5
<1> HIDE DEF best
<1> QED BY <1>6, <1>7 DEF Preferred, score

\* The preflight routes a request to a candidate or to none.
LEMMA RouteIsCandidate ==
  ASSUME NEW s, NEW r, NEW live0, DOMAIN s.drivers \subseteq Nat, IsFiniteSet(r.prefers)
  PROVE  Route(s, r, live0) \in Candidates(s, r) \cup {None}
<1> DEFINE all == Candidates(s, r)
           best == Preferred(s, r, all)
           free == {d \in all : ~Charges(s.drivers[d], r)}
           equal == {d \in free : Score(s.drivers[d], r) = Score(s.drivers[best], r)}
<1>1. all \subseteq DOMAIN s.drivers
  BY DEF Candidates
<1>2. all # {} => best \in all
  BY <1>1, PreferredExists
<1>3. free # {} => Preferred(s, r, free) \in all
  <2>1. free \subseteq DOMAIN s.drivers /\ free \subseteq all
    BY <1>1
  <2> HIDE DEF free
  <2> QED BY <2>1, PreferredExists
<1>4. equal # {} => Preferred(s, r, equal) \in all
  <2>1. equal \subseteq DOMAIN s.drivers /\ equal \subseteq all
    BY <1>1
  <2> HIDE DEF equal
  <2> QED BY <2>1, PreferredExists
<1> QED BY <1>2, <1>3, <1>4 DEF Route

-------------------------------------------------------------------------------
Requests == DOMAIN scenario.requests
Items == [index : Requests, driver : DOMAIN scenario.drivers]

BatchType ==
  /\ scenario \in Scenarios
  /\ phase \in {"plan", "preflight", "context", "run", "handed", "thrown"}
  /\ planned \in Seq(Requests) /\ routes \in Seq(DOMAIN scenario.drivers \cup {None})
  /\ live \in Nat /\ blocked \in BOOLEAN
  /\ pending \in Seq(Items) /\ approvals \in Seq(BOOLEAN) /\ selected \in Seq(Items)
  /\ unresolved \subseteq Requests
  /\ asked \subseteq Requests

\* Each stage leaves what the later ones make as it was.
Staged ==
  /\ phase = "plan" => planned = <<>> /\ routes = <<>> /\ live = 0 /\ ~blocked /\ unresolved = {}
  /\ phase \in {"plan", "preflight"} => pending = <<>> /\ approvals = <<>> /\ selected = <<>>
  /\ phase \in {"plan", "preflight", "context"} =>
       asked = {} /\ effects = <<>> /\ cause = None /\ promise = "none"

Charged ==
  {k \in DOMAIN routes :
     routes[k] # None /\ Charges(scenario.drivers[routes[k]], scenario.requests[planned[k]])}

\* What the preflight's report says of the requests it has seen.
Reported ==
  /\ Len(routes) <= Len(planned)
  /\ \A i, j \in DOMAIN planned : planned[i] = planned[j] => i = j
  /\ \A k \in DOMAIN routes :
       routes[k] # None => routes[k] \in Candidates(scenario, scenario.requests[planned[k]])
  /\ ~blocked => \A k \in DOMAIN routes :
       IF routes[k] = None THEN policy.partial
       ELSE ~Spoiled(scenario.drivers[routes[k]], scenario.requests[planned[k]])
  /\ live = Cardinality(Charged)

\* What is bound is what an accepted report has routed.
Bounded ==
  /\ pending # <<>> => ReportAccepted /\ Len(routes) = Len(planned)
  /\ \A i \in DOMAIN pending : \E p \in DOMAIN routes :
       routes[p] # None /\ pending[i].index = planned[p] /\ pending[i].driver = routes[p]
  /\ \A i, j \in DOMAIN pending : pending[i].index = pending[j].index => i = j

\* What is selected is what the policy has allowed, with its approval.
Chosen ==
  /\ Len(approvals) <= Len(pending)
  /\ Len(selected) <= Len(approvals)
  /\ \A k \in DOMAIN selected : \E j \in DOMAIN approvals :
       /\ pending[j] = selected[k]
       /\ Allows(Driver(pending[j]), Request(pending[j]), policy, approvals[j], TRUE)
  /\ \A k, l \in DOMAIN selected : selected[k].index = selected[l].index => k = l

Questioned == \A k \in DOMAIN selected : selected[k].index \in asked => Allowed(k)

PlannedIndexes == {planned[k] : k \in DOMAIN planned}
SelectedIndexes == {selected[k].index : k \in DOMAIN selected}
Ahead == {pending[j].index : j \in {j \in DOMAIN pending : j > Len(approvals)}}

\* Where the requests of the turn are.
Accounted ==
  /\ unresolved # {} => policy.partial
  /\ phase = "preflight" =>
       unresolved \cup PlannedIndexes = Requests /\ unresolved \cap PlannedIndexes = {}
  /\ phase = "context" =>
       /\ unresolved \cup SelectedIndexes \cup Ahead = Requests
       /\ unresolved \cap (SelectedIndexes \cup Ahead) = {}
  /\ phase = "run" =>
       unresolved \cup SelectedIndexes = Requests /\ unresolved \cap SelectedIndexes = {}
  /\ EveryRequestAccounted

\* The effects that run are the selected ones, and have what the scheduler settled.
Performed ==
  phase = "run" =>
    /\ Batched(groups) = DOMAIN selected
    /\ effects \in [DOMAIN selected -> Outcomes \cup {None}]
    /\ \A k \in DOMAIN selected : effects[k] # None <=> status[k] = "settled"
    /\ \A k \in DOMAIN selected : effects[k] = "late" => policy.partial

BatchInv ==
  /\ BatchType /\ Staged /\ Reported /\ Bounded /\ Chosen /\ Questioned /\ Accounted /\ Performed
  /\ AdmittedIsServed
  /\ SchedInv

-------------------------------------------------------------------------------
\* What a scenario is made of.
LEMMA ScenarioType ==
  ASSUME BatchType
  PROVE  /\ Len(scenario.requests) \in Nat /\ Requests = 1 .. Len(scenario.requests)
         /\ Requests \subseteq Effect /\ Requests \subseteq Nat
         /\ \A i \in Requests : IsFiniteSet(scenario.requests[i].prefers)
         /\ DOMAIN scenario.drivers \subseteq Nat /\ None \notin DOMAIN scenario.drivers
         /\ \A d \in DOMAIN scenario.drivers : scenario.drivers[d].limit \in Nat \ {0}
         /\ policy.concurrency \in Nat \ {0} /\ policy.budget \in Nat
         /\ None \notin Nat /\ None \notin Causes /\ None \notin Outcomes
<1>1. IsScenario(scenario) /\ None \notin Nat /\ None \notin Causes /\ None \notin Outcomes
  BY BatchAssumption DEF BatchType
<1>2. Requests \subseteq Nat
  BY <1>1 DEF IsScenario, Requests
<1> QED BY <1>1, <1>2 DEF IsScenario, Requests, policy

\* As many requests are selected as there are, at most.
LEMMA PositionsAreEffects ==
  ASSUME BatchType, Chosen, Bounded
  PROVE  /\ Len(selected) \in Nat /\ DOMAIN selected = 1 .. Len(selected)
         /\ Len(selected) <= Len(scenario.requests)
         /\ DOMAIN selected \subseteq Effect
         /\ \A k \in DOMAIN selected : selected[k].index \in Requests
                                       /\ selected[k].driver \in DOMAIN scenario.drivers
<1>1. Len(selected) \in Nat /\ DOMAIN selected = 1 .. Len(selected)
      /\ \A k \in DOMAIN selected : selected[k] \in Items
  BY DEF BatchType
<1>2. \A k \in DOMAIN selected : selected[k].index \in Requests
                                 /\ selected[k].driver \in DOMAIN scenario.drivers
  BY <1>1 DEF Items
<1> DEFINE f == [k \in 1 .. Len(selected) |-> selected[k].index]
<1>3. f \in Injection(1 .. Len(selected), Requests)
  BY <1>1, <1>2 DEF Chosen, Injection, IsInjective
<1>4. /\ Len(scenario.requests) \in Nat /\ Requests = 1 .. Len(scenario.requests)
      /\ Requests \subseteq Effect
  BY ScenarioType
<1>5. IsFiniteSet(Requests) /\ Cardinality(Requests) = Len(scenario.requests)
  BY <1>4, FS_Interval
<1>6. Cardinality(1 .. Len(selected)) <= Cardinality(Requests)
  BY <1>3, <1>5, FS_Injection
<1>7. Cardinality(1 .. Len(selected)) = Len(selected)
  BY <1>1, FS_Interval
<1> QED BY <1>1, <1>2, <1>4, <1>5, <1>6, <1>7

\* A driver of a selected effect has a first one.
LEMMA FirstExists ==
  ASSUME BatchType, NEW k \in DOMAIN selected
  PROVE  LET f == First(selected[k].driver)
         IN f \in DOMAIN selected /\ selected[f].driver = selected[k].driver
<1> DEFINE d == selected[k].driver
           T == {j \in DOMAIN selected : selected[j].driver = d}
<1>1. DOMAIN selected \subseteq Nat /\ DOMAIN selected = 1 .. Len(selected) /\ Len(selected) \in Nat
  BY DEF BatchType
<1>2. T \subseteq Nat /\ T # {}
  BY <1>1
<1>3. PICK x \in T : \A y \in T : x <= y
  BY <1>2, Least
<1>4. x \in DOMAIN selected /\ selected[x].driver = d
  BY <1>3
<1>5. \A j \in 1 .. x - 1 : selected[j].driver # d
  <2> SUFFICES ASSUME NEW j \in 1 .. x - 1, selected[j].driver = d PROVE FALSE
    OBVIOUS
  <2>1. j \in DOMAIN selected
    BY <1>1, <1>4
  <2>2. j \in T
    BY <2>1
  <2> QED BY <1>1, <1>3, <1>4, <2>2
<1> HIDE DEF d, T
<1> QED BY <1>4, <1>5 DEF First, d

\* groupPendingEffects makes a batch of the selected effects.
LEMMA BatchIsBatch ==
  ASSUME BatchType, Chosen, Bounded
  PROVE  IsBatch(Batch) /\ Batched(Batch.groups) = DOMAIN selected
<1> DEFINE n == Len(selected)
           S == {k \in DOMAIN selected : First(selected[k].driver) = k}
           firsts == InOrder(S)
           driver(g) == selected[firsts[g]].driver
           lim(g) == Lesser(scenario.drivers[driver(g)].limit, policy.concurrency)
           G == Batch.groups
<1>1. n \in Nat /\ DOMAIN selected = 1 .. n /\ DOMAIN selected \subseteq Effect
      /\ \A k \in DOMAIN selected : selected[k].driver \in DOMAIN scenario.drivers
  BY PositionsAreEffects
<1>2. policy.concurrency \in Nat \ {0}
      /\ \A d \in DOMAIN scenario.drivers : scenario.drivers[d].limit \in Nat \ {0}
  BY ScenarioType
<1>3. /\ firsts \in Seq(S)
      /\ \A i, j \in DOMAIN firsts : firsts[i] = firsts[j] => i = j
      /\ \A x \in S : \E i \in DOMAIN firsts : firsts[i] = x
  <2>1. S \subseteq 1 .. n
    BY <1>1
  <2> HIDE DEF S, n
  <2> QED BY <1>1, <2>1, InOrderLists
<1>4. ASSUME NEW d
      PROVE  /\ PositionsOf(d) \in Seq({k \in DOMAIN selected : selected[k].driver = d})
             /\ \A i, j \in DOMAIN PositionsOf(d) : PositionsOf(d)[i] = PositionsOf(d)[j] => i = j
             /\ \A x \in DOMAIN selected : selected[x].driver = d =>
                  \E i \in DOMAIN PositionsOf(d) : PositionsOf(d)[i] = x
  <2> DEFINE P == {k \in DOMAIN selected : selected[k].driver = d}
  <2>1. P \subseteq 1 .. n
    BY <1>1
  <2>2. \A x \in DOMAIN selected : selected[x].driver = d => x \in P
    OBVIOUS
  <2>3. PositionsOf(d) = InOrder(P)
    BY DEF PositionsOf
  <2> HIDE DEF P, n
  <2>4. /\ InOrder(P) \in Seq(P)
        /\ \A i, j \in DOMAIN InOrder(P) : InOrder(P)[i] = InOrder(P)[j] => i = j
        /\ \A x \in P : \E i \in DOMAIN InOrder(P) : InOrder(P)[i] = x
    BY <1>1, <2>1, InOrderLists
  <2> QED BY <2>2, <2>3, <2>4 DEF P
<1>5. /\ Batch.limit = policy.concurrency
      /\ DOMAIN Batch = {"groups", "limit"}
      /\ G = [g \in DOMAIN firsts |-> [effects |-> PositionsOf(driver(g)), limit |-> lim(g)]]
  BY DEF Batch
<1> HIDE DEF G, firsts, lim, driver, S
<1>6. /\ DOMAIN G = DOMAIN firsts /\ DOMAIN firsts = 1 .. Len(firsts) /\ Len(firsts) \in Nat
      /\ \A g \in DOMAIN firsts : G[g] = [effects |-> PositionsOf(driver(g)), limit |-> lim(g)]
  <2>1. DOMAIN firsts = 1 .. Len(firsts) /\ Len(firsts) \in Nat
    BY <1>3
  <2> QED BY <1>5, <2>1
<1>7. ASSUME NEW g \in DOMAIN firsts
      PROVE  G[g].effects = PositionsOf(driver(g)) /\ G[g].limit = lim(g)
  <2>1. G[g] = [effects |-> PositionsOf(driver(g)), limit |-> lim(g)]
    BY <1>6
  <2> QED BY <2>1
<1>8. ASSUME NEW g \in DOMAIN firsts
      PROVE  firsts[g] \in DOMAIN selected /\ First(driver(g)) = firsts[g]
  <2>1. firsts[g] \in S
    BY <1>3, <1>6
  <2> QED BY <2>1 DEF S, driver
<1>9. ASSUME NEW g \in DOMAIN firsts PROVE lim(g) \in Nat \ {0}
  <2>1. driver(g) \in DOMAIN scenario.drivers
    BY <1>1, <1>8 DEF driver
  <2> QED BY <2>1, <1>2 DEF Lesser, lim
<1>10. ASSUME NEW g \in DOMAIN firsts, NEW i \in DOMAIN PositionsOf(driver(g))
       PROVE  PositionsOf(driver(g))[i] \in DOMAIN selected
              /\ selected[PositionsOf(driver(g))[i]].driver = driver(g)
  <2> DEFINE d == driver(g)
             P == {k \in DOMAIN selected : selected[k].driver = d}
  <2>1. PositionsOf(d) \in Seq(P)
    BY <1>4
  <2> HIDE DEF d, P
  <2>2. PositionsOf(d)[i] \in P
    BY <2>1, <1>10 DEF d
  <2> QED BY <2>2 DEF P, d
<1>11. G \in Seq([effects : Seq(Effect), limit : Nat \ {0}])
  <2> DEFINE R == [effects : Seq(Effect), limit : Nat \ {0}]
  <2>1. ASSUME NEW g \in DOMAIN firsts PROVE G[g] \in R
    <3> DEFINE P == {k \in DOMAIN selected : selected[k].driver = driver(g)}
               e == PositionsOf(driver(g))
    <3>1. e \in Seq(P) /\ P \subseteq Effect
      BY <1>1, <1>4
    <3> HIDE DEF P, e
    <3>2. e \in Seq(Effect)
      BY <3>1
    <3>3. G[g] = [effects |-> e, limit |-> lim(g)]
      BY <1>6 DEF e
    <3> QED BY <3>2, <3>3, <1>9
  <2> HIDE DEF R
  <2>2. G = [g \in 1 .. Len(firsts) |-> G[g]]
    BY <1>5, <1>6
  <2>3. G \in [1 .. Len(firsts) -> R]
    BY <1>6, <2>1, <2>2
  <2>4. G \in Seq(R)
    BY <1>6, <2>3
  <2> QED BY <2>4 DEF R
<1>12. ASSUME NEW g \in DOMAIN G, NEW h \in DOMAIN G, NEW i \in DOMAIN G[g].effects,
              NEW j \in DOMAIN G[h].effects, G[g].effects[i] = G[h].effects[j]
       PROVE  g = h /\ i = j
  <2>1. G[g].effects = PositionsOf(driver(g)) /\ G[h].effects = PositionsOf(driver(h))
        /\ g \in DOMAIN firsts /\ h \in DOMAIN firsts
    BY <1>6, <1>7
  <2>2. driver(g) = driver(h)
    BY <1>10, <1>12, <2>1
  <2>3. g = h
    <3>1. firsts[g] = firsts[h]
      BY <1>8, <2>1, <2>2
    <3> QED BY <1>3, <2>1, <3>1
  <2> DEFINE e == PositionsOf(driver(g))
  <2>4. i \in DOMAIN e /\ j \in DOMAIN e /\ e[i] = e[j]
    BY <1>12, <2>1, <2>3
  <2>5. i = j
    BY <1>4, <2>4
  <2> QED BY <2>3, <2>5
<1>13. Batched(G) = DOMAIN selected
  <2>1. ASSUME NEW e \in Batched(G) PROVE e \in DOMAIN selected
    <3>1. PICK g \in DOMAIN G : e \in Members(G, g)
      BY DEF Batched
    <3>2. PICK i \in DOMAIN G[g].effects : e = G[g].effects[i]
      BY <3>1 DEF Members
    <3> QED BY <1>6, <1>7, <1>10, <3>2
  <2>2. ASSUME NEW k \in DOMAIN selected PROVE k \in Batched(G)
    <3> DEFINE f == First(selected[k].driver)
    <3>1. f \in DOMAIN selected /\ selected[f].driver = selected[k].driver
      BY FirstExists
    <3>2. f \in S
      BY <3>1 DEF S
    <3>3. PICK g \in DOMAIN firsts : firsts[g] = f
      BY <1>3, <3>2
    <3>4. driver(g) = selected[k].driver
      BY <3>1, <3>3 DEF driver
    <3>5. PICK i \in DOMAIN PositionsOf(driver(g)) : PositionsOf(driver(g))[i] = k
      BY <1>4, <3>4
    <3>6. k \in Members(G, g)
      BY <1>7, <3>5 DEF Members
    <3> QED BY <1>6, <3>6 DEF Batched
  <2> QED BY <2>1, <2>2
<1> QED BY <1>2, <1>5, <1>11, <1>12, <1>13 DEF IsBatch, G

-------------------------------------------------------------------------------
\* The initial states satisfy the invariant.
LEMMA InitBatch == Init => BatchInv
<1> SUFFICES ASSUME Init PROVE BatchInv
  OBVIOUS
<1> USE DEF Init
<1>1. BatchType
  <2>1. /\ <<>> \in Seq(Requests) /\ <<>> \in Seq(DOMAIN scenario.drivers \cup {None})
        /\ <<>> \in Seq(Items) /\ <<>> \in Seq(BOOLEAN)
    OBVIOUS
  <2> QED BY <2>1 DEF BatchType
<1>2. Staged
  BY DEF Staged, SchedInit
<1>3. Reported
  <2>1. Charged = {}
    BY DEF Charged
  <2> QED BY <2>1, FS_EmptySet DEF Reported
<1>4. Bounded /\ Chosen /\ Questioned
  BY DEF Bounded, Chosen, Questioned
<1>5. Accounted
  BY DEF Accounted, EveryRequestAccounted
<1>6. Performed
  BY DEF Performed
<1>7. AdmittedIsServed
  <2>1. None # "unbound" /\ None # "refused" /\ None # "policy"
    BY BatchAssumption DEF Causes
  <2> QED BY <2>1 DEF AdmittedIsServed
<1>8. SchedInv
  BY SchedInitInv
<1> QED BY <1>1, <1>2, <1>3, <1>4, <1>5, <1>6, <1>7, <1>8 DEF BatchInv

chosenVars == <<scenario, reportVars, pending, approvals, selected>>

\* What a step that chooses nothing leaves.
LEMMA SameChoice ==
  ASSUME UNCHANGED chosenVars
  PROVE  /\ Reported => Reported'
         /\ Bounded => Bounded'
         /\ Chosen => Chosen'
         /\ Questioned /\ asked' = asked => Questioned'
         /\ Requests' = Requests /\ SelectedIndexes' = SelectedIndexes /\ Ahead' = Ahead
         /\ PlannedIndexes' = PlannedIndexes
         /\ AdmittedIsServed /\ cause' = cause => AdmittedIsServed'
<1> USE DEF chosenVars, reportVars
<1>1. policy' = policy
  BY DEF policy
<1>2. Charged' = Charged
  BY DEF Charged
<1>3. ReportAccepted' = ReportAccepted
  BY <1>1 DEF ReportAccepted
<1>4. Reported => Reported'
  BY <1>1, <1>2 DEF Reported
<1>5. Bounded => Bounded'
  BY <1>3 DEF Bounded
<1>6. Chosen => Chosen'
  BY <1>1 DEF Chosen, Driver, Request
<1>7. Questioned /\ asked' = asked => Questioned'
  BY <1>1 DEF Questioned, Allowed, Driver, Request, Item, Approved
<1>8. /\ Requests' = Requests /\ SelectedIndexes' = SelectedIndexes /\ Ahead' = Ahead
      /\ PlannedIndexes' = PlannedIndexes
  BY DEF Requests, SelectedIndexes, Ahead, PlannedIndexes
<1>9. AdmittedIsServed /\ cause' = cause => AdmittedIsServed'
  BY <1>1 DEF AdmittedIsServed, Driver
<1> QED BY <1>4, <1>5, <1>6, <1>7, <1>8, <1>9

\* A turn that is thrown keeps the invariant, if its cause is one that can be.
LEMMA ThrowStep ==
  ASSUME BatchInv, phase' = "thrown",
         UNCHANGED <<chosenVars, unresolved, asked, effects, schedVars>>,
         cause' \notin {"unbound", "refused", "policy"} \/ cause' = cause
  PROVE  BatchInv'
<1>1. /\ Reported' /\ Bounded' /\ Chosen' /\ Questioned'
  BY SameChoice DEF BatchInv
<1>2. BatchType'
  BY SameChoice DEF BatchInv, BatchType, chosenVars, reportVars, Items
<1>3. Staged' /\ Performed'
  BY DEF Staged, Performed
<1>4. Accounted'
  <2>1. policy' = policy
    BY DEF policy, chosenVars
  <2> QED BY <2>1 DEF BatchInv, Accounted, EveryRequestAccounted
<1>5. AdmittedIsServed'
  <2>1. CASE cause' = cause
    BY <2>1, SameChoice DEF BatchInv
  <2>2. CASE cause' \notin {"unbound", "refused", "policy"}
    BY <2>2 DEF AdmittedIsServed
  <2> QED BY <2>1, <2>2
<1>6. SchedInv'
  BY SameSchedule DEF BatchInv
<1> QED BY <1>1, <1>2, <1>3, <1>4, <1>5, <1>6 DEF BatchInv

-------------------------------------------------------------------------------
\* The requests that drivers support are planned, the others left for later.
LEMMA PrepareStep == ASSUME BatchInv, Prepare PROVE BatchInv'
<1> DEFINE covered == {i \in DOMAIN scenario.requests : Covered(scenario, scenario.requests[i])}
           rest == Requests \ covered
<1>0. /\ Staged /\ phase = "plan" /\ BatchType
      /\ routes = <<>> /\ live = 0 /\ ~blocked /\ pending = <<>> /\ approvals = <<>>
      /\ selected = <<>> /\ asked = {} /\ effects = <<>> /\ cause = None /\ promise = "none"
  BY DEF BatchInv, Prepare, Staged
<1>1. CASE phase' = "thrown"
  <2>1. UNCHANGED <<chosenVars, unresolved, asked, effects, schedVars>>
        /\ cause' \in {"uncovered", "empty"}
    BY <1>1 DEF Prepare, Throw, chosenVars, reportVars
  <2> QED BY <1>1, <2>1, ThrowStep
<1>2. CASE phase' # "thrown"
  <2>1. /\ rest # {} => policy.partial
        /\ planned' = InOrder(covered) /\ unresolved' = rest /\ phase' = "preflight"
        /\ UNCHANGED <<scenario, routes, live, blocked, pending, approvals, selected, asked,
                       effects, cause, schedVars>>
    BY <1>2 DEF Prepare, Throw, Requests
  <2>2. Requests' = Requests /\ Items' = Items /\ policy' = policy
    BY <2>1 DEF Requests, Items, policy
  <2>3. /\ planned' \in Seq(covered) /\ covered \subseteq Requests
        /\ \A i, j \in DOMAIN planned' : planned'[i] = planned'[j] => i = j
        /\ \A x \in covered : \E i \in DOMAIN planned' : planned'[i] = x
    <3>1. Len(scenario.requests) \in Nat /\ covered \subseteq 1 .. Len(scenario.requests)
      BY <1>0, ScenarioType DEF Requests
    <3>2. covered \subseteq Requests
      BY DEF Requests
    <3>3. planned' = InOrder(covered)
      BY <2>1
    <3> HIDE DEF covered
    <3> DEFINE m == Len(scenario.requests)
    <3> HIDE DEF m
    <3>4. /\ InOrder(covered) \in Seq(covered)
          /\ \A i, j \in DOMAIN InOrder(covered) : InOrder(covered)[i] = InOrder(covered)[j] => i = j
          /\ \A x \in covered : \E i \in DOMAIN InOrder(covered) : InOrder(covered)[i] = x
      BY <3>1, InOrderLists DEF m
    <3> QED BY <3>2, <3>3, <3>4
  <2> HIDE DEF covered
  <2>4. planned' \in Seq(Requests)
    BY <2>3
  <2>5. PlannedIndexes' = covered
    <3>1. \A i \in DOMAIN planned' : planned'[i] \in covered
      BY <2>3
    <3> QED BY <2>3, <3>1 DEF PlannedIndexes
  <2>6. BatchType'
    BY <1>0, <2>1, <2>2, <2>4 DEF BatchType
  <2>7. Staged'
    BY <1>0, <2>1 DEF Staged, schedVars
  <2>8. Reported'
    <3>1. Charged' = {}
      BY <1>0, <2>1 DEF Charged
    <3>2. Cardinality({}) = 0
      BY FS_EmptySet
    <3>3. Len(routes') <= Len(planned') /\ DOMAIN routes' = {} /\ live' = 0
      BY <1>0, <2>1, <2>4
    <3> QED BY <2>3, <3>1, <3>2, <3>3 DEF Reported
  <2>9. Bounded' /\ Chosen' /\ Questioned'
    BY <1>0, <2>1 DEF Bounded, Chosen, Questioned
  <2>10. Accounted'
    <3>1. unresolved' # {} => policy'.partial
      BY <2>1, <2>2
    <3>2. unresolved' \cup PlannedIndexes' = Requests' /\ unresolved' \cap PlannedIndexes' = {}
      BY <2>1, <2>2, <2>3, <2>5
    <3>3. phase' = "preflight"
      BY <2>1
    <3> HIDE DEF rest
    <3> QED BY <3>1, <3>2, <3>3 DEF Accounted, EveryRequestAccounted
  <2>11. Performed'
    BY <2>1 DEF Performed
  <2>12. AdmittedIsServed'
    <3>1. cause' \notin {"unbound", "refused", "policy"}
      BY <1>0, <2>1, BatchAssumption DEF Causes
    <3> QED BY <3>1 DEF AdmittedIsServed
  <2>13. SchedInv'
    BY <2>1, SameSchedule DEF BatchInv
  <2> QED BY <2>6, <2>7, <2>8, <2>9, <2>10, <2>11, <2>12, <2>13 DEF BatchInv
<1> QED BY <1>1, <1>2

\* The preflight routes one more request.
LEMMA PreflightStep == ASSUME BatchInv, Preflight PROVE BatchInv'
<1> DEFINE n == Len(routes) + 1
           r == scenario.requests[planned[n]]
           route == Route(scenario, r, live)
<1>0. /\ BatchType /\ Staged /\ Reported /\ Accounted
      /\ phase = "preflight" /\ Len(routes) < Len(planned)
      /\ pending = <<>> /\ approvals = <<>> /\ selected = <<>>
  BY DEF BatchInv, Preflight, Staged
<1>1. /\ routes' = Append(routes, route)
      /\ route = None => blocked' = (blocked \/ ~policy.partial) /\ live' = live
      /\ route # None =>
           /\ blocked' = (blocked \/ Spoiled(scenario.drivers[route], r))
           /\ live' = live + IF Charges(scenario.drivers[route], r) THEN 1 ELSE 0
      /\ UNCHANGED <<scenario, phase, planned, pending, approvals, unresolved, selected, asked,
                     effects, cause, schedVars>>
  BY DEF Preflight
<1>2. Requests' = Requests /\ Items' = Items /\ policy' = policy
  BY <1>1 DEF Requests, Items, policy
<1>3. /\ Len(routes) \in Nat /\ Len(planned) \in Nat /\ n \in Nat
      /\ DOMAIN planned = 1 .. Len(planned) /\ DOMAIN routes = 1 .. Len(routes)
      /\ n \in DOMAIN planned /\ n \notin DOMAIN routes
  BY <1>0 DEF BatchType
<1>4. planned[n] \in Requests
  BY <1>0, <1>3 DEF BatchType
<1>5. route \in Candidates(scenario, r) \cup {None}
  <2>1. DOMAIN scenario.drivers \subseteq Nat /\ IsFiniteSet(r.prefers)
    BY <1>0, <1>4, ScenarioType
  <2> HIDE DEF r
  <2> QED BY <2>1, RouteIsCandidate
<1>6. route \in DOMAIN scenario.drivers \cup {None}
  <2> HIDE DEF r, route
  <2> QED BY <1>5, CandidateFits
<1> HIDE DEF route, r, n
<1>7. /\ routes' \in Seq(DOMAIN scenario.drivers \cup {None})
      /\ DOMAIN routes' = DOMAIN routes \cup {n} /\ Len(routes') = n /\ routes'[n] = route
      /\ \A k \in DOMAIN routes : routes'[k] = routes[k]
  BY <1>0, <1>1, <1>3, <1>6 DEF BatchType, n
<1>8. live' \in Nat /\ blocked' \in BOOLEAN
  <2>1. live \in Nat /\ blocked \in BOOLEAN
    BY <1>0 DEF BatchType
  <2>2. live' \in Nat
    BY <1>1, <2>1
  <2>3. blocked' \in BOOLEAN
    BY <1>1, <2>1
  <2> QED BY <2>2, <2>3
<1>9. BatchType'
  BY <1>0, <1>1, <1>2, <1>7, <1>8 DEF BatchType
<1>10. Staged'
  BY <1>0, <1>1 DEF Staged, schedVars
<1>11. Charged' = IF route # None /\ Charges(scenario.drivers[route], r)
                    THEN Charged \cup {n} ELSE Charged
  BY <1>1, <1>7 DEF Charged, r
<1>12. Cardinality(Charged') = live'
  <2>1. Charged \subseteq DOMAIN routes /\ n \notin Charged
    BY <1>3 DEF Charged
  <2>2. IsFiniteSet(DOMAIN routes)
    BY <1>3, FS_Interval
  <2>3. IsFiniteSet(Charged)
    BY <2>1, <2>2, FS_Subset
  <2>4. Cardinality(Charged \cup {n}) = Cardinality(Charged) + 1
    BY <2>1, <2>3, FS_AddElement
  <2>5. Cardinality(Charged) = live
    BY <1>0 DEF Reported
  <2>6. live \in Nat
    BY <1>0 DEF BatchType
  <2> QED BY <1>1, <1>11, <2>4, <2>5, <2>6
<1>13. Reported'
  <2>1. Len(routes') <= Len(planned')
    BY <1>0, <1>1, <1>3, <1>7 DEF n
  <2>2. \A i, j \in DOMAIN planned' : planned'[i] = planned'[j] => i = j
    BY <1>0, <1>1 DEF Reported
  <2>3. ASSUME NEW k \in DOMAIN routes', routes'[k] # None
        PROVE  routes'[k] \in Candidates(scenario', scenario'.requests[planned'[k]])
    <3>1. CASE k \in DOMAIN routes
      BY <2>3, <3>1, <1>0, <1>1, <1>7 DEF Reported
    <3>2. CASE k = n
      BY <2>3, <3>2, <1>1, <1>5, <1>7 DEF r
    <3> QED BY <1>7, <3>1, <3>2
  <2>4. ASSUME ~blocked', NEW k \in DOMAIN routes'
        PROVE  IF routes'[k] = None THEN policy'.partial
               ELSE ~Spoiled(scenario'.drivers[routes'[k]], scenario'.requests[planned'[k]])
    <3>1. ~blocked
      BY <1>1, <2>4
    <3>2. CASE k \in DOMAIN routes
      BY <2>4, <3>1, <3>2, <1>0, <1>1, <1>2, <1>7 DEF Reported
    <3>3. CASE k = n
      <4>1. route = None => policy.partial
        BY <1>1, <2>4
      <4>2. route # None => ~Spoiled(scenario.drivers[route], r)
        BY <1>1, <2>4
      <4> QED BY <3>3, <4>1, <4>2, <1>1, <1>2, <1>7 DEF r
    <3> QED BY <1>7, <3>2, <3>3
  <2> QED BY <2>1, <2>2, <2>3, <2>4, <1>12 DEF Reported
<1>14. Bounded' /\ Chosen' /\ Questioned'
  BY <1>0, <1>1 DEF Bounded, Chosen, Questioned
<1>15. Accounted'
  <2>1. PlannedIndexes' = PlannedIndexes
    BY <1>1 DEF PlannedIndexes
  <2> QED BY <1>0, <1>1, <1>2, <2>1 DEF Accounted, EveryRequestAccounted
<1>16. Performed'
  BY <1>0, <1>1 DEF Performed
<1>17. AdmittedIsServed'
  <2>1. cause' \notin {"unbound", "refused", "policy"}
    BY <1>0, <1>1, BatchAssumption DEF Causes, Staged
  <2> QED BY <2>1 DEF AdmittedIsServed
<1>18. SchedInv'
  BY <1>1, SameSchedule DEF BatchInv
<1> QED BY <1>9, <1>10, <1>13, <1>14, <1>15, <1>16, <1>17, <1>18 DEF BatchInv

-------------------------------------------------------------------------------
\* The bound items are the planned requests that have a route, each of them once.
LEMMA BoundFits ==
  ASSUME BatchInv, Len(routes) = Len(planned)
  PROVE  /\ Bound \in Seq(Items)
         /\ \A i \in DOMAIN Bound : \E p \in DOMAIN routes :
              routes[p] # None /\ Bound[i].index = planned[p] /\ Bound[i].driver = routes[p]
         /\ \A i, j \in DOMAIN Bound : Bound[i].index = Bound[j].index => i = j
         /\ \A p \in DOMAIN routes : routes[p] # None =>
              \E i \in DOMAIN Bound : Bound[i].index = planned[p]
<1> DEFINE S == {k \in DOMAIN routes : routes[k] # None}
           routed == InOrder(S)
<1>1. /\ Len(routes) \in Nat /\ DOMAIN routes = 1 .. Len(routes) /\ DOMAIN planned = DOMAIN routes
      /\ \A k \in DOMAIN routes : planned[k] \in Requests
      /\ \A k \in DOMAIN routes : routes[k] \in DOMAIN scenario.drivers \cup {None}
      /\ \A i, j \in DOMAIN planned : planned[i] = planned[j] => i = j
  BY DEF BatchInv, BatchType, Reported
<1>2. S \subseteq 1 .. Len(routes) /\ S \subseteq DOMAIN routes
  BY <1>1
<1> HIDE DEF S
<1>3. /\ routed \in Seq(S)
      /\ \A i, j \in DOMAIN routed : routed[i] = routed[j] => i = j
      /\ \A x \in S : \E i \in DOMAIN routed : routed[i] = x
  <2> DEFINE m == Len(routes)
  <2> HIDE DEF m
  <2> QED BY <1>1, <1>2, InOrderLists DEF m
<1>4. Bound = [i \in DOMAIN routed |-> [index |-> planned[routed[i]], driver |-> routes[routed[i]]]]
  BY DEF Bound, S
<1> HIDE DEF routed
<1>5. /\ DOMAIN routed = 1 .. Len(routed) /\ Len(routed) \in Nat
      /\ \A i \in DOMAIN routed : routed[i] \in S
  BY <1>3
<1>6. ASSUME NEW i \in DOMAIN routed
      PROVE  /\ Bound[i].index = planned[routed[i]] /\ Bound[i].driver = routes[routed[i]]
             /\ Bound[i] \in Items
             /\ routed[i] \in DOMAIN routes /\ routes[routed[i]] # None
  <2>1. Bound[i] = [index |-> planned[routed[i]], driver |-> routes[routed[i]]]
    BY <1>4
  <2>2. routed[i] \in DOMAIN routes /\ routes[routed[i]] # None
    BY <1>2, <1>5 DEF S
  <2> QED BY <1>1, <2>1, <2>2 DEF Items
<1>7. DOMAIN Bound = DOMAIN routed
  BY <1>4
<1>8. Bound \in Seq(Items)
  <2>1. Bound \in [1 .. Len(routed) -> Items]
    BY <1>4, <1>5, <1>6
  <2> QED BY <1>5, <2>1
<1>9. ASSUME NEW i \in DOMAIN Bound, NEW j \in DOMAIN Bound, Bound[i].index = Bound[j].index
      PROVE  i = j
  <2>1. planned[routed[i]] = planned[routed[j]]
    BY <1>6, <1>7, <1>9
  <2>2. routed[i] = routed[j]
    BY <1>1, <1>6, <1>7, <2>1
  <2> QED BY <1>3, <1>7, <2>2
<1>10. ASSUME NEW p \in DOMAIN routes, routes[p] # None
       PROVE  \E i \in DOMAIN Bound : Bound[i].index = planned[p]
  <2>1. p \in S
    BY <1>10 DEF S
  <2>2. PICK i \in DOMAIN routed : routed[i] = p
    BY <1>3, <2>1
  <2> QED BY <1>6, <1>7, <2>2
<1> QED BY <1>6, <1>7, <1>8, <1>9, <1>10

\* The accepted report binds the requests that have a route.
LEMMA BindStep == ASSUME BatchInv, Bind PROVE BatchInv'
<1>0. /\ BatchType /\ Staged /\ Reported /\ Accounted
      /\ phase = "preflight" /\ Len(routes) = Len(planned)
      /\ pending = <<>> /\ approvals = <<>> /\ selected = <<>> /\ cause = None
  BY DEF BatchInv, Bind, Staged
<1>1. /\ Bound \in Seq(Items)
      /\ \A i \in DOMAIN Bound : \E p \in DOMAIN routes :
           routes[p] # None /\ Bound[i].index = planned[p] /\ Bound[i].driver = routes[p]
      /\ \A i, j \in DOMAIN Bound : Bound[i].index = Bound[j].index => i = j
      /\ \A p \in DOMAIN routes : routes[p] # None =>
           \E i \in DOMAIN Bound : Bound[i].index = planned[p]
  BY <1>0, BoundFits
<1>2. \A k \in DOMAIN Bound : Supports(Driver(Bound[k]), Request(Bound[k]), policy, scenario.deferred)
  <2> SUFFICES ASSUME NEW k \in DOMAIN Bound
               PROVE  Supports(Driver(Bound[k]), Request(Bound[k]), policy, scenario.deferred)
    OBVIOUS
  <2>1. PICK p \in DOMAIN routes :
          routes[p] # None /\ Bound[k].index = planned[p] /\ Bound[k].driver = routes[p]
    BY <1>1
  <2>2. routes[p] \in Candidates(scenario, scenario.requests[planned[p]])
    BY <1>0, <2>1 DEF Reported
  <2> DEFINE m == scenario.drivers[routes[p]]
             r == scenario.requests[planned[p]]
  <2>3. Admissible(m, r, scenario.policy) /\ (NeedsApproval(m, r, scenario.policy) => scenario.deferred)
    BY <2>2, CandidateFits
  <2>4. Supports(m, r, scenario.policy, scenario.deferred)
    <3> HIDE DEF m, r
    <3> QED BY <2>3, PermittedIsSupported
  <2> QED BY <2>1, <2>4 DEF Driver, Request, policy
<1>3. CASE phase' = "thrown"
  <2>1. cause' \in {"preflight", "empty"}
    BY <1>0, <1>2, <1>3 DEF Bind, Throw
  <2>2. UNCHANGED <<chosenVars, unresolved, asked, effects, schedVars>>
    BY <1>3 DEF Bind, Throw, chosenVars, reportVars
  <2> QED BY <1>3, <2>1, <2>2, ThrowStep
<1>4. CASE phase' # "thrown"
  <2> DEFINE later == {planned[k] : k \in {k \in DOMAIN routes : routes[k] = None}}
  <2>1. /\ ReportAccepted /\ Bound # <<>>
        /\ pending' = Bound /\ unresolved' = unresolved \cup later /\ phase' = "context"
        /\ UNCHANGED <<scenario, planned, routes, live, blocked, approvals, selected, asked,
                       effects, cause, schedVars>>
    BY <1>4 DEF Bind, Throw
  <2>2. /\ Requests' = Requests /\ Items' = Items /\ policy' = policy /\ Charged' = Charged
        /\ PlannedIndexes' = PlannedIndexes
    BY <2>1 DEF Requests, Items, policy, Charged, PlannedIndexes
  <2>3. /\ DOMAIN routes = DOMAIN planned
        /\ \A k \in DOMAIN planned : planned[k] \in Requests
    BY <1>0 DEF BatchType
  <2>4. later \subseteq PlannedIndexes /\ later \subseteq Requests
    BY <2>3 DEF PlannedIndexes
  <2>5. BatchType'
    BY <1>0, <1>1, <2>1, <2>2, <2>4 DEF BatchType
  <2>6. Staged'
    BY <1>0, <2>1 DEF Staged, schedVars
  <2>7. Reported'
    BY <1>0, <2>1, <2>2 DEF Reported
  <2>8. Bounded'
    <3>1. ReportAccepted'
      BY <2>1, <2>2 DEF ReportAccepted
    <3>2. Len(routes') = Len(planned')
      BY <1>0, <2>1
    <3> QED BY <1>1, <2>1, <3>1, <3>2 DEF Bounded
  <2>9. Chosen' /\ Questioned'
    <3>1. selected' = <<>> /\ approvals' = <<>> /\ Len(pending') \in Nat
      BY <1>0, <1>1, <2>1
    <3> QED BY <3>1 DEF Chosen, Questioned
  <2>10. Accounted'
    <3>1. SelectedIndexes' = {}
      BY <1>0, <2>1 DEF SelectedIndexes
    <3>2. Ahead' = {Bound[j].index : j \in DOMAIN Bound}
      <4>1. \A j \in DOMAIN Bound : j > 0
        BY <1>1
      <4>2. Len(approvals') = 0
        BY <1>0, <2>1
      <4> QED BY <2>1, <4>1, <4>2 DEF Ahead
    <3>3. PlannedIndexes = later \cup Ahead'
      <4>1. \A k \in DOMAIN planned : planned[k] \in later \/ planned[k] \in Ahead'
        BY <1>1, <2>3, <3>2
      <4>2. \A x \in Ahead' : x \in PlannedIndexes
        BY <1>1, <2>3, <3>2 DEF PlannedIndexes
      <4> QED BY <2>4, <4>1, <4>2 DEF PlannedIndexes
    <3>4. later \cap Ahead' = {}
      <4> SUFFICES ASSUME NEW x \in later, x \in Ahead' PROVE FALSE
        OBVIOUS
      <4>1. PICK k \in DOMAIN routes : routes[k] = None /\ x = planned[k]
        OBVIOUS
      <4>2. PICK p \in DOMAIN routes : routes[p] # None /\ x = planned[p]
        BY <1>1, <3>2
      <4>3. k = p
        BY <1>0, <2>3, <4>1, <4>2 DEF Reported
      <4> QED BY <4>1, <4>2, <4>3
    <3>5. later # {} => policy.partial
      BY <1>0, <2>1 DEF Reported, ReportAccepted
    <3>6. /\ unresolved # {} => policy.partial
          /\ unresolved \cup PlannedIndexes = Requests /\ unresolved \cap PlannedIndexes = {}
      BY <1>0 DEF Accounted
    <3> HIDE DEF later
    <3>7. unresolved' # {} => policy'.partial
      BY <2>1, <2>2, <3>5, <3>6
    <3>8. /\ unresolved' \cup SelectedIndexes' \cup Ahead' = Requests'
          /\ unresolved' \cap (SelectedIndexes' \cup Ahead') = {}
      BY <2>1, <2>2, <3>1, <3>3, <3>4, <3>6
    <3> QED BY <2>1, <3>7, <3>8 DEF Accounted, EveryRequestAccounted
  <2>11. Performed'
    BY <2>1 DEF Performed
  <2>12. AdmittedIsServed'
    <3>1. cause' \notin {"unbound", "refused", "policy"}
      BY <1>0, <2>1, BatchAssumption DEF Causes
    <3> QED BY <3>1 DEF AdmittedIsServed
  <2>13. SchedInv'
    BY <2>1, SameSchedule DEF BatchInv
  <2> QED BY <2>5, <2>6, <2>7, <2>8, <2>9, <2>10, <2>11, <2>12, <2>13 DEF BatchInv
<1> QED BY <1>3, <1>4

\* The context of one more item decides whether it is selected.
LEMMA ContextStep == ASSUME BatchInv, Context PROVE BatchInv'
<1> DEFINE n == Len(approvals) + 1
           item == pending[n]
           allowed(a) == Allows(Driver(item), Request(item), policy, a, TRUE)
<1>1. PICK approved \in BOOLEAN :
        /\ approvals' = Append(approvals, approved)
        /\ IF allowed(approved)
             THEN selected' = Append(selected, item) /\ UNCHANGED <<unresolved, phase, cause>>
           ELSE IF allowed(TRUE) /\ policy.partial
             THEN unresolved' = unresolved \cup {item.index} /\ UNCHANGED <<selected, phase, cause>>
           ELSE /\ Throw(IF allowed(TRUE) THEN "approval" ELSE "policy")
                /\ UNCHANGED <<selected, unresolved>>
  <2>1. (IF scenario.deferred THEN BOOLEAN ELSE {FALSE}) \subseteq BOOLEAN
    OBVIOUS
  <2> QED BY <2>1 DEF Context
<1>2. /\ BatchType /\ Staged /\ Reported /\ Bounded /\ Chosen /\ Accounted
      /\ phase = "context" /\ Len(approvals) < Len(pending) /\ asked = {} /\ cause = None
      /\ UNCHANGED <<scenario, planned, routes, live, blocked, pending, asked, effects, schedVars>>
  BY DEF BatchInv, Staged, Context, reportVars
<1>3. /\ Len(approvals) \in Nat /\ Len(pending) \in Nat /\ Len(selected) \in Nat /\ n \in Nat
      /\ DOMAIN pending = 1 .. Len(pending) /\ DOMAIN approvals = 1 .. Len(approvals)
      /\ DOMAIN selected = 1 .. Len(selected)
      /\ n \in DOMAIN pending /\ n \notin DOMAIN approvals /\ pending # <<>>
  BY <1>2 DEF BatchType
<1>4. item \in Items /\ item.index \in Requests
  <2>1. item \in Items
    BY <1>2, <1>3 DEF BatchType
  <2> QED BY <2>1 DEF Items
<1>5. /\ Requests' = Requests /\ Items' = Items /\ policy' = policy /\ Charged' = Charged
      /\ ReportAccepted' = ReportAccepted
  BY <1>2 DEF Requests, Items, policy, Charged, ReportAccepted
<1>6. /\ approvals' \in Seq(BOOLEAN) /\ Len(approvals') = n /\ DOMAIN approvals' = DOMAIN approvals \cup {n}
      /\ approvals'[n] = approved /\ \A j \in DOMAIN approvals : approvals'[j] = approvals[j]
  BY <1>1, <1>2, <1>3 DEF BatchType
<1> HIDE DEF n, item, allowed
<1>7. Reported'
  BY <1>2, <1>5 DEF Reported
<1>8. Bounded'
  BY <1>2, <1>5 DEF Bounded
<1>9. Questioned'
  BY <1>2 DEF Questioned
<1>10. SchedInv'
  BY <1>2, SameSchedule DEF BatchInv
<1>11. Performed'
  <2>1. phase' # "run"
    BY <1>1, <1>2 DEF Throw
  <2> QED BY <2>1 DEF Performed
<1>12. Ahead = Ahead' \cup {item.index}
  BY <1>2, <1>3, <1>6 DEF Ahead, item, n
<1>13. item.index \notin Ahead'
  <2>1. \A j \in DOMAIN pending : j > n => pending[j].index # item.index
    BY <1>2, <1>3 DEF Bounded, item
  <2> QED BY <1>2, <1>6, <2>1 DEF Ahead
<1>14. /\ Len(approvals') <= Len(pending')
       /\ \A k \in DOMAIN selected : \E j \in DOMAIN approvals :
            /\ pending[j] = selected[k]
            /\ Allows(scenario.drivers[pending[j].driver], scenario.requests[pending[j].index],
                      policy, approvals[j], TRUE)
  <2>1. Len(approvals') <= Len(pending')
    BY <1>2, <1>3, <1>6 DEF n
  <2>2. \A k \in DOMAIN selected : \E j \in DOMAIN approvals :
          /\ pending[j] = selected[k]
          /\ Allows(scenario.drivers[pending[j].driver], scenario.requests[pending[j].index],
                    policy, approvals[j], TRUE)
    BY <1>2 DEF Chosen, Driver, Request
  <2> QED BY <2>1, <2>2
<1>15. \A k \in DOMAIN selected : \E j \in DOMAIN approvals' :
            /\ pending'[j] = selected[k]
            /\ Allows(scenario'.drivers[pending'[j].driver], scenario'.requests[pending'[j].index],
                      policy', approvals'[j], TRUE)
  BY <1>2, <1>5, <1>6, <1>14
<1>16. CASE allowed(approved)
  <2>1. selected' = Append(selected, item) /\ UNCHANGED <<unresolved, phase, cause>>
    BY <1>1, <1>16
  <2> DEFINE l == Len(selected) + 1
  <2>2. /\ selected' \in Seq(Items) /\ Len(selected') = l /\ DOMAIN selected' = DOMAIN selected \cup {l}
        /\ selected'[l] = item /\ \A k \in DOMAIN selected : selected'[k] = selected[k]
    BY <1>2, <1>3, <1>4, <2>1 DEF BatchType
  <2> HIDE DEF l
  <2>3. BatchType'
    BY <1>2, <1>5, <1>6, <2>1, <2>2 DEF BatchType
  <2>4. Staged'
    BY <1>2, <2>1 DEF Staged, schedVars
  <2>5. \A k \in DOMAIN selected : selected[k].index # item.index
    <3> SUFFICES ASSUME NEW k \in DOMAIN selected, selected[k].index = item.index PROVE FALSE
      OBVIOUS
    <3>1. PICK j \in DOMAIN approvals : pending[j] = selected[k]
      BY <1>14
    <3>2. j \in DOMAIN pending /\ j # n
      BY <1>2, <1>3
    <3> QED BY <1>2, <1>3, <3>1, <3>2 DEF Bounded, item
  <2>6. Chosen'
    <3>1. Len(selected') <= Len(approvals')
      BY <1>2, <1>3, <1>6, <2>2 DEF Chosen, l, n
    <3>2. \A k, m \in DOMAIN selected' : selected'[k].index = selected'[m].index => k = m
      BY <1>2, <2>2, <2>5 DEF Chosen
    <3>3. ASSUME NEW k \in DOMAIN selected'
          PROVE  \E j \in DOMAIN approvals' :
                   /\ pending'[j] = selected'[k]
                   /\ Allows(scenario'.drivers[pending'[j].driver],
                             scenario'.requests[pending'[j].index], policy', approvals'[j], TRUE)
      <4>1. CASE k \in DOMAIN selected
        BY <1>15, <2>2, <4>1
      <4>2. CASE k = l
        <5>1. Allows(scenario.drivers[item.driver], scenario.requests[item.index], policy, approved, TRUE)
          BY <1>16 DEF allowed, Driver, Request
        <5>2. pending'[n] = item
          BY <1>2 DEF item
        <5> QED BY <1>2, <1>5, <1>6, <2>2, <4>2, <5>1, <5>2
      <4> QED BY <2>2, <4>1, <4>2
    <3> QED BY <1>14, <3>1, <3>2, <3>3 DEF Chosen, Driver, Request
  <2>7. Accounted'
    <3>1. SelectedIndexes' = SelectedIndexes \cup {item.index}
      BY <2>2 DEF SelectedIndexes
    <3>2. phase' = "context" /\ unresolved' = unresolved
      BY <1>2, <2>1
    <3>3. /\ unresolved # {} => policy.partial
          /\ unresolved \cup SelectedIndexes \cup Ahead = Requests
          /\ unresolved \cap (SelectedIndexes \cup Ahead) = {}
      BY <1>2 DEF Accounted
    <3>4. /\ unresolved' \cup SelectedIndexes' \cup Ahead' = Requests'
          /\ unresolved' \cap (SelectedIndexes' \cup Ahead') = {}
      BY <1>5, <1>12, <3>1, <3>2, <3>3
    <3> QED BY <1>5, <3>2, <3>3, <3>4 DEF Accounted, EveryRequestAccounted
  <2>8. AdmittedIsServed'
    <3>1. cause' \notin {"unbound", "refused", "policy"}
      BY <1>2, <2>1, BatchAssumption DEF Causes
    <3> QED BY <3>1 DEF AdmittedIsServed
  <2> QED BY <1>7, <1>8, <1>9, <1>10, <1>11, <2>3, <2>4, <2>6, <2>7, <2>8 DEF BatchInv
<1>17. CASE ~allowed(approved)
  <2>1. selected' = selected
    BY <1>1, <1>17
  <2>2. unresolved' \subseteq Requests /\ phase' \in {"context", "thrown"}
    BY <1>1, <1>2, <1>4, <1>17 DEF Throw, BatchType
  <2>3. BatchType'
    BY <1>2, <1>5, <1>6, <2>1, <2>2 DEF BatchType
  <2>4. Staged'
    <3>1. phase' = "context" => cause' = cause
      BY <1>1, <1>17 DEF Throw
    <3> QED BY <1>2, <2>2, <3>1 DEF Staged, schedVars
  <2>5. Chosen'
    <3>1. Len(selected') <= Len(approvals')
      BY <1>2, <1>3, <1>6, <2>1 DEF Chosen, n
    <3>2. \A k, l \in DOMAIN selected' : selected'[k].index = selected'[l].index => k = l
      BY <1>2, <2>1 DEF Chosen
    <3>3. \A k \in DOMAIN selected' : \E j \in DOMAIN approvals' :
            /\ pending'[j] = selected'[k]
            /\ Allows(scenario'.drivers[pending'[j].driver], scenario'.requests[pending'[j].index],
                      policy', approvals'[j], TRUE)
      BY <1>15, <2>1
    <3> QED BY <1>14, <3>1, <3>2, <3>3 DEF Chosen, Driver, Request
  <2>6. SelectedIndexes' = SelectedIndexes
    BY <2>1 DEF SelectedIndexes
  <2>7. /\ unresolved # {} => policy.partial
        /\ unresolved \cup SelectedIndexes \cup Ahead = Requests
        /\ unresolved \cap (SelectedIndexes \cup Ahead) = {}
    BY <1>2 DEF Accounted
  <2>8. item.index \notin SelectedIndexes
    <3> SUFFICES ASSUME NEW k \in DOMAIN selected, selected[k].index = item.index PROVE FALSE
      BY DEF SelectedIndexes
    <3>1. PICK j \in DOMAIN approvals : pending[j] = selected[k]
      BY <1>14
    <3>2. j \in DOMAIN pending /\ j # n
      BY <1>2, <1>3
    <3> QED BY <1>2, <1>3, <3>1, <3>2 DEF Bounded, item
  <2>9. CASE allowed(TRUE) /\ policy.partial
    <3>1. unresolved' = unresolved \cup {item.index} /\ phase' = "context" /\ cause' = None
      BY <1>1, <1>2, <1>17, <2>9
    <3>2. /\ unresolved' \cup SelectedIndexes' \cup Ahead' = Requests'
          /\ unresolved' \cap (SelectedIndexes' \cup Ahead') = {}
      BY <1>5, <1>12, <1>13, <2>6, <2>7, <2>8, <3>1
    <3>3. Accounted'
      BY <1>5, <2>9, <3>1, <3>2 DEF Accounted, EveryRequestAccounted
    <3>4. AdmittedIsServed'
      <4>1. cause' \notin {"unbound", "refused", "policy"}
        BY <3>1, BatchAssumption DEF Causes
      <4> QED BY <4>1 DEF AdmittedIsServed
    <3> QED BY <1>7, <1>8, <1>9, <1>10, <1>11, <2>3, <2>4, <2>5, <3>3, <3>4 DEF BatchInv
  <2>10. CASE ~(allowed(TRUE) /\ policy.partial)
    <3>1. /\ unresolved' = unresolved /\ phase' = "thrown"
          /\ cause' = IF allowed(TRUE) THEN "approval" ELSE "policy"
      BY <1>1, <1>17, <2>10 DEF Throw
    <3>2. Accounted'
      BY <1>5, <2>7, <3>1 DEF Accounted, EveryRequestAccounted
    <3>3. AdmittedIsServed'
      <4>1. CASE allowed(TRUE)
        <5>1. cause' = "approval"
          BY <3>1, <4>1
        <5> QED BY <5>1 DEF AdmittedIsServed
      <4>2. CASE ~allowed(TRUE)
        <5>1. cause' = "policy"
          BY <3>1, <4>2
        <5>2. PICK p \in DOMAIN routes :
                routes[p] # None /\ item.index = planned[p] /\ item.driver = routes[p]
          BY <1>2, <1>3 DEF Bounded, item
        <5> DEFINE m == scenario.drivers[item.driver]
                   r == scenario.requests[item.index]
        <5>3. Admissible(m, r, scenario.policy)
          <6>1. routes[p] \in Candidates(scenario, scenario.requests[planned[p]])
            BY <1>2, <5>2 DEF Reported
          <6> QED BY <5>2, <6>1, CandidateFits
        <5>4. ~scenario.policy.auditOnly
          BY <1>2, <1>3 DEF Bounded, ReportAccepted, policy
        <5>5. ~Allows(m, r, scenario.policy, TRUE, TRUE)
          BY <4>2 DEF allowed, Driver, Request, policy
        <5> HIDE DEF m, r
        <5>6. m.recovery = "best_effort" /\ ~scenario.policy.bestEffort /\ ~scenario.policy.durable
          BY <5>3, <5>4, <5>5, PermittedIsAllowed
        <5>7. \E k \in DOMAIN pending' :
                /\ scenario'.drivers[pending'[k].driver].recovery = "best_effort"
                /\ ~policy'.bestEffort /\ ~policy'.durable
          BY <1>2, <1>3, <1>5, <5>6 DEF m, item, policy
        <5> QED BY <5>1, <5>7 DEF AdmittedIsServed, Driver
      <4> QED BY <4>1, <4>2
    <3> QED BY <1>7, <1>8, <1>9, <1>10, <1>11, <2>3, <2>4, <2>5, <3>2, <3>3 DEF BatchInv
  <2> QED BY <2>9, <2>10
<1> QED BY <1>16, <1>17

-------------------------------------------------------------------------------
\* What is selected stems from an admitted request, and the approval it was selected
\* with is the one that it runs with.
LEMMA SelectedFits ==
  ASSUME BatchInv, NEW k \in DOMAIN selected
  PROVE  /\ ReportAccepted
         /\ \E p \in DOMAIN routes :
              /\ routes[p] # None /\ selected[k].index = planned[p] /\ selected[k].driver = routes[p]
              /\ Admissible(Driver(Item(k)), Request(Item(k)), policy)
              /\ ~Spoiled(Driver(Item(k)), Request(Item(k)))
              /\ IsLiveModel(Driver(Item(k)), Request(Item(k)))
                 /\ ~Reusable(Driver(Item(k)), Request(Item(k))) => p \in Charged
         /\ Allows(Driver(Item(k)), Request(Item(k)), policy, Approved(k), TRUE)
<1>1. /\ BatchType /\ Reported /\ Bounded /\ Chosen
      /\ DOMAIN approvals \subseteq DOMAIN pending
  <2>1. BatchType /\ Reported /\ Bounded /\ Chosen
    BY DEF BatchInv
  <2>2. /\ DOMAIN approvals = 1 .. Len(approvals) /\ DOMAIN pending = 1 .. Len(pending)
        /\ Len(approvals) \in Nat /\ Len(pending) \in Nat /\ Len(approvals) <= Len(pending)
    BY <2>1 DEF BatchType, Chosen
  <2> QED BY <2>1, <2>2
<1>2. PICK j \in DOMAIN approvals :
        /\ pending[j] = selected[k]
        /\ Allows(Driver(pending[j]), Request(pending[j]), policy, approvals[j], TRUE)
  BY <1>1 DEF Chosen
<1>3. j \in DOMAIN pending /\ pending # <<>>
  BY <1>1, <1>2
<1>4. \A i \in DOMAIN pending : pending[i] = selected[k] => i = j
  BY <1>1, <1>2, <1>3 DEF Bounded
<1>5. Approved(k) = approvals[j]
  BY <1>2, <1>3, <1>4 DEF Approved
<1>6. ReportAccepted
  BY <1>1, <1>3 DEF Bounded
<1>7. PICK p \in DOMAIN routes :
        routes[p] # None /\ selected[k].index = planned[p] /\ selected[k].driver = routes[p]
  BY <1>1, <1>2, <1>3 DEF Bounded
<1> DEFINE m == scenario.drivers[routes[p]]
           r == scenario.requests[planned[p]]
<1>8. Driver(Item(k)) = m /\ Request(Item(k)) = r
  BY <1>7 DEF Driver, Request, Item
<1>9. Admissible(m, r, policy)
  <2>1. routes[p] \in Candidates(scenario, r)
    BY <1>1, <1>7 DEF Reported
  <2> HIDE DEF r
  <2> QED BY <2>1, CandidateFits DEF policy
<1>10. ~Spoiled(m, r)
  BY <1>1, <1>6, <1>7 DEF Reported, ReportAccepted
<1>11. IsLiveModel(m, r) /\ ~Reusable(m, r) => p \in Charged
  BY <1>7 DEF Charged, Charges
<1>12. Allows(Driver(Item(k)), Request(Item(k)), policy, Approved(k), TRUE)
  BY <1>2, <1>5 DEF Item
<1> HIDE DEF m, r
<1> QED BY <1>6, <1>7, <1>8, <1>9, <1>10, <1>11, <1>12

\* The routes that charge the budget are within it once the report is accepted.
LEMMA ChargedFits ==
  ASSUME BatchInv, ReportAccepted
  PROVE  IsFiniteSet(Charged) /\ Cardinality(Charged) <= policy.budget /\ Cardinality(Charged) \in Nat
<1>1. Charged \subseteq DOMAIN routes /\ Len(routes) \in Nat /\ DOMAIN routes = 1 .. Len(routes)
  BY DEF BatchInv, BatchType, Charged
<1>2. IsFiniteSet(DOMAIN routes)
  BY <1>1, FS_Interval
<1>3. IsFiniteSet(Charged)
  BY <1>1, <1>2, FS_Subset
<1>4. Cardinality(Charged) = live /\ live <= policy.budget
  BY DEF BatchInv, Reported, ReportAccepted
<1> QED BY <1>3, <1>4, FS_CardinalityType

\* What has been selected is allowed when it runs.
LEMMA SelectedIsAllowed ==
  ASSUME BatchInv, NEW k \in DOMAIN selected, ~Reusable(Driver(Item(k)), Request(Item(k)))
  PROVE  Allowed(k)
<1> DEFINE m == Driver(Item(k))
           r == Request(Item(k))
<1>1. /\ ReportAccepted /\ ~Spoiled(m, r) /\ Allows(m, r, policy, Approved(k), TRUE)
      /\ IsLiveModel(m, r) => Charged # {}
  BY SelectedFits
<1>2. IsLiveModel(m, r) => policy.budget >= 1
  <2>1. Charged # {} => Cardinality(Charged) # 0
    BY <1>1, ChargedFits, FS_EmptySet
  <2>2. policy.budget \in Nat
    BY ScenarioType DEF BatchInv
  <2> QED BY <1>1, <2>1, <2>2, ChargedFits
<1> HIDE DEF m, r
<1>3. Allows(m, r, policy, Approved(k), FALSE)
  BY <1>1, <1>2, AllowedInBudget
<1> QED BY <1>1, <1>3 DEF Allowed, m, r

-------------------------------------------------------------------------------
\* The selected effects are handed to the scheduler.
LEMMA RunStep == ASSUME BatchInv, Run PROVE BatchInv'
<1>0. /\ BatchType /\ Staged /\ Reported /\ Bounded /\ Chosen /\ Accounted /\ SchedInv
      /\ phase = "context" /\ Len(approvals) = Len(pending) /\ cause = None /\ asked = {}
  BY DEF BatchInv, Run, Staged
<1>1. CASE selected = <<>>
  <2>1. /\ phase' = "thrown" /\ cause' = "empty"
        /\ UNCHANGED <<chosenVars, unresolved, asked, effects, schedVars>>
    BY <1>1 DEF Run, Throw, chosenVars, reportVars
  <2> QED BY <2>1, ThrowStep
<1>2. CASE selected # <<>>
  <2>1. /\ phase' = "run" /\ effects' = [k \in DOMAIN selected |-> None] /\ Start(Batch)
        /\ UNCHANGED <<chosenVars, unresolved, asked, cause>>
    BY <1>2 DEF Run, chosenVars, reportVars
  <2>2. IsBatch(Batch) /\ Batched(Batch.groups) = DOMAIN selected
    BY <1>0, BatchIsBatch
  <2>3. SchedInv'
    BY <1>0, <2>1, <2>2, StartStep
  <2>4. Reported' /\ Bounded' /\ Chosen' /\ Questioned' /\ AdmittedIsServed'
    BY <2>1, SameChoice DEF BatchInv
  <2>5. BatchType'
    BY <1>0, <2>1, SameChoice DEF BatchType, chosenVars, reportVars, Items
  <2>6. Staged'
    BY <2>1 DEF Staged
  <2>7. Accounted'
    <3>1. Ahead = {}
      <4>1. \A j \in DOMAIN pending : ~(j > Len(pending))
        BY <1>0 DEF BatchType
      <4> QED BY <1>0, <4>1 DEF Ahead
    <3>2. /\ unresolved # {} => policy.partial
          /\ unresolved \cup SelectedIndexes = Requests
          /\ unresolved \cap SelectedIndexes = {}
      BY <1>0, <3>1 DEF Accounted
    <3>3. policy' = policy
      BY <2>1 DEF policy, chosenVars
    <3> QED BY <2>1, <3>2, <3>3, SameChoice DEF Accounted, EveryRequestAccounted
  <2>8. Performed'
    <3>1. groups' = Batch.groups /\ status' = status /\ promise = "none"
      BY <2>1 DEF Start
    <3>2. selected' = selected
      BY <2>1 DEF chosenVars
    <3>3. Batched(groups') = DOMAIN selected'
      BY <2>2, <3>1, <3>2
    <3>4. \A k \in DOMAIN selected : status[k] # "settled"
      <4>1. DOMAIN selected \subseteq Effect
        BY <1>0, PositionsAreEffects
      <4>2. groups = <<>> /\ Batched(groups) = {}
        BY <1>0, <3>1 DEF SchedInv, Judged, Batched
      <4> QED BY <1>0, <4>1, <4>2 DEF SchedInv, Ordered
    <3>5. effects' \in [DOMAIN selected' -> Outcomes \cup {None}]
          /\ \A k \in DOMAIN selected' : effects'[k] = None
      BY <2>1, <3>2
    <3>6. None # "late"
      BY BatchAssumption DEF Outcomes
    <3> QED BY <3>1, <3>2, <3>3, <3>4, <3>5, <3>6 DEF Performed
  <2> QED BY <2>3, <2>4, <2>5, <2>6, <2>7, <2>8 DEF BatchInv
<1> QED BY <1>1, <1>2

\* The scheduler's own steps.
LEMMA ScheduleStep == ASSUME BatchInv, Schedule PROVE BatchInv'
<1>1. UNCHANGED <<chosenVars, phase, unresolved, asked, effects, cause>> /\ (LaunchNext \/ LaunchDone)
  BY DEF Schedule, batchVars, chosenVars
<1>2. SchedInv'
  BY <1>1, LaunchStep, LaunchDoneStep DEF BatchInv
<1>3. Reported' /\ Bounded' /\ Chosen' /\ Questioned' /\ AdmittedIsServed'
  BY <1>1, SameChoice DEF BatchInv
<1>4. BatchType'
  BY <1>1, SameChoice DEF BatchInv, BatchType, chosenVars, reportVars, Items
<1>5. Staged'
  <2>1. promise' = promise
    BY <1>1 DEF LaunchNext, LaunchDone
  <2> QED BY <1>1, <2>1 DEF BatchInv, Staged, chosenVars, reportVars
<1>6. Accounted'
  <2>1. policy' = policy /\ scenario' = scenario /\ Answered' = Answered
    BY <1>1 DEF policy, chosenVars, Answered
  <2> QED BY <1>1, <2>1, SameChoice DEF BatchInv, Accounted, EveryRequestAccounted
<1>7. Performed'
  <2>1. SUFFICES ASSUME phase = "run" PROVE Performed'
    BY <1>1 DEF Performed
  <2>2. DOMAIN selected \subseteq Effect
    BY PositionsAreEffects DEF BatchInv
  <2>3. groups' = groups
    BY <1>1 DEF LaunchNext, LaunchDone
  <2>4. \A e \in Effect : status'[e] = "settled" <=> status[e] = "settled"
    <3>1. CASE LaunchDone
      BY <3>1 DEF LaunchDone
    <3>2. CASE LaunchNext
      <4>1. PICK g \in Group :
              /\ NextReadyGroup(g)
              /\ status' = [status EXCEPT ![groups[g].effects[next[g] + 1]] = "running"]
        BY <3>2 DEF LaunchNext
      <4> DEFINE e == groups[g].effects[next[g] + 1]
      <4>2. groups[g].effects \in Seq(Effect) /\ next[g] \in Nat /\ next[g] < Len(groups[g].effects)
        BY <4>1, GroupType DEF BatchInv, SchedInv, SchedType, Group, NextReadyGroup, Ready
      <4>3. next[g] + 1 \in DOMAIN groups[g].effects
        BY <4>2
      <4>4. status[e] = "idle"
        BY <4>2, <4>3 DEF BatchInv, SchedInv, Ordered
      <4>5. status \in [Effect -> Status]
        BY DEF BatchInv, SchedInv, SchedType
      <4> HIDE DEF e
      <4>6. status' = [status EXCEPT ![e] = "running"]
        BY <4>1 DEF e
      <4> QED BY <4>4, <4>5, <4>6
    <3> QED BY <1>1, <3>1, <3>2
  <2>5. policy' = policy /\ selected' = selected
    BY <1>1 DEF policy, chosenVars
  <2> QED BY <1>1, <2>1, <2>2, <2>3, <2>4, <2>5 DEF BatchInv, Performed
<1> QED BY <1>2, <1>3, <1>4, <1>5, <1>6, <1>7 DEF BatchInv

\* The batch is decided, and the turn handed on or thrown.
LEMMA FinishStep == ASSUME BatchInv, Finish PROVE BatchInv'
<1>0. /\ BatchType /\ Chosen /\ Bounded /\ Accounted /\ Performed /\ SchedInv
      /\ phase = "run" /\ promise \in {"resolved", "rejected"}
      /\ UNCHANGED <<chosenVars, asked, effects, schedVars>>
  BY DEF BatchInv, Finish, chosenVars
<1>1. CASE phase' = "thrown"
  <2>1. unresolved' = unresolved /\ (cause' = cause \/ cause' = "empty")
    BY <1>1 DEF Finish, Throw
  <2> QED BY <1>0, <1>1, <2>1, ThrowStep
<1>2. CASE phase' # "thrown"
  <2>1. /\ promise = "resolved" /\ ~ \A k \in DOMAIN effects : effects[k] = "late"
        /\ phase' = "handed" /\ unresolved' = unresolved \cup Left /\ cause' = cause
    BY <1>2 DEF Finish, Throw
  <2>2. /\ effects \in [DOMAIN selected -> Outcomes \cup {None}]
        /\ \A k \in DOMAIN selected : effects[k] # None /\ (effects[k] = "late" => policy.partial)
    <3>1. \A e \in Batched(groups) : status[e] = "settled"
      BY <1>0, <2>1, SchedIdle DEF SettledOnlyWhenIdle
    <3> QED BY <1>0, <3>1 DEF Performed
  <2>3. \A k \in DOMAIN selected : effects[k] \in {"answer", "late"} /\ k \in DOMAIN effects
    BY <2>2 DEF Outcomes
  <2>4. Left \subseteq SelectedIndexes /\ Answered \subseteq SelectedIndexes
        /\ SelectedIndexes = Left \cup Answered /\ Left \cap Answered = {}
    BY <1>0, <2>2, <2>3 DEF Left, Answered, SelectedIndexes, Chosen
  <2>5. SelectedIndexes \subseteq Requests
    BY <1>0, PositionsAreEffects DEF SelectedIndexes
  <2>6. Answered # {}
    BY <2>1, <2>2, <2>3 DEF Answered
  <2>7. Left # {} => policy.partial
    BY <2>2 DEF Left
  <2>8. Requests' = Requests /\ policy' = policy /\ Answered' = Answered
    BY <1>0 DEF Requests, policy, Answered, chosenVars
  <2>9. BatchType'
    <3>1. unresolved' \subseteq Requests
      BY <1>0, <2>1, <2>4, <2>5 DEF BatchType
    <3> QED BY <1>0, <2>1, <2>8, <3>1 DEF BatchType, chosenVars, reportVars, Items
  <2>10. Reported' /\ Bounded' /\ Chosen' /\ Questioned' /\ AdmittedIsServed'
    BY <1>0, <2>1, SameChoice DEF BatchInv
  <2>11. Staged' /\ Performed'
    BY <2>1 DEF Staged, Performed
  <2>12. Accounted'
    <3>1. /\ unresolved # {} => policy.partial
          /\ unresolved \cup SelectedIndexes = Requests /\ unresolved \cap SelectedIndexes = {}
      BY <1>0 DEF Accounted
    <3>2. /\ unresolved' # {} => policy'.partial
          /\ Answered' \cup unresolved' = Requests' /\ Answered' \cap unresolved' = {}
          /\ Answered' # {}
      BY <2>1, <2>4, <2>6, <2>7, <2>8, <3>1
    <3> QED BY <2>1, <3>2 DEF Accounted, EveryRequestAccounted, Requests
  <2>13. SchedInv'
    BY <1>0, SameSchedule
  <2> QED BY <2>9, <2>10, <2>11, <2>12, <2>13 DEF BatchInv
<1> QED BY <1>1, <1>2

-------------------------------------------------------------------------------
\* What the return of a call leaves as it is, and what follows for the rest.
LEMMA ReturnKeeps ==
  ASSUME BatchInv, phase = "run", NEW k \in Effect,
         UNCHANGED <<chosenVars, phase, unresolved>>, asked' \subseteq Requests
  PROVE  /\ BatchType' /\ Staged' /\ Reported' /\ Bounded' /\ Chosen' /\ Accounted'
         /\ asked' = asked => Questioned'
<1>1. Reported' /\ Bounded' /\ Chosen' /\ (asked' = asked => Questioned')
  BY SameChoice DEF BatchInv
<1>2. BatchType'
  BY SameChoice DEF BatchInv, BatchType, chosenVars, reportVars, Items
<1>3. Staged'
  BY DEF Staged
<1>4. Accounted'
  <2>1. policy' = policy
    BY DEF policy, chosenVars
  <2> QED BY <2>1, SameChoice DEF BatchInv, Accounted, EveryRequestAccounted
<1> QED BY <1>1, <1>2, <1>3, <1>4

\* An effect of the batch settles with an answer, or is left over.
LEMMA ReturnStep ==
  ASSUME BatchInv, phase = "run", NEW k \in Effect, k \in DOMAIN selected, Settle(k),
         NEW a \in Outcomes, a = "late" => policy.partial, effects' = [effects EXCEPT ![k] = a],
         UNCHANGED <<chosenVars, phase, unresolved, asked, cause>>
  PROVE  BatchInv'
<1>1. /\ BatchType' /\ Staged' /\ Reported' /\ Bounded' /\ Chosen' /\ Accounted' /\ Questioned'
  BY ReturnKeeps DEF BatchInv, BatchType
<1>2. AdmittedIsServed'
  BY SameChoice DEF BatchInv
<1>3. SchedInv'
  BY SettleStep DEF BatchInv
<1>4. Performed'
  <2>1. groups' = groups /\ status' = [status EXCEPT ![k] = "settled"]
    BY DEF Settle, Ends
  <2>2. policy' = policy /\ selected' = selected
    BY DEF policy, chosenVars
  <2>3. None # a
    BY BatchAssumption
  <2>4. DOMAIN selected \subseteq Effect /\ status \in [Effect -> Status]
    BY PositionsAreEffects DEF BatchInv, SchedInv, SchedType
  <2> QED BY <2>1, <2>2, <2>3, <2>4 DEF BatchInv, Performed
<1> QED BY <1>1, <1>2, <1>3, <1>4 DEF BatchInv

\* An effect of the batch fails, for a cause that is not the policy's refusal.
LEMMA ErrStep ==
  ASSUME BatchInv, phase = "run", NEW k \in Effect, k \in DOMAIN selected, Fail(k),
         UNCHANGED <<chosenVars, phase, unresolved, asked, effects>>,
         cause' \in {"blocked", "driver"} \/ cause' = cause
  PROVE  BatchInv'
<1>1. /\ BatchType' /\ Staged' /\ Reported' /\ Bounded' /\ Chosen' /\ Accounted' /\ Questioned'
  BY ReturnKeeps DEF BatchInv, BatchType
<1>2. AdmittedIsServed'
  <2>1. CASE cause' = cause
    BY <2>1, SameChoice DEF BatchInv
  <2>2. CASE cause' \in {"blocked", "driver"}
    BY <2>2 DEF AdmittedIsServed
  <2> QED BY <2>1, <2>2
<1>3. SchedInv'
  BY FailStep DEF BatchInv
<1>4. Performed'
  <2>1. groups' = groups /\ status[k] = "running" /\ status' = [status EXCEPT ![k] = "failed"]
    BY DEF Fail, Ends
  <2>2. policy' = policy /\ selected' = selected
    BY DEF policy, chosenVars
  <2>3. DOMAIN selected \subseteq Effect /\ status \in [Effect -> Status]
    BY PositionsAreEffects DEF BatchInv, SchedInv, SchedType
  <2>4. \A e \in Effect : status'[e] = "settled" <=> status[e] = "settled"
    BY <2>1, <2>3
  <2> QED BY <2>1, <2>2, <2>3, <2>4 DEF BatchInv, Performed
<1> QED BY <1>1, <1>2, <1>3, <1>4 DEF BatchInv

\* A driver is asked.
LEMMA AskStep == ASSUME BatchInv, NEW k \in Effect, Ask(k) PROVE BatchInv'
<1>1. /\ phase = "run" /\ k \in DOMAIN selected /\ Allowed(k)
      /\ asked' = asked \cup {selected[k].index}
      /\ UNCHANGED <<chosenVars, phase, unresolved, effects, cause, schedVars>>
  BY DEF Ask, Waiting, Running, Item, chosenVars
<1>2. asked' \subseteq Requests
  BY <1>1, PositionsAreEffects DEF BatchInv, BatchType
<1>3. /\ BatchType' /\ Staged' /\ Reported' /\ Bounded' /\ Chosen' /\ Accounted'
  BY <1>1, <1>2, ReturnKeeps
<1>4. AdmittedIsServed'
  BY <1>1, SameChoice DEF BatchInv
<1>5. SchedInv'
  BY <1>1, SameSchedule DEF BatchInv
<1>6. Questioned'
  <2>1. \A l \in DOMAIN selected : selected[l].index \in asked' => Allowed(l)
    <3> SUFFICES ASSUME NEW l \in DOMAIN selected, selected[l].index \in asked' PROVE Allowed(l)
      OBVIOUS
    <3>1. selected[l].index \in asked \/ l = k
      BY <1>1 DEF BatchInv, Chosen
    <3> QED BY <1>1, <3>1 DEF BatchInv, Questioned
  <2>2. \A l : Allowed(l)' = Allowed(l)
    <3>1. policy' = policy
      BY <1>1 DEF policy, chosenVars
    <3> QED BY <1>1, <3>1 DEF Allowed, Driver, Request, Item, Approved, chosenVars
  <2>3. selected' = selected
    BY <1>1 DEF chosenVars
  <2> QED BY <2>1, <2>2, <2>3 DEF Questioned
<1>7. Performed'
  <2>1. policy' = policy /\ selected' = selected /\ groups' = groups /\ status' = status
    BY <1>1 DEF policy, chosenVars, schedVars
  <2> QED BY <1>1, <2>1 DEF BatchInv, Performed
<1> QED BY <1>3, <1>4, <1>5, <1>6, <1>7 DEF BatchInv

\* A call is not made.
LEMMA BlockStep == ASSUME BatchInv, NEW k \in Effect, Block(k) PROVE BatchInv'
<1>1. /\ phase = "run" /\ k \in DOMAIN selected /\ ~Reusable(Driver(Item(k)), Request(Item(k)))
      /\ UNCHANGED <<chosenVars, phase, unresolved, asked>>
  BY DEF Block, Waiting, Running, chosenVars
<1>2. Allowed(k)
  BY <1>1, SelectedIsAllowed
<1>3. CASE policy.partial
  <2>1. /\ effects' = [effects EXCEPT ![k] = "late"] /\ Settle(k) /\ cause' = cause
    BY <1>2, <1>3 DEF Block
  <2>2. "late" \in Outcomes
    BY DEF Outcomes
  <2> QED BY <1>1, <1>3, <2>1, <2>2, ReturnStep
<1>4. CASE ~policy.partial
  <2>1. Fail(k) /\ effects' = effects /\ (cause' = cause \/ cause' = "blocked")
    BY <1>2, <1>4 DEF Block
  <2> QED BY <1>1, <2>1, ErrStep
<1> QED BY <1>3, <1>4

\* An outcome of the journal, or of the driver.
LEMMA AnswerStep ==
  ASSUME BatchInv, NEW k \in Effect, Replay(k) \/ Answer(k) PROVE BatchInv'
<1>1. /\ phase = "run" /\ k \in DOMAIN selected /\ Settle(k)
      /\ effects' = [effects EXCEPT ![k] = "answer"]
      /\ UNCHANGED <<chosenVars, phase, unresolved, asked, cause>>
  BY DEF Replay, Answer, Waiting, Running, chosenVars
<1>2. "answer" \in Outcomes
  BY DEF Outcomes
<1> QED BY <1>1, <1>2, ReturnStep

\* A driver's error.
LEMMA DriverErrStep == ASSUME BatchInv, NEW k \in Effect, Err(k) PROVE BatchInv'
<1>1. /\ phase = "run" /\ k \in DOMAIN selected /\ Fail(k)
      /\ UNCHANGED <<chosenVars, phase, unresolved, asked, effects>>
      /\ cause' = cause \/ cause' = "driver"
  BY DEF Err, Running, chosenVars
<1> QED BY <1>1, ErrStep

\* The invariant holds of every run.
LEMMA BatchInvariance == Spec => []BatchInv
<1>1. ASSUME BatchInv, UNCHANGED vars PROVE BatchInv'
  <2>1. UNCHANGED <<chosenVars, phase, unresolved, asked, effects, cause, schedVars>>
    BY <1>1 DEF vars, batchVars, chosenVars
  <2>2. Reported' /\ Bounded' /\ Chosen' /\ Questioned' /\ AdmittedIsServed'
    BY <1>1, <2>1, SameChoice DEF BatchInv
  <2>3. BatchType'
    BY <1>1, <2>1, SameChoice DEF BatchInv, BatchType, chosenVars, reportVars, Items
  <2>4. policy' = policy /\ scenario' = scenario /\ selected' = selected /\ Answered' = Answered
        /\ groups' = groups /\ status' = status /\ promise' = promise
    BY <2>1 DEF policy, chosenVars, Answered, schedVars
  <2>5. Staged'
    BY <1>1, <2>1, <2>4 DEF BatchInv, Staged, chosenVars, reportVars
  <2>6. Accounted'
    BY <1>1, <2>1, <2>4, SameChoice DEF BatchInv, Accounted, EveryRequestAccounted
  <2>7. Performed'
    BY <1>1, <2>1, <2>4 DEF BatchInv, Performed
  <2>8. SchedInv'
    BY <1>1, <2>1, SameSchedule DEF BatchInv
  <2> QED BY <2>2, <2>3, <2>5, <2>6, <2>7, <2>8 DEF BatchInv
<1>2. ASSUME BatchInv, [Next]_vars PROVE BatchInv'
  <2>1. CASE Proceed
    BY <2>1, <1>2, PrepareStep, PreflightStep, BindStep, ContextStep, RunStep, ScheduleStep,
       FinishStep DEF Proceed
  <2>2. CASE \E k \in Effect : Return(k)
    BY <2>2, <1>2, AnswerStep, AskStep, BlockStep, DriverErrStep DEF Return
  <2>3. CASE Done \/ UNCHANGED vars
    BY <2>3, <1>1, <1>2 DEF Done
  <2> QED BY <1>2, <2>1, <2>2, <2>3 DEF Next
<1> QED BY <1>2, InitBatch, PTL DEF Spec

-------------------------------------------------------------------------------
\* The live models that a turn asks are never more than the policy's budget allows:
\* capabilities.mjs counts what worker.mjs and capability_policy.mjs see one by one.
THEOREM LiveBudget == Spec => []LiveBudgetRespected
<1>1. ASSUME BatchInv PROVE LiveBudgetRespected
  <2> DEFINE L == {k \in AskedItems : IsLiveModel(Driver(Item(k)), Request(Item(k)))}
  <2>1. ASSUME NEW k \in L
        PROVE  /\ k \in DOMAIN selected /\ ReportAccepted
               /\ \E p \in Charged : planned[p] = selected[k].index
    <3>1. k \in DOMAIN selected /\ selected[k].index \in asked
          /\ IsLiveModel(Driver(Item(k)), Request(Item(k)))
      BY DEF AskedItems
    <3>2. ~Reusable(Driver(Item(k)), Request(Item(k)))
      BY <1>1, <3>1 DEF BatchInv, Questioned, Allowed
    <3> HIDE DEF L
    <3>3. ReportAccepted /\ \E p \in DOMAIN routes : selected[k].index = planned[p] /\ p \in Charged
      BY <1>1, <3>1, <3>2, SelectedFits
    <3> QED BY <3>1, <3>3
  <2>2. CASE L = {}
    <3>1. Cardinality(L) = 0
      BY <2>2, FS_EmptySet
    <3>2. policy.budget \in Nat
      BY <1>1, ScenarioType DEF BatchInv
    <3> QED BY <3>1, <3>2 DEF LiveBudgetRespected
  <2>3. CASE L # {}
    <3> DEFINE f == [k \in L |-> CHOOSE p \in Charged : planned[p] = selected[k].index]
    <3> HIDE DEF L
    <3>1. \A k \in L : f[k] \in Charged /\ planned[f[k]] = selected[k].index
      BY <2>1
    <3>2. f \in [L -> Charged]
      BY <3>1
    <3> HIDE DEF f
    <3>3. ASSUME NEW k \in L, NEW l \in L, f[k] = f[l] PROVE k = l
      <4>1. selected[k].index = selected[l].index
        BY <3>1, <3>3
      <4> QED BY <1>1, <2>1, <4>1 DEF BatchInv, Chosen
    <3>4. f \in Injection(L, Charged)
      BY <3>2, <3>3 DEF Injection, IsInjective
    <3>5. IsFiniteSet(Charged) /\ Cardinality(Charged) <= policy.budget /\ Cardinality(Charged) \in Nat
      BY <1>1, <2>1, <2>3, ChargedFits
    <3>6. IsFiniteSet(L) /\ Cardinality(L) <= Cardinality(Charged)
      BY <3>4, <3>5, FS_Injection
    <3>7. Cardinality(L) \in Nat /\ policy.budget \in Nat
      BY <1>1, <3>6, FS_CardinalityType, ScenarioType DEF BatchInv
    <3>8. Cardinality(L) <= policy.budget
      BY <3>5, <3>6, <3>7
    <3> QED BY <3>8 DEF L, LiveBudgetRespected
  <2> QED BY <2>2, <2>3
<1> QED BY <1>1, BatchInvariance, PTL

\* A driver of a turn is asked only as the policy demands, with the approval that its
\* request needs: capabilities.mjs admits it and beforeInvoke checks it once more.
THEOREM PolicyHeld == Spec => []AskedWithinPolicy
<1>1. ASSUME BatchInv PROVE AskedWithinPolicy
  <2> SUFFICES ASSUME NEW k \in DOMAIN selected, selected[k].index \in asked
               PROVE  /\ NeedsApproval(Driver(Item(k)), Request(Item(k)), policy) => Approved(k)
                      /\ Admissible(Driver(Item(k)), Request(Item(k)), policy)
                      /\ ~policy.auditOnly
    BY DEF AskedWithinPolicy, AskedItems
  <2>1. Allows(Driver(Item(k)), Request(Item(k)), policy, Approved(k), FALSE)
    BY <1>1 DEF BatchInv, Questioned, Allowed
  <2>2. Admissible(Driver(Item(k)), Request(Item(k)), policy)
    BY <1>1, SelectedFits
  <2> QED BY <2>1, <2>2 DEF Allows
<1> QED BY <1>1, BatchInvariance, PTL

\* What capabilities.mjs has accepted, worker.mjs and capability_policy.mjs serve: the
\* bound driver supports the request, nothing is refused once drivers may have been
\* asked, and the only rule that a context can fail is that for best_effort drivers.
THEOREM AdmittedServed == Spec => []AdmittedIsServed
<1>1. BatchInv => AdmittedIsServed
  BY DEF BatchInv
<1> QED BY <1>1, BatchInvariance, PTL

\* A turn that advance() hands on answers every request or reports it as unresolved.
THEOREM RequestsAccounted == Spec => []EveryRequestAccounted
<1>1. BatchInv => EveryRequestAccounted
  BY DEF BatchInv, Accounted
<1> QED BY <1>1, BatchInvariance, PTL

\* The turn's scheduler implements EffectPool, with the effects that advance() selects
\* and whatever happens to them.
THEOREM BatchImplementsPool == Spec => ImplementsPool
<1>1. Init => Pool!Init
  BY DEF Init, SchedInit, Pool!Init, Group
<1>2. ASSUME BatchInv, [Next]_vars PROVE [Pool!Next]_(Pool!poolVars)
  <2>1. CASE UNCHANGED schedVars
    BY <2>1 DEF schedVars, Pool!poolVars, Group
  <2>2. CASE Run
    <3>1. CASE selected = <<>>
      <4>1. UNCHANGED schedVars
        BY <2>2, <3>1 DEF Run
      <4> QED BY <2>1, <4>1
    <3>2. CASE selected # <<>>
      <4>1. IsBatch(Batch) /\ Start(Batch)
        BY <1>2, <2>2, <3>2, BatchIsBatch DEF BatchInv, Run
      <4> QED BY <1>2, <4>1, StartIsBegin DEF BatchInv, Pool!Next
    <3> QED BY <3>1, <3>2
  <2>3. CASE LaunchNext
    BY <2>3, <1>2, LaunchIsLaunch DEF BatchInv, Pool!Next
  <2>4. CASE LaunchDone
    BY <2>4 DEF LaunchDone, Pool!poolVars, Group
  <2>5. CASE \E k \in Effect : Settle(k) \/ Fail(k)
    BY <2>5, <1>2, EndIsEnd DEF BatchInv, Pool!Next
  <2>6. CASE Proceed
    <3>1. CASE Prepare \/ Preflight \/ Bind \/ Context \/ Finish
      BY <3>1, <2>1 DEF Prepare, Preflight, Bind, Context, Finish
    <3> QED BY <2>2, <2>3, <2>4, <2>6, <3>1 DEF Proceed, Schedule
  <2>7. CASE \E k \in Effect : Return(k)
    <3>1. PICK k \in Effect : Return(k)
      BY <2>7
    <3>2. CASE Ask(k)
      BY <3>2, <2>1 DEF Ask
    <3>3. CASE Replay(k) \/ Answer(k) \/ Block(k) \/ Err(k)
      BY <3>3, <2>5 DEF Replay, Answer, Block, Err
    <3> QED BY <3>1, <3>2, <3>3 DEF Return
  <2>8. CASE Done \/ UNCHANGED vars
    BY <2>8, <2>1 DEF Done, vars
  <2> QED BY <1>2, <2>6, <2>7, <2>8 DEF Next
<1> QED BY <1>1, <1>2, BatchInvariance, PTL DEF Spec, Pool!Spec, ImplementsPool
===============================================================================
