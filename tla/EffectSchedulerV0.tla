--------------------------- MODULE EffectSchedulerV0 ---------------------------
(***************************************************************************)
(* The scheduler of the effects of a turn (runGroupedBounded in              *)
(* src/src/core/worker.mjs).  The effects are grouped by driver; a group has *)
(* a limit, and so have all together.  launch() starts effects, taking the   *)
(* groups in turn from a cursor, until no group is ready or the limit is     *)
(* reached; it runs at the start and after every effect that settles, and is *)
(* synchronous: while it loops nothing else happens ("launching").           *)
(* What an effect does is left to the module that uses this one.             *)
(***************************************************************************)
EXTENDS Naturals, FiniteSets, Sequences

CONSTANTS Effect, NoError, Batches

VARIABLES
  groups,      \* groups[g]: the effects of a driver, in order, and their limit
  globalLimit,
  next,        \* next[g]: how many of the group have been started
  active,      \* active[g]: how many of them run
  activeAll,
  settled,     \* how many have ended
  cursor,      \* the group from which the next one to start is looked for
  firstError,  \* the effect whose error came first, or NoError
  launching,
  promise,     \* "none" before the batch, then "pending", "resolved", "rejected"
  status       \* status[e]: "idle", "running", "settled" or "failed"

schedVars == <<groups, globalLimit, next, active, activeAll, settled, cursor, firstError,
               launching, promise, status>>

Group == DOMAIN groups
Members(G, g) == {G[g].effects[i] : i \in DOMAIN G[g].effects}
Batched(G) == UNION {Members(G, g) : g \in DOMAIN G}
Total == Cardinality(Batched(groups))

\* An effect is in one group, once; limits are at least one
\* (effectConcurrencyLimit and effectGlobalConcurrencyLimit throw otherwise).
IsBatch(b) ==
  /\ DOMAIN b = {"groups", "limit"}
  /\ b.limit \in Nat \ {0}
  /\ b.groups \in Seq([effects : Seq(Effect), limit : Nat \ {0}])
  /\ \A g, h \in DOMAIN b.groups : \A i \in DOMAIN b.groups[g].effects :
       \A j \in DOMAIN b.groups[h].effects :
         b.groups[g].effects[i] = b.groups[h].effects[j] => g = h /\ i = j

ASSUME SchedulerAssumption ==
  IsFiniteSet(Effect) /\ NoError \notin Effect /\ \A b \in Batches : IsBatch(b)

SchedInit ==
  /\ groups = <<>> /\ globalLimit = 0
  /\ next = <<>> /\ active = <<>>
  /\ activeAll = 0 /\ settled = 0 /\ cursor = 1
  /\ firstError = NoError
  /\ launching = FALSE
  /\ promise = "none"
  /\ status = [e \in Effect |-> "idle"]

-------------------------------------------------------------------------------
\* launch(): nothing after an error; resolved when all have settled; or the loop.
Launch(total, done) ==
  IF done = total THEN promise' = "resolved" /\ launching' = FALSE
                  ELSE promise' = "pending" /\ launching' = TRUE

Start(b) ==
  /\ promise = "none"
  /\ groups' = b.groups
  /\ globalLimit' = b.limit
  /\ next' = [g \in DOMAIN b.groups |-> 0]
  /\ active' = [g \in DOMAIN b.groups |-> 0]
  /\ Launch(Cardinality(Batched(b.groups)), settled)
  /\ UNCHANGED <<activeAll, settled, cursor, firstError, status>>

Ready(g) == next[g] < Len(groups[g].effects) /\ active[g] < groups[g].limit

\* The group at an offset from the cursor, which goes round.
At(offset) ==
  IF cursor + offset > Len(groups) THEN cursor + offset - Len(groups) ELSE cursor + offset

NextReadyGroup(g) ==
  /\ Ready(g)
  /\ \E o \in 0 .. (Len(groups) - 1) :
       g = At(o) /\ \A p \in 0 .. (Len(groups) - 1) : p < o => ~Ready(At(p))

LaunchNext ==
  /\ launching
  /\ activeAll < globalLimit
  /\ \E g \in Group :
       /\ NextReadyGroup(g)
       /\ LET e == groups[g].effects[next[g] + 1]
          IN status' = [status EXCEPT ![e] = "running"]
       /\ next' = [next EXCEPT ![g] = @ + 1]
       /\ active' = [active EXCEPT ![g] = @ + 1]
       /\ cursor' = IF g = Len(groups) THEN 1 ELSE g + 1
  /\ activeAll' = activeAll + 1
  /\ UNCHANGED <<groups, globalLimit, settled, firstError, launching, promise>>

LaunchDone ==
  /\ launching
  /\ activeAll < globalLimit => \A g \in Group : ~Ready(g)
  /\ launching' = FALSE
  /\ UNCHANGED <<groups, globalLimit, next, active, activeAll, settled, cursor, firstError,
                 promise, status>>

GroupOf(e) == CHOOSE g \in Group : e \in Members(groups, g)

Ends(e, outcome) ==
  /\ ~launching
  /\ status[e] = "running"
  /\ status' = [status EXCEPT ![e] = outcome]
  /\ active' = [active EXCEPT ![GroupOf(e)] = @ - 1]
  /\ activeAll' = activeAll - 1
  /\ settled' = settled + 1
  /\ UNCHANGED <<groups, globalLimit, next, cursor>>

RejectWhenIdle ==
  /\ promise' = IF activeAll' = 0 THEN "rejected" ELSE promise
  /\ UNCHANGED launching

\* Mutant: launch() is called although an effect has failed.
SettleOn(e) ==
  /\ Ends(e, "settled")
  /\ IF firstError # NoError /\ activeAll' = 0 THEN RejectWhenIdle
                                              ELSE Launch(Total, settled')
  /\ UNCHANGED firstError

Settle(e) ==
  /\ Ends(e, "settled")
  /\ IF firstError # NoError THEN RejectWhenIdle ELSE Launch(Total, settled')
  /\ UNCHANGED firstError

\* Mutant: an effect that fails while others run is not counted out.
FailUncounted(e) ==
  /\ Ends(e, "failed")
  /\ firstError' = IF firstError = NoError THEN e ELSE firstError
  /\ promise' = IF activeAll' = 0 /\ firstError # NoError THEN "rejected" ELSE promise
  /\ UNCHANGED launching

Fail(e) ==
  /\ Ends(e, "failed")
  /\ firstError' = IF firstError = NoError THEN e ELSE firstError
  /\ RejectWhenIdle

SchedNext ==
  \/ \E b \in Batches : Start(b)
  \/ LaunchNext \/ LaunchDone
  \/ \E e \in Effect : Settle(e) \/ Fail(e)

SchedSpec == SchedInit /\ [][SchedNext]_schedVars

-------------------------------------------------------------------------------
RunningIn(S) == {e \in S : status[e] = "running"}

\* An effect runs, or waits, only within the limits: what runs of a group is never
\* more than the group's limit, and what runs at all never more than the policy's
\* (the counters agree with the effects that really run).
LimitsRespected ==
  /\ Cardinality(RunningIn(Effect)) <= globalLimit
  /\ \A g \in Group : Cardinality(RunningIn(Members(groups, g))) <= groups[g].limit

\* The batch settles only when nothing runs any more: then no driver is at work for
\* a turn that has been submitted or given up.  It is resolved when every effect
\* has settled, and rejected when one has failed.
SettledOnlyWhenIdle ==
  /\ promise \in {"resolved", "rejected"} => RunningIn(Effect) = {}
  /\ promise = "resolved" => \A e \in Batched(groups) : status[e] = "settled"
  /\ promise = "rejected" => firstError # NoError /\ status[firstError] = "failed"

\* No effect waits while it could run: between two launches the limit of all or the
\* limit of its group is reached, so that a batch cannot stop with work left over.
NoIdleCapacity ==
  promise = "pending" /\ ~launching /\ firstError = NoError =>
    \A g \in Group : \A e \in Members(groups, g) :
      status[e] = "idle" =>
        \/ Cardinality(RunningIn(Effect)) = globalLimit
        \/ Cardinality(RunningIn(Members(groups, g))) = groups[g].limit

\* The scheduler implements the pool of EffectPool.
Pool ==
  INSTANCE EffectPool WITH
    pool <- {[effects |-> Members(groups, g), limit |-> groups[g].limit] : g \in Group},
    width <- globalLimit, state <- status, error <- firstError, verdict <- promise

ImplementsPool == Pool!Spec
===============================================================================
