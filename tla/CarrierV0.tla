-------------------------------- MODULE CarrierV0 --------------------------------
(***************************************************************************)
(* Carrier v0: RunController.advance (src/src/core/worker.mjs) over the     *)
(* EffectJournal (src/src/core/effect_journal.mjs), with the fork, recover  *)
(* and reconcile commands of one run.  An advance reads a head, resolves    *)
(* the HostRequest its closure waits for through the journal, submits the   *)
(* turn, publishes the new closure by compare-and-swap and only then marks  *)
(* the effect committed and the run record's provenance.  Advances are      *)
(* tasks of one process, which holds the store's lock; a task may throw,    *)
(* and with the process dies, between any two of its writes.                *)
(* Blobs are put before the record that names them and are never removed:   *)
(* they are not modelled.  All calls of one key are serialised by           *)
(* withEffectKeyLock, so a step is what happens under it up to a write      *)
(* or a call of the driver.                                                 *)
(***************************************************************************)
EXTENDS Naturals, Sequences, FiniteSets

CONSTANTS
  Task,
  FailProne,  \* the tasks that may throw or die at any point
  Branch, Main,
  Closure, Genesis,
  Classes,    \* the recovery classes considered
  Final,      \* closures whose status cannot be continued
  Key,        \* complete idempotency keys
  Outcome,    \* ResolutionInputs
  Pending,    \* Pending[c]: the key of the HostRequest c waits for, or None
  World,      \* World[c, outcome or None]: the next closure, or None when refused
  Applied,    \* <<c, outcome>>: the turn's receipt names the reply
  Accepting,  \* the sets of outcomes that manifests and policies accept
  None

RecoveryClass == {"idempotent", "externally_recoverable", "best_effort"}

ASSUME CarrierAssumption ==
  /\ Classes \subseteq RecoveryClass
  /\ FailProne \subseteq Task
  /\ Main \in Branch /\ Genesis \in Closure /\ Final \subseteq Closure
  /\ None \notin Closure /\ None \notin Key /\ None \notin Outcome
  /\ Pending \in [Closure -> Key \cup {None}]
  /\ World \in [Closure \X (Outcome \cup {None}) -> Closure \cup {None}]
  /\ Applied \subseteq Closure \X Outcome
  /\ Accepting \subseteq SUBSET Outcome
  /\ Outcome \in Accepting

VARIABLES
  class,        \* the driver's recovery class; pure is treated as idempotent and
                \* transactional as externally_recoverable
  policies,     \* what the callers' policies accept
  heads,        \* heads[b]: every head of branch b, in order
  run,          \* run[b]: what the run record says of b
  effects,      \* effects[b][k]: the EffectRecord
  call,         \* call[t]: the local state of a task
  invocations   \* history: how often the driver was asked to resolve k for b

vars == <<class, policies, heads, run, effects, call, invocations>>

NoRecord == [state |-> "none", parent |-> None, outcome |-> None]

Idle == [pc |-> "idle", op |-> "none", branch |-> None, key |-> None, head |-> None,
         accepts |-> {}, outcome |-> None, child |-> None]

Unlisted == [current |-> None, history |-> {}]

FirstHead == [generation |-> 0, closure |-> Genesis, parent |-> None, committed |-> None]

\* getOrCreateInitialRun has created the run and its first head.
Init ==
  /\ class \in Classes
  /\ policies \in {{Outcome}, Accepting}
  /\ heads = [b \in Branch |-> IF b = Main THEN <<FirstHead>> ELSE <<>>]
  /\ run = [b \in Branch |-> IF b = Main THEN [current |-> FirstHead, history |-> {}]
                             ELSE Unlisted]
  /\ effects = [b \in Branch |-> [k \in Key |-> NoRecord]]
  /\ call = [t \in Task |-> Idle]
  /\ invocations = [b \in Branch |-> [k \in Key |-> 0]]

-------------------------------------------------------------------------------
Begun(b) == heads[b] # <<>>
Current(b) == heads[b][Len(heads[b])]

WithOutcome == {"resolved", "submitted", "closure_committed"}
Parked == {"failed", "operator_intervention_required"}

\* EFFECT_STATE_ORDER.
Order == [state \in {"none", "observed", "running"} \cup WithOutcome \cup Parked |->
  CASE state \in {"none", "observed"} -> 0 [] state = "running" -> 2 [] state = "resolved" -> 3
    [] state = "submitted" -> 4 [] state = "closure_committed" -> 5 [] OTHER -> 6]

Goto(t, c) == call' = [call EXCEPT ![t] = c]
At(t, pc) == Goto(t, [call[t] EXCEPT !.pc = pc])

\* The record of t's key on t's branch, and its replacement (putEffectRecord).
Record(t) == effects[call[t].branch][call[t].key]
Put(t, record) == effects' = [effects EXCEPT ![call[t].branch][call[t].key] = record]
PutState(t, state) ==
  Put(t, [state |-> state, parent |-> Record(t).parent, outcome |-> Record(t).outcome])

Parent(t) == call[t].head.closure

\* The records other branches of the run hold under t's key.
Elsewhere(t) == {effects[b][call[t].key] : b \in Branch \ {call[t].branch}}

\* Mutant: the lock's key names the branch too.
KeyFreeOnBranch(t, k) ==
  \A u \in Task \ {t} :
    call[u].key = k /\ call[u].branch = call[t].branch
      => call[u].pc \notin {"observe", "preflight", "invoke", "driver", "answered", "recover"}

\* withEffectKeyLock: one task at a time, over all branches of the run.
Holding == {"observe", "preflight", "invoke", "driver", "answered", "recover"}
KeyFree(t, k) == \A u \in Task \ {t} : call[u].key = k => call[u].pc \notin Holding

\* fork and recover hold the store's lock in a process of their own.
Exclusive == {"fork", "reconcile"}
Shared == \A u \in Task : call[u].op \notin Exclusive
Alone == \A u \in Task : call[u] = Idle

\* A call that throws, or whose process dies, leaves the store as it is.
Abandon(t) ==
  /\ Goto(t, Idle)
  /\ UNCHANGED <<heads, run, effects, invocations>>

Reresolvable == class = "idempotent"

\* driverFailureState, also for an outcome that could not be persisted.
DriverFailure == IF class = "best_effort" THEN "operator_intervention_required" ELSE "running"

\* invalidResolutionFailureState.
InvalidResolution == IF class = "best_effort" THEN "operator_intervention_required" ELSE "failed"

-------------------------------------------------------------------------------
\* advance, up to the head it continues from.
Advance(t, b, accepts) ==
  /\ call[t] = Idle /\ Shared
  /\ Begun(b)
  /\ Current(b).closure \notin Final
  /\ accepts \in policies
  /\ Goto(t, [Idle EXCEPT !.op = "advance", !.branch = b, !.head = Current(b),
                          !.accepts = accepts, !.key = Pending[Current(b).closure],
                          !.pc = IF Pending[Current(b).closure] = None THEN "turn"
                                 ELSE "resolve"])
  /\ UNCHANGED <<heads, run, effects, invocations>>

\* Mutant: a record of another parent is taken over whatever became of it.
ReboundParked(record, parent) ==
  [state |-> IF record.state \in WithOutcome THEN "resolved" ELSE "observed",
   parent |-> parent, outcome |-> record.outcome]

\* #reuseOrConflict: a record made for another parent closure now belongs to this
\* one; an outcome is to be submitted again.
Rebound(record, parent) ==
  IF record.state = "none" \/ record.state \in Parked THEN record
  ELSE IF record.parent = parent THEN record
  ELSE [state |-> IF record.state \in WithOutcome THEN "resolved" ELSE record.state,
        parent |-> parent, outcome |-> record.outcome]

\* Holding the lock: the record is rebound to the parent of this call.
LockKey(t) ==
  /\ call[t].pc = "resolve"
  /\ KeyFree(t, call[t].key)
  /\ Put(t, Rebound(Record(t), Parent(t)))
  /\ At(t, "observe")
  /\ UNCHANGED <<heads, run, invocations>>

\* #nonInvokingResolution: an accepted outcome is the call's own.
Reuses(t, outcome) ==
  /\ outcome \in call[t].accepts
  /\ Goto(t, [call[t] EXCEPT !.pc = "turn", !.outcome = outcome])

\* A record that has, or that could not get, an outcome.
Reuse(t) ==
  /\ call[t].pc = "observe"
  /\ Record(t).state \in WithOutcome
  /\ Reuses(t, Record(t).outcome)
  /\ UNCHANGED <<heads, run, effects, invocations>>

\* #branchLocalReusableRecord: an outcome of another branch, an accepted one where
\* there is one, is copied for this branch and its parent closure.
Reusable(t) ==
  LET found == {r.outcome : r \in {s \in Elsewhere(t) : s.state \in WithOutcome}}
  IN IF found \cap call[t].accepts # {} THEN found \cap call[t].accepts ELSE found

Unresolved(t) == Record(t).state \in {"none", "observed", "running"}

ReuseElsewhere(t) ==
  /\ call[t].pc = "observe"
  /\ Unresolved(t)
  /\ \E outcome \in Reusable(t) :
       /\ Put(t, [state |-> "resolved", parent |-> Parent(t), outcome |-> outcome])
       /\ \/ Reuses(t, outcome)
          \/ outcome \notin call[t].accepts /\ UNCHANGED call
  /\ UNCHANGED <<heads, run, invocations>>

NothingToReuse(t) ==
  /\ call[t].pc = "observe"
  /\ Unresolved(t) /\ Reusable(t) = {}
  /\ At(t, "preflight")
  /\ UNCHANGED <<heads, run, effects, invocations>>

\* Mutant: any outcome that is not accepted is asked for again.
MayDropAny(record) == TRUE

\* Only a resolved outcome of a driver that may be asked again is dropped, and
\* only for some of the errors (retryableReusableResolutionError).
MayDrop(record) == record.state = "resolved" /\ Reresolvable

DropOutcome(t) ==
  /\ call[t].pc = "observe"
  /\ Record(t).state \in WithOutcome
  /\ Record(t).outcome \notin call[t].accepts
  /\ MayDrop(Record(t))
  /\ Put(t, [state |-> "observed", parent |-> Record(t).parent, outcome |-> None])
  /\ At(t, "preflight")
  /\ UNCHANGED <<heads, run, invocations>>

\* Failed and parked effects need an operator; an outcome that is not accepted
\* ends the call.
RejectRecord(t) ==
  /\ call[t].pc = "observe"
  /\ \/ Record(t).state \in Parked
     \/ Record(t).state \in WithOutcome /\ Record(t).outcome \notin call[t].accepts
  /\ Abandon(t)

RunningElsewhere(t) == \E r \in Elsewhere(t) : r.state = "running"

\* The driver's preflight passed: the effect is observed, or taken over running
\* from another branch, in which case it is recovered and not invoked.
Preflight(t) ==
  /\ call[t].pc = "preflight"
  /\ CASE Record(t).state = "running" -> At(t, "recover") /\ UNCHANGED effects
       [] Record(t).state = "observed" -> At(t, "invoke") /\ UNCHANGED effects
       [] OTHER ->
            IF RunningElsewhere(t)
              THEN Put(t, [state |-> "running", parent |-> Parent(t), outcome |-> None])
                   /\ At(t, "recover")
              ELSE Put(t, [state |-> "observed", parent |-> Parent(t), outcome |-> None])
                   /\ At(t, "invoke")
  /\ UNCHANGED <<heads, run, invocations>>

Blocked(t) == call[t].pc = "preflight" /\ Abandon(t)

\* Mutant: the record says running only once the driver has answered.
InvokeUnrecorded(t) ==
  /\ call[t].pc = "invoke"
  /\ At(t, "driver")
  /\ UNCHANGED <<heads, run, effects, invocations>>

\* The record says running before the driver is called.
Invoke(t) ==
  /\ call[t].pc = "invoke"
  /\ Put(t, [state |-> "running", parent |-> Record(t).parent, outcome |-> None])
  /\ At(t, "driver")
  /\ UNCHANGED <<heads, run, invocations>>

\* Two stands for more than one; drivers that may be asked again are not counted.
Counted(t) ==
  invocations' = [invocations EXCEPT ![call[t].branch][call[t].key] =
                    IF Reresolvable THEN 0 ELSE IF @ = 0 THEN 1 ELSE 2]

\* driver.resolve: it answers, or throws or answers nothing valid (None), perhaps
\* after its effect.
Drive(t) ==
  /\ call[t].pc = "driver"
  /\ Counted(t)
  /\ \E answer \in Outcome \cup {None} :
       Goto(t, [call[t] EXCEPT !.pc = "answered", !.outcome = answer])
  /\ UNCHANGED <<heads, run, effects>>

Resolved(t, outcome) ==
  Put(t, [state |-> "resolved", parent |-> Record(t).parent, outcome |-> outcome])

\* The outcome is persisted before the turn is submitted.
Persist(t) ==
  /\ call[t].pc = "answered"
  /\ call[t].outcome \in call[t].accepts
  /\ Resolved(t, call[t].outcome)
  /\ At(t, "turn")
  /\ UNCHANGED <<heads, run, invocations>>

\* A driver that throws and an outcome that cannot be persisted are one case; an
\* answer that is not accepted is another.
DriverFailed(t) ==
  /\ call[t].pc = "answered"
  /\ \/ call[t].outcome \in call[t].accepts \cup {None} /\ PutState(t, DriverFailure)
     \/ call[t].outcome \notin call[t].accepts /\ PutState(t, InvalidResolution)
  /\ Goto(t, Idle)
  /\ UNCHANGED <<heads, run, invocations>>

-------------------------------------------------------------------------------
\* #recoverLocked of an effect without an outcome: the driver's recover hook, or
\* resolve again where that is safe; the hook may ask for the operator, and when
\* the driver throws the record stays as it is.
Recover(t) ==
  /\ call[t].pc = "recover"
  /\ IF class = "best_effort"
       THEN /\ PutState(t, "operator_intervention_required")
            /\ Goto(t, Idle)
       ELSE \/ \E outcome \in call[t].accepts :
                 /\ Resolved(t, outcome)
                 /\ Goto(t, IF call[t].op = "recover" THEN Idle
                            ELSE [call[t] EXCEPT !.pc = "turn", !.outcome = outcome])
            \/ /\ \/ PutState(t, InvalidResolution)
                  \/ PutState(t, "operator_intervention_required")
                  \/ UNCHANGED effects
               /\ Goto(t, Idle)
  /\ UNCHANGED <<heads, run, invocations>>

\* EffectJournal.recover, called by an operator's tool.
RecoverEffect(t, b, k, accepts) ==
  /\ call[t] = Idle /\ Shared
  /\ accepts \in policies
  /\ effects[b][k].state \notin WithOutcome \cup {"none"}
  /\ KeyFree(t, k)
  /\ Goto(t, [Idle EXCEPT !.op = "recover", !.branch = b, !.key = k, !.accepts = accepts,
                          !.pc = "recover"])
  /\ UNCHANGED <<heads, run, effects, invocations>>

-------------------------------------------------------------------------------
\* The worker submits the turn; the reply is confirmed if the receipt names it.
SubmitTurn(t) ==
  /\ call[t].pc = "turn"
  /\ LET parent == Parent(t)
         child == World[parent, call[t].outcome]
     IN /\ child # None
        /\ Goto(t, [call[t] EXCEPT !.child = child,
                      !.pc = IF <<parent, call[t].outcome>> \in Applied THEN "submit" ELSE "cas"])
  /\ UNCHANGED <<heads, run, effects, invocations>>

RejectTurn(t) ==
  /\ call[t].pc = "turn"
  /\ World[Parent(t), call[t].outcome] = None
  /\ Abandon(t)

Confirmed(t) == <<Parent(t), call[t].outcome>> \in Applied

\* Mutant: a record that is in that state already is refused.
MayMarkOnce(t, state) ==
  /\ Order[Record(t).state] < Order[state]
  /\ Record(t).outcome # None

\* #advance: a record's state only moves on, and needs an outcome to.
MayMark(t, state) ==
  /\ Order[Record(t).state] <= Order[state]
  /\ Record(t).outcome # None

\* Mutant: the confirmed effects are marked after the swap only.
MarkNothing(t) ==
  /\ call[t].pc = "submit"
  /\ At(t, "cas")
  /\ UNCHANGED <<heads, run, effects, invocations>>

MarkSubmitted(t) ==
  /\ call[t].pc = "submit"
  /\ KeyFree(t, call[t].key)
  /\ MayMark(t, "submitted")
  /\ PutState(t, "submitted")
  /\ At(t, "cas")
  /\ UNCHANGED <<heads, run, invocations>>

RejectSubmitted(t) ==
  /\ call[t].pc = "submit"
  /\ KeyFree(t, call[t].key)
  /\ ~MayMark(t, "submitted")
  /\ Abandon(t)

\* Mutant: the heads are not compared.
AnyHead(b, head) == TRUE

\* compareAndSwapHead compares generations, under the head's queue.
SameHead(b, head) == Current(b).generation = head.generation

NextHead(t) ==
  [generation |-> call[t].head.generation + 1, closure |-> call[t].child,
   parent |-> Parent(t), committed |-> IF Confirmed(t) THEN call[t].key ELSE None]

SwapHead(t) ==
  /\ call[t].pc = "cas"
  /\ SameHead(call[t].branch, call[t].head)
  /\ heads' = [heads EXCEPT ![call[t].branch] = Append(@, NextHead(t))]
  /\ At(t, IF Confirmed(t) THEN "commit" ELSE "provenance")
  /\ UNCHANGED <<run, effects, invocations>>

\* branch_conflict: the closure is left an orphan, the effect submitted.
LoseSwap(t) ==
  /\ call[t].pc = "cas"
  /\ ~SameHead(call[t].branch, call[t].head)
  /\ Abandon(t)

MarkClosureCommitted(t) ==
  /\ call[t].pc = "commit"
  /\ KeyFree(t, call[t].key)
  /\ MayMark(t, "closure_committed")
  /\ PutState(t, "closure_committed")
  /\ IF call[t].op = "reconcile" THEN Goto(t, Idle) ELSE At(t, "provenance")
  /\ UNCHANGED <<heads, run, invocations>>

RejectCommitted(t) ==
  /\ call[t].pc = "commit"
  /\ KeyFree(t, call[t].key)
  /\ ~MayMark(t, "closure_committed")
  /\ Abandon(t)

\* recordBranchHeadProvenance: the run record takes the new head, and keeps the
\* parent and whatever head it had before.
RecordProvenance(t) ==
  /\ call[t].pc = "provenance"
  /\ LET b == call[t].branch
     IN run' = IF run[b] = Unlisted THEN run
               ELSE [run EXCEPT ![b] =
                       [current |-> NextHead(t),
                        history |-> @.history \cup {@.current, call[t].head}]]
  /\ Goto(t, Idle)
  /\ UNCHANGED <<heads, effects, invocations>>

-------------------------------------------------------------------------------
\* Mutant: the head's confirmed effects are not looked at.
CommitsAny(head, k) == TRUE

\* committedEffectIds.
Commits(head, k) == head.committed = k

\* recover: reconcileCommittedHead of the branch's head.
Reconcile(t, b, k) ==
  /\ Alone
  /\ Begun(b)
  /\ Current(b).parent # None
  /\ effects[b][k].state = "submitted"
  /\ effects[b][k].parent = Current(b).parent
  /\ Commits(Current(b), k)
  /\ Goto(t, [Idle EXCEPT !.op = "reconcile", !.branch = b, !.key = k, !.pc = "commit"])
  /\ UNCHANGED <<heads, run, effects, invocations>>

\* storedTurnClosureHead: the heads the run record lists, but for genesis, whose blob
\* is no TurnClosure; its current closure, not yet in the history, is read again from
\* the blob, which knows neither parent nor committed effects.
Stored(b) ==
  LET current == run[b].current
      listed == run[b].history
  IN listed \cup (IF current = None \/ current.closure \in {h.closure : h \in listed} THEN {}
                  ELSE {[current EXCEPT !.parent = None, !.committed = None]})

Forkable(b) ==
  {Current(b)} \cup {h \in Stored(b) : h.closure \notin {Genesis, Current(b).closure}}

\* Mutant: an interrupted fork is resumed from any head.
ForkHeadsUnchecked(source, target) == Forkable(source)

\* Or from the head an interrupted fork has left.
ForkHeads(source, target) ==
  IF Begun(target)
    THEN {h \in {Current(target)} : h.closure = Current(source).closure => h = Current(source)}
    ELSE Forkable(source)

\* forkRunBranch: the head is written, then the run.
ForkHead(t, source, target) ==
  /\ Alone
  /\ Begun(source) /\ source # target
  /\ run[target] = Unlisted
  /\ \E head \in ForkHeads(source, target) :
       /\ heads' = [heads EXCEPT ![target] = IF Begun(target) THEN @ ELSE <<head>>]
       /\ Goto(t, [Idle EXCEPT !.op = "fork", !.branch = target, !.head = head, !.pc = "list"])
  /\ UNCHANGED <<run, effects, invocations>>

ForkList(t) ==
  /\ call[t].pc = "list"
  /\ run' = [run EXCEPT ![call[t].branch] = [current |-> call[t].head, history |-> {}]]
  /\ Goto(t, Idle)
  /\ UNCHANGED <<heads, effects, invocations>>

-------------------------------------------------------------------------------
Fail(t) == t \in FailProne /\ call[t] # Idle /\ Abandon(t)

Continue(t) ==
  \/ LockKey(t) \/ Reuse(t) \/ ReuseElsewhere(t) \/ NothingToReuse(t) \/ DropOutcome(t) \/ RejectRecord(t)
  \/ Preflight(t) \/ Blocked(t) \/ Invoke(t) \/ Drive(t) \/ Persist(t) \/ DriverFailed(t)
  \/ Recover(t) \/ SubmitTurn(t) \/ RejectTurn(t) \/ MarkSubmitted(t) \/ RejectSubmitted(t)
  \/ SwapHead(t) \/ LoseSwap(t) \/ MarkClosureCommitted(t) \/ RejectCommitted(t)
  \/ RecordProvenance(t) \/ ForkList(t)

Begin(t) ==
  \/ \E b \in Branch, accepts \in policies : Advance(t, b, accepts)
  \/ \E b \in Branch, k \in Key, accepts \in policies : RecoverEffect(t, b, k, accepts)
  \/ \E b \in Branch, k \in Key : Reconcile(t, b, k)
  \/ \E b, c \in Branch : ForkHead(t, b, c)

Next == (\E t \in Task : Begin(t) \/ Continue(t) \/ Fail(t)) /\ UNCHANGED <<class, policies>>

Spec == Init /\ [][Next]_vars

\* A call in progress goes on: the key's lock is a queue, served in turn, so a step
\* that waits for it is not passed over for ever.  One caller that does not fail
\* advances the branch again and again.
SteadyAdvance(t, b) == Advance(t, b, Outcome) /\ UNCHANGED <<class, policies>>

FairSpec ==
  /\ Spec
  /\ \A t \in Task : SF_vars(Continue(t) /\ UNCHANGED <<class, policies>>)
  /\ \A t \in Task \ FailProne, b \in Branch : SF_vars(SteadyAdvance(t, b))

-------------------------------------------------------------------------------
PC == {"idle", "resolve", "observe", "preflight", "invoke", "driver", "answered", "recover",
       "turn", "submit", "cas", "commit", "provenance", "list"}

RunHead == [generation : Nat, closure : Closure, parent : Closure \cup {None},
            committed : Key \cup {None}]

EffectRecord == [state : WithOutcome \cup Parked \cup {"observed", "running"},
                 parent : Closure, outcome : Outcome \cup {None}]

Call == [pc : PC, op : {"none", "advance", "recover", "fork", "reconcile"},
         branch : Branch \cup {None}, key : Key \cup {None}, head : RunHead \cup {None},
         accepts : SUBSET Outcome, outcome : Outcome \cup {None},
         child : Closure \cup {None}]

\* The shape of every variable; an effect with an outcome state has an outcome
\* (assertEffectRecord).
TypeOK ==
  /\ class \in RecoveryClass /\ policies \subseteq SUBSET Outcome
  /\ heads \in [Branch -> Seq(RunHead)]
  /\ run \in [Branch -> [current : RunHead \cup {None}, history : SUBSET RunHead]]
  /\ effects \in [Branch -> [Key -> EffectRecord \cup {NoRecord}]]
  /\ \A b \in Branch, k \in Key : effects[b][k].state \in WithOutcome => effects[b][k].outcome # None
  /\ call \in [Task -> Call]
  /\ invocations \in [Branch -> [Key -> 0 .. 2]]

\* A branch is a chain of turns: each published head is what the World made of the
\* closure published just before it (advance, under compareAndSwapHead, which
\* compares generations only).
HeadsAreTurns ==
  \A b \in Branch : \A i \in DOMAIN heads[b] : i + 1 \in DOMAIN heads[b] =>
    LET parent == heads[b][i]
        child == heads[b][i + 1]
    IN /\ child.generation = parent.generation + 1
       /\ child.parent = parent.closure
       /\ \E outcome \in Outcome \cup {None} : child.closure = World[parent.closure, outcome]

\* A driver whose effect may not be repeated is asked at most once for an effect of
\* a branch, whatever threw, died, was rebound to another closure or recovered
\* (resolve writes "running" first and only ever recovers from it).
InvokedOnce ==
  ~Reresolvable => \A b \in Branch, k \in Key : invocations[b][k] < 2

\* A turn is published with an outcome that is persisted: the journal's outcome of
\* a committed effect is the one the published closure was made from.  Where calls
\* accept different outcomes and a resolved one may be dropped, it is not so.
CommittedOutcomesRetained ==
  ~Reresolvable \/ policies = {Outcome} =>
    \A b \in Branch : \A i \in DOMAIN heads[b] : i + 1 \in DOMAIN heads[b] =>
      \A k \in Key : heads[b][i + 1].committed = k =>
        heads[b][i + 1].closure = World[heads[b][i].closure, effects[b][k].outcome]

\* closure_committed is never claimed of an effect no published turn has applied
\* (markClosureCommitted after the swap, and reconcileCommittedHead).
CommittedEffectsPublished ==
  \A b \in Branch, k \in Key : effects[b][k].state = "closure_committed" =>
    \E i \in DOMAIN heads[b] : heads[b][i].committed = k

\* "If a host dies after advancing RunHead but before finalizing effect records",
\* the records can be reconciled, whenever it dies: the effect that a branch's head
\* has committed is committed, or submitted under the parent that recover looks for.
\* Only for an effect that one closure of the branch asks for: a call that starts
\* from a head that is no longer current rebinds the record.  A fork's first head was
\* committed on another branch, and the fork has no record of its effect.
AskedOnce(b, k) ==
  Cardinality({i \in DOMAIN heads[b] : Pending[heads[b][i].closure] = k}) = 1

HeadEffectsFinalizable ==
  \A b \in Branch, k \in Key :
    Len(heads[b]) > 1 /\ AskedOnce(b, k) /\ Current(b).committed = k =>
      \/ effects[b][k].state = "closure_committed"
      \/ effects[b][k].state = "submitted" /\ effects[b][k].parent = Current(b).parent

\* The run record lists only heads its branch has had, with whatever forks and
\* advances were interrupted between writing a head and the record.
ListedHeadsPublished ==
  \A b \in Branch : run[b] # Unlisted =>
    {run[b].current} \cup run[b].history \subseteq {heads[b][i] : i \in DOMAIN heads[b]}

\* "Failed effects require explicit operator recovery before retry": a parked
\* effect stays as it is until EffectJournal.recover is called for it.
ParkedNeedsOperator ==
  [][\A b \in Branch, k \in Key : effects[b][k].state \in Parked =>
       \/ effects'[b][k] = effects[b][k]
       \/ \E t \in Task : call[t].op = "recover" /\ call[t].branch = b /\ call[t].key = k]_vars

\* No driver whose effect may not be repeated is asked for an effect whose outcome a
\* branch of the run holds, however the branches' calls overlap (the key's lock spans
\* the branches, and #branchLocalReusableRecord looks at all of them before the driver
\* is asked).  Of drivers that may be asked again the model counts no invocations.
OutcomesShared ==
  [][\A b, c \in Branch, k \in Key :
       effects[c][k].state \in WithOutcome => invocations'[b][k] = invocations[b][k]]_vars

\* An outcome, once persisted, reaches a head of its branch if one caller keeps
\* advancing it, whoever was killed and wherever between the journal's writes and
\* the head's; given that all calls accept it.
OutcomeAwaits(b, i) ==
  /\ policies = {Outcome}
  /\ i = Len(heads[b]) /\ i > 0
  /\ \E k \in Key : /\ Pending[Current(b).closure] = k
                    /\ effects[b][k].state \in WithOutcome
                    /\ World[Current(b).closure, effects[b][k].outcome] # None

OutcomeIsPublished ==
  \A b \in Branch, i \in 1 .. 3 : OutcomeAwaits(b, i) ~> Len(heads[b]) > i
===============================================================================
