---------------------------- MODULE EffectBatchV0 ----------------------------
(***************************************************************************)
(* How a Carrier v0 turn has its pending host requests answered:             *)
(* RunController.advance and #resolveEffectBatch in src/src/core/worker.mjs. *)
(* The routes are chosen by the preflight and bound; the context of each     *)
(* effect is made, where a factory of the operator's may bring an approval;  *)
(* then the scheduler runs the effects, each of which looks for an outcome   *)
(* in the journal, checks the policy once more, runs the driver's preflight  *)
(* and asks the driver; and the answers are submitted in request order.      *)
(* The scheduler is EffectSchedulerV0 on the positions of the selected       *)
(* effects, the rules are CapabilityPlaneV0; the journal is CarrierV0's      *)
(* subject, here it holds one outcome a request at most.                     *)
(***************************************************************************)
EXTENDS EffectSchedulerV0, CapabilityPlaneV0

CONSTANTS Scenarios

\* Limits and budgets are positive, or at least natural, numbers (readPositiveInteger,
\* assertNonNegativeInteger), requests and drivers arrays.
IsScenario(s) ==
  /\ Len(s.requests) \in Nat
  /\ DOMAIN s.requests = 1 .. Len(s.requests)
  /\ DOMAIN s.requests \subseteq Effect
  /\ \A i \in DOMAIN s.requests : IsFiniteSet(s.requests[i].prefers)
  /\ DOMAIN s.drivers \subseteq Nat
  /\ \A d \in DOMAIN s.drivers : s.drivers[d].limit \in Nat \ {0}
  /\ s.policy.concurrency \in Nat \ {0} /\ s.policy.budget \in Nat

\* Why a turn is thrown, and what an effect comes to.
Causes == {"uncovered", "empty", "preflight", "unbound", "approval", "policy", "refused",
           "blocked", "driver"}
Outcomes == {"answer", "late"}

ASSUME BatchAssumption ==
  /\ None \notin Nat \cup Causes \cup Outcomes
  /\ \A s \in Scenarios : IsScenario(s)

VARIABLES
  scenario,    \* drivers, policy, requests, and whether approvals may come later
  phase,       \* "plan", "preflight", "context", "run", "handed" or "thrown"
  planned,     \* the requests that some driver supports
  routes,      \* routes[k]: the preflight's driver for planned[k], or None
  live,        \* how many live model calls the routes so far would make
  blocked,     \* whether the preflight refuses the turn
  pending,     \* the requests that have a driver: <<[index, driver], ...>>
  approvals,   \* approvals[k]: whether the context of pending[k] has brought one
  unresolved,  \* the requests left for a later turn
  selected,    \* the items of pending that run
  asked,       \* the requests whose driver has been asked
  effects,     \* effects[k]: "answer" of selected[k], "late" if left over, or None
  cause        \* why the turn was thrown, or None

reportVars == <<planned, routes, live, blocked>>
batchVars == <<scenario, phase, reportVars, pending, approvals, unresolved, selected, asked,
               effects, cause>>
vars == <<schedVars, batchVars>>

Init ==
  /\ scenario \in Scenarios
  /\ phase = "plan"
  /\ planned = <<>> /\ routes = <<>> /\ live = 0 /\ blocked = FALSE
  /\ pending = <<>> /\ approvals = <<>>
  /\ unresolved = {} /\ selected = <<>>
  /\ asked = {} /\ effects = <<>>
  /\ cause = None
  /\ SchedInit

policy == scenario.policy
Request(item) == scenario.requests[item.index]
Driver(item) == scenario.drivers[item.driver]

Throw(why) == phase' = "thrown" /\ cause' = why

\* The numbers of a set, in ascending order (what filter() leaves of an array).
InOrder(S) ==
  CHOOSE s \in [1 .. Cardinality(S) -> S] : \A i, j \in DOMAIN s : i < j => s[i] < s[j]

-------------------------------------------------------------------------------
\* prepareNeedsHostEffectPlan.
Prepare ==
  /\ phase = "plan"
  /\ LET covered == {i \in DOMAIN scenario.requests : Covered(scenario, scenario.requests[i])}
         rest == DOMAIN scenario.requests \ covered
     IN IF rest # {} /\ ~policy.partial
          THEN Throw("uncovered") /\ UNCHANGED <<planned, unresolved>>
        ELSE IF covered = {} THEN Throw("empty") /\ UNCHANGED <<planned, unresolved>>
        ELSE /\ planned' = InOrder(covered)
             /\ unresolved' = rest
             /\ phase' = "preflight"
             /\ UNCHANGED cause
  /\ UNCHANGED <<scenario, routes, live, blocked, pending, approvals, selected, asked, effects,
                 schedVars>>

\* Mutant: what a live model answers is not counted.
PreflightUncounted ==
  /\ phase = "preflight"
  /\ Len(routes) < Len(planned)
  /\ LET r == scenario.requests[planned[Len(routes) + 1]]
         route == Route(scenario, r, live)
     IN /\ routes' = Append(routes, route)
        /\ blocked' = (blocked \/ IF route = None THEN ~policy.partial
                                   ELSE Spoiled(scenario.drivers[route], r))
  /\ UNCHANGED <<scenario, phase, planned, live, pending, approvals, unresolved, selected, asked,
                 effects, cause, schedVars>>

\* preflightCapabilities, for the next request.  One without a route is left for
\* later under allowPartialEffectBatch.
Preflight ==
  /\ phase = "preflight"
  /\ Len(routes) < Len(planned)
  /\ LET r == scenario.requests[planned[Len(routes) + 1]]
         route == Route(scenario, r, live)
     IN /\ routes' = Append(routes, route)
        /\ IF route = None
             THEN blocked' = (blocked \/ ~policy.partial) /\ UNCHANGED live
             ELSE /\ blocked' = (blocked \/ Spoiled(scenario.drivers[route], r))
                  /\ live' = live + IF Charges(scenario.drivers[route], r) THEN 1 ELSE 0
  /\ UNCHANGED <<scenario, phase, planned, pending, approvals, unresolved, selected, asked,
                 effects, cause, schedVars>>

ReportAccepted == ~blocked /\ ~policy.auditOnly /\ live <= policy.budget

\* The planned requests that have a route, with it.
Bound ==
  LET routed == InOrder({k \in DOMAIN routes : routes[k] # None})
  IN [i \in DOMAIN routed |-> [index |-> planned[routed[i]], driver |-> routes[routed[i]]]]

\* assertCapabilityReportAccepted, bindEffectPlanToPreflightReport.
Bind ==
  /\ phase = "preflight"
  /\ Len(routes) = Len(planned)
  /\ IF ~ReportAccepted THEN Throw("preflight") /\ UNCHANGED <<pending, unresolved>>
     ELSE IF \E k \in DOMAIN Bound :
               ~Supports(Driver(Bound[k]), Request(Bound[k]), policy, scenario.deferred)
       THEN Throw("unbound") /\ UNCHANGED <<pending, unresolved>>
     ELSE IF Bound = <<>> THEN Throw("empty") /\ UNCHANGED <<pending, unresolved>>
     ELSE /\ pending' = Bound
          /\ unresolved' = unresolved \cup {planned[k] : k \in {k \in DOMAIN routes : routes[k] = None}}
          /\ phase' = "context"
          /\ UNCHANGED cause
  /\ UNCHANGED <<scenario, planned, routes, live, blocked, approvals, selected, asked, effects,
                 schedVars>>

\* The context of the next item, and what the policy says of it.
Context ==
  /\ phase = "context"
  /\ Len(approvals) < Len(pending)
  /\ \E approved \in IF scenario.deferred THEN BOOLEAN ELSE {FALSE} :
       LET item == pending[Len(approvals) + 1]
           allowed(a) == Allows(Driver(item), Request(item), policy, a, TRUE)
       IN /\ approvals' = Append(approvals, approved)
          /\ IF allowed(approved)
               THEN selected' = Append(selected, item) /\ UNCHANGED <<unresolved, phase, cause>>
             ELSE IF allowed(TRUE) /\ policy.partial
               THEN unresolved' = unresolved \cup {item.index} /\ UNCHANGED <<selected, phase, cause>>
             ELSE /\ Throw(IF allowed(TRUE) THEN "approval" ELSE "policy")
                  /\ UNCHANGED <<selected, unresolved>>
  /\ UNCHANGED <<scenario, reportVars, pending, asked, effects, schedVars>>

-------------------------------------------------------------------------------
\* groupPendingEffects: by driver, in the order in which the drivers first occur.
First(d) == CHOOSE k \in DOMAIN selected :
              selected[k].driver = d /\ \A j \in 1 .. k - 1 : selected[j].driver # d

PositionsOf(d) == InOrder({k \in DOMAIN selected : selected[k].driver = d})

Lesser(a, b) == IF a < b THEN a ELSE b

Batch ==
  LET firsts == InOrder({k \in DOMAIN selected : First(selected[k].driver) = k})
  IN [groups |-> [g \in DOMAIN firsts |->
                    LET d == selected[firsts[g]].driver
                    IN [effects |-> PositionsOf(d),
                        limit |-> Lesser(scenario.drivers[d].limit, policy.concurrency)]],
      limit |-> policy.concurrency]

Run ==
  /\ phase = "context"
  /\ Len(approvals) = Len(pending)
  /\ IF selected = <<>>
       THEN Throw("empty") /\ UNCHANGED <<effects, schedVars>>
       ELSE /\ phase' = "run"
            /\ effects' = [k \in DOMAIN selected |-> None]
            /\ Start(Batch)
            /\ UNCHANGED cause
  /\ UNCHANGED <<scenario, reportVars, pending, approvals, unresolved, selected, asked>>

Approved(k) ==
  LET at == CHOOSE j \in DOMAIN pending : pending[j] = selected[k] IN approvals[at]

\* An effect that runs: before its driver is asked, and after.
Running(k) == phase = "run" /\ ~launching /\ k \in DOMAIN selected /\ status[k] = "running"

Waiting(k) == Running(k) /\ selected[k].index \notin asked

Item(k) == selected[k]

\* The journal has an outcome to return.
Replay(k) ==
  /\ Waiting(k)
  /\ Reusable(Driver(Item(k)), Request(Item(k)))
  /\ effects' = [effects EXCEPT ![k] = "answer"]
  /\ Settle(k)
  /\ UNCHANGED <<scenario, reportVars, phase, pending, approvals, unresolved, selected, asked, cause>>

\* beforeInvoke lets the call through, and the driver is asked.
Allowed(k) ==
  /\ ~Reusable(Driver(Item(k)), Request(Item(k)))
  /\ ~Spoiled(Driver(Item(k)), Request(Item(k)))
  /\ Allows(Driver(Item(k)), Request(Item(k)), policy, Approved(k), FALSE)

Ask(k) ==
  /\ Waiting(k)
  /\ Allowed(k)
  /\ asked' = asked \cup {Item(k).index}
  /\ UNCHANGED <<scenario, reportVars, phase, pending, approvals, unresolved, selected, effects, cause,
                 schedVars>>

\* The call is not made: the journal or the policy refuses after all, or the driver's
\* own preflight blocks it, for which allowPartialEffectBatch leaves it for later.
Block(k) ==
  /\ Waiting(k)
  /\ ~Reusable(Driver(Item(k)), Request(Item(k)))
  /\ IF Allowed(k) /\ policy.partial
       THEN /\ effects' = [effects EXCEPT ![k] = "late"]
            /\ Settle(k)
            /\ UNCHANGED cause
       ELSE /\ cause' = IF cause # None THEN cause
                        ELSE IF Allowed(k) THEN "blocked" ELSE "refused"
            /\ Fail(k)
            /\ UNCHANGED effects
  /\ UNCHANGED <<scenario, reportVars, phase, pending, approvals, unresolved, selected, asked>>

\* The driver answers, or its failure parks the effect: resolve returns for both.
Answer(k) ==
  /\ Running(k)
  /\ Item(k).index \in asked
  /\ effects' = [effects EXCEPT ![k] = "answer"]
  /\ Settle(k)
  /\ UNCHANGED <<scenario, reportVars, phase, pending, approvals, unresolved, selected, asked, cause>>

Err(k) ==
  /\ Running(k)
  /\ Item(k).index \in asked
  /\ cause' = IF cause = None THEN "driver" ELSE cause
  /\ Fail(k)
  /\ UNCHANGED <<scenario, reportVars, phase, pending, approvals, unresolved, selected, asked, effects>>

Schedule == (LaunchNext \/ LaunchDone) /\ UNCHANGED batchVars

Left == {selected[k].index : k \in {k \in DOMAIN effects : effects[k] = "late"}}

\* Mutant: the effects that their driver blocked are not reported.
FinishWithoutLate ==
  /\ phase = "run"
  /\ promise \in {"resolved", "rejected"}
  /\ IF promise = "rejected" THEN phase' = "thrown" /\ UNCHANGED cause
     ELSE IF \A k \in DOMAIN effects : effects[k] = "late" THEN Throw("empty")
     ELSE phase' = "handed" /\ UNCHANGED cause
  /\ UNCHANGED <<scenario, reportVars, pending, approvals, unresolved, selected, asked, effects,
                 schedVars>>

Finish ==
  /\ phase = "run"
  /\ promise \in {"resolved", "rejected"}
  /\ IF promise = "rejected" THEN phase' = "thrown" /\ UNCHANGED <<cause, unresolved>>
     ELSE IF \A k \in DOMAIN effects : effects[k] = "late"
       THEN Throw("empty") /\ UNCHANGED unresolved
     ELSE /\ phase' = "handed"
          /\ unresolved' = unresolved \cup Left
          /\ UNCHANGED cause
  /\ UNCHANGED <<scenario, reportVars, pending, approvals, selected, asked, effects, schedVars>>

Done == phase \in {"handed", "thrown"} /\ UNCHANGED vars

Proceed == Prepare \/ Preflight \/ Bind \/ Context \/ Run \/ Schedule \/ Finish
Return(k) == Replay(k) \/ Ask(k) \/ Block(k) \/ Answer(k) \/ Err(k)

Next ==
  \/ Proceed
  \/ \E k \in Effect : Return(k)
  \/ Done

Spec == Init /\ [][Next]_vars

\* advance goes on, and the calls that an effect waits for return, the driver's too.
FairSpec == Spec /\ WF_vars(Proceed) /\ \A k \in Effect : WF_vars(Return(k))

-------------------------------------------------------------------------------
AskedItems == {k \in DOMAIN selected : selected[k].index \in asked}

\* No more live models are asked in a turn than the policy's budget, although every
\* copy of the rule but the preflight's looks at one request alone.
LiveBudgetRespected ==
  Cardinality({k \in AskedItems : IsLiveModel(Driver(Item(k)), Request(Item(k)))})
    <= policy.budget

\* A driver is asked only as the policy demands: with an approval where one is
\* required, within its packs, labels, roots and origins, for a human only if humans
\* may be asked, and never on an audit.
AskedWithinPolicy ==
  \A k \in AskedItems :
    /\ NeedsApproval(Driver(Item(k)), Request(Item(k)), policy) => Approved(k)
    /\ Admissible(Driver(Item(k)), Request(Item(k)), policy)
    /\ ~policy.auditOnly

\* What the preflight has accepted the later copies of the rules accept: the bound
\* driver is available, the journal and the policy refuse nothing when drivers have
\* been asked already, and the only refusals of a context are a missing approval
\* and a best_effort driver that nothing but durableAutomatic = false let through.
AdmittedIsServed ==
  /\ cause \notin {"unbound", "refused"}
  /\ cause = "policy" =>
       \E k \in DOMAIN pending :
         /\ Driver(pending[k]).recovery = "best_effort"
         /\ ~policy.bestEffort /\ ~policy.durable

\* Every request of the turn is answered or reported as unresolved, none is both,
\* and only a policy that allows partial batches leaves any out.
Answered == {selected[k].index : k \in {k \in DOMAIN effects : effects[k] = "answer"}}

EveryRequestAccounted ==
  phase = "handed" =>
    /\ Answered \cup unresolved = DOMAIN scenario.requests
    /\ Answered \cap unresolved = {}
    /\ Answered # {}
    /\ unresolved # {} => policy.partial

\* A turn that has begun to run its effects comes to an end.
BatchSettles == phase = "run" ~> phase \in {"handed", "thrown"}
===============================================================================
