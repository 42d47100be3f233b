--------------------------- MODULE CapabilityPlaneV0 ---------------------------
(***************************************************************************)
(* Which driver answers a host request, and whether it may: three pieces of  *)
(* code say so, one after the other, each with a copy of the rules.          *)
(*   preflight   src/src/core/capabilities.mjs, for all the requests of a    *)
(*               turn at once, with the budget of live model calls           *)
(*   controller  src/src/core/worker.mjs, for one request and one driver     *)
(*   policy      src/src/core/capability_policy.mjs, just before the driver  *)
(* A manifest, a request and a policy are records of what the rules look at.  *)
(* Descriptors are folded into actuator refs, methods into origins, packs    *)
(* into driver ids, and a request has one size; the rules on the application *)
(* (its required actuators, labels and limits, its supervision policy), all  *)
(* of them reasons to refuse a turn as a whole, are left out.                *)
(***************************************************************************)
EXTENDS Naturals, FiniteSets

CONSTANTS
  ModelLabel, FixtureLabel, NetworkLabel, FileLabel, HumanLabel,  \* by prefix
  None

ASSUME PlaneAssumption == FixtureLabel \subseteq ModelLabel

Has(m, labels) == m.labels \cap labels # {}

-------------------------------------------------------------------------------
\* What a manifest and a request are: each of the three has its own copy.
IsHttp(m, r) == r.class = "http" \/ "http" \in m.classes \/ Has(m, NetworkLabel)
IsFile(m, r) == r.class = "file" \/ "file" \in m.classes \/ Has(m, FileLabel)
IsHuman(m, r) == r.class = "human" \/ "human" \in m.classes \/ Has(m, HumanLabel)

IsLiveModel(m, r) ==
  /\ r.class = "model" \/ "model" \in m.classes \/ Has(m, ModelLabel \ FixtureLabel)
  /\ ~ /\ ~Has(m, ModelLabel \ FixtureLabel)
       /\ m.deterministic /\ Has(m, FixtureLabel)

\* Where the request goes: the endpoint of the configuration, which some drivers
\* always use and others where the request names none, or the request's.
Target(m, r) ==
  IF m.endpoint = "config" \/ (m.endpoint = "request-or-config" /\ r.url = None)
  THEN m.configured ELSE r.url

Destructive(m, r) == IsFile(m, r) /\ r.op # "read"

NeedsApproval(m, r, p) ==
  \/ p.approveNetwork /\ IsHttp(m, r)
  \/ p.approveDestructive /\ Destructive(m, r)
  \/ p.approveBestEffort /\ m.recovery = "best_effort"

\* assertDriverCanResolve, assertDriverRequestSupported.
Structural(m, r) ==
  /\ r.ref \in m.refs /\ r.class \in m.classes
  /\ r.status = None \/ r.status \in m.statuses
  /\ r.size <= m.maxRequest

Accepts(m, r) == Structural(m, r) /\ r.op \in m.ops

PackAllowed(m, p) == m.id \notin p.deniedPacks /\ (p.packs = {} \/ m.id \in p.packs)
LabelsAllowed(m, p) == p.labels = {} \/ m.labels \subseteq p.labels
DurableAllowed(m, p) == m.recovery = "best_effort" /\ p.durable => p.bestEffort

-------------------------------------------------------------------------------
\* Mutant: file drivers are not held to the policy's roots.
PermittedAnyRoot(m, r, p) ==
  /\ DurableAllowed(m, p) /\ PackAllowed(m, p) /\ LabelsAllowed(m, p)
  /\ r.size <= p.maxRequest /\ m.maxResponse <= p.maxResponse
  /\ IsHuman(m, r) => p.human
  /\ IsHttp(m, r) => Target(m, r) \in p.origins

\* The preflight (capabilities.mjs).  Permitted is policyBlockers, but for the
\* blocker that an approval lifts.
Permitted(m, r, p) ==
  /\ DurableAllowed(m, p) /\ PackAllowed(m, p) /\ LabelsAllowed(m, p)
  /\ r.size <= p.maxRequest /\ m.maxResponse <= p.maxResponse
  /\ IsFile(m, r) => m.root \in p.roots
  /\ IsHuman(m, r) => p.human
  /\ IsHttp(m, r) =>
       /\ m.origins = None \/ Target(m, r) \in m.origins
       /\ Target(m, r) \in p.origins

Admissible(m, r, p) == Accepts(m, r) /\ Permitted(m, r, p)

\* Drivers that need an approval stand back, and only where a context factory may
\* give it are they candidates at all.
Candidates(s, r) ==
  LET fits == {d \in DOMAIN s.drivers : Admissible(s.drivers[d], r, s.policy)}
      safe == {d \in fits : ~NeedsApproval(s.drivers[d], r, s.policy)}
  IN IF safe # {} THEN safe ELSE IF s.deferred THEN fits ELSE {}

Score(m, r) == Cardinality(m.labels \cap r.prefers)

\* The first of the drivers that bear most of the preferred labels.
Preferred(s, r, ds) ==
  LET score(d) == Score(s.drivers[d], r)
  IN CHOOSE d \in ds :
       \A c \in ds : score(d) > score(c) \/ (score(d) = score(c) /\ d <= c)

\* A recorded outcome is used again, or asked for again where that is safe
\* (hasReusableEffectOutcome), or stands in the way.
Reusable(m, r) == r.record # None /\ r.record.recovery = m.recovery /\ r.record.fits

Rerunnable(m, r) ==
  r.record.rerun /\ r.record.recovery = m.recovery /\ m.recovery \in {"pure", "idempotent"}

Spoiled(m, r) == r.record # None /\ ~Reusable(m, r) /\ ~Rerunnable(m, r)

Charges(m, r) == IsLiveModel(m, r) /\ ~Reusable(m, r)

\* selectPendingRequestRoute, None where there is no driver: one that is no live
\* model is taken where the budget is spent, or where it is preferred as much.
Route(s, r, live) ==
  LET all == Candidates(s, r)
      best == Preferred(s, r, all)
      free == {d \in all : ~Charges(s.drivers[d], r)}
      equal == {d \in free : Score(s.drivers[d], r) = Score(s.drivers[best], r)}
      spent == live >= s.policy.budget
  IN IF all = {} THEN None
     ELSE IF ~Charges(s.drivers[best], r) THEN best
     ELSE IF free = {} THEN IF s.policy.partial /\ spent THEN None ELSE best
     ELSE IF spent THEN Preferred(s, r, free)
     ELSE IF equal # {} THEN Preferred(s, r, equal) ELSE best

-------------------------------------------------------------------------------
\* The controller (worker.mjs): whether a driver supports a request.  Most rules
\* bind it only under allowPartialEffectBatch; the preflight has the others.
Supports(m, r, p, deferred) ==
  /\ Structural(m, r)
  /\ r.size <= p.maxRequest /\ m.maxResponse <= p.maxResponse
  /\ PackAllowed(m, p) /\ LabelsAllowed(m, p)
  /\ r.class = "http" \/ Has(m, NetworkLabel) =>
       /\ m.origins = None \/ Target(m, r) \in m.origins
       /\ p.partial \/ p.origins # {} => Target(m, r) \in p.origins
  /\ IsFile(m, r) /\ (p.partial \/ p.roots # {}) => m.root \in p.roots
  /\ p.partial /\ IsHuman(m, r) => p.human
  /\ p.partial /\ NeedsApproval(m, r, p) => deferred
  /\ DurableAllowed(m, p)
  /\ r.op \in m.ops

\* prepareNeedsHostEffectPlan: which of them it takes is of no consequence, as the
\* preflight's route replaces it (bindEffectPlanToPreflightReport).
Covered(s, r) == \E d \in DOMAIN s.drivers : Supports(s.drivers[d], r, s.policy, s.deferred)

-------------------------------------------------------------------------------
\* Mutant: a destructive effect runs without approval.
AllowsUnapproved(m, r, p, approved, cached) ==
  /\ ~p.auditOnly /\ PackAllowed(m, p) /\ LabelsAllowed(m, p)
  /\ IsHuman(m, r) => p.human
  /\ IsLiveModel(m, r) => cached \/ p.budget >= 1
  /\ m.recovery = "best_effort" => p.bestEffort
  /\ IsHttp(m, r) => Target(m, r) \in p.origins
  /\ IsFile(m, r) => m.root \in p.roots

\* The policy (capability_policy.mjs, by way of capabilityPolicyForSelectedEffect).
\* cached: an outcome may be reused, so a spent budget does not matter yet.
Allows(m, r, p, approved, cached) ==
  /\ ~p.auditOnly /\ PackAllowed(m, p) /\ LabelsAllowed(m, p)
  /\ IsHuman(m, r) => p.human
  /\ IsLiveModel(m, r) => cached \/ p.budget >= 1
  /\ m.recovery = "best_effort" => p.bestEffort
  /\ r.size <= p.maxRequest /\ m.maxResponse <= p.maxResponse
  /\ IsHttp(m, r) => Target(m, r) \in p.origins
  /\ IsFile(m, r) => m.root \in p.roots
  /\ NeedsApproval(m, r, p) => approved
===============================================================================
