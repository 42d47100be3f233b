---------------------------- MODULE RunControllerV1 ----------------------------
(***************************************************************************)
(* RunControllerV1 (src/src/v1/run_controller.mjs) with the commands that  *)
(* drive it (src/src/bun/application_v1_cli.mjs): host processes sharing   *)
(* one directory store begin, advance, retry, fork, export and import the  *)
(* branches of a run.  A call reads a head, persists or reads the          *)
(* EffectResult of the parked Frame, reduces the Frame, retains the child  *)
(* and publishes it by compare-and-set; each of these storage operations   *)
(* is one step here, and a process may stop between any two of them.       *)
(* HeadStoreV1 shows that the head store is the atomic compare-and-set     *)
(* used here.  A request is identified by the parked Frame it belongs to.  *)
(* A reader of a head or a record also fetches the block it names, and     *)
(* fails if the store does not hold it; BlocksRetained says it always      *)
(* does, so that failure is no action here.                                *)
(***************************************************************************)
EXTENDS Naturals, Sequences, FiniteSets

CONSTANTS
  Proc,          \* host processes
  CrashProne,    \* those that may stop in the middle of a call
  Branch,
  Frame, Result, \* Frame blocks and EffectResults, by identity
  MaximumFuel,   \* manifest.limits.maximumFuelPerStep
  Status,        \* fields of a decoded Frame
  Parent, Accepted, Sequence,
  Guest,         \* Guest[frame or None, result or None, fuel]: what world_step
                 \* returns: a Frame, or None when it traps or fails
  Admissible,    \* Admissible[frame]: validateEffectResultForRequest(pendingEffect, _)
  ForeignBundle, \* bundles exported from other stores
  Command,       \* the commands the operators use
  Asked,         \* the budgets they name, None for none
  MaximumExports, \* bound: the bundles written
  None

Fuel == 1 .. MaximumFuel

FrameStatus == {"needsEffect", "completed", "failed", "yieldedFuel", "cancelled"}

Bundle == [branch : Branch \cup {None}, generation : Nat, frame : Frame,
           result : Result \cup {None}, fuel : Fuel \cup {None}]

ASSUME ControllerAssumption ==
  /\ CrashProne \subseteq Proc
  /\ MaximumFuel \in Nat \ {0}
  /\ None \notin Frame /\ None \notin Result /\ None \notin Branch /\ None \notin Fuel
  /\ Status \in [Frame -> FrameStatus]
  /\ Parent \in [Frame -> Frame \cup {None}]
  /\ Accepted \in [Frame -> Result \cup {None}]
  /\ Sequence \in [Frame -> Nat]
  /\ Guest \in [(Frame \cup {None}) \X (Result \cup {None}) \X Fuel -> Frame \cup {None}]
  /\ Admissible \in [Frame -> SUBSET Result]
  /\ ForeignBundle \subseteq Bundle
  /\ Asked \subseteq Fuel \cup {None}

VARIABLES
  heads,    \* heads[b]: every head branch b has had, in order
  frames,   \* Frame blocks retained by the block store
  results,  \* EffectResult blocks retained by the block store
  journal,  \* the effect journal's records
  bundles,  \* migration bundles written so far
  call,     \* call[p]: the local state of p's command
  origin    \* history: how each branch began, and with which retained result

vars == <<heads, frames, results, journal, bundles, call, origin>>

\* Mutant: every fork of a source into a target shares one namespace.
PlainBinding(source, target, head, result, fuel) ==
  [source |-> source, target |-> target, head |-> None, result |-> None, fuel |-> None]

\* forkJournalBindingId: SHA-256 of the snapshot, taken to be injective.
JournalBinding(source, target, head, result, fuel) ==
  [source |-> source, target |-> target, head |-> head, result |-> result, fuel |-> fuel]

\* A head without a journalBindingId.
NoBinding == JournalBinding(None, None, None, None, None)

Idle == [pc |-> "idle", op |-> "none", branch |-> None, source |-> None,
         head |-> None, inspected |-> None, result |-> None, fuel |-> None,
         frame |-> None, binding |-> NoBinding]

Init ==
  /\ heads = [b \in Branch |-> <<>>]
  /\ frames = {}
  /\ results = {}
  /\ journal = {}
  /\ bundles = ForeignBundle
  /\ call = [p \in Proc |-> Idle]
  /\ origin = [b \in Branch |-> None]

-------------------------------------------------------------------------------
\* readHead: null until the branch has begun.
Begun(b) == heads[b] # <<>>
Current(b) == heads[b][Len(heads[b])]

Parked(f) == Status[f] = "needsEffect"
Terminal(f) == Status[f] \notin {"needsEffect", "yieldedFuel"}

\* The record under effectJournalKey(branch, parent Frame, publication binding).
RecordsAt(b, f, binding) ==
  {r \in journal : r.branch = b /\ r.parent = f /\ r.binding = binding}

\* A record, with (history) the command that wrote it.
NewRecord(b, f, binding, result, fuel, via) ==
  [branch |-> b, parent |-> f, binding |-> binding,
   result |-> result, fuel |-> fuel, via |-> via]

Goto(p, c) == call' = [call EXCEPT ![p] = c]

Start(p, command) == call[p] = Idle /\ command \in Command

\* A call that throws, or a process that is killed, leaves the store as it is.
Abandon(p) ==
  /\ Goto(p, Idle)
  /\ UNCHANGED <<heads, frames, results, journal, bundles, origin>>

-------------------------------------------------------------------------------
\* initialize: the branch must have no head.
Initialize(p, b, asked) ==
  /\ Start(p, "initialize")
  /\ ~Begun(b)
  /\ Goto(p, [Idle EXCEPT !.pc = "step", !.op = "initialize", !.branch = b,
                          !.fuel = IF asked = None THEN MaximumFuel ELSE asked])
  /\ UNCHANGED <<heads, frames, results, journal, bundles, origin>>

\* advance, from the head it reads on: a terminal Frame is refused, and so is
\* a result for a Frame that waits for none.
AdvanceFrom(p, head, c) ==
  /\ ~Terminal(head.frame)
  /\ c.result # None => Parked(head.frame)
  /\ Goto(p, [c EXCEPT
       !.head = head,
       !.binding = head.binding,
       !.pc = IF ~Parked(head.frame) THEN "step"
              ELSE IF c.result # None THEN "lookup" ELSE "retained",
       !.fuel = IF c.fuel = None /\ (c.result # None \/ ~Parked(head.frame))
                  THEN MaximumFuel ELSE c.fuel])
  /\ UNCHANGED <<heads, frames, results, journal, bundles, origin>>

Advance(p, b, result, asked) ==
  /\ Start(p, "advance")
  /\ Begun(b)
  /\ AdvanceFrom(p, Current(b),
       [Idle EXCEPT !.op = "advance", !.branch = b, !.result = result, !.fuel = asked])

-------------------------------------------------------------------------------
\* Mutant: the budgets are not compared.
AgreesOnResult(record, result, fuel) == record.result = result

\* persistResult.  A record that is already there must hold the same result and
\* the same fuel; one of an early release, without fuel, agrees with any.
Agrees(record, result, fuel) ==
  record.result = result /\ record.fuel \in {fuel, None}

\* The Frame whose request p's result answers.
Asking(p) == IF call[p].op = "import" THEN call[p].frame ELSE call[p].head.frame

Own(p) == RecordsAt(call[p].branch, Asking(p), call[p].binding)

\* import goes on to publish, advance to step.
Persisted(p) ==
  Goto(p, [call[p] EXCEPT !.pc = IF call[p].op = "import" THEN "publish" ELSE "step"])

\* Mutant: the record is linked before its block is stored.
PersistLookupUnstored(p) ==
  /\ call[p].pc = "lookup"
  /\ call[p].result \in Admissible[Asking(p)]
  /\ IF Own(p) = {}
       THEN Goto(p, [call[p] EXCEPT !.pc = "link"])
       ELSE Persisted(p)
  /\ UNCHANGED <<heads, frames, results, journal, bundles, origin>>

PersistLookup(p) ==
  /\ call[p].pc = "lookup"
  /\ call[p].result \in Admissible[Asking(p)]
  /\ IF Own(p) = {}
       THEN Goto(p, [call[p] EXCEPT !.pc = "block"])
       ELSE /\ \A r \in Own(p) : Agrees(r, call[p].result, call[p].fuel)
            /\ Persisted(p)
  /\ UNCHANGED <<heads, frames, results, journal, bundles, origin>>

RejectLookup(p) ==
  /\ call[p].pc = "lookup"
  /\ \/ call[p].result \notin Admissible[Asking(p)]
     \/ \E r \in Own(p) : ~Agrees(r, call[p].result, call[p].fuel)
  /\ Abandon(p)

PersistBlock(p) ==
  /\ call[p].pc = "block"
  /\ results' = results \cup {call[p].result}
  /\ Goto(p, [call[p] EXCEPT !.pc = "link"])
  /\ UNCHANGED <<heads, frames, journal, bundles, origin>>

\* writeJsonNew: link(2) creates the record, or the winner's must agree.
PersistLink(p) ==
  /\ call[p].pc = "link"
  /\ IF Own(p) = {}
       THEN journal' = journal \cup
              {NewRecord(call[p].branch, Asking(p), call[p].binding,
                         call[p].result, call[p].fuel, call[p].op)}
       ELSE /\ \A r \in Own(p) : Agrees(r, call[p].result, call[p].fuel)
            /\ UNCHANGED journal
  /\ Persisted(p)
  /\ UNCHANGED <<heads, frames, results, bundles, origin>>

LoseLink(p) ==
  /\ call[p].pc = "link"
  /\ \E r \in Own(p) : ~Agrees(r, call[p].result, call[p].fuel)
  /\ Abandon(p)

\* Mutant: the caller must always name the budget.
FuelNamed(asked, recorded) == asked # None /\ recorded \in {asked, None}

\* advance without a result: it reads the retained one, with the fuel it was
\* recorded with; a record without fuel takes the fuel the caller names.
FuelAllowed(asked, recorded) ==
  IF recorded = None THEN asked # None ELSE asked \in {recorded, None}

FuelUsed(asked, recorded) == IF recorded = None THEN asked ELSE recorded

ReadRetained(p) ==
  /\ call[p].pc = "retained"
  /\ \E r \in Own(p) :
       /\ FuelAllowed(call[p].fuel, r.fuel)
       /\ Goto(p, [call[p] EXCEPT !.pc = "step", !.result = r.result,
                                  !.fuel = FuelUsed(@, r.fuel)])
  /\ UNCHANGED <<heads, frames, results, journal, bundles, origin>>

RejectRetained(p) ==
  /\ call[p].pc = "retained"
  /\ \A r \in Own(p) : ~FuelAllowed(call[p].fuel, r.fuel)
  /\ Abandon(p)

-------------------------------------------------------------------------------

\* validateCausalOutput: what the host demands of the Frame world_step returned.
CausalOutput(parent, result, child) ==
  /\ child # None
  /\ Parent[child] = parent
  /\ Accepted[child] = result
  /\ Sequence[child] = IF parent = None THEN 0 ELSE Sequence[parent] + 1

ParentFrame(p) == IF call[p].op = "initialize" THEN None ELSE call[p].head.frame

Reduction(p) == Guest[ParentFrame(p), call[p].result, call[p].fuel]

\* executeAndPublish: a fresh worker reduces the Frame; the child is retained.
Execute(p) ==
  /\ call[p].pc = "step"
  /\ CausalOutput(ParentFrame(p), call[p].result, Reduction(p))
  /\ frames' = frames \cup {Reduction(p)}
  /\ Goto(p, [call[p] EXCEPT !.pc = "publish", !.frame = Reduction(p)])
  /\ UNCHANGED <<heads, results, journal, bundles, origin>>

RejectStep(p) ==
  /\ call[p].pc = "step"
  /\ ~CausalOutput(ParentFrame(p), call[p].result, Reduction(p))
  /\ Abandon(p)

\* advanceHeadIfCurrent finds the head the call expects: the one it read for
\* advance, none for initialize, fork and import.
Advancing(p) == call[p].op \in {"advance", "retry"}

\* Mutant: any head is as good as the expected one.
AnyHead(p) == Advancing(p) => Begun(call[p].branch)

AsExpected(p) ==
  IF Advancing(p) THEN Begun(call[p].branch) /\ Current(call[p].branch) = call[p].head
                  ELSE ~Begun(call[p].branch)

\* The compare-and-set, with the check that the Frame block is retained.
Publish(p) ==
  LET c == call[p] IN
  /\ c.pc = "publish"
  /\ AsExpected(p)
  /\ c.frame \in frames
  /\ heads' = [heads EXCEPT ![c.branch] =
                 Append(@, [generation |-> Len(@), frame |-> c.frame, binding |-> c.binding])]
  /\ origin' = [origin EXCEPT ![c.branch] =
                 IF Advancing(p) THEN @
                   ELSE [op |-> c.op, result |-> c.result, fuel |-> c.fuel]]
  /\ Goto(p, Idle)
  /\ UNCHANGED <<frames, results, journal, bundles>>

\* Lost compare-and-set: advance reports the conflict, the others throw
\* BRANCH_EXISTS; what the call retained stays in the store.
LosePublish(p) ==
  /\ call[p].pc = "publish"
  /\ ~AsExpected(p)
  /\ Abandon(p)

-------------------------------------------------------------------------------
\* retry and replay (resumeApplication with retainedOnly): the command reads the
\* head and its Frame, then the record, and only then calls advance, with the
\* head it read as expectedHead.
RetryInspect(p, b, asked) ==
  /\ Start(p, "retry")
  /\ Begun(b)
  /\ Parked(Current(b).frame)
  /\ Goto(p, [Idle EXCEPT !.pc = "inspect", !.op = "retry", !.branch = b, !.fuel = asked,
                          !.inspected = Current(b)])
  /\ UNCHANGED <<heads, frames, results, journal, bundles, origin>>

Inspected(p) ==
  RecordsAt(call[p].branch, call[p].inspected.frame, call[p].inspected.binding)

\* retainedFuelFrom.
RetryRecord(p) ==
  /\ call[p].pc = "inspect"
  /\ \E r \in Inspected(p) :
       /\ FuelAllowed(call[p].fuel, r.fuel)
       /\ Goto(p, [call[p] EXCEPT !.pc = "advance", !.fuel = FuelUsed(@, r.fuel)])
  /\ UNCHANGED <<heads, frames, results, journal, bundles, origin>>

RejectRetry(p) ==
  /\ call[p].pc = "inspect"
  /\ \A r \in Inspected(p) : ~FuelAllowed(call[p].fuel, r.fuel)
  /\ Abandon(p)

\* Mutant: expectedHead is not compared.
AnyExpectedHead(head, expected) == TRUE

\* advance's comparison of the head with expectedHead.
IsExpectedHead(head, expected) == head = expected

RetryAdvance(p) ==
  /\ call[p].pc = "advance"
  /\ IsExpectedHead(Current(call[p].branch), call[p].inspected)
  /\ AdvanceFrom(p, Current(call[p].branch), call[p])

LoseRetry(p) ==
  /\ call[p].pc = "advance"
  /\ ~IsExpectedHead(Current(call[p].branch), call[p].inspected)
  /\ Abandon(p)

-------------------------------------------------------------------------------
\* forkBranch reads the target, the source head and its Frame, and the retained
\* result; it copies the result into the namespace of a digest of what it read,
\* and publishes a first target head bound to that namespace.
ForkTarget(p, source, target) ==
  /\ Start(p, "fork")
  /\ ~Begun(target)
  /\ Goto(p, [Idle EXCEPT !.pc = "source", !.op = "fork", !.branch = target, !.source = source])
  /\ UNCHANGED <<heads, frames, results, journal, bundles, origin>>

ForkSource(p) ==
  /\ call[p].pc = "source"
  /\ Begun(call[p].source)
  /\ Goto(p, LET head == Current(call[p].source) IN
             [call[p] EXCEPT !.pc = "record", !.head = head, !.frame = head.frame])
  /\ UNCHANGED <<heads, frames, results, journal, bundles, origin>>

RejectFork(p) ==
  /\ call[p].pc = "source"
  /\ ~Begun(call[p].source)
  /\ Abandon(p)

FromSource(p) ==
  RecordsAt(call[p].source, call[p].head.frame, call[p].head.binding)

Snapshot(p, pc, result, fuel) ==
  Goto(p, [call[p] EXCEPT
    !.pc = pc, !.result = result, !.fuel = fuel,
    !.binding = JournalBinding(call[p].source, call[p].branch, call[p].head, result, fuel)])

ForkRecord(p) ==
  /\ call[p].pc = "record"
  /\ \/ /\ Parked(call[p].frame)
        /\ \E r \in FromSource(p) : Snapshot(p, "copy", r.result, r.fuel)
     \/ /\ ~Parked(call[p].frame) \/ FromSource(p) = {}
        /\ Snapshot(p, "publish", None, None)
  /\ UNCHANGED <<heads, frames, results, journal, bundles, origin>>

\* copyResult: the source's record under the target's key, unless it is there.
ForkCopy(p) ==
  /\ call[p].pc = "copy"
  /\ \E r \in FromSource(p) :
       journal' = IF RecordsAt(call[p].branch, call[p].frame, call[p].binding) = {}
                    THEN journal \cup {NewRecord(call[p].branch, call[p].frame,
                                                 call[p].binding, r.result, r.fuel, "fork")}
                    ELSE journal
  /\ Goto(p, [call[p] EXCEPT !.pc = "publish"])
  /\ UNCHANGED <<heads, frames, results, bundles, origin>>

-------------------------------------------------------------------------------
\* exportBranch: the head and its Frame, then the retained result; one whose
\* fuel was not recorded is refused.
ExportHead(p, b) ==
  /\ Start(p, "export")
  /\ Cardinality(bundles \ ForeignBundle) < MaximumExports
  /\ Begun(b)
  /\ Goto(p, [Idle EXCEPT !.pc = "bundle", !.op = "export", !.source = b, !.head = Current(b)])
  /\ UNCHANGED <<heads, frames, results, journal, bundles, origin>>

\* Mutant: the bundle names the default budget.
BundleWithDefault(b, head, result, fuel) ==
  [branch |-> b, generation |-> head.generation, frame |-> head.frame,
   result |-> result, fuel |-> IF result = None THEN None ELSE MaximumFuel]

BundleOf(b, head, result, fuel) ==
  [branch |-> b, generation |-> head.generation, frame |-> head.frame,
   result |-> result, fuel |-> fuel]

Exportable(r) == r.fuel # None

ExportBundle(p) ==
  /\ call[p].pc = "bundle"
  /\ \/ /\ Parked(call[p].head.frame)
        /\ \E r \in FromSource(p) :
             /\ Exportable(r)
             /\ bundles' = bundles \cup
                  {BundleOf(call[p].source, call[p].head, r.result, r.fuel)}
     \/ /\ ~Parked(call[p].head.frame) \/ FromSource(p) = {}
        /\ bundles' = bundles \cup {BundleOf(call[p].source, call[p].head, None, None)}
  /\ Goto(p, Idle)
  /\ UNCHANGED <<heads, frames, results, journal, origin>>

RejectExport(p) ==
  /\ call[p].pc = "bundle"
  /\ Parked(call[p].head.frame)
  /\ \E r \in FromSource(p) : ~Exportable(r)
  /\ Abandon(p)

\* importBranch: the Frame is retained, then the result through persistResult
\* without a binding, then a generation-zero head.
Import(p, bundle, b) ==
  /\ Start(p, "import")
  /\ bundle \in bundles
  /\ (bundle.result = None) = (bundle.fuel = None)
  /\ bundle.result # None => Parked(bundle.frame)
  /\ frames' = frames \cup {bundle.frame}
  /\ Goto(p, [Idle EXCEPT !.op = "import", !.branch = b, !.frame = bundle.frame,
                          !.result = bundle.result, !.fuel = bundle.fuel,
                          !.pc = IF bundle.result = None THEN "publish" ELSE "lookup"])
  /\ UNCHANGED <<heads, results, journal, bundles, origin>>

-------------------------------------------------------------------------------
\* An early release candidate: it persisted results without fuel, and knew no
\* publication binding.
EarlyReleasePersist(b, result) ==
  /\ "legacy" \in Command
  /\ Begun(b)
  /\ LET head == Current(b) IN
       /\ Parked(head.frame) /\ head.binding = NoBinding
       /\ result \in Admissible[head.frame]
       /\ RecordsAt(b, head.frame, NoBinding) = {}
       /\ journal' = journal \cup {NewRecord(b, head.frame, NoBinding, result, None, "legacy")}
  /\ results' = results \cup {result}
  /\ UNCHANGED <<heads, frames, bundles, call, origin>>

Crash(p) ==
  /\ p \in CrashProne
  /\ call[p].pc # "idle"
  /\ Abandon(p)

\* The steps of a call once it has begun.
Continue(p) ==
  \/ PersistLookup(p) \/ RejectLookup(p) \/ PersistBlock(p) \/ PersistLink(p) \/ LoseLink(p)
  \/ ReadRetained(p) \/ RejectRetained(p)
  \/ Execute(p) \/ RejectStep(p) \/ Publish(p) \/ LosePublish(p)
  \/ RetryRecord(p) \/ RejectRetry(p) \/ RetryAdvance(p) \/ LoseRetry(p)
  \/ ForkSource(p) \/ RejectFork(p) \/ ForkRecord(p) \/ ForkCopy(p)
  \/ ExportBundle(p) \/ RejectExport(p)

Begin(p) ==
  \/ \E b \in Branch, asked \in Asked : Initialize(p, b, asked)
  \/ \E b \in Branch, result \in Result \cup {None}, asked \in Asked :
       Advance(p, b, result, asked)
  \/ \E b \in Branch, asked \in Asked : RetryInspect(p, b, asked)
  \/ \E source, target \in Branch : ForkTarget(p, source, target)
  \/ \E b \in Branch : ExportHead(p, b)
  \/ \E bundle \in bundles, b \in Branch : Import(p, bundle, b)

Next ==
  \/ \E p \in Proc : Begin(p) \/ Continue(p) \/ Crash(p)
  \/ \E b \in Branch, result \in Result : EarlyReleasePersist(b, result)

Spec == Init /\ [][Next]_vars

\* One operator, whose process is not killed, reads the head again and again and
\* retries whatever it finds parked there.
SteadyRetry(p, b) == RetryInspect(p, b, None)

FairSpec ==
  /\ Spec
  /\ \A p \in Proc : WF_vars(Continue(p))
  /\ \A p \in Proc \ CrashProne, b \in Branch : SF_vars(SteadyRetry(p, b))

-------------------------------------------------------------------------------
Pc == {"idle", "step", "publish", "lookup", "block", "link", "retained", "inspect",
       "advance", "source", "record", "copy", "bundle"}

Op == {"none", "initialize", "advance", "retry", "fork", "export", "import"}

Via == {"advance", "fork", "import", "legacy"}

\* Bindings are left untyped: a snapshot holds the source head, which holds the
\* snapshot the source was forked from.
IsHead(h) == /\ DOMAIN h = {"generation", "frame", "binding"}
             /\ h.generation \in Nat /\ h.frame \in Frame

IsRecord(r) ==
  /\ DOMAIN r = {"branch", "parent", "binding", "result", "fuel", "via"}
  /\ r.branch \in Branch /\ r.parent \in Frame /\ r.result \in Result
  /\ r.fuel \in Fuel \cup {None} /\ r.via \in Via

IsCall(c) ==
  /\ DOMAIN c = DOMAIN Idle
  /\ c.pc \in Pc /\ c.op \in Op
  /\ {c.branch, c.source} \subseteq Branch \cup {None}
  /\ \A h \in {c.head, c.inspected} : h = None \/ IsHead(h)
  /\ c.result \in Result \cup {None} /\ c.fuel \in Fuel \cup {None}
  /\ c.frame \in Frame \cup {None}
  /\ c.pc = "step" => c.fuel \in Fuel

\* The shape of every variable.
TypeOK ==
  /\ DOMAIN heads = Branch
  /\ \A b \in Branch : /\ heads[b] \in Seq({heads[b][i] : i \in DOMAIN heads[b]})
                       /\ \A i \in DOMAIN heads[b] : IsHead(heads[b][i])
  /\ frames \subseteq Frame /\ results \subseteq Result
  /\ \A r \in journal : IsRecord(r)
  /\ bundles \subseteq Bundle
  /\ DOMAIN call = Proc /\ \A p \in Proc : IsCall(call[p])
  /\ DOMAIN origin = Branch

-------------------------------------------------------------------------------
\* Every Frame a head names and every result a record names is in the block
\* store: a reader of a head or of a record never fails on a missing block,
\* whatever was running or killed when they were written (putBlock before
\* advanceHeadIfCurrent in executeAndPublish, putBlock before writeJsonNew in
\* persistResult, a fork's head and record naming blocks of its source).
BlocksRetained ==
  /\ \A b \in Branch : \A i \in DOMAIN heads[b] : heads[b][i].frame \in frames
  /\ \A r \in journal : r.result \in results

SameKey(r, s) == r.branch = s.branch /\ r.parent = s.parent /\ r.binding = s.binding

\* "The journal rejects a different result or fuel budget for the same
\* branch-local request key": a record is never replaced or removed and never
\* gets a second one beside it, however the persistResult and copyResult calls
\* of several processes interleave.
JournalWriteOnce ==
  [][ /\ journal \subseteq journal'
      /\ \A r \in journal' \ journal : \A s \in journal' : SameKey(r, s) => r = s ]_vars

\* The budgets a published reduction of (b, f, binding) may have used.
Recorded(r, result, fuel) == r.result = result /\ r.fuel \in {fuel, None}

\* Replay: every child a branch ever published is what the application makes of
\* its parent and the inputs the journal retains for it, and so can be computed
\* again after any crash; the child of a Frame that yielded used no result.
\* (advance of run_controller.mjs, over persistResult and readResult.)
ChildrenReplay ==
  \A b \in Branch : \A i \in DOMAIN heads[b] : i + 1 \in DOMAIN heads[b] =>
    LET parent == heads[b][i].frame
        child == heads[b][i + 1].frame
    IN IF Parked(parent)
         THEN \E r \in RecordsAt(b, parent, heads[b][i].binding), f \in Fuel :
                r.fuel \in {f, None} /\ child = Guest[parent, r.result, f]
         ELSE \E f \in Fuel : child = Guest[parent, None, f]

\* The heads of a branch are a causal chain: each Frame names the one published
\* before it as its parent and the result retained for that one as accepted, so
\* no Frame computed from another head is ever published in its place.
CausalHistory ==
  \A b \in Branch : \A i \in DOMAIN heads[b] : i + 1 \in DOMAIN heads[b] =>
    LET parent == heads[b][i]
        child == heads[b][i + 1]
    IN /\ child.generation = parent.generation + 1
       /\ child.binding = parent.binding
       /\ Parent[child.frame] = parent.frame
       /\ Sequence[child.frame] = Sequence[parent.frame] + 1
       /\ Parked(parent.frame) =>
            \E r \in RecordsAt(b, parent.frame, parent.binding) :
              Accepted[child.frame] = r.result

\* "A losing concurrent fork cannot expose its copied result through the winning
\* branch": a copied record that a branch's own heads can reach is the one the
\* fork that published the branch had read (forkBranch, forkJournalBindingId).
ForkShowsOwnSnapshot ==
  \A b \in Branch : \A i \in DOMAIN heads[b] :
    \A r \in RecordsAt(b, heads[b][i].frame, heads[b][i].binding) :
      r.via = "fork" => origin[b] = [op |-> "fork", result |-> r.result, fuel |-> r.fuel]

\* A retry validates a record and then advances: what it goes on to reduce is
\* the Frame it inspected, with the result and the budget retained for that
\* Frame, even if other calls moved the head in between (resumeApplication).
RetryAppliesInspected ==
  \A p \in Proc : call[p].op = "retry" /\ call[p].pc \in {"step", "publish"} =>
    /\ call[p].head = call[p].inspected
    /\ \E r \in Inspected(p) : Recorded(r, call[p].result, call[p].fuel)

\* A bundle replays: if it carries a result, the child its source branch went on
\* to publish is the reduction the receiver will compute from the bundle alone
\* (exportBranch reads the head and the record in two steps).
BundlesReplay ==
  \A m \in bundles \ ForeignBundle :
    m.result # None /\ m.generation + 2 \in DOMAIN heads[m.branch] =>
      heads[m.branch][m.generation + 2].frame = Guest[m.frame, m.result, m.fuel]

\* A retained result is not lost: when its reduction succeeds, a steady retry
\* publishes a child of the Frame it belongs to, whichever process persisted it
\* and whether or not that process was killed before it could publish.
RetainedAwaits(b, i) ==
  /\ i = Len(heads[b]) /\ i > 0
  /\ Parked(heads[b][i].frame)
  /\ \E r \in RecordsAt(b, heads[b][i].frame, heads[b][i].binding) :
       r.fuel # None /\ CausalOutput(heads[b][i].frame, r.result,
                                     Guest[heads[b][i].frame, r.result, r.fuel])

RetainedResultPublished ==
  \A b \in Branch, i \in 1 .. 3 : RetainedAwaits(b, i) ~> Len(heads[b]) > i

-------------------------------------------------------------------------------
\* The decisions of a branch are the records its heads can reach.
Decisions ==
  {[branch |-> r.branch, parent |-> r.parent, result |-> r.result, fuel |-> r.fuel] :
     r \in {s \in journal : heads[s.branch] # <<>> /\ s.binding = heads[s.branch][1].binding}}

\* The Frames a branch has published.
Published == [b \in Branch |-> [i \in 1 .. Len(heads[b]) |-> heads[b][i].frame]]

Log == INSTANCE ReplayLog
  WITH Waiting <- {f \in Frame : Parked(f)}, log <- Published, decision <- Decisions

\* The controller implements the replay log: branches grow by reductions of
\* decided inputs only, and a decision is never revised.
LogSpec == Log!Spec
===============================================================================
