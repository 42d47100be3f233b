# A verification project for World Host

World Host runs World applications, deterministic WASM modules, and keeps the
durable state of their runs. The modules in this directory model its two
storage and execution profiles in TLA+, check them with TLC on small instances
and prove their central invariants with TLAPS for every size. Paths below are
relative to the repository (`src/...`); `PROJECT.json` maps every definition
that models code to the lines it stands for.

Contents: [the system](#the-system), [the modules](#the-modules-and-the-code),
[the runs](#the-runs), [fairness](#fairness), [the proofs](#the-proofs),
[findings](#findings), [limits](#what-is-only-checked-and-what-is-not-modelled),
[the plan](#the-plan).

## The system

A host never decides what an application does; it stores immutable bytes, moves
one pointer per branch, and makes sure that an external effect is answered by
one retained result. An application is a function from a state (a *Frame* in
profile v1, a *closure* in Carrier v0) and an input to the next state. A state
may be *parked*: it waits for the answer to one effect request.

### World Application v1 (`src/src/v1`, `src/src/bun/application_v1_cli.mjs`)

| component | state | operations | works with |
|---|---|---|---|
| branch head store (`directory_storage.mjs`, `storage.mjs`) | a directory of generation files per (run, branch) | `readHead`, `advanceHeadIfCurrent` | the block store; takes no lock |
| effect journal (`effect_journal.mjs`, `directory_storage.mjs`) | one immutable record per (run, branch, parent Frame, request, binding), and its result block | `persistResult`, `readResult`, `copyResult` | the block store |
| application registry (`directory_storage.mjs`) | a file per application identity and one per name | `register`, `get`, `list` | the install and import commands |
| run controller (`run_controller.mjs`) | none of its own | `initialize`, `advance`, `forkBranch`, `exportBranch`, `importBranch` | all of the above and the worker |
| application worker (`application_worker.mjs`) | a WASM instance | `step`, checked by `#validateCausalOutput` | the protocol codec |
| commands (`application_v1_cli.mjs`) | none | `run`, `resume`, `retry`, `replay`, `fork`, `export`, `import`, `install`, `inspect` | one controller per process |
| protocol codec (`protocol.mjs`), WASM inspection | none | encode, decode, validate; a worker with a deadline | |

Any number of processes run commands on one store directory without a lock.
Hard here: heads are compared and then created in several file operations; a
retained result must decide the child whoever was killed after retaining it;
forks copy a result before they know whether they will win; exports read the
head and the record at different times; `retry` validates one head and advances
another read of it; installations are two files.

What makes it correct: one complete compare-and-set per head; no head or record
without its blocks; a record is written once; every published Frame is the
reduction of its parent under the retained inputs; a losing fork leaves nothing
the winner's branch can reach; a bundle reproduces its source; an application
has one name.

### Carrier v0 (`src/src/core`, `src/src/stores`, `src/src/bun`)

| component | state | operations | works with |
|---|---|---|---|
| store lock (`bun_lock.mjs`) | one lock file per store | `acquire`, with or without `breakStale`, `release` | held by each store command while it runs |
| directory store (`directory_store.mjs`) | head, run and effect records, blobs | `readHead`, `compareAndSwapHead`, `putEffectRecord`, export, import, recovery scan | each write an atomic rename |
| effect journal (`effect_journal.mjs`, `actuator.mjs`) | per key and branch: state, parent, outcome | `resolve`, `recover`, `markSubmitted`, `markClosureCommitted`, `reconcileCommittedHead` | drivers; a lock per key across branches |
| run controller (`worker.mjs`) | none of its own; a batch has counters and a cursor | `advance`, provenance of the run record, the plan of a turn's effects and their bounded scheduler | journal, store, capability plane, drivers, World worker |
| branching and migration (`migration.mjs`) | none | `forkRunBranch`, `exportCarrierRun`, `importCarrierRun` | head and run records |
| capability plane (`capabilities.mjs`, `capability_policy.mjs`, `worker.mjs`, `actuator.mjs`, packs) | manifests, policies; the live model calls of one preflight | preflight, routing, allow or block: three copies of the rules | asked before a driver is |
| drivers and sidecar (`drivers/`, `capability_sidecar.mjs`) | a child process per call | effects; a deadline with SIGTERM and SIGKILL | |
| World worker, codecs (`bun_worker.mjs`, `protocol/`) | guest memory | submit a turn | |
| secrets, observability | none | redaction, reports | |

Commands of one process advance branches concurrently; a call passes through
many writes and may throw, or die, between any two. Hard here: whether a driver
acted is unknown after a crash; the head moves before the journal and the run
record learn of it; calls that started from a replaced head rebind records;
branches share outcomes; calls under different policies accept different
outcomes; a dead process leaves its lock file; the effects of a turn run beside
each other and one may fail while others run; what may be asked is decided in
three places at three moments; a bundle is read from a run that goes on, and
imported in several writes; a sidecar's child may answer, hang, fork or die
while its timers run.

What makes it correct: a driver that must not be repeated is asked once; a
published closure was made from an outcome the journal keeps; "committed" is
never claimed of what is not published; an interrupted commit can be
finished; an effect that failed waits for an operator; an outcome another
branch has is reused; the run record lists real heads; the lock excludes and
does not stay for ever; a batch runs each effect once within its limits and
settles when nothing runs; no driver is asked against the policy or beyond the
budget; a bundle holds the outcomes of its head, an import adds and never
replaces, and what the source had answered is not asked again; a sidecar call
takes only a complete answer, leaves no child and returns.

## The modules and the code

```
BranchHead          the promise of a head store      <- implemented by HeadStoreV1
ReplayLog           the promise of a run's branches  <- implemented by RunControllerV1
HeadStoreV1         DirectoryBranchHeadStore, file by file
EffectJournalV1     both v1 journals, store access by store access
ApplicationRegistryV1   register, file by file
RunControllerV1     controller, journal, blocks, heads and commands composed
StoreLockV0         BunStoreLock, file by file
CarrierV0           advance, journal, head, run record and fork composed
EffectPool          the promise of a batch           <- implemented by EffectSchedulerV0
EffectSchedulerV0   runGroupedBounded, launch by launch
CapabilityPlaneV0   the three copies of the routing and policy rules, as operators
EffectBatchV0       one turn's effects: plan, preflight, contexts, scheduler, answers
                    (EXTENDS EffectSchedulerV0 and CapabilityPlaneV0)
MigrationV0         a run that advances, its export, its import elsewhere
CapabilitySidecarV0 one sidecar call, its child, its timers and its helper
```

`*MC` modules hold the small applications and symmetry sets of the runs;
`*Proofs` modules hold the theorems. Operators named in a comment as *mutants*
are plausible bugs of the definition after them; no specification uses them. They
show that a property can fail: with the definition replaced by its mutant, TLC
finds the property violated.

**HeadStoreV1.** `file[g]` is generation file g, `block` the retained Frames;
the remaining variables are the locals of each process's call. `readdir`, every
read of an envelope, the block check and `link(2)` are steps. `ReadDirectory`
may miss any file created after the call began; `CreateGeneration` is the link,
which fails on an existing file. A process may fail a call between any two
steps. `ImplementsBranchHead` maps the files to one pointer, and the set of
heads a call has *witnessed* to those published since it began: each answer is
one the single pointer could have given at some moment of the call.

**EffectJournalV1.** `backend` chooses between `MemoryEffectJournalV1` (tasks of
one process, whose `persistResult` awaits the block store between its look at the
key and `Map.set`) and `DirectoryEffectJournalV1` (processes, `link(2)`). Run,
parent Frame and request are fixed, so a key is a branch with a publication
binding. Each caller makes one call of `persistResult`, `readResult` or `copyResult`.
A record of an early release, without a budget, may be there from the start.
Reading an existing record is one step, because records are immutable.

**ApplicationRegistryV1.** `identities` and `names` are the two kinds of files,
each call one `register`. `faults`, chosen at the start, names the kinds whose
creation may fail for a reason of its own, before the link or after it
(`fsyncDirectory` throws although the file exists); an identity file's removal may
fail with it. `get` and `list` are the
operators `Resolved` and `Listed`. An installation from before identity files
existed may be present initially.

**RunControllerV1.** `heads[b]` is the history of a branch (the head store may
be taken as atomic because `HeadStoreV1` implements `BranchHead`), `frames` and
`results` the block store, `journal` the records, `bundles` the exported
bundles, `call[p]` the locals of each process. Every storage operation is a step:
`Initialize`/`AdvanceFrom`/`RetryInspect`/... read a head, `PersistLookup`,
`PersistBlock`, `PersistLink` retain a result, `ReadRetained` finds one,
`Execute` reduces and retains the child, `Publish` compares and sets;
`ForkTarget`, `ForkSource`, `Snapshot`, `ForkCopy`, then `Publish`;
`ExportHead`, `ExportBundle`; `Import`, also of a bundle from another store
(`ForeignBundle`). `MaximumExports` bounds the bundles made. A crash is `Abandon`, for the processes
in `CrashProne`, between any two steps. The application is the constant
`Guest`. Abstractions: one admitted application and one run with one initial
argument; a request is identified with its parked Frame; the fork's SHA-256
binding is the snapshot it hashes, an injective stand-in; the request block,
which nothing reads back, is left out; refused calls that change nothing before
their first step are left out; missing-block errors are left out because
`BlocksRetained` says they cannot happen. `origin` and a record's `via` are history
variables: no action reads them. Records of early releases are written by an
external action, `EarlyReleasePersist`.

**StoreLockV0.** A file is an inode, so a name may come to stand for another
file between two steps; `file[i]` records who created it and whether its
metadata is there. `OpenStale`, `Judge`, `CompareStale`, `BreakStale` are
`removeStaleLockPath`; `Create`, `Write`, `WriteFails`, `CompareOwn`, `Undo` are
the rest of `acquire`, with its catch; `Release`, `ReadToken`, `Remove` are
`release`. `Die` may strike at any step. `explicit`, fixed at the start, says
whether recovery is what the lock file's own field asks for
(`staleRecoveryRequiresExplicitOperatorAction: true`, `bun_lock.mjs:24`): nobody
else acquires while one breaks a lock. No command passes `breakStale`; an
operator's program does. Pids are not recycled; of I/O errors only those of
writing the metadata are considered.

**CarrierV0.** `heads[b]` is a branch's history (`compareAndSwapHead` compares
generations), `run[b]` the run record's current head and earlier heads,
`effects[b][k]` the journal's record of a key, `invocations` counts drivers
asked. All tasks belong to one process, because commands hold the store's lock
(`OneHolder` of StoreLockV0). `withEffectKeyLock` serialises the calls of one
key over all branches (`KeyFree`), so a step is what happens under it up to the
next write or driver call. A task may throw between any two steps; with
`FailProne` covering all tasks this is also the death of the process. The World
is the constant `World`, a deterministic function of closure and outcome; a
driver may answer anything or fail in every way the code distinguishes. `class`
is the effect's recovery class, `policies` the sets of outcomes that callers
accept. One run, one effect per closure; routing, preflight's reasons
and blobs are abstracted (`Blocked` is any refusal); several effects of one
closure are EffectBatchV0's subject, exports and imports MigrationV0's. `invocations` saturates at
2, and is not counted for drivers that may be asked again.

**EffectSchedulerV0.** The locals of `runGroupedBounded` (`worker.mjs:1247-1305`):
`groups`, each group's `next` and `active`, `activeAll`, `settled`, `cursor`,
`firstError`, and the `promise`. `launch()` is synchronous, so while
`launching` holds only `LaunchNext` and `LaunchDone` happen; `Settle` and `Fail`
are the two callbacks of an effect's promise. What an effect does between is
left open: the specification `SchedSpec` lets it settle or fail at any time, for
any batches.

**CapabilityPlaneV0.** Manifests, requests and policies as records of what the
rules look at, and the rules as operators: `Permitted`, `Candidates`, `Route` are
the preflight's (`capabilities.mjs`), `Supports` and `Covered` the controller's
(`worker.mjs`), `Allows` the policy module's, evaluated for the context of an
effect and once more before its driver is asked. Each copy of a rule is
translated from its own source; where two copies are the same one operator
serves both. Methods are folded into origins, descriptors into actuator refs,
pack fingerprints into driver ids, and a request has one size. What can only
refuse a turn as a whole because of its application (required actuators and
labels, its limits, supervision) is left out.

**EffectBatchV0.** `phase` goes through `Prepare` (the plan), `Preflight`, one
request a step with its running count `live`, `Bind`, `Context` (where an
approval may come), `Run`, the scheduler, and `Finish`. An effect that runs
finds an outcome in the journal (`Replay`), is refused by journal or policy or
blocked by its driver's own preflight (`Block`), or asks its driver (`Ask`),
which then answers or throws. A parked outcome counts as an
answer, as `resolve` returns for it. The journal holds at most one record per
request and does not change during the turn.

**MigrationV0.** Two stores. In each a run advances by the order of writes of
CarrierV0 in brief: `Rebind`, `Observe`, `Ask`, `Resolve` or `Park` write the
journal's record; `Take` is `resolve` returning an outcome, kept in `turns` until
`MarkSubmitted` and `Publish` (the swap), or `Abandon`; `Commit` and `RecordHead`
follow. These are steps of their own, between which other advances may take
theirs. A closure is the sequence of outcomes it was made from. `policies` are the
sets of outcomes that callers accept: `DropOutcome` gives up a resolved outcome
that one of them refuses, if the driver may be asked again, and the next step
asks. Once a head is swapped the turns still in `turns` would lose their own swap
and are left out, as are branches, turns whose receipt does not name the reply
and an operator's recovery, which CarrierV0 has.
`ExportRun`, `ExportHead`, `ExportEffect` and `ExportDone` are the reads of
`exportRun`, which advances of the same process may interleave; effect files
are read in any order. `Import` is every check up to the first write, then one
write a step; `CutImport` stops it between two. The receiver's commands hold its
store lock, so there an import excludes an advance. The checks of an import that
look at nothing modelled here (preflight, release, scope, blobs) are left out; they
can only refuse it before its first record.

**CapabilitySidecarV0.** One call. `Stdout`, `Stderr`, `StdinError`,
`SpawnError`, `Close`, `Deadline` and `KillTimer` are the callbacks of
`runSidecarCommand`; for `requestSync` the same code runs in a helper process
that `OuterDeadline` kills. The child writes chunks, closes its input, forks a
descendant that keeps its pipes, and exits as it likes; these actions are
external. Timers have no clock: an armed timer may fire at any moment.

**BranchHead**, **ReplayLog** and **EffectPool** are the abstract
specifications. `BranchHead` is also what `MemoryBranchHeadStore` does in one
synchronous step. `ReplayLog` says that a branch grows by reductions of decided
inputs only and that a decision is never revised. `EffectPool` says that each
effect starts once and within the limits, that none starts after a failure, and
that the batch settles only when nothing runs.

## The runs

| run | instance | states | asks |
|---|---|---|---|
| `head_store` | 2 processes, 2 applications, 1 Frame, generations 0 and 1 | 73,656 | does the directory implement one pointer, does every call return |
| `journal` | 3 callers, 2 of them killable, 2 keys, 2 results, 2 budgets, 2 handlers | 314,425 | are answers durable, conflicts rejected, copies equal to their source |
| `journal_race` | the same, nobody killed | violation | the documented rejection, for both journals |
| `registry` | 3 callers, 1 killable, 2 names, 2 applications, 2 contents | 465,559 | one name, resolution, no identity without its name |
| `controller` | 2 processes, 1 killable, 1 branch, 7 Frames, 2 results, 2 budgets, 1 export, a record of an early release | 219,808 | replay, retention, retry, bundles, progress |
| `controller_fork` | 2 killable processes, 2 branches, 3 Frames, a bundle of another store | 293,230 | forks, imports and the replay log |
| `carrier` | 2 tasks, 1 failing, 1 branch, 5 closures, 2 outcomes, 3 recovery classes, 1 or 2 policies | 36,639 | one request per effect, outcome and head agree, reconciliation, progress |
| `carrier_fork` | 2 failing tasks, 2 branches, 4 closures, 2 outcomes | 1.9 million | shared outcomes and the run record |
| `lock` | 3 processes, 2 killable, 1 with write failures, 2 breakers, 3 inodes | 342,210 | exclusion, nothing left by the living, nothing left for ever by the dead |
| `batch` | 9 drivers, 13 requests, 34 policies: every pair of requests of a kind under every policy; 8 batches of 5 requests | 268,240 | budget, policy, agreement of the three copies, accounting, the pool, progress |
| `migration` | 2 turns, 2 exports, the second while only 1 effect is there, 2 outcomes, 3 recovery classes, callers that accept any outcome or differ | 467,711 | bundles are whole, imports add, resume and ask nothing twice |
| `sidecar` | 1 call of either kind, 3 writes of 3 kinds on one output and 3 on the other, a limit of 2 | 435,363 | complete answers, no child left, every call returns |

Why the bounds are enough:

* Every race in the stores is between two callers, one that reads and one that
  writes between its reads. Two processes, two competing values and two
  generations give the reader of a head everything it can tell apart: no file,
  one, two, a stale listing, an equal generation with another content. The
  journal and the registry have a third caller, because there the loser of one
  race (a copy, a rollback) can be the cause of another's failure. The lock has
  three: a holder, a breaker, and one who acquires in between.
* The application of `controller` is small but has every continuation a Frame
  can have: parks, yields with one budget, completes with another, parks again,
  and returns a Frame that is not its child. Two budgets and two results are
  enough for a wrong one to be told from the right one.
* The World of `carrier` ends the run with one outcome; with the other it leaves
  the reply unapplied and asks for the same effect again, the case in which a
  record is rebound. The recovery classes are one that may be asked again, one
  that may be recovered and one that may do neither.
* Three inodes suffice for three processes: an inode in use is at the name or
  open in a process that is not creating a file.

* The drivers of `batch` are one of each kind the rules tell apart (live, fixture
  and loosely declared model, two HTTP drivers, file, human, and two of no
  class), the policies a permissive one and those that differ from it in one
  point, each with and without `allowPartialEffectBatch`. Every rule relates one
  driver, one request and one policy; only the budget relates two requests,
  which is why requests come in pairs. The scheduler's state is exercised by
  five requests on three drivers with limits that bind for a group, for all, and
  for neither.
* Two turns give `migration` a head with a past, an effect that is committed,
  one that is not, and one that is running; two exports give a bundle older
  than what the store has (`MaxRepeated` lets a run be exported again while it has
  the record of one effect). Two outcomes tell a dropped one from its successor.
  The action constraint `SourceFirst` lets an import start only when the source has
  made its last export: the source depends on nothing of the receiver, so every
  behaviour has one that looks the same to the receiver in that order. `View`
  leaves out the source's variables from then on, because nothing reads them any more.
* In `sidecar` a frame is two chunks, so it can be cut in half, and the limit is
  one chunk less than what a child may write.

Deadlock is checked in `head_store`, `lock`, `batch` and `sidecar`. Elsewhere operators may simply
stop, final Frames and closures end a branch, and one-shot callers finish, so
those runs say `CHECK_DEADLOCK FALSE`. Processes, callers and data are symmetric
where no property is temporal and nothing distinguishes them.

What the less obvious properties say:

* `ChildrenReplay`: a history can be computed again from its first Frame and the
  journal alone, after any crash.
* `RetryAppliesInspected`: `retry` reduces the very Frame whose result it
  validated, though `advance` reads the head once more.
* `ForkShowsOwnSnapshot`: a copied record under a key of one of a branch's heads has
  the result and the budget that the fork which started the branch had read.
* `BundlesReplay`: a bundle carries a Frame and, if one is retained, a result and a
  budget, and no child: the child its source publishes next is what the receiver
  will compute from these.
* `InvokedOnce`: counts drivers asked per branch, for effects that must not be
  repeated, over failures, recovery and rebinding.
* `CommittedOutcomesRetained`: holds where all callers accept the same outcomes
  or the driver may not be asked again. Otherwise one call can drop an outcome
  on which another has built the turn it is about to publish.
* `HeadEffectsFinalizable`: for the current head's effect, as `recover` does,
  and for an effect that only one closure of the branch asks for; a call that
  starts from a replaced head rebinds the record of one asked for again.
* `OneHolder`: where recovery is explicit. Without that condition TLC finds two
  holders: a breaker reads the empty file of an owner that has created it and
  not yet filled it, or two breakers meet between comparing inodes and `rm`.
  `SurvivorsLeaveNoLock` and `StaleLockGoes` hold in either case.
* `OneNamePerApplication`, `RegisteredResolves`: where creating a name file does
  not fail for a reason of its own. Otherwise `register` takes the identity
  back while the name file may have been created.
* `IdentityHasName`: an identity without its name is the record of a call that is
  still creating the installation, or was stopped doing so: killed between its two
  files (`directory_storage.mjs:350`), or refused where operations on identity
  files fail, after the link because the directory could not be synced (`:478`) or
  when the file could not be removed again (`:367`). What such a call leaves
  nothing repairs: known limits of the code.
* `LogSpec` with imports: an import that is refused because its branch exists has
  already retained its result in that branch's journal (`run_controller.mjs:107`).
  The log takes it for the branch's decision on that Frame; a `retry` there can
  publish it, although `docs/v1_replay_retry.md:41-42` leaves the admission of a
  new result to `resume`.
* `LiveBudgetRespected`: counts drivers really asked. Only the preflight has the
  count; the later copies look at one request, so the property rests on the
  routes being bound as they were counted.
* `AdmittedIsServed`: relates the three copies. What the preflight has let
  through is refused later only for a missing approval, or for a `best_effort`
  driver where `durableAutomatic` is false and best effort is not allowed: there
  the preflight does not ask and the policy module does.
* `EveryRequestAccounted`: of a turn that is submitted, every request is answered
  or reported unresolved, none both, over four places where one can drop out.
* `BundleHasItsOutcomes`: rests on the order of `exportRun`'s reads, effects
  after the head; its mutant reads an effect first. Where callers accept different
  outcomes and the driver may be asked again, only that there is an outcome of
  every turn: as with `CommittedOutcomesRetained`, one advance may drop what
  another has taken, and the head is then made from one outcome while the journal,
  and a bundle of it, has the other.
* `CarriedNotAsked`: never of drivers that may not be asked again; of others where
  all callers accept the same outcomes (`Outcome` then is what they accept), since a receiver that refuses a resolved
  outcome drops it and asks again by design (`effect_journal.mjs:366-386`). It
  speaks of imports that returned. One that was cut after the run
  record and before the effects leaves a run that its receiver can advance; a
  driver may then be asked for what the source had answered, and
  `CutImportResumes` says that only until then can the import be repeated (one that
  was cut after its last file is complete, and refused as such).
* Exports of a run that goes on may hold effects newer than their head. If the
  effect the head waits for is committed before it is read, the receiver's advances
  end with `ERR_EFFECT_STATE_REGRESSION` (`effect_journal.mjs:565`): in the model
  `MarkSubmitted` is not enabled there. No property forbids it.
* `NoChildLeft`: except for a synchronous call whose helper was killed by the
  outer deadline; the helper's timers die with it and its child is orphaned.
* `CallReturns`: a descendant that holds the pipes for ever withholds an
  asynchronous call for ever; a synchronous one returns by its outer deadline.

## Fairness

* `HeadStoreV1`: weak fairness of each process's steps. A call has a bounded
  number of file operations and waits for nobody.
* `RunControllerV1`: weak fairness of the steps of calls in progress, none of
  which blocks; strong fairness of one operator's `retry`, for processes that
  are not killed, which is what `docs/v1_replay_retry.md` tells an operator to
  do after a crash. It is needed because "the next controller" must exist for a
  retained result to be published. A call that is killed is over; the steps of
  others are not delayed by it.
* `CarrierV0`: strong fairness of calls in progress, because
  `withEffectKeyLock` chains its waiters in order of arrival, and a waiter
  that is enabled again and again is served; strong fairness of one
  caller's repeated `advance`, an assumption about the environment.
* `StoreLockV0`: weak fairness of what a living process has begun (a command
  ends and releases); strong fairness of one breaker's repeated attempts. An
  operator's tool does this; the host never breaks a lock by itself.
* `EffectBatchV0`: weak fairness of `advance` itself and of what each running
  effect waits for: the journal, the checks, and a driver that answers or throws
  (each has a deadline of its own). Nothing is assumed of which comes first.
* `CapabilitySidecarV0`: weak fairness of each timer, callback and of the death of
  a child that was sent SIGKILL. Nothing is assumed of the child: it need not
  exit, write, or heed SIGTERM.

`MigrationV0` has no liveness: whether a run is exported or an import repeated is
an operator's choice.

## The proofs

TLAPS checks the following for every value of the constants, under the
assumptions named in the modules (`HeadStoreAssumption`, `JournalAssumption`,
`RegistryAssumption`, `ControllerAssumption`, `LockAssumption`,
`CarrierAssumption`, `SchedulerAssumption`, `PlaneAssumption`, `BatchAssumption`,
`MigrationAssumption`, `SidecarAssumption`): `None` is no value of the other
sets, killable processes are processes, limits are naturals, the scenarios of a
batch are scenarios; of the application, the World, the drivers and the policies
nothing is assumed but their shape.
Each argument is an inductive invariant that adds to the type invariant what a
call *knows* at each of its program points, and why no step of another call can
take that knowledge away.

| module | theorem | property |
|---|---|---|
| `HeadStoreV1Proofs` | `TypeCorrect`, `ChainHolding`, `FrameRetention`, `AppendOnly` | `TypeOK`, `HistoryIsChain`, `HeadFrameRetained`, `HistoryIsAppendOnly` |
| | `ReadWindows`, `ImplementsPointer` | `Windows`, `ImplementsBranchHead` |
| `RunControllerV1Proofs` | `TypeCorrect`, `Retention`, `WriteOnce`, `Replay`, `Causality` | `TypeOK`, `BlocksRetained`, `JournalWriteOnce`, `ChildrenReplay`, `CausalHistory` |
| | `SourcedInv`, `RetryApplication`, `BundleReplay`, `ForkSnapshot`, `ImplementsReplayLog` | `Sourced`, `RetryAppliesInspected`, `BundlesReplay`, `ForkShowsOwnSnapshot`, `LogSpec` |
| `EffectJournalV1Proofs` | `Backing`, `Admission`, `Durability`, `CopyFaithful`, `Rejection` | `RecordsBacked`, `AnswersAdmit`, `AnswersDurable`, `CopiesAgree`, `DirectoryRejects` |
| `ApplicationRegistryV1Proofs` | `TypeCorrect`, `SingleName`, `Resolution`, `IdentityNamed` | `TypeOK`, `OneNamePerApplication`, `RegisteredResolves`, `IdentityHasName` |
| `CarrierV0Proofs` | `TypeCorrect`, `Turns`, `Listing` | `TypeOK`, `HeadsAreTurns`, `ListedHeadsPublished` |
| | `Invocation`, `SharedOutcomes`, `ParkedStay` | `InvokedOnce`, `OutcomesShared`, `ParkedNeedsOperator` |
| | `OutcomeRetention`, `Commitment`, `Finalization` | `CommittedOutcomesRetained`, `CommittedEffectsPublished`, `HeadEffectsFinalizable` |
| `EffectBatchV0Proofs` | `WithinLimits`, `SettlesWhenIdle`, `NothingWaitsNeedlessly`, `SchedulerImplementsPool` | `LimitsRespected`, `SettledOnlyWhenIdle`, `NoIdleCapacity`, `ImplementsPool` of any batches |
| | `LiveBudget`, `PolicyHeld`, `AdmittedServed`, `RequestsAccounted`, `BatchImplementsPool` | `LiveBudgetRespected`, `AskedWithinPolicy`, `AdmittedIsServed`, `EveryRequestAccounted`, `ImplementsPool` of a turn's |
| `MigrationV0Proofs` | `BundlesAreWhole`, `CutsResume`, `NothingAskedTwice`, `ImportsAdd` | `BundleHasItsOutcomes`, `CutImportResumes`, `CarriedNotAsked`, `ImportOnlyAdds` |
| `ProcessesV0Proofs` | `TypeCorrect`, `Exclusion`, `NothingLeft` (the lock) | `TypeOK`, `OneHolder`, `SurvivorsLeaveNoLock` |
| | `SidecarTypeCorrect`, `AnswerIsComplete`, `ReturnsAlone` (the sidecar) | `SidecarTypeOK`, `AnsweredIffComplete`, `NoChildLeft` |

With these every safety property and every refinement that a passing run checks is also
a theorem. Some of these properties no run states any more, because a theorem gives them
for every instance: the type invariants, `HistoryIsChain`,
`HeadFrameRetained`, `HistoryIsAppendOnly`, `JournalWriteOnce`, `CausalHistory`,
`RecordsBacked`, `AnswersAdmit`, `LimitsRespected`, `SettledOnlyWhenIdle` and
`NoIdleCapacity`.

* **HeadStoreV1Proofs.** `HistoryIsChain` is not inductive: a writer that checked
  the chain long ago may link a file now. `IInv` adds `ReadPrefix` (what a read
  has validated is a prefix of the files) and `WriterHoldsPredecessor` (a writer
  about to create generation g + 1 holds the head in file g). Files only
  accumulate, so both survive other processes. The refinement needs to know what a
  read may miss, although a listing is taken before the files are read: `Windows`
  says that generations have no gap, that a listing holds at least the files that
  were there when its call began, and that a writer about to link a file has
  compared the head it was given. A call's answer is then a head of its own time,
  and the link of generation g + 1 succeeds only while g is the newest.
* **RunControllerV1Proofs.** `Inv` = `TypeOK`, `KeyUnique` (one record per key),
  `BlocksRetained` and `CallsKnow`: a call about to link a record has stored its
  block; one about to reduce has its inputs in the journal; one about to publish
  has retained a Frame that is the causal reduction of those inputs. A second
  invariant, `Chained`, then follows each published head back to its parent;
  `Replay` and `Causality` are its consequences. A third, `Sourced`, follows
  inputs back to where they were read: a branch keeps the binding it began with,
  a copied record holds what its binding names, a `retry` has kept the head it
  inspected, and an export holds a record of the journal for the Frame it read.
  Since records are unique under their key, what a bundle carries is what its
  source reduced. `ImplementsReplayLog` takes the records under the branch's own
  binding for the log's decisions: retaining one decides, starting a branch shows
  the records that were copied for it, publishing reduces a decided input.
* **EffectJournalV1Proofs.** `Inv` holds of both journals; `DirectoryLasts`, that
  an answered record is the stored one for good, of the directory's only, which
  is where the two differ.
* **ApplicationRegistryV1Proofs.** Identity files come and go, so "one name"
  rests on `NamesIndexed` (the identity file of an installed name, if there is
  one, holds the same record) and `OneCreator` (at most one call in flight
  may take a given identity file back). Everything is relative to
  `"name" \notin faults`, which no step changes. The other half (`AnyFault`) holds
  whichever file operations fail: `Answers` says that a call still creating an
  installation finds its own record in its identity file, which with `OneCreator`
  and `Filed` makes `IdentityHasName` inductive.
* **CarrierV0Proofs.** `CallsKnow` has three parts. `Origin`: an advance started
  from a head that its branch has had, which need not be current any more, for the
  effect that head waits for. `Stage`: what the record is at each point under the
  key's lock, that at `driver` nobody of the run has an outcome, and that no driver
  has been asked yet. `Turn`: that the outcome about to be submitted is the
  journal's, that the child is what the World made of it, and that a turn about to
  be committed is published. `Exclusion` says that the key's lock excludes, over all
  branches. What other calls may do to a record meanwhile is `Gentle`: only who is
  alone with a key rewrites it, an outcome stays, and a submitted effect that one
  closure asks for stays submitted; heads only grow. The rest is about the
  store: `Numbered` (why comparing generations is enough: two heads of a branch with
  one generation are one head), `CommitsAsked`, `RecordsAsked`, `CommittedKept`,
  `Finalizable`, `Invocations`. `HeadEffectsFinalizable` is proved for every moment,
  also in the middle of calls, for heads that have a predecessor: the first head of
  a fork names an effect that another branch has committed, and if the fork's branch
  asks for it again its own record is not yet submitted.
* **EffectBatchV0Proofs, the scheduler.** None of the first three properties is inductive, because
  the code decides on counters. `Counted` says that they count: `active` of a
  group the effects of it that run, `activeAll` all that run, `settled` those that
  ended. `Ordered` says that of a group exactly the first `next` effects have been
  started, and `Judged` relates the promise to the counters; that no group is ready
  between two launches is its last line. The refinement follows action by
  action: what settles last decides what `EffectPool` decides.
* **EffectBatchV0Proofs, the turn.** `BatchInv` follows a request through the stages.
  `Reported`: a route is a candidate under the preflight's rules, and `live` counts the
  routes that would be charged. `Bounded`: what is pending is what an accepted report
  has routed, each request once. `Chosen`: what is selected the policy module has
  allowed. `Questioned`: only what is allowed is asked. `Accounted`: at each stage the
  requests still ahead, those selected and those left unresolved make up the turn, and
  none is in two places. `Performed` ties the scheduler's effects to the selected
  requests; `SchedInv` holds along the way, since the batch passed to `Start` has
  disjoint groups. The budget then is a count: who was asked injects into who
  was charged. That the plane's copies agree (`AdmittedServed`) is a fact about one
  driver, one request and one policy, proved of the operators first. That a
  preferred candidate exists, and that a finite set of indexes can be listed in order,
  is shown with least elements and induction over sets of naturals (`Least`,
  `Inductive`), which take no operator as a parameter.
* **MigrationV0Proofs.** Three facts hold of every step (`Keeps`): a record of an
  effect that was asked for and may not be asked for again never goes back to
  observed; that of a turn of the source's head stays submitted or committed, with
  its outcome; and where no caller drops outcomes (`Kept`) any record with an
  outcome keeps it. On it rest `Taken` (an outcome in the hands of an advance is the
  record's, where `Kept`), `Settled` (every turn of a head has a submitted or
  committed record, whose outcome is the turn's where `Kept`), `Exporting` and
  `Bundled` (so it is for the head an export has read, and what it reads later),
  `Imported` (until the receiver goes on by itself it has nothing of the bundle but
  what the bundle says) and `Completed` (what an import that returned has brought
  stays).
* **ProcessesV0Proofs, the lock.** `HandlesKnow` (an open handle in one's own steps is
  one's own file), `PathOwned` (whoever created the lock file is at work on
  it, is releasing it, or is dead) and, where recovery is explicit, `Orderly`:
  who has a file of its own has the name too, and while one breaks a lock nobody
  acquires and the file in its hands is a dead process's.
* **ProcessesV0Proofs, the sidecar.** `Over` says which step gave the outcome, `Decided`
  that what a settled call was decided by does not change any more (the child has
  exited, nobody holds the pipes, everything written has been read), `Told` how
  the terminal error, the deadline and the limits tell of each other.

## Findings

One run ends in a counterexample on purpose: it states what a document says, and
shows what the code does.

* `journal_race`: two overlapping `persistResult` calls with different results
  on the memory journal both succeed (`effect_journal.mjs:56` awaits between the
  look at the key and the write); the first caller's record is replaced.

Observed while modelling and not runs, besides the exceptions listed with the
properties above: in Carrier v0 two advances in a row that die between the
head's swap and the run record lose the closure between them from the record, and
it can then not be forked from; one such death is repaired by the next advance.

## What is only checked and what is not modelled

Only model-checked: liveness (`CallsReturn`, `RetainedResultPublished`,
`OutcomeIsPublished`, `StaleLockGoes`, `BatchSettles`, `CallReturns`), since TLAPS
has no proof of ENABLED and fairness. `RegisteredResolves` and
`OneNamePerApplication` are proved, as they are checked, where creating a name file
does not fail. What a recursive definition computes for all inputs would need
induction over data and is out of reach of the installed provers; no module here
declares a RECURSIVE operator.

Not modelled, with the reason (the full list is in `PROJECT.json`):

* byte codecs (`src/src/protocol`, `v1/protocol.mjs`) and WASM guest memory: data
  transformations; the models use their status rules and take the
  application as a function;
* the memory store of Carrier v0: the directory store's contract over Maps;
* blobs and the recovery scan of Carrier v0: immutable content and a report;
* the warm worker of `advance`, which saves loading a closure again and is
  disposed of on every error;
* an application's own capability rules, mode reports, packs and the driver
  adapter: data without an order of events. Drivers answer, block or throw;
* of the sidecar the commands and payloads, the checks of a pack and the
  conformance runner; a `kill` that fails, the size limit of `spawnSync`
  (`capability_sidecar.mjs:468`) and a helper that dies by itself; clocks, so nothing
  is said of how long a call takes;
* of a v1 head its journal binding, which `sameHead` compares too, and a directory
  that cannot be synced after a generation was linked
  (`directory_storage.mjs:478-479`): the call then throws though its head is
  published;
* of the policy module `action.destructive` (`capability_policy.mjs:102`), which
  only makes it stricter;
* the inspection worker: one request, one timer and one answer of a worker that
  is terminated whichever comes first;
* secrets, observability, command lines beyond the calls they make, build and
  release scripts, the packaged copies under `agent-runtime-*`.

The share of the repository that the models stand for is small: most of its
lines are byte codecs, manifest validation, command lines and packaged
copies of the same sources. The state and the concurrency are in the
components above.

## The plan

Done, in this order: HeadStoreV1 over BranchHead; RunControllerV1 over
ReplayLog; EffectJournalV1; ApplicationRegistryV1; CarrierV0; StoreLockV0;
EffectSchedulerV0 over EffectPool; CapabilityPlaneV0 and EffectBatchV0;
MigrationV0; CapabilitySidecarV0; the proofs of every safety property and
refinement that the runs check.

Next:

1. A composition of EffectBatchV0 with CarrierV0's journal: two effects of one
   closure, with recovery between them, and its refinement to both.
2. An abstract promise of Carrier v0 (a run grows by decided outcomes), with
   CarrierV0 shown to implement it as RunControllerV1 implements ReplayLog.
3. The application's capability rules, and the v1 protocol as operators: which
   Frames, requests and results validate.
