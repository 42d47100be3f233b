------------------------------- MODULE MigrationV0 -------------------------------
(***************************************************************************)
(* A run of Carrier v0 that is exported while it goes on and imported into   *)
(* another store, where it goes on too (src/src/core/migration.mjs and the   *)
(* exportRun and importRun of src/src/stores/directory_store.mjs).  An export *)
(* reads the run record, the head and every effect record one after the      *)
(* other; an import compares the bundle with what the store has and writes   *)
(* what is missing, one file after the other, and may be cut in between.     *)
(*                                                                           *)
(* A closure is the sequence of the outcomes it was made from; the closure   *)
(* of length k waits for effect k + 1, whatever it was made from, and the    *)
(* receipt of its turn names the reply (CarrierV0 has turns whose receipt    *)
(* does not, branches and operators).  Callers may accept different outcomes; *)
(* a resolved one that a caller refuses is dropped if the driver may be asked *)
(* again.  An advance takes an outcome, marks its record submitted and swaps *)
(* the head in steps of its own, between which others may do the same; once  *)
(* the head is swapped the other turns of the old head are bound to lose the *)
(* comparison of generations, and are left out.                              *)
(*                                                                           *)
(* Commands of the receiver hold its lock, so an import excludes an advance  *)
(* there; an export may run beside the advances of its own process.  Blobs   *)
(* are put before the records that name them.                                *)
(***************************************************************************)
EXTENDS Naturals, Sequences, FiniteSets, Functions

CONSTANTS
  MaxTurns,     \* bound: turns of the run
  MaxBundles,   \* bound: exports
  MaxRepeated,  \* bound: effects of a run that is exported more than once
  Outcome,      \* ResolutionInputs
  Accepting,    \* the sets of outcomes that manifests and policies accept
  None

ASSUME MigrationAssumption ==
  /\ MaxTurns \in Nat \ {0} /\ MaxBundles \in Nat /\ MaxRepeated \in Nat
  /\ Accepting \subseteq SUBSET Outcome

Store == {"source", "receiver"}
Effect == 1 .. MaxTurns
Classes == {"idempotent", "externally_recoverable", "best_effort"}

VARIABLES
  class,       \* the recovery class of the driver; pure is treated as idempotent
  policies,    \* what the callers accept
  application, \* the stores that have the application record
  run,         \* run[s]: the branch of the run record, or None
  head,        \* head[s]: the closure of the head record, or None
  effects,     \* effects[s][k]: the record of effect k
  turns,       \* turns[s]: the outcomes taken by advances that have not swapped the head
  bundles,     \* the bundles exported so far
  export,      \* the local state of an export, or None
  import,      \* the local state of an import, or None
  completed,   \* history: the bundle of the import that returned, or None
  cut          \* history: the bundle whose import was cut, until the receiver does anything

vars == <<class, policies, application, run, head, effects, turns, bundles, export, import,
          completed, cut>>

NoRecord == [state |-> "none", parent |-> None, outcome |-> None]
WithOutcome == {"resolved", "submitted", "closure_committed"}

Init ==
  /\ class \in Classes /\ policies \in {{Outcome}, Accepting}
  /\ application = {"source"}
  /\ run = [s \in Store |-> IF s = "source" THEN [current |-> <<>>, history |-> {}] ELSE None]
  /\ head = [s \in Store |-> IF s = "source" THEN <<>> ELSE None]
  /\ effects = [s \in Store |-> [k \in Effect |-> NoRecord]]
  /\ turns = [s \in Store |-> {}]
  /\ bundles = {} /\ export = None
  /\ import = None /\ completed = None /\ cut = None

-------------------------------------------------------------------------------
\* The bounds of exports.
Exportable ==
  /\ Cardinality(bundles) < MaxBundles
  /\ bundles = {} \/ \A k \in Effect : effects["source"][k] = NoRecord \/ k <= MaxRepeated

\* The run goes on in a store.  Only an import excludes it.  (What the source does
\* after the last export of the bound has no effect on anything.)
Runs(s) ==
  /\ s \in application /\ run[s] # None /\ head[s] # None
  /\ IF s = "receiver" THEN import = None ELSE Exportable

\* What the receiver does of its own ends the chance to resume a cut import.
GoesOn(s) ==
  /\ cut' = IF s = "receiver" THEN None ELSE cut
  /\ UNCHANGED <<class, policies, application, bundles, export, import, completed>>

Put(s, k, record) == effects' = [effects EXCEPT ![s][k] = record]

\* The record that an advance of s finds, and what it writes of it, under the lock of
\* the effect's key.
Waits(s) == Len(head[s]) + 1
Found(s) == effects[s][Waits(s)]
Resolving(s) == Runs(s) /\ Waits(s) \in Effect
Bound(s) == Resolving(s) /\ Found(s).parent = head[s]

Writes(s, state, outcome) ==
  /\ Put(s, Waits(s), [state |-> state, parent |-> head[s], outcome |-> outcome])
  /\ GoesOn(s)
  /\ UNCHANGED <<run, head, turns>>

\* #reuseOrConflict: a record made for another closure now belongs to this one; an
\* outcome is to be submitted again.
Rebind(s) ==
  /\ Resolving(s) /\ Found(s).parent # head[s]
  /\ \/ Found(s).state \in WithOutcome /\ Writes(s, "resolved", Found(s).outcome)
     \/ Found(s).state \in {"observed", "running"} /\ Writes(s, Found(s).state, None)

Observe(s) ==
  /\ Resolving(s) /\ Found(s).state = "none"
  /\ Writes(s, "observed", None)

Reresolvable == class = "idempotent"

\* #nonInvokingResolution: a resolved outcome that the caller does not accept, of a
\* driver that may be asked again.
DropOutcome(s) ==
  /\ Bound(s) /\ Found(s).state = "resolved" /\ Reresolvable
  /\ \E accepts \in policies : Found(s).outcome \notin accepts
  /\ Writes(s, "observed", None)

\* The driver is asked, for a first time or because it may be asked again.
Ask(s) ==
  /\ Bound(s)
  /\ \/ Found(s).state = "observed"
     \/ Found(s).state = "running" /\ Reresolvable
  /\ Writes(s, "running", None)

\* The driver answers, or finds out what it did before.
Resolve(s) ==
  /\ Bound(s) /\ Found(s).state = "running"
  /\ \E outcome \in UNION policies : Writes(s, "resolved", outcome)

\* "failed" or "operator_intervention_required": a best-effort driver failed or its
\* process died, an answer was not accepted, a recover hook asks for the operator.
Park(s) ==
  /\ Bound(s) /\ Found(s).state = "running"
  /\ Writes(s, "parked", None)

\* resolve returns an outcome that the caller accepts, and the turn is submitted.
Take(s) ==
  /\ Bound(s) /\ Found(s).state \in WithOutcome
  /\ Found(s).outcome \in UNION policies
  /\ turns' = [turns EXCEPT ![s] = @ \cup {Found(s).outcome}]
  /\ GoesOn(s)
  /\ UNCHANGED <<run, head, effects>>

\* Whatever outcome the record has by then.  A record that is committed, or that has
\* no outcome any more, is refused.
MarkSubmitted(s) ==
  /\ Bound(s) /\ turns[s] # {} /\ Found(s).state = "resolved"
  /\ Writes(s, "submitted", Found(s).outcome)

\* compareAndSwapHead, after the record was marked.
Publish(s, outcome) ==
  /\ Bound(s) /\ outcome \in turns[s] /\ Found(s).state = "submitted"
  /\ head' = [head EXCEPT ![s] = Append(@, outcome)]
  /\ turns' = [turns EXCEPT ![s] = {}]
  /\ GoesOn(s)
  /\ UNCHANGED <<run, effects>>

\* An advance throws, or dies.
Abandon(s, outcome) ==
  /\ Runs(s) /\ outcome \in turns[s]
  /\ turns' = [turns EXCEPT ![s] = @ \ {outcome}]
  /\ GoesOn(s)
  /\ UNCHANGED <<run, head, effects>>

\* After the swap the record is marked, or later by recover, then the run record is
\* written.
Commit(s) ==
  /\ Runs(s) /\ head[s] # <<>>
  /\ effects[s][Len(head[s])].state = "submitted"
  /\ Put(s, Len(head[s]), [effects[s][Len(head[s])] EXCEPT !.state = "closure_committed"])
  /\ GoesOn(s)
  /\ UNCHANGED <<run, head, turns>>

RecordHead(s) ==
  /\ Runs(s) /\ head[s] # <<>> /\ head[s] # run[s].current
  /\ effects[s][Len(head[s])].state = "closure_committed"
  /\ run' = [run EXCEPT ![s] =
       [current |-> head[s],
        history |-> @.history \cup {@.current, SubSeq(head[s], 1, Len(head[s]) - 1)}]]
  /\ GoesOn(s)
  /\ UNCHANGED <<head, effects, turns>>

Advance(s) ==
  \/ Rebind(s) \/ Observe(s) \/ DropOutcome(s) \/ Ask(s) \/ Resolve(s) \/ Park(s) \/ Take(s)
  \/ MarkSubmitted(s) \/ (\E outcome \in Outcome : Publish(s, outcome) \/ Abandon(s, outcome))
  \/ Commit(s) \/ RecordHead(s)

-------------------------------------------------------------------------------
\* exportRun: the run record, the head, and the effects one by one in any order.
ExportRun ==
  /\ export = None /\ Exportable
  /\ export' = [run |-> run["source"], head |-> None, effects |-> <<>>]
  /\ UNCHANGED <<class, policies, application, run, head, effects, turns, bundles, import, completed, cut>>

\* The exported run record has the head that was read as its current one.
ExportHead ==
  /\ export # None /\ export.head = None
  /\ export' = [export EXCEPT !.head = head["source"], !.run.current = head["source"]]
  /\ UNCHANGED <<class, policies, application, run, head, effects, turns, bundles, import, completed, cut>>

ReadsEffect(k) ==
  /\ k \notin DOMAIN export.effects
  /\ export' = [export EXCEPT !.effects =
                  [j \in DOMAIN @ \cup {k} |-> IF j = k THEN effects["source"][k] ELSE @[j]]]
  /\ UNCHANGED <<class, policies, application, run, head, effects, turns, bundles, import, completed, cut>>

\* Mutant: effects may be read before the head is.
ExportEffectEarly(k) == export # None /\ ReadsEffect(k)

ExportEffect(k) == export # None /\ export.head # None /\ ReadsEffect(k)

ExportDone ==
  /\ export # None /\ export.head # None /\ DOMAIN export.effects = Effect
  /\ bundles' = bundles \cup {export}
  /\ export' = None
  /\ UNCHANGED <<class, policies, application, run, head, effects, turns, import, completed, cut>>

-------------------------------------------------------------------------------
\* importCarrierRun and importRun.
Carried(b) == {k \in Effect : b.effects[k].state # "none"}
Missing(b) == {k \in Carried(b) : effects["receiver"][k].state = "none"}

\* rejectUnrecoverableEffects.
Recoverable(b) == class = "best_effort" => \A k \in Effect : b.effects[k].state # "running"

Agrees(b) ==
  /\ run["receiver"] \in {None, b.run}
  /\ head["receiver"] \in {None, b.head}
  /\ run["receiver"] # None \/ head["receiver"] # None => "receiver" \in application

EffectsAgree(b) == \A k \in Carried(b) : effects["receiver"][k] \in {NoRecord, b.effects[k]}

Incomplete(b) == run["receiver"] = None \/ head["receiver"] = None \/ Missing(b) # {}

\* Mutant: effects of the store are not compared with those of the bundle.
ImportableOver(b) == Recoverable(b) /\ Agrees(b) /\ Incomplete(b)

\* Mutant: an import is refused as soon as run and head are there.
ImportableOnce(b) ==
  Recoverable(b) /\ Agrees(b) /\ EffectsAgree(b) /\ {run["receiver"], head["receiver"]} = {None}

Importable(b) == Recoverable(b) /\ Agrees(b) /\ EffectsAgree(b) /\ Incomplete(b)

\* Mutant: only effects that have an outcome are written.
ImportOutcomes(b) ==
  /\ import = None /\ turns["receiver"] = {} /\ Importable(b)
  /\ import' = [bundle |-> b, left |-> {k \in Carried(b) : b.effects[k].state \in WithOutcome}]
  /\ cut' = None
  /\ UNCHANGED <<class, policies, application, run, head, effects, turns, bundles, export, completed>>

Import(b) ==
  /\ import = None /\ turns["receiver"] = {} /\ Importable(b)
  /\ import' = [bundle |-> b, left |-> Carried(b)]
  /\ cut' = None
  /\ UNCHANGED <<class, policies, application, run, head, effects, turns, bundles, export, completed>>

Importing == import # None

WriteApplication ==
  /\ Importing /\ "receiver" \notin application
  /\ application' = application \cup {"receiver"}
  /\ UNCHANGED <<class, policies, run, head, effects, turns, bundles, export, import, completed, cut>>

\* createRun writes the heads of the branches, then the run record.
WriteHead ==
  /\ Importing /\ "receiver" \in application /\ head["receiver"] = None
  /\ head' = [head EXCEPT !["receiver"] = import.bundle.head]
  /\ UNCHANGED <<class, policies, application, run, effects, turns, bundles, export, import, completed, cut>>

WriteRun ==
  /\ Importing /\ head["receiver"] # None /\ run["receiver"] = None
  /\ run' = [run EXCEPT !["receiver"] = import.bundle.run]
  /\ UNCHANGED <<class, policies, application, head, effects, turns, bundles, export, import, completed, cut>>

WriteEffect ==
  /\ Importing /\ run["receiver"] # None /\ head["receiver"] # None
  /\ \E k \in import.left :
       /\ Put("receiver", k, import.bundle.effects[k])
       /\ import' = [import EXCEPT !.left = @ \ {k}]
  /\ UNCHANGED <<class, policies, application, run, head, turns, bundles, export, completed, cut>>

ImportDone ==
  /\ Importing /\ run["receiver"] # None /\ import.left = {}
  /\ completed' = import.bundle
  /\ import' = None
  /\ UNCHANGED <<class, policies, application, run, head, effects, turns, bundles, export, cut>>

\* The process dies, or a write fails, between two files.
CutImport ==
  /\ Importing
  /\ import' = None
  /\ cut' = import.bundle
  /\ UNCHANGED <<class, policies, application, run, head, effects, turns, bundles, export, completed>>

Next ==
  \/ \E s \in Store : Advance(s)
  \/ ExportRun \/ ExportHead \/ ExportDone \/ \E k \in Effect : ExportEffect(k)
  \/ \E b \in bundles : Import(b)
  \/ WriteApplication \/ WriteHead \/ WriteRun \/ WriteEffect \/ ImportDone \/ CutImport

Spec == Init /\ [][Next]_vars

-------------------------------------------------------------------------------
\* The outcome of a submitted turn stays in its record: no caller refuses it, or the
\* driver is not asked again.
Kept == ~Reresolvable \/ policies = {Outcome}

\* A bundle has an outcome of every turn of its head, although run, head and effects
\* are read at different moments of a run that goes on: the one the head was made
\* from, but where callers accept different outcomes and one may be dropped between
\* an advance that has taken it and its swap.
BundleHasItsOutcomes ==
  \A b \in bundles : \A k \in 1 .. Len(b.head) :
    /\ b.effects[k].state \in WithOutcome
    /\ Kept => b.effects[k].outcome = b.head[k]

\* Once an import has returned, the receiver never asks a driver for an effect that
\* the source had asked for and that cannot be asked for again, nor, where all callers
\* accept the same outcomes, for one that the source had answered.  (A caller of the
\* receiver that refuses a resolved outcome asks again where that is safe.)
Owed(k) ==
  /\ completed # None
  /\ \/ completed.effects[k].state \in WithOutcome /\ Kept
     \/ completed.effects[k].state \notin {"none", "observed"} /\ ~Reresolvable

CarriedNotAsked ==
  [][\A k \in Effect :
       Ask("receiver") /\ k = Waits("receiver") => ~Owed(k)]_vars

\* An import only adds: a record that the receiver has, of an earlier attempt or of
\* its own, is never replaced by one of a bundle.
ImportOnlyAdds ==
  [][import # None =>
       /\ run["receiver"] \in {None, run'["receiver"]}
       /\ head["receiver"] \in {None, head'["receiver"]}
       /\ \A k \in Effect : effects["receiver"][k] \in {NoRecord, effects'["receiver"][k]}]_vars

\* An import that was cut can be repeated until the receiver goes on by itself, or it
\* had written all there is (and repeated is refused as one of a run that exists).
CutImportResumes ==
  cut # None /\ import = None => Importable(cut) \/ ~Incomplete(cut)
===============================================================================
