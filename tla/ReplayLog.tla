------------------------------- MODULE ReplayLog -------------------------------
(***************************************************************************)
(* What a run promises: every branch is a log of Frames in which each      *)
(* entry is the application's reduction of the one before it.  A parked    *)
(* Frame is reduced with the one EffectResult and fuel budget decided for  *)
(* it on that branch; a decision, once made, never changes, so the log can *)
(* be recomputed from its first Frame and the decisions alone.             *)
(***************************************************************************)
EXTENDS Naturals, Sequences

CONSTANTS Branch, Frame, Result, Fuel, None,
          Waiting,  \* the Frames that wait for an EffectResult
          Guest    \* Guest[parent, result, fuel]: the child Frame, or None

VARIABLES
  log,        \* log[b]: the Frames published on branch b, oldest first
  decision    \* the inputs fixed so far: [branch, parent, result, fuel]

vars == <<log, decision>>

\* fuel = None: a result decided by a release that retained no budget.
Decision == [branch : Branch, parent : Frame, result : Result, fuel : Fuel \cup {None}]

Last(b) == log[b][Len(log[b])]

Decided(b, parent) == \E d \in decision : d.branch = b /\ d.parent = parent

Init == log = [b \in Branch |-> <<>>] /\ decision = {}

\* A branch begins at a Frame, with the decisions it was handed.
Begin(b) ==
  /\ log[b] = <<>>
  /\ \E f \in Frame : log' = [log EXCEPT ![b] = <<f>>]
  /\ decision \subseteq decision'
  /\ \A d \in decision' \ decision : d \in Decision /\ d.branch = b
  /\ \A d, e \in decision' \ decision : d.parent = e.parent => d = e

Decide(b) ==
  /\ log[b] # <<>>
  /\ \E d \in decision' :
       /\ decision' = decision \cup {d}
       /\ d \in Decision /\ d.branch = b
       /\ ~Decided(b, d.parent)
  /\ UNCHANGED log

Extend(b) ==
  /\ log[b] # <<>>
  /\ \E r \in Result \cup {None}, f \in Fuel :
       /\ IF Last(b) \in Waiting
            THEN \E d \in decision : /\ d.branch = b /\ d.parent = Last(b)
                                     /\ d.result = r /\ d.fuel \in {f, None}
            ELSE r = None
       /\ log' = [log EXCEPT ![b] = Append(@, Guest[Last(b), r, f])]
  /\ UNCHANGED decision

Next == \E b \in Branch : Begin(b) \/ Decide(b) \/ Extend(b)

Spec == Init /\ [][Next]_vars
===============================================================================
