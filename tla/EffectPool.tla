------------------------------- MODULE EffectPool -------------------------------
(***************************************************************************)
(* What the bounded scheduler of a batch of effects promises: each effect is *)
(* started once, within the limit of its group and the limit of all; after a *)
(* failure none is started; and the batch settles only when nothing runs, as *)
(* resolved when every effect has settled, as rejected with the first error  *)
(* otherwise.  How a turn to start is found is left open.                    *)
(***************************************************************************)
EXTENDS Naturals, FiniteSets

CONSTANTS Effect, NoError

VARIABLES
  pool,      \* the groups of the batch: sets of effects with a limit each
  width,     \* how many effects may run at once
  state,     \* state[e]: "idle", "running", "settled" or "failed"
  error,     \* the effect that failed first, or NoError
  verdict    \* "none" before the batch, then "pending", "resolved" or "rejected"

poolVars == <<pool, width, state, error, verdict>>

Ran(s, S) == {e \in S : s[e] = "running"}

Ended == {"settled", "failed"}

\* What is decided when the effects are in the states s.
Verdict(s, err) ==
  LET all == UNION {g.effects : g \in pool}
  IN IF Ran(s, all) # {} THEN "pending"
     ELSE IF err # NoError THEN "rejected"
     ELSE IF \A e \in all : s[e] \in Ended THEN "resolved" ELSE "pending"

Init ==
  /\ pool = {} /\ width = 0
  /\ state = [e \in Effect |-> "idle"]
  /\ error = NoError
  /\ verdict = "none"

Begin ==
  /\ verdict = "none"
  /\ \A g \in pool' : g.effects \subseteq Effect
  /\ verdict' = IF UNION {g.effects : g \in pool'} = {} THEN "resolved" ELSE "pending"
  /\ UNCHANGED <<state, error>>

Launch(e) ==
  /\ verdict = "pending" /\ error = NoError
  /\ state[e] = "idle"
  /\ Cardinality(Ran(state, Effect)) < width
  /\ \E g \in pool : e \in g.effects /\ Cardinality(Ran(state, g.effects)) < g.limit
  /\ state' = [state EXCEPT ![e] = "running"]
  /\ UNCHANGED <<pool, width, error, verdict>>

End(e, outcome) ==
  /\ verdict = "pending"
  /\ state[e] = "running"
  /\ state' = [state EXCEPT ![e] = outcome]
  /\ error' = IF outcome = "failed" /\ error = NoError THEN e ELSE error
  /\ verdict' = Verdict(state', error')
  /\ UNCHANGED <<pool, width>>

Next == Begin \/ \E e \in Effect : Launch(e) \/ \E o \in Ended : End(e, o)

Spec == Init /\ [][Next]_poolVars
===============================================================================
