------------------------------ MODULE BranchHead ------------------------------
(***************************************************************************)
(* What a branch head store promises for one (run, branch): a single       *)
(* pointer that concurrent processes read and conditionally advance.  A    *)
(* call takes effect at one moment between its invocation and its answer.  *)
(* witnessed[p] is the set of heads that were current at some moment of    *)
(* p's call: an answer may report only one of those.  A call may fail      *)
(* without effect, and a process may stop at any time, answer unseen.      *)
(*                                                                         *)
(* MemoryBranchHeadStore (src/src/v1/storage.mjs) implements this with one *)
(* synchronous step per call; HeadStoreV1 shows that the directory store   *)
(* implements it with many.                                                *)
(***************************************************************************)
EXTENDS Naturals

CONSTANTS Proc,   \* processes that share the store
          Head,   \* head records: generation, app, frame
          None    \* null: the branch has no head yet

VARIABLES head, call, witnessed, answer

branchVars == <<head, call, witnessed, answer>>

ReadCall    == [kind |-> "read"]
AdvanceCall == [kind : {"advance"}, expected : Head \cup {None}, next : Head]

Answer(kind, h) == [kind |-> kind, head |-> h]

Init ==
  /\ head = None
  /\ call = [p \in Proc |-> None]
  /\ witnessed = [p \in Proc |-> {}]
  /\ answer = [p \in Proc |-> None]

Invoke(p, c) ==
  /\ call[p] = None
  /\ call' = [call EXCEPT ![p] = c]
  /\ witnessed' = [witnessed EXCEPT ![p] = {head}]
  /\ answer' = [answer EXCEPT ![p] = None]
  /\ UNCHANGED head

Reply(p, a) ==
  /\ call' = [call EXCEPT ![p] = None]
  /\ answer' = [answer EXCEPT ![p] = a]

\* readHead: null, or a head that was current during the call.
AnswerHead(p) ==
  /\ call[p] = ReadCall
  /\ \E h \in witnessed[p] : Reply(p, Answer("head", h))
  /\ witnessed' = [witnessed EXCEPT ![p] = {}]
  /\ UNCHANGED head

\* The generation and the application a successor of h must carry.
Admits(h, next) ==
  IF h = None THEN next.generation = 0
              ELSE next.generation = h.generation + 1 /\ next.app = h.app

\* advanceHeadIfCurrent, successful: only from the complete expected head.
Advance(p) ==
  /\ call[p] \in AdvanceCall
  /\ head = call[p].expected
  /\ Admits(head, call[p].next)
  /\ head' = call[p].next
  /\ Reply(p, Answer("advanced", head'))
  /\ witnessed' = [q \in Proc |-> IF q = p \/ call[q] = None
                                  THEN {} ELSE witnessed[q] \cup {head'}]

\* advanceHeadIfCurrent, refused: another head was current during the call.
AnswerConflict(p) ==
  /\ call[p] \in AdvanceCall
  /\ \E h \in witnessed[p] \ {call[p].expected} : Reply(p, Answer("conflict", h))
  /\ witnessed' = [witnessed EXCEPT ![p] = {}]
  /\ UNCHANGED head

\* A thrown error: no effect on the branch.
Fail(p) ==
  /\ call[p] # None
  /\ Reply(p, Answer("error", None))
  /\ witnessed' = [witnessed EXCEPT ![p] = {}]
  /\ UNCHANGED head

Crash(p) ==
  /\ Reply(p, None)
  /\ witnessed' = [witnessed EXCEPT ![p] = {}]
  /\ UNCHANGED head

Next ==
  \E p \in Proc :
    \/ \E c \in {ReadCall} \cup AdvanceCall : Invoke(p, c)
    \/ AnswerHead(p) \/ Advance(p) \/ AnswerConflict(p) \/ Fail(p) \/ Crash(p)

Spec == Init /\ [][Next]_branchVars
===============================================================================
