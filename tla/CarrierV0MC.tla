------------------------------ MODULE CarrierV0MC ------------------------------
(***************************************************************************)
(* A small World: the run asks for one effect; outcome o1 ends it, with o2  *)
(* the turn leaves the reply unapplied and asks for the same effect again.  *)
(***************************************************************************)
EXTENDS CarrierV0, TLC

MCClosure == {"genesis", "asks", "again", "done", "done1"}
MCFinal == {"done", "done1"}
MCKey == {"k"}
MCOutcome == {"o1", "o2"}
MCPending == [c \in MCClosure |-> IF c \in {"asks", "again"} THEN "k" ELSE None]

MCWorld == [input \in MCClosure \X (MCOutcome \cup {None}) |->
  CASE input = <<"genesis", None>> -> "asks"
    [] input = <<"asks", "o1">> -> "done"
    [] input = <<"asks", "o2">> -> "again"
    [] input[1] = "again" /\ input[2] # None -> "done1"
    [] OTHER -> None]

MCApplied == {<<"asks", "o1">>, <<"again", "o1">>, <<"again", "o2">>}
MCAccepting == {MCOutcome, {"o1"}}

\* A shorter one: each outcome ends the run in its own way.
ShortClosure == {"genesis", "asks", "done", "done1"}

ShortPending == [c \in ShortClosure |-> IF c = "asks" THEN "k" ELSE None]

ShortWorld == [input \in ShortClosure \X (MCOutcome \cup {None}) |->
  CASE input = <<"genesis", None>> -> "asks"
    [] input = <<"asks", "o1">> -> "done"
    [] input = <<"asks", "o2">> -> "done1"
    [] OTHER -> None]

ShortApplied == {<<"asks", "o1">>, <<"asks", "o2">>}

Symmetric == Permutations(Task)
===============================================================================
