--------------------------- MODULE RunControllerV1MC ---------------------------
(***************************************************************************)
(* A small application: genesis parks; its reduction with result r1 yields *)
(* when the fuel is 1 and completes when it is 2; with r2 it parks again   *)
(* when the fuel is 2 and, when it is 1, returns a Frame that is not its   *)
(* child.                                                                  *)
(***************************************************************************)
EXTENDS RunControllerV1, TLC

MCFrame == {"genesis", "yielded", "resumed", "done", "parked", "last", "stray"}
MCResult == {"r1", "r2"}
OneResult == {"r1"}

MCStatus == [f \in MCFrame |->
  CASE f \in {"genesis", "parked"} -> "needsEffect"
    [] f = "yielded" -> "yieldedFuel"
    [] OTHER -> "completed"]

MCParent == [f \in MCFrame |->
  CASE f = "genesis" -> None
    [] f \in {"resumed", "stray"} -> "yielded"
    [] f = "last" -> "parked"
    [] OTHER -> "genesis"]

MCAccepted == [f \in MCFrame |->
  CASE f \in {"yielded", "done", "last"} -> "r1"
    [] f \in {"parked", "stray"} -> "r2"
    [] OTHER -> None]

MCSequence == [f \in MCFrame |->
  CASE f = "genesis" -> 0
    [] f \in {"yielded", "done", "parked"} -> 1
    [] OTHER -> 2]

MCGuest == [input \in (MCFrame \cup {None}) \X (MCResult \cup {None}) \X Fuel |->
  CASE input = <<None, None, 1>> \/ input = <<None, None, 2>> -> "genesis"
    [] input = <<"genesis", "r1", 1>> -> "yielded"
    [] input = <<"genesis", "r1", 2>> -> "done"
    [] input = <<"genesis", "r2", 1>> -> "stray"
    [] input = <<"genesis", "r2", 2>> -> "parked"
    [] input[1] = "yielded" /\ input[2] = None -> "resumed"
    [] input[1] = "parked" /\ input[2] = "r1" -> "last"
    [] OTHER -> None]

MCAdmissible == [f \in MCFrame |->
  CASE f = "genesis" -> {"r1", "r2"} [] f = "parked" -> {"r1"} [] OTHER -> {}]

\* A shorter one, with one result: each budget leads to a last Frame of its own.
ShortFrame == {"genesis", "in 1", "in 2"}

ShortStatus == [f \in ShortFrame |-> IF f = "genesis" THEN "needsEffect" ELSE "completed"]
ShortParent == [f \in ShortFrame |-> IF f = "genesis" THEN None ELSE "genesis"]
ShortSequence == [f \in ShortFrame |-> IF f = "genesis" THEN 0 ELSE 1]

ShortAccepted == [f \in ShortFrame |-> IF f = "genesis" THEN None ELSE "r1"]

ShortGuest == [input \in (ShortFrame \cup {None}) \X (Result \cup {None}) \X Fuel |->
  CASE input[1] = None /\ input[2] = None -> "genesis"
    [] input = <<"genesis", "r1", 1>> -> "in 1"
    [] input = <<"genesis", "r1", 2>> -> "in 2"
    [] OTHER -> None]

ShortAdmissible == [f \in ShortFrame |-> IF f = "genesis" THEN Result ELSE {}]

NoBundle == {}

\* A bundle of another store: the parked genesis with a retained result.
ParkedBundle ==
  {[branch |-> None, generation |-> 0, frame |-> "genesis", result |-> "r1", fuel |-> 2]}

Resuming == {"initialize", "advance", "retry", "export", "legacy"}
Forking == {"initialize", "advance", "fork", "import"}

Symmetric == Permutations(Proc)
===============================================================================
