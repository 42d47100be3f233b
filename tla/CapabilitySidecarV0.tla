--------------------------- MODULE CapabilitySidecarV0 ---------------------------
(***************************************************************************)
(* One call of a capability sidecar (src/src/sidecars/capability_sidecar.mjs) *)
(* from request() or requestSync() to the answer of its caller.  The call    *)
(* spawns a child with three pipes, writes a frame and waits until the child *)
(* has exited AND its output pipes are closed ("close").  A deadline sends   *)
(* SIGTERM and a second timer SIGKILL; so does an output that is too large.  *)
(* A descendant of the child may inherit the pipes and keep them open.       *)
(*                                                                           *)
(* requestSync blocks its process: it runs the same code in a helper process *)
(* which it kills when a longer deadline of its own passes.  In a call of    *)
(* request() the "helper" is the host itself.                                *)
(*                                                                           *)
(* Timers have no clock: an armed timer may fire at any time, in any order.  *)
(* The child may write, close its input, fork and exit as it likes.          *)
(***************************************************************************)
EXTENDS Naturals, Sequences

CONSTANTS
  Limit,        \* maximumFrameBytes, in chunks of output
  MaxWrites     \* bound: chunks written on each of the two outputs

ASSUME SidecarAssumption == Limit \in Nat \ {0} /\ MaxWrites \in Nat

VARIABLES
  mode,         \* "async" for request(), "sync" for requestSync()
  helper,       \* does the process live that waits for the child?
  outer,        \* the deadline of requestSync: "off", "armed" or "fired"
  child,        \* "none" before it is spawned, "failed", "running" or "exited"
  status,       \* the exit status: "none", "zero" or "other" (which includes signals)
  descendant,   \* "none", "holding" the pipes, or "gone"
  sent, taken,  \* the chunks written to stdout, and how many 'data' has consumed
  errSent, errTaken,  \* the same for stderr, of which only the size matters
  stdinError,   \* could the frame not be written to the child?
  deadline, killTimer,  \* "off", "armed" or "fired"
  sigkill,      \* has SIGKILL been sent?
  terminal,     \* terminalError: why the child has been told to stop, or "none"
  result,       \* what the promise of runSidecarCommand settled with, or "none"
  outcome       \* what the caller of request or requestSync gets, or "none"

output == <<sent, taken, errSent, errTaken>>
timers == <<deadline, killTimer, sigkill, terminal>>
sidecarVars == <<mode, helper, outer, child, status, descendant, output, stdinError, timers,
          result, outcome>>

Chunk == {"head", "tail", "other"}

\* decodeSidecarFrame and the comparison of the commands in request().
Decode(bytes) ==
  CASE bytes = <<"head", "tail">> -> "answer"
    [] bytes = <<"other">> -> "RESPONSE_COMMAND"
    [] OTHER -> "OUTPUT_INVALID"

SidecarInit ==
  /\ mode \in {"async", "sync"}
  /\ helper = FALSE /\ outer = "off"
  /\ child = "none" /\ status = "none" /\ descendant = "none"
  /\ sent = <<>> /\ taken = 0 /\ errSent = 0 /\ errTaken = 0
  /\ stdinError = FALSE
  /\ deadline = "off" /\ killTimer = "off" /\ sigkill = FALSE
  /\ terminal = "none"
  /\ result = "none" /\ outcome = "none"

-------------------------------------------------------------------------------
\* The call.  A frame that is too large, or of an unknown command, starts nothing.
Unstarted == ~helper /\ child = "none" /\ outcome = "none"

RefuseFrame ==
  /\ Unstarted
  /\ outcome' \in {"FRAME_TOO_LARGE", "COMMAND_UNSUPPORTED"}
  /\ UNCHANGED <<mode, helper, outer, child, status, descendant, output, stdinError, timers, result>>

\* spawnSync starts the helper, or the caller is already there.
Call ==
  /\ Unstarted
  /\ helper' = TRUE
  /\ outer' = IF mode = "sync" THEN "armed" ELSE "off"
  /\ UNCHANGED <<mode, child, status, descendant, output, stdinError, timers, result, outcome>>

Spawn ==
  /\ helper /\ child = "none"
  /\ child' \in {"running", "failed"}
  /\ deadline' = "armed"
  /\ UNCHANGED <<mode, helper, outer, status, descendant, output, stdinError, killTimer,
                 sigkill, terminal, result, outcome>>

\* The callbacks of the helper that are registered for a child, until it settles.
Waiting == helper /\ child # "none" /\ result = "none"

Clear(timer) == IF timer = "armed" THEN "off" ELSE timer

SettleWith(r) ==
  /\ result' = r
  /\ deadline' = Clear(deadline)
  /\ killTimer' = Clear(killTimer)

TerminateWith(error) ==
  IF terminal = "none" THEN terminal' = error /\ killTimer' = "armed"
                     ELSE UNCHANGED <<terminal, killTimer>>

\* Mutant: the call is rejected at once, without waiting for the child.
DeadlineSettles ==
  /\ Waiting /\ deadline = "armed"
  /\ result' = "TIMEOUT" /\ deadline' = "fired" /\ terminal' = "TIMEOUT"
  /\ UNCHANGED <<mode, helper, outer, child, status, descendant, output, stdinError,
                 killTimer, sigkill, outcome>>

Deadline ==
  /\ Waiting /\ deadline = "armed"
  /\ deadline' = "fired"
  /\ TerminateWith("TIMEOUT")
  /\ UNCHANGED <<mode, helper, outer, child, status, descendant, output, stdinError,
                 sigkill, result, outcome>>

\* Mutant: SIGTERM is all a child gets.
KillTimerIdle ==
  /\ Waiting /\ killTimer = "armed"
  /\ killTimer' = "fired"
  /\ UNCHANGED <<mode, helper, outer, child, status, descendant, output, stdinError,
                 deadline, sigkill, terminal, result, outcome>>

KillTimer ==
  /\ Waiting /\ killTimer = "armed"
  /\ killTimer' = "fired"
  /\ sigkill' = (child = "running")
  /\ UNCHANGED <<mode, helper, outer, child, status, descendant, output, stdinError,
                 deadline, terminal, result, outcome>>

Stdout ==
  /\ Waiting /\ taken < Len(sent)
  /\ taken' = taken + 1
  /\ IF taken' > Limit THEN TerminateWith("FRAME_TOO_LARGE") ELSE UNCHANGED <<terminal, killTimer>>
  /\ UNCHANGED <<mode, helper, outer, child, status, descendant, sent, errSent, errTaken,
                 stdinError, deadline, sigkill, result, outcome>>

Stderr ==
  /\ Waiting /\ errTaken < errSent
  /\ errTaken' = errTaken + 1
  /\ IF errTaken' > Limit THEN TerminateWith("STDERR_TOO_LARGE") ELSE UNCHANGED <<terminal, killTimer>>
  /\ UNCHANGED <<mode, helper, outer, child, status, descendant, sent, taken, errSent,
                 stdinError, deadline, sigkill, result, outcome>>

StdinError ==
  /\ Waiting /\ ~stdinError
  /\ stdinError' = TRUE
  /\ UNCHANGED <<mode, helper, outer, child, status, descendant, output, timers, result, outcome>>

SpawnError ==
  /\ Waiting /\ child = "failed"
  /\ SettleWith("SPAWN")
  /\ UNCHANGED <<mode, helper, outer, child, status, descendant, output, stdinError, sigkill,
                 terminal, outcome>>

Closed ==
  IF terminal # "none" THEN terminal
  ELSE IF status # "zero" THEN "EXIT"
  ELSE IF stdinError THEN "STDIN_WRITE"
  ELSE Decode(SubSeq(sent, 1, taken))

\* Mutant: the call settles on 'exit', whose child may have left output in the pipes.
CloseOnExit ==
  /\ Waiting /\ child = "exited"
  /\ SettleWith(Closed)
  /\ UNCHANGED <<mode, helper, outer, child, status, descendant, output, stdinError, sigkill,
                 terminal, outcome>>

Close ==
  /\ Waiting /\ child = "exited" /\ descendant # "holding"
  /\ taken = Len(sent) /\ errTaken = errSent
  /\ SettleWith(Closed)
  /\ UNCHANGED <<mode, helper, outer, child, status, descendant, output, stdinError, sigkill,
                 terminal, outcome>>

\* request() goes on, or the helper writes its answer, exits, and spawnSync returns.
Return ==
  /\ helper /\ result # "none"
  /\ outcome' = result
  /\ helper' = FALSE
  /\ outer' = Clear(outer)
  /\ UNCHANGED <<mode, child, status, descendant, output, stdinError, timers, result>>

\* spawnSync kills the helper, whose timers and callbacks are gone with it.
OuterDeadline ==
  /\ outer = "armed"
  /\ outer' = "fired"
  /\ helper' = FALSE
  /\ outcome' = "TIMEOUT"
  /\ UNCHANGED <<mode, child, status, descendant, output, stdinError, timers, result>>

-------------------------------------------------------------------------------
\* The child and its descendant.
Writer == child = "running" \/ descendant = "holding"

WriteOutput ==
  /\ Writer /\ Len(sent) < MaxWrites
  /\ \E c \in Chunk : sent' = Append(sent, c)
  /\ UNCHANGED <<mode, helper, outer, child, status, descendant, taken, errSent, errTaken,
                 stdinError, timers, result, outcome>>

WriteError ==
  /\ Writer /\ errSent < MaxWrites
  /\ errSent' = errSent + 1
  /\ UNCHANGED <<mode, helper, outer, child, status, descendant, sent, taken, errTaken,
                 stdinError, timers, result, outcome>>

Fork ==
  /\ child = "running" /\ descendant = "none"
  /\ descendant' = "holding"
  /\ UNCHANGED <<mode, helper, outer, child, status, output, stdinError, timers, result, outcome>>

LetGo ==
  /\ descendant = "holding"
  /\ descendant' = "gone"
  /\ UNCHANGED <<mode, helper, outer, child, status, output, stdinError, timers, result, outcome>>

Exit ==
  /\ child = "running"
  /\ child' = "exited"
  /\ status' \in {"zero", "other"}
  /\ UNCHANGED <<mode, helper, outer, descendant, output, stdinError, timers, result, outcome>>

Killed ==
  /\ child = "running" /\ sigkill
  /\ child' = "exited"
  /\ status' = "other"
  /\ UNCHANGED <<mode, helper, outer, descendant, output, stdinError, timers, result, outcome>>

Host ==
  \/ RefuseFrame \/ Call \/ Spawn \/ Deadline \/ KillTimer \/ Stdout \/ Stderr \/ StdinError
  \/ SpawnError \/ Close \/ Return \/ OuterDeadline

Child == WriteOutput \/ WriteError \/ Fork \/ LetGo \/ Exit \/ Killed

\* The call is over and no process of it is left to act.
Done ==
  /\ outcome # "none" /\ child # "running" /\ descendant # "holding"
  /\ UNCHANGED sidecarVars

SidecarNext == Host \/ Child \/ Done

SidecarSpec == SidecarInit /\ [][SidecarNext]_sidecarVars

\* Timers fire, callbacks are called and signals arrive; nothing is asked of the child.
SidecarFairness ==
  /\ WF_sidecarVars(RefuseFrame \/ Call) /\ WF_sidecarVars(Spawn)
  /\ WF_sidecarVars(SpawnError) /\ WF_sidecarVars(Close)
  /\ WF_sidecarVars(Return)
  /\ WF_sidecarVars(Stdout) /\ WF_sidecarVars(Stderr)
  /\ WF_sidecarVars(Deadline) /\ WF_sidecarVars(KillTimer) /\ WF_sidecarVars(OuterDeadline)
  /\ WF_sidecarVars(Killed)

FairSidecarSpec == SidecarSpec /\ SidecarFairness

-------------------------------------------------------------------------------
SidecarTypeOK ==
  /\ mode \in {"async", "sync"} /\ helper \in BOOLEAN
  /\ {outer, deadline, killTimer} \subseteq {"off", "armed", "fired"}
  /\ child \in {"none", "failed", "running", "exited"}
  /\ status \in {"none", "zero", "other"}
  /\ descendant \in {"none", "holding", "gone"}
  /\ sent \in Seq(Chunk) /\ taken \in 0 .. Len(sent)
  /\ errSent \in Nat /\ errTaken \in 0 .. errSent
  /\ stdinError \in BOOLEAN /\ sigkill \in BOOLEAN
  /\ terminal \in {"none", "TIMEOUT", "FRAME_TOO_LARGE", "STDERR_TOO_LARGE"}

\* A call that was in time, could write its frame, and was not told too much is
\* answered exactly when the child exited with status zero and everything written
\* is one frame of the command: neither a late answer nor half of one is taken, and
\* none that was written is lost.
AnsweredIffComplete ==
  /\ outcome = "answer" => child = "exited" /\ deadline # "fired" /\ outer # "fired"
  /\ result # "none" /\ child = "exited" /\ ~stdinError /\ deadline # "fired"
       /\ Len(sent) <= Limit /\ errSent <= Limit =>
       (result = "answer" <=> status = "zero" /\ sent = <<"head", "tail">>)

\* A call that returns leaves no child behind that still acts on its request, unless
\* the helper of a synchronous call was killed before it could end the child.
NoChildLeft ==
  outcome # "none" => child # "running" \/ (mode = "sync" /\ outer = "fired")

\* A call returns, whatever the child does, unless a descendant keeps the pipes open
\* for ever; a synchronous call returns even then.
CallReturns ==
  <>(outcome # "none") \/ (mode = "async" /\ <>[](descendant = "holding"))
===============================================================================
