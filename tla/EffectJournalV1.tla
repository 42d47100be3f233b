---------------------------- MODULE EffectJournalV1 ----------------------------
(***************************************************************************)
(* The two effect journals of World Application v1, MemoryEffectJournalV1   *)
(* and DirectoryEffectJournalV1, called by several callers at once: tasks   *)
(* of one process for the first, processes that may die for the second.     *)
(*                                                                          *)
(* The model fixes a run, a parent Frame and its request, so a key is a     *)
(* branch with a publication binding.  Each caller makes one call of        *)
(* persistResult, readResult or copyResult; a step is what the code does    *)
(* between two awaits that reach the store.  Records are never removed.     *)
(***************************************************************************)
EXTENDS Naturals

CONSTANTS
  Caller,
  CrashProne,   \* the callers that may be killed in the middle of a call
  Key,
  Result,       \* results the request admits
  Fuel,         \* budgets within maximumFuelPerStep
  Handler,      \* the metadata a record keeps of who answered
  None

ASSUME JournalAssumption ==
  /\ CrashProne \subseteq Caller
  /\ None \notin Fuel /\ None \notin Result

VARIABLES
  backend,      \* the journal the callers were given: "directory" or "memory"
  records,      \* records[k]: the record under key k
  blocks,       \* the results whose block is stored
  calls         \* calls[c]: the call of caller c

vars == <<backend, records, blocks, calls>>

\* fuel = None: a record of an early release, which retained no budget.
Record == [result : Result, fuel : Fuel \cup {None}, handler : Handler]

\* forkBranch copies from one publication binding to another, never onto itself.
Request ==
  [op : {"persist"}, key : Key, result : Result, fuel : Fuel, handler : Handler]
  \cup [op : {"read"}, key : Key]
  \cup {q \in [op : {"copy"}, key : Key, source : Key] : q.source # q.key}

NoRecord == [result |-> None, fuel |-> None, handler |-> None]

Absent(k) == records[k] = NoRecord

PC == {"new", "lookup", "block", "link", "readSource", "target", "linkCopy",
       "answered", "absent", "refused", "killed"}

-------------------------------------------------------------------------------
Moves(c, pc) == calls' = [calls EXCEPT ![c] = [@ EXCEPT !.pc = pc]]

Holds(c, pc, record) ==
  calls' = [calls EXCEPT ![c] = [pc |-> pc, request |-> @.request, record |-> record]]

Answers(c, record) == Holds(c, "answered", record)

Created(q) == [result |-> q.result, fuel |-> q.fuel, handler |-> q.handler]

\* The arguments are admitted before anything is read.
Invoke(c) ==
  /\ calls[c].pc = "new"
  /\ \E q \in Request :
       calls' = [calls EXCEPT ![c] =
                   [pc |-> IF q.op = "persist" THEN "lookup" ELSE "readSource",
                    request |-> q, record |-> NoRecord]]
  /\ UNCHANGED <<records, blocks>>

\* A retained record admits a second result only if it is the same, under the
\* same budget where it retained one.  The handler is not compared.
Agrees(r, q) == r.result = q.result /\ r.fuel \in {q.fuel, None}

\* persistResult, up to its first write.
Lookup(c) ==
  /\ calls[c].pc = "lookup"
  /\ LET k == calls[c].request.key
     IN IF Absent(k) THEN Moves(c, "block")
        ELSE IF Agrees(records[k], calls[c].request) THEN Answers(c, records[k])
        ELSE Moves(c, "refused")
  /\ UNCHANGED <<records, blocks>>

PutBlock(c) ==
  /\ calls[c].pc = "block"
  /\ blocks' = blocks \cup {calls[c].request.result}
  /\ Moves(c, "link")
  /\ UNCHANGED records

\* Mutant: rename(2), which replaces.
LinkOver(c) ==
  /\ backend = "directory"
  /\ calls[c].pc = "link"
  /\ records' = [records EXCEPT ![calls[c].request.key] = Created(calls[c].request)]
  /\ Answers(c, Created(calls[c].request))
  /\ UNCHANGED blocks

\* link(2) creates the record only where none is.
Link(c) ==
  /\ backend = "directory"
  /\ calls[c].pc = "link"
  /\ Absent(calls[c].request.key)
  /\ records' = [records EXCEPT ![calls[c].request.key] = Created(calls[c].request)]
  /\ Answers(c, Created(calls[c].request))
  /\ UNCHANGED blocks

\* Mutant: whatever won the link is taken for this call's own record.
LoseLinkUnread(c) ==
  /\ backend = "directory"
  /\ calls[c].pc = "link"
  /\ ~Absent(calls[c].request.key)
  /\ Answers(c, Created(calls[c].request))
  /\ UNCHANGED <<records, blocks>>

LoseLink(c) ==
  /\ backend = "directory"
  /\ calls[c].pc = "link"
  /\ LET k == calls[c].request.key
     IN /\ ~Absent(k)
        /\ IF Agrees(records[k], calls[c].request) THEN Answers(c, records[k])
           ELSE Moves(c, "refused")
  /\ UNCHANGED <<records, blocks>>

\* Map.set, with no second look at the key.
Set(c) ==
  /\ backend = "memory"
  /\ calls[c].pc = "link"
  /\ records' = [records EXCEPT ![calls[c].request.key] = Created(calls[c].request)]
  /\ Answers(c, Created(calls[c].request))
  /\ UNCHANGED blocks

-------------------------------------------------------------------------------
\* readResult, alone or as the first half of copyResult; null is an answer.
SourceKey(q) == IF q.op = "copy" THEN q.source ELSE q.key

ReadSource(c) ==
  /\ calls[c].pc = "readSource"
  /\ LET q == calls[c].request
         r == records[SourceKey(q)]
     IN IF r = NoRecord THEN Moves(c, "absent")
        ELSE IF r.result \notin blocks THEN Moves(c, "refused")
        ELSE IF q.op = "read" THEN Answers(c, r)
        ELSE Holds(c, "target", r)
  /\ UNCHANGED <<records, blocks>>

\* copyEffectJournalRecord keeps everything but the key.
Copied(r) == r

\* Mutant: a record found in the target's place is taken for the copy.
FindsAny(c, r) == Answers(c, r)

Finds(c, r) == IF r = Copied(calls[c].record) THEN Answers(c, r) ELSE Moves(c, "refused")

\* The target: a file is looked up, then linked; a Map is looked up and set in
\* one run of the task.
CopyLookup(c) ==
  /\ calls[c].pc = "target"
  /\ LET k == calls[c].request.key
     IN IF ~Absent(k) THEN Finds(c, records[k]) /\ UNCHANGED records
        ELSE IF backend = "directory" THEN Moves(c, "linkCopy") /\ UNCHANGED records
        ELSE /\ records' = [records EXCEPT ![k] = Copied(calls[c].record)]
             /\ Answers(c, Copied(calls[c].record))
  /\ UNCHANGED blocks

LinkCopy(c) ==
  /\ calls[c].pc = "linkCopy"
  /\ LET k == calls[c].request.key
     IN IF Absent(k) THEN /\ records' = [records EXCEPT ![k] = Copied(calls[c].record)]
                          /\ Answers(c, Copied(calls[c].record))
        ELSE Finds(c, records[k]) /\ UNCHANGED records
  /\ UNCHANGED blocks

\* The process of a call dies between two of its steps.
Crash(c) ==
  /\ backend = "directory" /\ c \in CrashProne
  /\ calls[c].pc \in {"lookup", "block", "link", "readSource", "target", "linkCopy"}
  /\ Moves(c, "killed")
  /\ UNCHANGED <<records, blocks>>

-------------------------------------------------------------------------------
\* A directory may hold a record that an early release wrote.
Init ==
  /\ backend \in {"directory", "memory"}
  /\ \/ records = [k \in Key |-> NoRecord] /\ blocks = {}
     \/ /\ backend = "directory"
        /\ \E k \in Key, result \in Result, handler \in Handler :
             /\ records = [i \in Key |-> IF i = k THEN [result |-> result, fuel |-> None,
                                                        handler |-> handler]
                                         ELSE NoRecord]
             /\ blocks = {result}
  /\ calls = [c \in Caller |-> [pc |-> "new", request |-> None, record |-> NoRecord]]

Step(c) ==
  \/ Invoke(c) \/ Lookup(c) \/ PutBlock(c) \/ Link(c) \/ LoseLink(c) \/ Set(c)
  \/ ReadSource(c) \/ CopyLookup(c) \/ LinkCopy(c) \/ Crash(c)

Next == (\E c \in Caller : Step(c)) /\ UNCHANGED backend

Spec == Init /\ [][Next]_vars

-------------------------------------------------------------------------------
\* Types: a call holds a request once invoked, a record once one was read.
TypeOK ==
  /\ backend \in {"directory", "memory"}
  /\ records \in [Key -> Record \cup {NoRecord}]
  /\ blocks \subseteq Result
  /\ DOMAIN calls = Caller
  /\ \A c \in Caller :
       /\ calls[c] = [pc |-> calls[c].pc, request |-> calls[c].request,
                      record |-> calls[c].record]
       /\ calls[c].pc \in PC
       /\ calls[c].pc # "new" => calls[c].request \in Request
       /\ calls[c].pc \in {"answered", "target", "linkCopy"} => calls[c].record \in Record

\* A record always has its result block: whoever finds it can read it, whether
\* or not its writer lived (putBlock before writeJsonNew or Map.set).
RecordsBacked == \A k \in Key : Absent(k) \/ records[k].result \in blocks

\* What a caller was told of a key is what the journal holds from then on: no
\* other result, budget or handler ever takes its place (persistResult,
\* readResult and copyResult of the directory journal; a memory journal forgets
\* one of two overlapping calls).
AnswersDurable ==
  backend = "directory" => \A c \in Caller :
    calls[c].pc = "answered" => records[calls[c].request.key] = calls[c].record

\* persistResult never answers with a result its caller did not give, nor with
\* another budget.
AnswersAdmit ==
  \A c \in Caller :
    calls[c].pc = "answered" /\ calls[c].request.op = "persist"
      => /\ calls[c].record.result = calls[c].request.result
         /\ calls[c].record.fuel \in {calls[c].request.fuel, None}

\* "The journal rejects a different result or fuel budget for the same
\* branch-local request key": of two results or budgets given to persistResult
\* for one key, at most one is accepted.
DifferentRejected ==
  \A c, d \in Caller :
    LET p == calls[c].request
        q == calls[d].request
    IN /\ calls[c].pc = "answered" /\ calls[d].pc = "answered"
       /\ p.op = "persist" /\ q.op = "persist" /\ p.key = q.key
       => /\ p.result = q.result
          /\ p.fuel = q.fuel \/ records[p.key].fuel = None

\* The directory journal keeps that promise, however its calls overlap (the
\* link of persistResult, and the record it reads back when the link is lost).
DirectoryRejects == backend = "directory" => DifferentRejected

\* A copy is the record its source held, for as long as the source holds it
\* (the fork that made it can publish it as the source's own result).
CopiesAgree ==
  backend = "directory" => \A c \in Caller :
    calls[c].pc = "answered" /\ calls[c].request.op = "copy"
      => /\ calls[c].record = records[calls[c].request.source]
         /\ calls[c].record = records[calls[c].request.key]
===============================================================================
