------------------------- MODULE EffectJournalV1Proofs -------------------------
(***************************************************************************)
(* For any number of callers, keys, results, budgets and handlers: both     *)
(* journals keep the block of every record and answer persistResult with    *)
(* what it was given, and the directory journal never takes back an answer. *)
(***************************************************************************)
EXTENDS EffectJournalV1, TLAPS

\* What a call in flight knows.
CallKnows(c) ==
  /\ calls[c].pc \in {"lookup", "block", "link"} => calls[c].request.op = "persist"
  /\ calls[c].pc = "readSource" => calls[c].request.op # "persist"
  /\ calls[c].pc \in {"target", "linkCopy"} => calls[c].request.op = "copy"
  /\ calls[c].pc = "link" => calls[c].request.result \in blocks
  /\ calls[c].pc \in {"target", "linkCopy"} => calls[c].record.result \in blocks

CallsKnow == \A c \in Caller : CallKnows(c)

Inv == TypeOK /\ RecordsBacked /\ CallsKnow /\ AnswersAdmit

\* The parts of Inv that are about one call.
Typed(c) ==
  /\ calls[c] = [pc |-> calls[c].pc, request |-> calls[c].request, record |-> calls[c].record]
  /\ calls[c].pc \in PC
  /\ calls[c].pc # "new" => calls[c].request \in Request
  /\ calls[c].pc \in {"answered", "target", "linkCopy"} => calls[c].record \in Record

Admits(c) ==
  calls[c].pc = "answered" /\ calls[c].request.op = "persist"
    => /\ calls[c].record.result = calls[c].request.result
       /\ calls[c].record.fuel \in {calls[c].request.fuel, None}

Good(c) == Typed(c) /\ CallKnows(c) /\ Admits(c)

LEMMA InvParts ==
  Inv <=> /\ backend \in {"directory", "memory"}
          /\ records \in [Key -> Record \cup {NoRecord}]
          /\ blocks \subseteq Result
          /\ DOMAIN calls = Caller
          /\ RecordsBacked
          /\ \A c \in Caller : Good(c)
BY DEF Inv, TypeOK, CallsKnow, AnswersAdmit, Good, Typed, Admits

\* A step that leaves the other calls alone and only adds blocks.
LEMMA Others ==
  ASSUME Inv, NEW c \in Caller, NEW x, calls' = [calls EXCEPT ![c] = x],
         blocks \subseteq blocks'
  PROVE  /\ DOMAIN calls' = Caller /\ calls'[c] = x
         /\ \A d \in Caller \ {c} : Good(d)'
<1>1. DOMAIN calls' = Caller /\ calls'[c] = x /\ \A d \in Caller \ {c} : calls'[d] = calls[d]
  BY DEF Inv, TypeOK
<1>2. \A d \in Caller \ {c} : Good(d)
  BY InvParts
<1> QED
  BY <1>1, <1>2 DEF Good, Typed, CallKnows, Admits

LEMMA RequestFields ==
  ASSUME NEW q \in Request
  PROVE  /\ q.key \in Key
         /\ q.op \in {"persist", "read", "copy"}
         /\ q.op = "persist" => q.result \in Result /\ q.fuel \in Fuel /\ q.handler \in Handler
         /\ q.op = "copy" => q.source \in Key
BY DEF Request

LEMMA CreatedIsRecord ==
  ASSUME NEW q \in Request, q.op = "persist"
  PROVE  Created(q) \in Record /\ Created(q).result = q.result /\ Created(q).fuel = q.fuel
BY RequestFields DEF Created, Record

Call(pc, request, record) == [pc |-> pc, request |-> request, record |-> record]

LEMMA MovesSets ==
  ASSUME Inv, NEW c \in Caller, NEW pc, Moves(c, pc)
  PROVE  calls' = [calls EXCEPT ![c] = Call(pc, calls[c].request, calls[c].record)]
<1>1. [calls[c] EXCEPT !.pc = pc] = Call(pc, calls[c].request, calls[c].record)
  BY DEF Inv, TypeOK, Call
<1> QED
  BY <1>1 DEF Moves

LEMMA HoldsSets ==
  ASSUME Inv, NEW c \in Caller, NEW pc, NEW r, Holds(c, pc, r)
  PROVE  calls' = [calls EXCEPT ![c] = Call(pc, calls[c].request, r)]
BY DEF Holds, Call

\* A step that writes no record keeps Inv if the call it moves stays good.
LEMMA QuietStep ==
  ASSUME Inv, UNCHANGED backend, NEW c \in Caller, NEW x, calls' = [calls EXCEPT ![c] = x],
         UNCHANGED records, blocks \subseteq blocks', blocks' \subseteq Result,
         calls'[c] = x => Good(c)'
  PROVE  Inv'
<1>1. RecordsBacked'
  BY DEF Inv, RecordsBacked, Absent
<1>2. DOMAIN calls' = Caller /\ \A d \in Caller : Good(d)'
  BY Others
<1>3. records' \in [Key -> Record \cup {NoRecord}]
  BY DEF Inv, TypeOK
<1> QED
  BY <1>1, <1>2, <1>3 DEF Inv, TypeOK, CallsKnow, AnswersAdmit, Good, Typed, Admits

\* So does one that writes a record with a stored block where none was.
LEMMA WriteStep ==
  ASSUME Inv, UNCHANGED backend, NEW c \in Caller, NEW x, calls' = [calls EXCEPT ![c] = x],
         UNCHANGED blocks, NEW k \in Key, NEW r \in Record,
         records' = [records EXCEPT ![k] = r], r.result \in blocks,
         calls'[c] = x => Good(c)'
  PROVE  Inv'
<1>1. RecordsBacked'
  BY DEF Inv, TypeOK, RecordsBacked, Absent
<1>2. DOMAIN calls' = Caller /\ \A d \in Caller : Good(d)'
  BY Others
<1>3. records' \in [Key -> Record \cup {NoRecord}] /\ blocks' \subseteq Result
  BY DEF Inv, TypeOK
<1> QED
  BY <1>1, <1>2, <1>3 DEF Inv, TypeOK, CallsKnow, AnswersAdmit, Good, Typed, Admits

-------------------------------------------------------------------------------
\* The actions, one by one.
LEMMA InitInv == Init => Inv
<1> SUFFICES ASSUME Init PROVE Inv
  OBVIOUS
<1>0. backend \in {"directory", "memory"}
  BY DEF Init
<1>1. records \in [Key -> Record \cup {NoRecord}] /\ blocks \subseteq Result /\ RecordsBacked
  BY DEF Init, Record, NoRecord, RecordsBacked, Absent
<1>2. DOMAIN calls = Caller /\ \A c \in Caller : Good(c)
  BY DEF Init, Good, Typed, CallKnows, Admits, PC
<1> QED
  BY <1>0, <1>1, <1>2, InvParts

LEMMA InvokeInv == ASSUME Inv, UNCHANGED backend, NEW c \in Caller, Invoke(c) PROVE Inv'
<1>1. PICK q \in Request :
        calls' = [calls EXCEPT ![c] =
          Call(IF q.op = "persist" THEN "lookup" ELSE "readSource", q, NoRecord)]
  BY DEF Invoke, Call
<1> QED
  BY <1>1, QuietStep, RequestFields
  DEF Invoke, Good, Typed, CallKnows, Admits, Call, PC, Inv, TypeOK

\* Answering a persistResult with a record that agrees with it.
LEMMA AgreedAnswer ==
  ASSUME Inv, NEW c \in Caller, NEW r \in Record, Holds(c, "answered", r),
         calls[c].request \in Request, calls[c].request.op = "persist" => Agrees(r, calls[c].request)
  PROVE  calls'[c] = Call("answered", calls[c].request, r) => Good(c)'
BY DEF Good, Typed, CallKnows, Admits, Call, PC, Agrees

\* Moving on without a record.
LEMMA Move ==
  ASSUME Inv, NEW c \in Caller, NEW pc \in {"absent", "refused", "killed"}, calls[c].pc # "new"
  PROVE  calls'[c] = Call(pc, calls[c].request, calls[c].record) => Good(c)'
BY InvParts DEF Good, Typed, CallKnows, Admits, Call, PC

LEMMA LookupInv == ASSUME Inv, UNCHANGED backend, NEW c \in Caller, Lookup(c) PROVE Inv'
<1> DEFINE q == calls[c].request
           k == q.key
<1>1. q \in Request /\ q.op = "persist" /\ k \in Key /\ calls[c].pc = "lookup"
  BY InvParts, RequestFields DEF Lookup, Good, Typed, CallKnows
<1>2. UNCHANGED <<records, blocks>> /\ blocks \subseteq Result
  BY InvParts DEF Lookup
<1>3. CASE Moves(c, "block")
  <2>1. calls' = [calls EXCEPT ![c] = Call("block", q, calls[c].record)]
    BY <1>3, MovesSets
  <2>2. calls'[c] = Call("block", q, calls[c].record) => Good(c)'
    BY <1>1 DEF Good, Typed, CallKnows, Admits, Call, PC
  <2> QED
    BY <1>2, <2>1, <2>2, QuietStep
<1>4. CASE ~Absent(k) /\ Agrees(records[k], q) /\ Answers(c, records[k])
  <2>1. records[k] \in Record
    BY <1>1, <1>4, InvParts DEF Absent
  <2>2. Holds(c, "answered", records[k])
    BY <1>4 DEF Answers
  <2> QED
    BY <1>1, <1>2, <1>4, <2>1, <2>2, HoldsSets, AgreedAnswer, QuietStep
<1>5. CASE Moves(c, "refused")
  <2>1. calls' = [calls EXCEPT ![c] = Call("refused", q, calls[c].record)]
    BY <1>5, MovesSets
  <2>2. calls'[c] = Call("refused", q, calls[c].record) => Good(c)'
    BY <1>1, Move
  <2> QED
    BY <1>2, <2>1, <2>2, QuietStep
<1> QED
  BY <1>3, <1>4, <1>5 DEF Lookup

LEMMA PutBlockInv == ASSUME Inv, UNCHANGED backend, NEW c \in Caller, PutBlock(c) PROVE Inv'
<1> DEFINE q == calls[c].request
<1>1. q \in Request /\ q.op = "persist" /\ q.result \in Result
  BY InvParts, RequestFields DEF PutBlock, Good, Typed, CallKnows
<1>2. /\ UNCHANGED records /\ blocks' = blocks \cup {q.result}
      /\ blocks \subseteq blocks' /\ blocks' \subseteq Result
  BY <1>1, InvParts DEF PutBlock
<1>3. calls' = [calls EXCEPT ![c] = Call("link", q, calls[c].record)]
  BY MovesSets DEF PutBlock
<1>4. calls'[c] = Call("link", q, calls[c].record) => Good(c)'
  BY <1>1, <1>2 DEF Good, Typed, CallKnows, Admits, Call, PC
<1> QED
  BY <1>2, <1>3, <1>4, QuietStep

\* What a call about to write its record knows.
LEMMA AtLink ==
  ASSUME Inv, NEW c \in Caller, calls[c].pc = "link"
  PROVE  /\ calls[c].request \in Request /\ calls[c].request.op = "persist"
         /\ calls[c].request.key \in Key
         /\ Created(calls[c].request) \in Record
         /\ Created(calls[c].request).result \in blocks
         /\ Agrees(Created(calls[c].request), calls[c].request)
<1>1. calls[c].request \in Request /\ calls[c].request.op = "persist"
      /\ calls[c].request.result \in blocks
  BY InvParts DEF Good, Typed, CallKnows
<1> QED
  BY <1>1, RequestFields, CreatedIsRecord DEF Agrees

LEMMA CreateInv ==
  ASSUME Inv, UNCHANGED backend, NEW c \in Caller, Link(c) \/ Set(c)
  PROVE  Inv'
<1> DEFINE q == calls[c].request
<1>1. /\ calls[c].pc = "link" /\ records' = [records EXCEPT ![q.key] = Created(q)]
      /\ Holds(c, "answered", Created(q)) /\ UNCHANGED blocks
  BY DEF Link, Set, Answers
<1> HIDE DEF q
<1>2. calls' = [calls EXCEPT ![c] = Call("answered", q, Created(q))]
  BY <1>1, HoldsSets DEF q
<1>3. calls'[c] = Call("answered", q, Created(q)) => Good(c)'
  BY <1>1, AtLink, AgreedAnswer DEF q
<1>4. q.key \in Key /\ Created(q) \in Record /\ Created(q).result \in blocks
  BY <1>1, AtLink DEF q
<1> QED
  BY <1>1, <1>2, <1>3, <1>4, WriteStep

LEMMA LoseLinkInv == ASSUME Inv, UNCHANGED backend, NEW c \in Caller, LoseLink(c) PROVE Inv'
<1> DEFINE q == calls[c].request
           k == q.key
<1>1. q \in Request /\ q.op = "persist" /\ k \in Key /\ calls[c].pc = "link" /\ ~Absent(k)
  BY AtLink DEF LoseLink
<1>2. UNCHANGED <<records, blocks>> /\ blocks \subseteq Result
  BY InvParts DEF LoseLink
<1>3. CASE Agrees(records[k], q) /\ Answers(c, records[k])
  <2>1. records[k] \in Record
    BY <1>1, InvParts DEF Absent
  <2>2. Holds(c, "answered", records[k])
    BY <1>3 DEF Answers
  <2> QED
    BY <1>1, <1>2, <1>3, <2>1, <2>2, HoldsSets, AgreedAnswer, QuietStep
<1>4. CASE Moves(c, "refused")
  BY <1>1, <1>2, <1>4, MovesSets, Move, QuietStep
<1> QED
  BY <1>3, <1>4 DEF LoseLink

LEMMA ReadSourceInv == ASSUME Inv, UNCHANGED backend, NEW c \in Caller, ReadSource(c) PROVE Inv'
<1> DEFINE q == calls[c].request
           r == records[SourceKey(q)]
<1>1. /\ calls[c].pc = "readSource" /\ UNCHANGED <<records, blocks>> /\ blocks \subseteq Result
      /\ \/ Moves(c, "absent")
         \/ Moves(c, "refused")
         \/ r # NoRecord /\ r.result \in blocks /\ q.op = "read" /\ Answers(c, r)
         \/ r # NoRecord /\ r.result \in blocks /\ q.op # "read" /\ Holds(c, "target", r)
  BY InvParts DEF ReadSource
<1>2. q \in Request /\ q.op \in {"read", "copy"} /\ SourceKey(q) \in Key
  BY <1>1, InvParts, RequestFields DEF Good, Typed, CallKnows, SourceKey
<1>3. ASSUME NEW pc \in {"absent", "refused"}, Moves(c, pc) PROVE Inv'
  <2>1. calls' = [calls EXCEPT ![c] = Call(pc, q, calls[c].record)]
    BY <1>3, MovesSets
  <2>2. calls'[c] = Call(pc, q, calls[c].record) => Good(c)'
    BY <1>1, Move
  <2> QED
    BY <1>1, <2>1, <2>2, QuietStep
<1>4. CASE r # NoRecord /\ r.result \in blocks /\ q.op = "read" /\ Answers(c, r)
  <2>1. r \in Record /\ Holds(c, "answered", r)
    BY <1>2, <1>4, InvParts DEF Answers
  <2> HIDE DEF r
  <2> QED
    BY <1>1, <1>2, <1>4, <2>1, HoldsSets, AgreedAnswer, QuietStep
<1>5. CASE r # NoRecord /\ r.result \in blocks /\ q.op # "read" /\ Holds(c, "target", r)
  <2>1. r \in Record
    BY <1>2, <1>5, InvParts
  <2> HIDE DEF r
  <2>2. calls' = [calls EXCEPT ![c] = Call("target", q, r)]
    BY <1>5, HoldsSets
  <2>3. calls'[c] = Call("target", q, r) => Good(c)'
    BY <1>1, <1>2, <1>5, <2>1 DEF Good, Typed, CallKnows, Admits, Call, PC
  <2> QED
    BY <1>1, <2>2, <2>3, QuietStep
<1> QED
  BY <1>1, <1>3, <1>4, <1>5

\* What a call that holds its source's record knows.
AtTarget(c) ==
  /\ calls[c].request \in Request /\ calls[c].request.op = "copy"
  /\ calls[c].request.key \in Key
  /\ calls[c].record \in Record /\ calls[c].record.result \in blocks

\* The two ends of a copy: the record written, or the one found.
LEMMA CopyWritten ==
  ASSUME Inv, UNCHANGED backend, NEW c \in Caller, AtTarget(c), UNCHANGED blocks,
         records' = [records EXCEPT ![calls[c].request.key] = Copied(calls[c].record)],
         Answers(c, Copied(calls[c].record))
  PROVE  Inv'
<1> DEFINE q == calls[c].request
           r == calls[c].record
<1>1. q \in Request /\ q.op = "copy" /\ q.key \in Key /\ r \in Record /\ r.result \in blocks
  BY DEF AtTarget
<1>2. records' = [records EXCEPT ![q.key] = r] /\ Holds(c, "answered", r)
  BY DEF Copied, Answers
<1>3. calls' = [calls EXCEPT ![c] = Call("answered", q, r)]
  BY <1>2, HoldsSets
<1>4. calls'[c] = Call("answered", q, r) => Good(c)'
  BY <1>1, <1>2, AgreedAnswer
<1> HIDE DEF q, r
<1> QED
  BY <1>1, <1>2, <1>3, <1>4, WriteStep

LEMMA CopyFound ==
  ASSUME Inv, UNCHANGED backend, NEW c \in Caller, AtTarget(c), calls[c].pc # "new",
         UNCHANGED <<records, blocks>>, NEW k \in Key, ~Absent(k), Finds(c, records[k])
  PROVE  Inv'
<1> DEFINE q == calls[c].request
           r == records[k]
<1>1. q \in Request /\ q.op = "copy" /\ r \in Record /\ blocks \subseteq Result
  BY InvParts DEF AtTarget, Absent
<1>2. CASE Answers(c, r)
  <2>1. Holds(c, "answered", r)
    BY <1>2 DEF Answers
  <2> HIDE DEF r
  <2> QED
    BY <1>1, <2>1, HoldsSets, AgreedAnswer, QuietStep
<1>3. CASE Moves(c, "refused")
  BY <1>1, <1>3, MovesSets, Move, QuietStep
<1> QED
  BY <1>2, <1>3 DEF Finds

LEMMA CopyInv == ASSUME Inv, UNCHANGED backend, NEW c \in Caller, CopyLookup(c) \/ LinkCopy(c) PROVE Inv'
<1> DEFINE k == calls[c].request.key
<1>1. /\ AtTarget(c) /\ calls[c].pc \in {"target", "linkCopy"} /\ k \in Key
      /\ UNCHANGED blocks /\ blocks \subseteq Result
  BY InvParts, RequestFields DEF CopyLookup, LinkCopy, AtTarget, Good, Typed, CallKnows
<1>2. CASE ~Absent(k) /\ Finds(c, records[k]) /\ UNCHANGED records
  BY <1>1, <1>2, CopyFound
<1>3. CASE /\ records' = [records EXCEPT ![k] = Copied(calls[c].record)]
           /\ Answers(c, Copied(calls[c].record))
  BY <1>1, <1>3, CopyWritten
<1>4. CASE Moves(c, "linkCopy") /\ UNCHANGED records
  <2>1. calls' = [calls EXCEPT ![c] = Call("linkCopy", calls[c].request, calls[c].record)]
    BY <1>4, MovesSets
  <2>2. calls'[c] = Call("linkCopy", calls[c].request, calls[c].record) => Good(c)'
    BY <1>1 DEF AtTarget, Good, Typed, CallKnows, Admits, Call, PC
  <2> QED
    BY <1>1, <1>4, <2>1, <2>2, QuietStep
<1> QED
  BY <1>2, <1>3, <1>4 DEF CopyLookup, LinkCopy

LEMMA CrashInv == ASSUME Inv, UNCHANGED backend, NEW c \in Caller, Crash(c) PROVE Inv'
<1>1. UNCHANGED <<records, blocks>> /\ blocks \subseteq Result /\ calls[c].pc # "new"
  BY InvParts DEF Crash
<1> QED
  BY <1>1, MovesSets, Move, QuietStep DEF Crash

LEMMA NextInv == Inv /\ [Next]_vars => Inv'
<1> SUFFICES ASSUME Inv, [Next]_vars PROVE Inv'
  OBVIOUS
<1>1. CASE UNCHANGED vars
  BY <1>1 DEF vars, Inv, TypeOK, RecordsBacked, Absent, CallsKnow, CallKnows, AnswersAdmit
<1>2. ASSUME UNCHANGED backend, NEW c \in Caller, Step(c) PROVE Inv'
  BY <1>2, InvokeInv, LookupInv, PutBlockInv, CreateInv, LoseLinkInv, ReadSourceInv,
     CopyInv, CrashInv DEF Step
<1> QED
  BY <1>1, <1>2 DEF Next

\* At every moment, what a call of a journal knows at its program point is so.
THEOREM Invariance == Spec => []Inv
BY InitInv, NextInv, PTL DEF Spec

\* Every record of either journal has its result block.
THEOREM Backing == Spec => []RecordsBacked
<1>1. Inv => RecordsBacked
  BY DEF Inv
<1> QED
  BY <1>1, Invariance, PTL

\* persistResult of either journal answers with what it was given.
THEOREM Admission == Spec => []AnswersAdmit
<1>1. Inv => AnswersAdmit
  BY DEF Inv
<1> QED
  BY <1>1, Invariance, PTL

-------------------------------------------------------------------------------
(* The directory journal: a record, once there, stays. *)

\* What has been answered, or read from a source, is what the journal holds.
Lasts(c) ==
  /\ calls[c].pc = "answered" => records[calls[c].request.key] = calls[c].record
  /\ \/ calls[c].pc \in {"target", "linkCopy"}
     \/ calls[c].pc = "answered" /\ calls[c].request.op = "copy"
     => calls[c].record = records[calls[c].request.source]

Lasting == \A c \in Caller : Lasts(c)

Kept == \A k \in Key : ~Absent(k) => records'[k] = records[k]

LEMMA RecordPresent == NoRecord \notin Record
BY JournalAssumption DEF NoRecord, Record

LEMMA StepKeeps ==
  ASSUME Inv, backend = "directory", NEW c \in Caller, Step(c)
  PROVE  Kept
<1>1. CASE Link(c) \/ LinkCopy(c)
  BY <1>1 DEF Link, LinkCopy, Kept, Inv, TypeOK, Absent
<1>2. CASE CopyLookup(c)
  BY <1>2 DEF CopyLookup, Kept
<1>3. CASE UNCHANGED records
  BY <1>3 DEF Kept
<1> QED
  BY <1>1, <1>2, <1>3 DEF Step, Invoke, Lookup, PutBlock, LoseLink, Set, ReadSource, Crash

\* The call c moved by a step becomes x; the others last as they did.
LEMMA LastsStep ==
  ASSUME Inv, Lasting, Kept, NEW c \in Caller, NEW x, calls' = [calls EXCEPT ![c] = x],
         calls'[c] = x => Lasts(c)'
  PROVE  Lasting'
<1>1. DOMAIN calls' = Caller /\ calls'[c] = x /\ \A d \in Caller \ {c} : calls'[d] = calls[d]
  BY DEF Inv, TypeOK
<1>2. ASSUME NEW d \in Caller \ {c} PROVE Lasts(d)'
  <2>1. Good(d) /\ Lasts(d)
    BY InvParts DEF Lasting
  <2>2. calls[d].pc \in {"answered", "target", "linkCopy"} =>
          /\ calls[d].record \in Record /\ calls[d].record # NoRecord
          /\ calls[d].request \in Request
    BY <2>1, RecordPresent DEF Good, Typed
  <2>3. calls[d].request \in Request =>
          /\ calls[d].request.key \in Key
          /\ calls[d].request.op = "copy" => calls[d].request.source \in Key
    BY RequestFields
  <2>4. calls[d].pc \in {"target", "linkCopy"} => calls[d].request.op = "copy"
    BY <2>1 DEF Good, CallKnows
  <2> QED
    BY <1>1, <2>1, <2>2, <2>3, <2>4 DEF Lasts, Kept, Absent
<1> QED
  BY <1>1, <1>2 DEF Lasting

LEMMA LastsMove ==
  ASSUME Inv, Lasting, Kept, NEW c \in Caller,
         NEW pc \in {"block", "link", "absent", "refused", "killed"}, Moves(c, pc)
  PROVE  Lasting'
BY MovesSets, LastsStep DEF Lasts, Call

\* An answer with a record found under the caller's key, which is no copy or
\* the copy of its source's record.
LEMMA LastsFound ==
  ASSUME Inv, Lasting, Kept, NEW c \in Caller, UNCHANGED records, NEW r,
         r = records[calls[c].request.key], Answers(c, r),
         calls[c].request.op = "copy" => r = records[calls[c].request.source]
  PROVE  Lasting'
BY HoldsSets, LastsStep DEF Answers, Lasts, Call

\* Creating a record leaves its writer with what the journal holds; a copy's
\* source is another key, which keeps its record.
LEMMA LastsCreated ==
  ASSUME Inv, Lasting, Kept, NEW c \in Caller, calls[c].request \in Request, NEW r,
         records' = [records EXCEPT ![calls[c].request.key] = r], Answers(c, r),
         calls[c].request.op = "copy" => r = records[calls[c].request.source]
  PROVE  Lasting'
<1> DEFINE q == calls[c].request
<1>1. q.key \in Key /\ (q.op = "copy" => q.source \in Key /\ q.source # q.key)
  BY DEF Request
<1>2. records'[q.key] = r /\ (q.op = "copy" => records'[q.source] = records[q.source])
  BY <1>1, InvParts
<1>3. calls' = [calls EXCEPT ![c] = Call("answered", q, r)]
  BY HoldsSets DEF Answers
<1>4. calls'[c] = Call("answered", q, r) => Lasts(c)'
  BY <1>2 DEF Lasts, Call
<1> QED
  BY <1>3, <1>4, LastsStep

LEMMA LastingStep ==
  ASSUME Inv, Lasting, backend = "directory", NEW c \in Caller, Step(c)
  PROVE  Lasting'
<1> DEFINE q == calls[c].request
           k == q.key
<1> USE StepKeeps
<1>1. CASE Invoke(c)
  <2>1. PICK pc \in {"lookup", "readSource"}, r \in Request :
          calls' = [calls EXCEPT ![c] = Call(pc, r, NoRecord)]
    BY <1>1 DEF Invoke, Call
  <2> QED
    BY <2>1, LastsStep DEF Lasts, Call
<1>2. CASE PutBlock(c) \/ Crash(c)
  BY <1>2, LastsMove DEF PutBlock, Crash
<1>3. CASE Lookup(c) \/ LoseLink(c)
  <2>1. q.op = "persist" /\ UNCHANGED records
    BY <1>3, InvParts DEF Lookup, LoseLink, Good, CallKnows
  <2>2. \/ Answers(c, records[k]) \/ Moves(c, "block") \/ Moves(c, "refused")
    BY <1>3 DEF Lookup, LoseLink
  <2>3. CASE Answers(c, records[k])
    BY <2>1, <2>3, LastsFound
  <2>4. CASE Moves(c, "block") \/ Moves(c, "refused")
    BY <2>4, LastsMove
  <2> QED
    BY <2>2, <2>3, <2>4
<1>4. CASE Link(c)
  BY <1>4, AtLink, LastsCreated DEF Link
<1>5. CASE ReadSource(c)
  <2>1. /\ UNCHANGED records
        /\ \/ Moves(c, "absent") \/ Moves(c, "refused")
           \/ q.op = "read" /\ Answers(c, records[k])
           \/ q.op # "read" /\ Holds(c, "target", records[SourceKey(q)])
    BY <1>5 DEF ReadSource, SourceKey
  <2>2. CASE Moves(c, "absent") \/ Moves(c, "refused")
    BY <2>2, LastsMove
  <2>3. CASE q.op = "read" /\ Answers(c, records[k])
    BY <2>1, <2>3, LastsFound
  <2>4. CASE q.op # "read" /\ Holds(c, "target", records[SourceKey(q)])
    <3>1. q.op = "copy"
      BY <1>5, <2>4, InvParts, RequestFields DEF ReadSource, Good, Typed, CallKnows
    <3> QED
      BY <2>1, <2>4, <3>1, HoldsSets, LastsStep DEF Lasts, Call, SourceKey
  <2> QED
    BY <2>1, <2>2, <2>3, <2>4
<1>6. CASE CopyLookup(c) \/ LinkCopy(c)
  <2>1. /\ calls[c].pc \in {"target", "linkCopy"} /\ q \in Request /\ q.op = "copy"
        /\ calls[c].record = records[q.source]
    BY <1>6, InvParts DEF CopyLookup, LinkCopy, Lasting, Lasts, Good, Typed, CallKnows
  <2>2. \/ Finds(c, records[k]) /\ UNCHANGED records
        \/ Moves(c, "linkCopy") /\ UNCHANGED records
        \/ /\ records' = [records EXCEPT ![k] = calls[c].record]
           /\ Answers(c, calls[c].record)
    BY <1>6 DEF CopyLookup, LinkCopy, Copied
  <2>3. CASE Finds(c, records[k]) /\ UNCHANGED records
    <3>1. \/ Moves(c, "refused")
          \/ Answers(c, records[k]) /\ records[k] = calls[c].record
      BY <2>3 DEF Finds, Copied
    <3> QED
      BY <2>1, <2>3, <3>1, LastsMove, LastsFound
  <2>4. CASE Moves(c, "linkCopy") /\ UNCHANGED records
    BY <2>1, <2>4, MovesSets, LastsStep DEF Lasts, Call
  <2>5. CASE /\ records' = [records EXCEPT ![k] = calls[c].record]
             /\ Answers(c, calls[c].record)
    BY <2>1, <2>5, LastsCreated
  <2> QED
    BY <2>2, <2>3, <2>4, <2>5
<1>7. CASE Set(c)
  BY <1>7 DEF Set
<1> QED
  BY <1>1, <1>2, <1>3, <1>4, <1>5, <1>6, <1>7 DEF Step

\* Lasting, where the journal is a directory.
DirectoryLasts == backend = "directory" => Lasting

LEMMA LastingInv == Spec => []DirectoryLasts
<1>1. Init => DirectoryLasts
  <2>1. ASSUME Init, NEW c \in Caller PROVE calls[c].pc = "new"
    BY <2>1 DEF Init
  <2> QED
    BY <2>1 DEF DirectoryLasts, Lasting, Lasts
<1>2. Inv /\ DirectoryLasts /\ [Next]_vars => DirectoryLasts'
  <2> SUFFICES ASSUME Inv, DirectoryLasts, [Next]_vars, backend' = "directory"
               PROVE  Lasting'
    BY DEF DirectoryLasts
  <2>1. CASE UNCHANGED vars
    BY <2>1 DEF vars, DirectoryLasts, Lasting, Lasts
  <2>2. CASE Next
    BY <2>2, LastingStep DEF Next, DirectoryLasts
  <2> QED
    BY <2>1, <2>2
<1> QED
  BY <1>1, <1>2, Invariance, PTL DEF Spec

\* What a caller of the directory journal was told stays true.
THEOREM Durability == Spec => []AnswersDurable
<1>1. DirectoryLasts => AnswersDurable
  BY DEF DirectoryLasts, Lasting, Lasts, AnswersDurable
<1> QED
  BY <1>1, LastingInv, PTL

\* A copy in the directory journal is its source's record.
THEOREM CopyFaithful == Spec => []CopiesAgree
<1>1. DirectoryLasts => CopiesAgree
  BY DEF DirectoryLasts, Lasting, Lasts, CopiesAgree
<1> QED
  BY <1>1, LastingInv, PTL

\* The directory journal accepts one result and one budget for a key: what the
\* memory journal does not keep.
THEOREM Rejection == Spec => []DirectoryRejects
<1>1. Inv /\ DirectoryLasts => DirectoryRejects
  BY DEF Inv, AnswersAdmit, DirectoryLasts, Lasting, Lasts, DirectoryRejects, DifferentRejected
<1> QED
  BY <1>1, LastingInv, Invariance, PTL
===============================================================================
