---------------------- MODULE ApplicationRegistryV1Proofs ----------------------
(***************************************************************************)
(* If creating a name file never fails for a reason of its own, then for    *)
(* any number of processes, names and applications no application gets two  *)
(* names, and what was registered stays resolvable, wherever calls die.     *)
(* For faults of every kind, an identity file has one creator, who gives it *)
(* its name or takes it back: unless that call is killed, or the creation   *)
(* of the file failed halfway, an identity found is one its name has.       *)
(***************************************************************************)
EXTENDS ApplicationRegistryV1, TLAPS

\* A name's file is its own, and its application's identity file, if there is
\* one, holds the same record; if there is none, the installation is an old one
\* and every call about to create the file holds its record.
NamesIndexed ==
  \A n \in Name : names[n] # None =>
    LET r == names[n]
    IN /\ r.name = n
       /\ \/ identities[r.application] = r
          \/ /\ identities[r.application] = None
             /\ \A c \in Caller :
                  calls[c].pc = "linkIdentity" /\ Own(c).application = r.application
                    => Own(c) = r

\* The name is another record's, for good.
Taken(c) == names[Own(c).name] \notin {None, Own(c)}

\* What a call in flight knows.
CallKnows(c) ==
  /\ calls[c].pc \in {"identity", "list", "linkIdentity", "winner"} => ~calls[c].created
  /\ calls[c].pc = "linkName" => identities[Own(c).application] = Own(c) \/ Taken(c)
  /\ calls[c].pc = "existing" => names[Own(c).name] # None
  /\ calls[c].pc = "rollback" => Taken(c) /\ calls[c].created
  /\ calls[c].pc = "registered" => names[Own(c).name] = Own(c)
  /\ Creating(c) => identities[Own(c).application] = Own(c)

CallsKnow == \A c \in Caller : CallKnows(c)

\* An identity file has one creator to take it back.
OneCreator ==
  \A c, d \in Caller :
    Creating(c) /\ Creating(d) /\ Own(c).application = Own(d).application => c = d

Inv == TypeOK /\ NamesIndexed /\ OneName /\ CallsKnow /\ OneCreator

LEMMA InitInv == Init => Inv
<1> SUFFICES ASSUME Init PROVE Inv
  OBVIOUS
<1>1. /\ DOMAIN calls = Caller
      /\ \A c \in Caller : calls[c].pc = "new" /\ calls[c].created = FALSE
      /\ identities \in [Application -> {None}]
  BY DEF Init
<1>2. /\ names \in [Name -> Record \cup {None}]
      /\ \A n \in Name : names[n] # None => names[n].name = n
      /\ OneName
  <2>1. CASE names = [n \in Name |-> None]
    BY <2>1 DEF OneName
  <2>2. ASSUME NEW r \in Record, names = [n \in Name |-> IF n = r.name THEN r ELSE None]
        PROVE  /\ names \in [Name -> Record \cup {None}]
               /\ \A n \in Name : names[n] # None => names[n].name = n
               /\ OneName
    BY <2>2 DEF OneName, Record
  <2> QED
    BY <2>1, <2>2 DEF Init
<1>3. TypeOK
  BY <1>1, <1>2 DEF TypeOK, PC
<1>4. NamesIndexed
  <2> SUFFICES ASSUME NEW n \in Name, names[n] # None
               PROVE  /\ names[n].name = n
                      /\ identities[names[n].application] = None
                      /\ \A c \in Caller : calls[c].pc # "linkIdentity"
    BY DEF NamesIndexed
  <2>1. names[n] \in Record
    BY <1>2
  <2> QED
    BY <1>1, <1>2, <2>1 DEF Record
<1>5. CallsKnow /\ OneCreator
  BY <1>1 DEF CallsKnow, CallKnows, OneCreator, Creating
<1> QED
  BY <1>2, <1>3, <1>4, <1>5 DEF Inv

\* What Moves leaves of the calls.
LEMMA MovesGives ==
  ASSUME TypeOK, NEW c \in Caller, NEW pc, Moves(c, pc)
  PROVE  /\ DOMAIN calls' = Caller
         /\ calls'[c].pc = pc /\ calls'[c].record = calls[c].record
         /\ calls'[c].created = calls[c].created
         /\ \A d \in Caller : d # c => calls'[d] = calls[d]
BY DEF Moves, TypeOK

LEMMA MovesType ==
  ASSUME TypeOK, NEW c \in Caller, NEW pc \in PC, Moves(c, pc), calls[c].pc # "new"
  PROVE  /\ DOMAIN calls' = Caller
         /\ \A d \in Caller : /\ calls'[d].pc \in PC /\ calls'[d].created \in BOOLEAN
                               /\ calls'[d].pc # "new" => calls'[d].record \in Record
BY MovesGives DEF TypeOK

LEMMA OwnRecord ==
  ASSUME TypeOK, NEW c \in Caller, calls[c].pc # "new"
  PROVE  /\ Own(c) \in Record /\ Own(c).name \in Name /\ Own(c).application \in Application
         /\ Own(c) # None
BY RegistryAssumption DEF TypeOK, Own, Record

\* A step that writes no file and moves a call to pc keeps Inv if the call may
\* be at pc.
LEMMA QuietStep ==
  ASSUME Inv, NEW c \in Caller, calls[c].pc # "new", NEW pc \in PC, Moves(c, pc),
         UNCHANGED <<identities, names>>,
         pc \in {"identity", "list", "linkIdentity", "winner"} => ~calls[c].created,
         pc = "linkIdentity" =>
           /\ \A n \in Name : names[n] # None /\ names[n].application = Own(c).application
                               => names[n] = Own(c),
         pc = "linkName" => /\ identities[Own(c).application] = Own(c)
                            /\ ~calls[c].created,
         pc = "existing" => /\ names[Own(c).name] # None
                            /\ Creating(c) \/ ~calls[c].created,
         pc = "rollback" => Taken(c) /\ Creating(c),
         pc = "registered" => names[Own(c).name] = Own(c)
  PROVE  Inv'
<1> USE MovesGives DEF Inv
<1>1. TypeOK'
  BY MovesType DEF TypeOK
<1>2. NamesIndexed'
  BY DEF NamesIndexed, Own
<1>3. OneName'
  BY DEF OneName
<1>4. CallsKnow'
  BY DEF CallsKnow, CallKnows, Creating, Taken, Own
<1>5. OneCreator'
  BY DEF OneCreator, Creating, Own
<1> QED
  BY <1>1, <1>2, <1>3, <1>4, <1>5

-------------------------------------------------------------------------------
LEMMA InvokeInv == ASSUME Inv, NEW c \in Caller, Invoke(c) PROVE Inv'
<1>1. PICK r \in Record :
        calls' = [calls EXCEPT ![c] = [pc |-> "identity", record |-> r, created |-> FALSE]]
  BY DEF Invoke
<1>2. /\ DOMAIN calls' = Caller
      /\ calls'[c].pc = "identity" /\ calls'[c].record = r /\ calls'[c].created = FALSE
      /\ \A d \in Caller : d # c => calls'[d] = calls[d]
      /\ UNCHANGED <<identities, names>>
  BY <1>1 DEF Invoke, Inv, TypeOK
<1> USE <1>2 DEF Inv
<1>3. TypeOK'
  BY DEF TypeOK, PC
<1>4. NamesIndexed' /\ OneName'
  BY DEF NamesIndexed, OneName, Own
<1>5. CallsKnow' /\ OneCreator'
  BY DEF CallsKnow, CallKnows, OneCreator, Creating, Taken, Own
<1> QED
  BY <1>3, <1>4, <1>5

\* A call that finds its own record, or none, in the identity file.
LEMMA ReadInv ==
  ASSUME Inv, NEW c \in Caller,
         ReadIdentity(c) \/ ListNames(c) \/ ReadWinner(c)
  PROVE  Inv'
<1>1. /\ calls[c].pc \in {"identity", "list", "winner"} /\ UNCHANGED <<identities, names>>
      /\ Own(c) \in Record /\ Own(c) # None /\ ~calls[c].created
  BY OwnRecord DEF ReadIdentity, ListNames, ReadWinner, Inv, CallsKnow, CallKnows
<1>2. \/ Moves(c, "list") \/ Moves(c, "refused")
      \/ Moves(c, "linkName") /\ identities[Own(c).application] = Own(c)
      \/ Moves(c, "linkIdentity") /\ Installed(Own(c).application) \subseteq {Own(c)}
  <2>1. Own(c) \in Installed(Own(c).application)
          => Installed(Own(c).application) \subseteq {Own(c)}
    BY <1>1 DEF Installed, Listed, Inv, NamesIndexed, OneName
  <2> QED
    BY <1>1, <2>1 DEF ReadIdentity, ListNames, ReadWinner
<1>3. CASE Moves(c, "list") \/ Moves(c, "refused")
  BY <1>1, <1>3, QuietStep DEF PC
<1>4. CASE Moves(c, "linkName") /\ identities[Own(c).application] = Own(c)
  BY <1>1, <1>4, QuietStep DEF PC
<1>5. CASE Moves(c, "linkIdentity") /\ Installed(Own(c).application) \subseteq {Own(c)}
  <2>1. \A n \in Name : names[n] # None /\ names[n].application = Own(c).application
                       => names[n] = Own(c)
    BY <1>5 DEF Installed, Listed
  <2> QED
    BY <1>1, <1>5, <2>1, QuietStep DEF PC
<1> QED
  BY <1>2, <1>3, <1>4, <1>5

LEMMA LinkNameTaken ==
  ASSUME Inv, NEW c \in Caller, LinkName(c), names[Own(c).name] # None
  PROVE  Inv'
<1>1. calls[c].pc = "linkName" /\ Moves(c, "existing") /\ UNCHANGED <<identities, names>>
  BY DEF LinkName
<1>2. Creating(c) \/ ~calls[c].created
  BY <1>1 DEF Creating, Inv, TypeOK
<1> QED
  BY <1>1, <1>2, QuietStep DEF PC

LEMMA ReadExistingInv == ASSUME Inv, NEW c \in Caller, ReadExisting(c) PROVE Inv'
<1>1. /\ calls[c].pc = "existing" /\ UNCHANGED <<identities, names>>
      /\ names[Own(c).name] # None
  BY DEF ReadExisting, Inv, CallsKnow, CallKnows
<1>2. \/ Moves(c, "registered") /\ names[Own(c).name] = Own(c)
      \/ Moves(c, "rollback") /\ Taken(c) /\ calls[c].created
      \/ Moves(c, "refused")
  BY <1>1 DEF ReadExisting, Failed, Taken
<1>3. CASE Moves(c, "registered") /\ names[Own(c).name] = Own(c)
  BY <1>1, <1>3, QuietStep DEF PC
<1>4. CASE Moves(c, "rollback") /\ Taken(c) /\ calls[c].created
  <2>1. Creating(c)
    BY <1>1, <1>4 DEF Creating
  <2> QED
    BY <1>1, <1>4, <2>1, QuietStep DEF PC
<1>5. CASE Moves(c, "refused")
  BY <1>1, <1>5, QuietStep DEF PC
<1> QED
  BY <1>2, <1>3, <1>4, <1>5

LEMMA StopInv ==
  ASSUME Inv, NEW c \in Caller, calls[c].pc # "new", NEW pc \in {"winner", "refused", "killed"},
         Moves(c, pc), UNCHANGED <<identities, names>>, pc = "winner" => ~calls[c].created
  PROVE  Inv'
BY QuietStep DEF PC

\* Creating the identity file, as its creator or in a call that then throws.
LEMMA CreateIdentity ==
  ASSUME Inv, NEW c \in Caller, calls[c].pc = "linkIdentity",
         identities[Own(c).application] = None, UNCHANGED names,
         identities' = [identities EXCEPT ![Own(c).application] = Own(c)],
         \/ calls' = [calls EXCEPT ![c] = [pc |-> "linkName", record |-> Own(c), created |-> TRUE]]
         \/ Moves(c, "refused")
  PROVE  Inv'
<1>1. /\ DOMAIN calls' = Caller /\ calls'[c].record = Own(c) /\ calls'[c].created \in BOOLEAN
      /\ calls'[c].pc = "linkName" \/ calls'[c].pc = "refused"
      /\ \A d \in Caller : d # c => calls'[d] = calls[d]
  <2>1. CASE Moves(c, "refused")
    BY <2>1, MovesGives DEF Inv, TypeOK, Own
  <2>2. CASE calls' = [calls EXCEPT ![c] = [pc |-> "linkName", record |-> Own(c), created |-> TRUE]]
    BY <2>2 DEF Inv, TypeOK
  <2> QED
    BY <2>1, <2>2
<1>2. /\ Own(c) \in Record /\ Own(c).application \in Application /\ Own(c) # None
  BY OwnRecord DEF Inv
<1>3. /\ identities'[Own(c).application] = Own(c)
      /\ \A a \in Application : a # Own(c).application => identities'[a] = identities[a]
      /\ identities' \in [Application -> Record \cup {None}]
  BY <1>2 DEF Inv, TypeOK
<1>4. \A d \in Caller : Creating(d) =>
        /\ Own(d).application # Own(c).application /\ Own(d).application \in Application
        /\ d # c
  <2> SUFFICES ASSUME NEW d \in Caller, Creating(d)
               PROVE  /\ Own(d).application # Own(c).application
                      /\ Own(d).application \in Application /\ d # c
    OBVIOUS
  <2>1. Own(d) \in Record /\ Own(d).application \in Application /\ Own(d) # None
    BY OwnRecord DEF Inv, Creating
  <2> QED
    BY <2>1 DEF Inv, CallsKnow, CallKnows, Creating
<1>5. TypeOK'
  BY <1>1, <1>2, <1>3 DEF Inv, TypeOK, PC
<1>6. NamesIndexed'
  <2> SUFFICES ASSUME NEW n \in Name, names[n] # None
               PROVE  LET r == names[n]
                      IN /\ r.name = n
                         /\ \/ identities'[r.application] = r
                            \/ /\ identities'[r.application] = None
                               /\ \A d \in Caller :
                                    calls'[d].pc = "linkIdentity"
                                    /\ calls'[d].record.application = r.application
                                      => calls'[d].record = r
    BY DEF NamesIndexed, Own
  <2>1. names[n] \in Record /\ names[n].application \in Application
    BY DEF Inv, TypeOK, Record
  <2>2. CASE names[n].application = Own(c).application
    <3>1. names[n] = Own(c)
      BY <1>2, <2>1, <2>2 DEF Inv, NamesIndexed
    <3> QED
      BY <1>3, <2>2, <3>1 DEF Inv, NamesIndexed
  <2>3. CASE names[n].application # Own(c).application
    BY <1>1, <1>3, <2>1, <2>3 DEF Inv, NamesIndexed, Own
  <2> QED
    BY <2>2, <2>3
<1>7. OneName'
  BY DEF Inv, OneName
<1>8. CallsKnow'
  <2> SUFFICES ASSUME NEW d \in Caller PROVE CallKnows(d)'
    BY DEF CallsKnow
  <2>1. CASE d = c
    BY <1>1, <1>3, <2>1 DEF CallKnows, Creating, Taken, Own
  <2>2. CASE d # c
    <3>1. calls[d].pc = "linkName" =>
            Own(d) # None /\ Own(d).application \in Application
      BY OwnRecord DEF Inv
    <3>2. CallKnows(d)
      BY DEF Inv, CallsKnow
    <3> QED
      BY <1>1, <1>3, <1>4, <2>2, <3>1, <3>2 DEF CallKnows, Creating, Taken, Own
  <2> QED
    BY <2>1, <2>2
<1>9. OneCreator'
  BY <1>1, <1>4 DEF Inv, OneCreator, Creating, Own
<1> QED
  BY <1>5, <1>6, <1>7, <1>8, <1>9 DEF Inv

\* Creating the name's file: the identity file still holds the record.
LEMMA CreateName ==
  ASSUME Inv, NEW c \in Caller, LinkName(c), names[Own(c).name] = None
  PROVE  Inv'
<1> DEFINE r == Own(c)
<1>1. /\ calls[c].pc = "linkName" /\ names' = [names EXCEPT ![r.name] = r]
      /\ Moves(c, "registered") /\ UNCHANGED identities
  BY DEF LinkName
<1>2. r \in Record /\ r.name \in Name /\ r # None
  BY <1>1, OwnRecord DEF Inv
<1>3. identities[r.application] = r
  BY <1>1 DEF Inv, CallsKnow, CallKnows, Taken
<1>4. /\ DOMAIN calls' = Caller /\ calls'[c].record = r /\ calls'[c].pc = "registered"
      /\ calls'[c].created = calls[c].created
      /\ \A d \in Caller : d # c => calls'[d] = calls[d]
  BY <1>1, MovesGives DEF Inv, Own
<1>5. /\ names'[r.name] = r
      /\ \A n \in Name : n # r.name => names'[n] = names[n]
      /\ names' \in [Name -> Record \cup {None}]
  BY <1>1, <1>2 DEF Inv, TypeOK
<1>6. \A d \in Caller : calls[d].pc # "new" => Own(d).name \in Name /\ Own(d) # None
  BY OwnRecord DEF Inv
<1> HIDE DEF r
<1>7. TypeOK'
  BY <1>1, <1>2, <1>4, <1>5 DEF Inv, TypeOK, PC
<1>8. NamesIndexed'
  BY <1>1, <1>2, <1>3, <1>4, <1>5 DEF Inv, NamesIndexed, Own
<1>9. OneName'
  <2>1. ASSUME NEW m \in Name, m # r.name, names[m] # None
        PROVE  names[m].application # r.application
    BY <1>2, <1>3, <2>1 DEF Inv, NamesIndexed
  <2> QED
    BY <1>5, <2>1 DEF Inv, OneName
<1>10. CallsKnow'
  <2> SUFFICES ASSUME NEW d \in Caller PROVE CallKnows(d)'
    BY DEF CallsKnow
  <2>1. CallKnows(d)
    BY DEF Inv, CallsKnow
  <2>2. CASE d = c
    BY <1>4, <1>5, <2>2 DEF CallKnows, Creating, Taken, Own
  <2>3. CASE d # c
    <3>1. names[r.name] = None
      BY DEF r
    <3>2. calls[d].pc # "new" /\ names[Own(d).name] # None =>
            names'[Own(d).name] = names[Own(d).name]
      BY <1>5, <1>6, <3>1
    <3>3. calls'[d] = calls[d] /\ Own(d)' = Own(d)
      BY <1>4, <2>3 DEF Own
    <3>4. Taken(d) /\ calls[d].pc # "new" => Taken(d)'
      BY <3>2, <3>3 DEF Taken
    <3>5. (Creating(d) <=> Creating(d)') /\ UNCHANGED identities
      BY <1>1, <3>3 DEF Creating
    <3> QED
      BY <1>6, <2>1, <3>2, <3>3, <3>4, <3>5 DEF CallKnows
  <2> QED
    BY <2>2, <2>3
<1>11. OneCreator'
  BY <1>4 DEF Inv, OneCreator, Creating, Own
<1> QED
  BY <1>7, <1>8, <1>9, <1>10, <1>11 DEF Inv

\* Taking the identity file back: no name has its record, and none will.
LEMMA RemoveInv ==
  ASSUME Inv, NEW c \in Caller, RemoveIdentity(c),
         identities' = [identities EXCEPT ![Own(c).application] = None]
  PROVE  Inv'
<1> DEFINE r == Own(c)
<1>1. /\ calls[c].pc = "rollback" /\ Moves(c, "refused") /\ UNCHANGED names
      /\ identities' = [identities EXCEPT ![r.application] = None]
      /\ Taken(c) /\ Creating(c) /\ identities[r.application] = r
  BY DEF RemoveIdentity, Inv, CallsKnow, CallKnows, Creating
<1>2. r \in Record /\ r.application \in Application /\ r # None
  BY <1>1, OwnRecord DEF Inv
<1>3. /\ DOMAIN calls' = Caller /\ calls'[c].record = r /\ calls'[c].pc = "refused"
      /\ calls'[c].created = calls[c].created
      /\ \A d \in Caller : d # c => calls'[d] = calls[d]
  BY <1>1, MovesGives DEF Inv, Own
<1>4. /\ identities'[r.application] = None
      /\ \A a \in Application : a # r.application => identities'[a] = identities[a]
      /\ identities' \in [Application -> Record \cup {None}]
  BY <1>1, <1>2 DEF Inv, TypeOK
<1>5. TypeOK'
  BY <1>1, <1>2, <1>3, <1>4 DEF Inv, TypeOK, PC
<1>6. ASSUME NEW n \in Name, names[n] # None PROVE names[n].application # r.application
  BY <1>1, <1>2, <1>6 DEF Inv, NamesIndexed, Taken
<1> HIDE DEF r
<1>7. NamesIndexed'
  <2>1. \A n \in Name : names[n] # None => names[n].application \in Application
    BY DEF Inv, TypeOK, Record
  <2> QED
    BY <1>1, <1>3, <1>4, <1>6, <2>1 DEF Inv, NamesIndexed, Own
<1>8. OneName'
  BY <1>1 DEF Inv, OneName
<1>9. CallsKnow'
  <2> SUFFICES ASSUME NEW d \in Caller PROVE CallKnows(d)'
    BY DEF CallsKnow
  <2>1. CallKnows(d)
    BY DEF Inv, CallsKnow
  <2>2. CASE d = c
    BY <1>3, <2>2 DEF CallKnows, Creating
  <2>3. CASE d # c
    <3>1. calls'[d] = calls[d] /\ Own(d)' = Own(d) /\ (Taken(d) <=> Taken(d)')
          /\ (Creating(d) <=> Creating(d)')
      BY <1>1, <1>3, <2>3 DEF Own, Taken, Creating
    <3>2. calls[d].pc # "new" => Own(d).application \in Application
      BY OwnRecord DEF Inv
    <3>3. Creating(d) => Own(d).application # r.application
      BY <1>1, <2>3 DEF Inv, OneCreator, r
    <3>4. calls[d].pc = "linkName" /\ Own(d).application = r.application => Taken(d)
      BY <1>1, <2>1 DEF CallKnows, Taken, r
    <3>5. Creating(d) => calls[d].pc # "new"
      BY DEF Creating
    <3> QED
      BY <1>1, <1>4, <2>1, <3>1, <3>2, <3>3, <3>4, <3>5 DEF CallKnows
  <2> QED
    BY <2>2, <2>3
<1>10. OneCreator'
  BY <1>3 DEF Inv, OneCreator, Creating, Own
<1> QED
  BY <1>5, <1>7, <1>8, <1>9, <1>10 DEF Inv

LEMMA StepInv ==
  ASSUME Inv, "name" \notin faults, NEW c \in Caller, Step(c)
  PROVE  Inv'
<1>1. CASE LinkIdentity(c) \/ FailIdentity(c)
  <2>1. calls[c].pc = "linkIdentity" /\ UNCHANGED names /\ ~calls[c].created
    BY <1>1 DEF LinkIdentity, FailIdentity, Inv, CallsKnow, CallKnows
  <2>2. CASE Moves(c, "winner") /\ UNCHANGED identities
    BY <2>1, <2>2, StopInv
  <2>3. CASE Moves(c, "refused") /\ UNCHANGED identities
    BY <2>1, <2>3, StopInv
  <2> QED
    BY <1>1, <2>1, <2>2, <2>3, CreateIdentity DEF LinkIdentity, FailIdentity
<1>2. CASE Crash(c)
  BY <1>2, StopInv DEF Crash
<1>3. CASE LinkName(c)
  BY <1>3, CreateName, LinkNameTaken
<1>4. CASE FailName(c)
  BY <1>4 DEF FailName
<1>5. CASE RemoveIdentity(c)
  <2>1. calls[c].pc = "rollback" /\ Moves(c, "refused") /\ UNCHANGED names
    BY <1>5 DEF RemoveIdentity
  <2>2. CASE UNCHANGED identities
    BY <2>1, <2>2, StopInv
  <2> QED
    BY <1>5, <2>2, RemoveInv DEF RemoveIdentity
<1> QED
  BY <1>1, <1>2, <1>3, <1>4, <1>5, InvokeInv, ReadInv, ReadExistingInv DEF Step

\* Inv, where no name's file fails for a reason of its own.
NoNameFault == "name" \notin faults => Inv

\* Where no name's file fails, the index and the names agree at every moment of
\* every call (ApplicationRegistry.install and its readers).
THEOREM Invariance == Spec => []NoNameFault
<1>1. Init => NoNameFault
  BY InitInv DEF NoNameFault
<1>2. NoNameFault /\ [Next]_vars => NoNameFault'
  <2> SUFFICES ASSUME NoNameFault, [Next]_vars, "name" \notin faults' PROVE Inv'
    BY DEF NoNameFault
  <2>1. UNCHANGED faults /\ Inv
    BY DEF Next, vars, NoNameFault
  <2>2. CASE UNCHANGED vars
    BY <2>1, <2>2 DEF vars, Inv, TypeOK, NamesIndexed, OneName, CallsKnow, CallKnows,
                      OneCreator, Creating, Taken, Own
  <2>3. CASE Next
    BY <2>1, <2>3, StepInv DEF Next
  <2> QED
    BY <2>2, <2>3
<1> QED
  BY <1>1, <1>2, PTL DEF Spec

\* No application is ever installed under two names.
THEOREM SingleName == Spec => []OneNamePerApplication
<1>1. NoNameFault => OneNamePerApplication
  BY DEF NoNameFault, Inv, OneNamePerApplication
<1> QED
  BY <1>1, Invariance, PTL

\* What register answered is what its name and its identity resolve to.
THEOREM Resolution == Spec => []RegisteredResolves
<1>1. NoNameFault => RegisteredResolves
  <2> SUFFICES ASSUME Inv, NEW c \in Caller, calls[c].pc = "registered"
               PROVE  Resolves(c)
    BY DEF NoNameFault, RegisteredResolves
  <2> DEFINE r == Own(c)
  <2>1. r \in Record /\ r.name \in Name /\ r # None /\ names[r.name] = r
    BY OwnRecord DEF Inv, CallsKnow, CallKnows
  <2> HIDE DEF r
  <2>2. Resolved(r.application) = {r}
    <3>1. CASE identities[r.application] # None
      BY <2>1, <3>1 DEF Inv, NamesIndexed, Resolved
    <3>2. CASE identities[r.application] = None
      <4>1. \A n \in Name : names[n] # None /\ names[n].application = r.application
                           => n = r.name
        BY <2>1 DEF Inv, OneName
      <4>2. Installed(r.application) = {r}
        BY <2>1, <4>1 DEF Installed, Listed
      <4> QED
        BY <3>2, <4>2 DEF Resolved
    <3> QED
      BY <3>1, <3>2
  <2> QED
    BY <2>1, <2>2 DEF r, Resolves
<1> QED
  BY <1>1, Invariance, PTL

-------------------------------------------------------------------------------
(***************************************************************************)
(* The other half of register's promise, whichever files cannot be created: *)
(* who answers for an identity file.                                        *)
(***************************************************************************)
Filed ==
  /\ \A n \in Name : names[n] # None => names[n].name = n
  /\ \A a \in Application : identities[a] # None => identities[a].application = a

\* The creator of an identity file still holds it as its own.
Answerable(c) ==
  /\ calls[c].pc \in {"identity", "list", "linkIdentity", "winner"} => ~calls[c].created
  /\ calls[c].pc = "rollback" => calls[c].created
  /\ Creating(c) => identities[Own(c).application] = Own(c)

Answers == \A c \in Caller : Answerable(c)

HasName(r) == names[r.name] = r

Accountable(c) == Creating(c) \/ Stopped(c)

AnyFault == TypeOK /\ Filed /\ Answers /\ OneCreator /\ IdentityHasName

LEMMA InitAnyFault == Init => AnyFault
<1> SUFFICES ASSUME Init PROVE AnyFault
  OBVIOUS
<1>1. Inv
  BY InitInv
<1>2. /\ \A c \in Caller : calls[c].pc = "new"
      /\ \A a \in Application : identities[a] = None
  BY DEF Init
<1>3. Filed /\ Answers /\ IdentityHasName
  BY <1>1, <1>2 DEF Inv, NamesIndexed, Filed, Answers, Answerable, Creating, IdentityHasName
<1> QED
  BY <1>1, <1>3 DEF Inv, AnyFault

\* A step that writes no file and moves a call to pc keeps AnyFault, unless it
\* leaves behind an identity file without a name that it answers for.
LEMMA AnyMove ==
  ASSUME AnyFault, NEW c \in Caller, calls[c].pc \notin {"new", "refused", "killed"},
         NEW pc \in PC, Moves(c, pc),
         UNCHANGED <<faults, identities, names>>,
         pc \in {"identity", "list", "linkIdentity", "winner"} => ~calls[c].created,
         pc = "rollback" => calls[c].created,
         pc \in {"linkName", "existing", "rollback"} /\ calls[c].created => Creating(c),
         Creating(c) => \/ pc \in {"linkName", "existing", "rollback", "killed"}
                        \/ HasName(Own(c))
                        \/ pc = "refused" /\ "identity" \in faults
  PROVE  AnyFault'
<1> USE MovesGives DEF AnyFault
<1>1. TypeOK'
  BY MovesType DEF TypeOK
<1>2. Filed'
  BY DEF Filed
<1>3. Answers'
  BY DEF Answers, Answerable, Creating, Own
<1>4. OneCreator'
  BY DEF OneCreator, Creating, Own
<1>5. IdentityHasName'
  <2> SUFFICES ASSUME NEW a \in Application, identities[a] # None, ~HasName(identities[a])
               PROVE  \E d \in Caller : Accountable(d)' /\ Own(d)' = identities[a]
    BY DEF IdentityHasName, HasName, Accountable
  <2>1. PICK d \in Caller : Accountable(d) /\ Own(d) = identities[a]
    BY DEF IdentityHasName, HasName, Accountable
  <2>2. CASE d = c
    <3>1. Creating(c) /\ ~HasName(Own(c))
      BY <2>1, <2>2 DEF Accountable, Stopped
    <3> QED
      BY <2>1, <2>2, <3>1 DEF Accountable, Creating, Stopped, Own
  <2>3. CASE d # c
    BY <2>1, <2>3 DEF Accountable, Creating, Stopped, Own
  <2> QED
    BY <2>2, <2>3
<1> QED
  BY <1>1, <1>2, <1>3, <1>4, <1>5

LEMMA AnyInvoke ==
  ASSUME AnyFault, NEW c \in Caller, Invoke(c), UNCHANGED faults
  PROVE  AnyFault'
<1>1. PICK r \in Record :
        calls' = [calls EXCEPT ![c] = [pc |-> "identity", record |-> r, created |-> FALSE]]
  BY DEF Invoke
<1>2. /\ DOMAIN calls' = Caller
      /\ calls[c].pc = "new"
      /\ calls'[c].pc = "identity" /\ calls'[c].record = r /\ calls'[c].created = FALSE
      /\ \A d \in Caller : d # c => calls'[d] = calls[d]
      /\ UNCHANGED <<identities, names>>
  BY <1>1 DEF Invoke, AnyFault, TypeOK
<1> USE <1>2 DEF AnyFault
<1>3. TypeOK'
  BY DEF TypeOK, PC
<1>4. Filed' /\ Answers' /\ OneCreator'
  BY DEF Filed, Answers, Answerable, OneCreator, Creating, Own
<1>5. IdentityHasName'
  <2>1. \A d \in Caller : Creating(d) \/ Stopped(d) =>
          (Creating(d)' \/ Stopped(d)') /\ Own(d)' = Own(d)
    BY DEF Creating, Stopped, Own
  <2> QED
    BY <2>1 DEF IdentityHasName
<1> QED
  BY <1>3, <1>4, <1>5

LEMMA AnyRead ==
  ASSUME AnyFault, NEW c \in Caller, UNCHANGED faults,
         ReadIdentity(c) \/ ListNames(c) \/ ReadWinner(c)
  PROVE  AnyFault'
<1>1. /\ calls[c].pc \in {"identity", "list", "winner"} /\ UNCHANGED <<identities, names>>
      /\ ~calls[c].created /\ ~Creating(c)
  BY DEF ReadIdentity, ListNames, ReadWinner, AnyFault, Answers, Answerable, Creating
<1>2. PICK pc \in {"list", "refused", "linkName", "linkIdentity"} : Moves(c, pc)
  BY DEF ReadIdentity, ListNames, ReadWinner
<1> QED
  BY <1>1, <1>2, AnyMove DEF PC

\* An identity file comes into being, with a creator or in a call that throws.
LEMMA AnyCreateIdentity ==
  ASSUME AnyFault, NEW c \in Caller, calls[c].pc = "linkIdentity", UNCHANGED <<faults, names>>,
         identities[Own(c).application] = None,
         identities' = [identities EXCEPT ![Own(c).application] = Own(c)],
         \/ calls' = [calls EXCEPT ![c] = [pc |-> "linkName", record |-> Own(c), created |-> TRUE]]
         \/ Moves(c, "refused") /\ "identity" \in faults
  PROVE  AnyFault'
<1> DEFINE r == Own(c)
<1>1. /\ DOMAIN calls' = Caller /\ calls'[c].record = r /\ calls'[c].created \in BOOLEAN
      /\ \/ calls'[c].pc = "linkName" /\ calls'[c].created
         \/ calls'[c].pc = "refused" /\ "identity" \in faults
      /\ \A d \in Caller : d # c => calls'[d] = calls[d]
  <2>1. CASE Moves(c, "refused") /\ "identity" \in faults
    BY <2>1, MovesGives DEF AnyFault, TypeOK, Own
  <2>2. CASE calls' = [calls EXCEPT ![c] = [pc |-> "linkName", record |-> Own(c), created |-> TRUE]]
    BY <2>2 DEF AnyFault, TypeOK
  <2> QED
    BY <2>1, <2>2
<1>2. r \in Record /\ r.application \in Application /\ r # None
  BY OwnRecord DEF AnyFault
<1>3. /\ identities'[r.application] = r
      /\ \A a \in Application : a # r.application => identities'[a] = identities[a]
      /\ identities' \in [Application -> Record \cup {None}]
  BY <1>2 DEF AnyFault, TypeOK
<1>4. \A d \in Caller : Creating(d) =>
        /\ Own(d).application # r.application /\ Own(d).application \in Application
        /\ d # c
  <2> SUFFICES ASSUME NEW d \in Caller, Creating(d)
               PROVE  /\ Own(d).application # r.application
                      /\ Own(d).application \in Application /\ d # c
    OBVIOUS
  <2>1. Own(d) \in Record /\ Own(d).application \in Application /\ Own(d) # None
    BY OwnRecord DEF AnyFault, Creating
  <2> QED
    BY <2>1 DEF AnyFault, Answers, Answerable, Creating
<1>5. identities[r.application] = None
  OBVIOUS
<1> HIDE DEF r
<1>6. TypeOK'
  BY <1>1, <1>2, <1>3 DEF AnyFault, TypeOK, PC
<1>7. Filed'
  BY <1>2, <1>3 DEF AnyFault, Filed
<1>8. Answers'
  BY <1>1, <1>3, <1>4 DEF AnyFault, Answers, Answerable, Creating, Own
<1>9. OneCreator'
  BY <1>1, <1>4 DEF AnyFault, OneCreator, Creating, Own, r
<1>10. IdentityHasName'
  <2> SUFFICES ASSUME NEW a \in Application, identities'[a] # None,
                      names'[identities'[a].name] # identities'[a]
               PROVE  \E d \in Caller : Accountable(d)' /\ Own(d)' = identities'[a]
    BY DEF IdentityHasName, Accountable
  <2>1. CASE a = r.application
    <3>1. Accountable(c)'
      BY <1>1 DEF Accountable, Creating, Stopped
    <3> QED
      BY <1>1, <1>3, <2>1, <3>1 DEF Own
  <2>2. CASE a # r.application
    <3>1. identities'[a] = identities[a]
      BY <1>3, <2>2
    <3>2. PICK d \in Caller : Accountable(d) /\ Own(d) = identities[a]
      BY <3>1 DEF AnyFault, IdentityHasName, Accountable
    <3>3. d # c
      BY <1>4, <3>2 DEF Accountable, Stopped
    <3>4. calls'[d] = calls[d]
      BY <1>1, <3>3
    <3> QED
      BY <3>1, <3>2, <3>4 DEF Accountable, Creating, Stopped, Own
  <2> QED
    BY <2>1, <2>2
<1> QED
  BY <1>6, <1>7, <1>8, <1>9, <1>10 DEF AnyFault

\* A name comes into being, known to the call that made it or not.
LEMMA AnyCreateName ==
  ASSUME AnyFault, NEW c \in Caller, calls[c].pc = "linkName",
         UNCHANGED <<faults, identities>>, names[Own(c).name] = None,
         names' = [names EXCEPT ![Own(c).name] = Own(c)],
         NEW pc \in {"registered", Failed(c)}, Moves(c, pc)
  PROVE  AnyFault'
<1> DEFINE r == Own(c)
<1>1. r \in Record /\ r.name \in Name /\ r # None
  BY OwnRecord DEF AnyFault
<1>2. /\ DOMAIN calls' = Caller /\ calls'[c].record = r /\ calls'[c].pc = pc
      /\ calls'[c].created = calls[c].created
      /\ \A d \in Caller : d # c => calls'[d] = calls[d]
  BY MovesGives DEF AnyFault, Own
<1>3. /\ names'[r.name] = r
      /\ \A n \in Name : n # r.name => names'[n] = names[n]
      /\ names' \in [Name -> Record \cup {None}]
      /\ names[r.name] = None
  BY <1>1 DEF AnyFault, TypeOK
<1>4. /\ pc \in {"registered", "rollback", "refused"} /\ pc \in PC
      /\ pc = "rollback" => calls[c].created
      /\ calls[c].created => Creating(c)
  BY DEF Failed, PC, Creating
<1> HIDE DEF r
<1>5. TypeOK'
  BY <1>1, <1>2, <1>3, <1>4 DEF AnyFault, TypeOK
<1>6. Filed'
  BY <1>1, <1>3 DEF AnyFault, Filed
<1>7. Answers'
  <2> SUFFICES ASSUME NEW d \in Caller PROVE Answerable(d)'
    BY DEF Answers
  <2>1. Answerable(d) /\ UNCHANGED identities
    BY DEF AnyFault, Answers
  <2>2. CASE d = c
    <3>1. Creating(c)' => Creating(c) /\ Own(c)' = Own(c)
      BY <1>2, <1>4 DEF Creating, Own, r
    <3> QED
      BY <1>2, <1>4, <2>1, <2>2, <3>1 DEF Answerable
  <2>3. CASE d # c
    BY <1>2, <2>1, <2>3 DEF Answerable, Creating, Own
  <2> QED
    BY <2>2, <2>3
<1>8. OneCreator'
  <2>1. \A d \in Caller : Creating(d)' => Creating(d) /\ Own(d)' = Own(d)
    BY <1>2, <1>4 DEF Creating, Own, r
  <2> QED
    BY <2>1 DEF AnyFault, OneCreator
<1>9. IdentityHasName'
  <2> SUFFICES ASSUME NEW a \in Application, identities[a] # None,
                      names'[identities[a].name] # identities[a]
               PROVE  \E d \in Caller : Accountable(d)' /\ Own(d)' = identities[a]
    BY DEF IdentityHasName, Accountable
  <2>1. identities[a] \in Record /\ identities[a].name \in Name
    BY DEF AnyFault, TypeOK, Record
  <2>2. names[identities[a].name] # identities[a]
    BY <1>3, <2>1
  <2>3. PICK d \in Caller : Accountable(d) /\ Own(d) = identities[a]
    BY <2>2 DEF AnyFault, IdentityHasName, Accountable
  <2>4. d # c
    BY <1>3, <2>3 DEF r
  <2> QED
    BY <1>2, <2>3, <2>4 DEF Accountable, Creating, Stopped, Own
<1> QED
  BY <1>5, <1>6, <1>7, <1>8, <1>9 DEF AnyFault

\* The creator takes its file back: the others are left, with who answers for them.
LEMMA AnyRemove ==
  ASSUME AnyFault, NEW c \in Caller, RemoveIdentity(c), UNCHANGED faults,
         identities' = [identities EXCEPT ![Own(c).application] = None]
  PROVE  AnyFault'
<1> DEFINE r == Own(c)
<1>1. /\ calls[c].pc = "rollback" /\ Moves(c, "refused") /\ UNCHANGED names
      /\ identities' = [identities EXCEPT ![r.application] = None]
      /\ Creating(c) /\ identities[r.application] = r
  BY DEF RemoveIdentity, AnyFault, Answers, Answerable, Creating
<1>2. r \in Record /\ r.application \in Application /\ r # None
  BY <1>1, OwnRecord DEF AnyFault
<1>3. /\ DOMAIN calls' = Caller /\ calls'[c].record = r /\ calls'[c].pc = "refused"
      /\ calls'[c].created = calls[c].created
      /\ \A d \in Caller : d # c => calls'[d] = calls[d]
  BY <1>1, MovesGives DEF AnyFault, Own
<1>4. /\ identities'[r.application] = None
      /\ \A a \in Application : a # r.application => identities'[a] = identities[a]
      /\ identities' \in [Application -> Record \cup {None}]
  BY <1>1, <1>2 DEF AnyFault, TypeOK
<1>5. \A d \in Caller : Creating(d) /\ d # c =>
        Own(d).application # r.application /\ Own(d).application \in Application
  BY <1>1, OwnRecord DEF AnyFault, OneCreator, Creating
<1>6. r = Own(c)
  OBVIOUS
<1> HIDE DEF r
<1>7. TypeOK'
  BY <1>1, <1>2, <1>3, <1>4 DEF AnyFault, TypeOK, PC
<1>8. Filed'
  BY <1>1, <1>4 DEF AnyFault, Filed
<1>9. Answers'
  BY <1>1, <1>3, <1>4, <1>5 DEF AnyFault, Answers, Answerable, Creating, Own
<1>10. OneCreator'
  BY <1>3 DEF AnyFault, OneCreator, Creating, Own
<1>11. IdentityHasName'
  <2> SUFFICES ASSUME NEW a \in Application, identities'[a] # None,
                      names[identities'[a].name] # identities'[a]
               PROVE  \E d \in Caller : Accountable(d)' /\ Own(d)' = identities'[a]
    BY <1>1 DEF IdentityHasName, Accountable
  <2>1. a # r.application /\ identities'[a] = identities[a]
    BY <1>4
  <2>2. PICK d \in Caller : Accountable(d) /\ Own(d) = identities[a]
    BY <2>1 DEF AnyFault, IdentityHasName, Accountable
  <2>3. d # c
    BY <1>6, <2>1, <2>2 DEF AnyFault, Filed
  <2> QED
    BY <1>3, <2>1, <2>2, <2>3 DEF Accountable, Creating, Stopped, Own
<1> QED
  BY <1>7, <1>8, <1>9, <1>10, <1>11 DEF AnyFault

LEMMA StepAnyFault ==
  ASSUME AnyFault, UNCHANGED faults, NEW c \in Caller, Step(c)
  PROVE  AnyFault'
<1>1. CASE LinkIdentity(c) \/ FailIdentity(c)
  <2>1. /\ calls[c].pc = "linkIdentity" /\ UNCHANGED names
        /\ ~calls[c].created /\ ~Creating(c)
    BY <1>1 DEF LinkIdentity, FailIdentity, AnyFault, Answers, Answerable, Creating
  <2>2. ASSUME NEW pc \in {"winner", "refused"}, Moves(c, pc), UNCHANGED identities
        PROVE  AnyFault'
    BY <2>1, <2>2, AnyMove DEF PC
  <2> QED
    BY <1>1, <2>1, <2>2, AnyCreateIdentity DEF LinkIdentity, FailIdentity
<1>2. CASE LinkName(c) \/ FailName(c)
  <2>1. /\ calls[c].pc = "linkName" /\ UNCHANGED identities
        /\ calls[c].created <=> Creating(c)
    BY <1>2 DEF LinkName, FailName, Creating
  <2>2. ASSUME NEW pc \in {"existing", Failed(c)}, Moves(c, pc), UNCHANGED names
        PROVE  AnyFault'
    BY <2>1, <2>2, AnyMove DEF PC, Failed
  <2> QED
    BY <1>2, <2>1, <2>2, AnyCreateName DEF LinkName, FailName
<1>3. CASE ReadExisting(c)
  <2>1. /\ calls[c].pc = "existing" /\ UNCHANGED <<identities, names>>
        /\ calls[c].created <=> Creating(c)
    BY <1>3 DEF ReadExisting, Creating
  <2>2. CASE names[Own(c).name] = Own(c)
    BY <1>3, <2>1, <2>2, AnyMove DEF ReadExisting, HasName, PC
  <2>3. CASE names[Own(c).name] # Own(c)
    BY <1>3, <2>1, <2>3, AnyMove DEF ReadExisting, Failed, PC
  <2> QED
    BY <2>2, <2>3
<1>4. CASE Crash(c)
  BY <1>4, AnyMove DEF Crash, PC
<1>5. CASE RemoveIdentity(c)
  <2>1. CASE "identity" \in faults /\ UNCHANGED identities
    BY <1>5, <2>1, AnyMove DEF RemoveIdentity, PC
  <2> QED
    BY <1>5, <2>1, AnyRemove DEF RemoveIdentity
<1> QED
  BY <1>1, <1>2, <1>3, <1>4, <1>5, AnyInvoke, AnyRead DEF Step

\* Whichever operations on files fail and wherever calls are killed: files are
\* filed under their own names and applications, a call that is creating an
\* installation finds its own record in its identity file, at most one such call
\* has created that file, and an identity without its name is some call's own.
THEOREM Answerability == Spec => []AnyFault
<1>1. AnyFault /\ [Next]_vars => AnyFault'
  <2> SUFFICES ASSUME AnyFault, [Next]_vars PROVE AnyFault'
    OBVIOUS
  <2>1. CASE UNCHANGED vars
    BY <2>1 DEF vars, AnyFault, TypeOK, Filed, Answers, Answerable, OneCreator, Creating,
                IdentityHasName, Stopped, Own
  <2>2. CASE Next
    BY <2>2, StepAnyFault DEF Next
  <2> QED
    BY <2>1, <2>2
<1> QED
  BY <1>1, InitAnyFault, PTL DEF Spec

\* The model's variables stay in their types, whichever files cannot be created.
THEOREM TypeCorrect == Spec => []TypeOK
<1>1. AnyFault => TypeOK
  BY DEF AnyFault
<1> QED
  BY <1>1, Answerability, PTL

\* An identity without its name belongs to a call that is still creating the
\* installation, that was killed doing so, or that was refused where operations on
\* identity files fail: register takes its identity file back whenever it cannot
\* have the name.
THEOREM IdentityNamed == Spec => []IdentityHasName
<1>1. AnyFault => IdentityHasName
  BY DEF AnyFault
<1> QED
  BY <1>1, Answerability, PTL
===============================================================================
