------------------------- MODULE ApplicationRegistryV1 -------------------------
(***************************************************************************)
(* DirectoryApplicationRegistryV1: which application a name stands for.     *)
(* An installation is two files, one named after the application's identity *)
(* and one after its name, each created by link(2); register writes them in *)
(* this order and takes the first back when the second fails.  Processes    *)
(* install and import at once; each makes one call of register, one step    *)
(* per file operation.                                                      *)
(***************************************************************************)
EXTENDS Naturals

CONSTANTS
  Caller,
  CrashProne,   \* the callers that may be killed in the middle of register
  Name,
  Application,  \* application identities
  Content,      \* the versions and artifacts one identity is installed with
  None

ASSUME RegistryAssumption ==
  /\ CrashProne \subseteq Caller
  /\ None \notin [name : Name, application : Application, content : Content]

VARIABLES
  faults,       \* the files that operations on may fail: "identity", "name"
  identities,   \* application-identities: the record of an application, or None
  names,        \* applications: the record of a name, or None
  calls

vars == <<faults, identities, names, calls>>

Record == [name : Name, application : Application, content : Content]

PC == {"new", "identity", "list", "linkIdentity", "winner", "linkName", "existing",
       "rollback", "registered", "refused", "killed"}

\* list(): the record of every name.
Listed == {names[n] : n \in Name} \ {None}

Installed(a) == {r \in Listed : r.application = a}

\* get(), by an identity: its file, else a name that has it.
Resolved(a) == IF identities[a] # None THEN {identities[a]} ELSE Installed(a)

-------------------------------------------------------------------------------
Own(c) == calls[c].record

Moves(c, pc) ==
  calls' = [calls EXCEPT ![c] = [pc |-> pc, record |-> @.record, created |-> @.created]]

Invoke(c) ==
  /\ calls[c].pc = "new"
  /\ \E r \in Record :
       calls' = [calls EXCEPT ![c] = [pc |-> "identity", record |-> r, created |-> FALSE]]
  /\ UNCHANGED <<identities, names>>

ReadIdentity(c) ==
  /\ calls[c].pc = "identity"
  /\ LET r == identities[Own(c).application]
     IN Moves(c, IF r = None THEN "list" ELSE IF r = Own(c) THEN "linkName" ELSE "refused")
  /\ UNCHANGED <<identities, names>>

\* Mutant: installations older than the identity files are not looked for.
SkipList(c) ==
  /\ calls[c].pc = "list"
  /\ Moves(c, "linkIdentity")
  /\ UNCHANGED <<identities, names>>

\* An installation older than the identity files holds its identity, too: one of
\* the application's is looked at, the first by file name.
ListNames(c) ==
  /\ calls[c].pc = "list"
  /\ \/ Installed(Own(c).application) = {} /\ Moves(c, "linkIdentity")
     \/ \E r \in Installed(Own(c).application) :
          Moves(c, IF r = Own(c) THEN "linkIdentity" ELSE "refused")
  /\ UNCHANGED <<identities, names>>

LinkIdentity(c) ==
  /\ calls[c].pc = "linkIdentity"
  /\ IF identities[Own(c).application] # None
       THEN Moves(c, "winner") /\ UNCHANGED identities
       ELSE /\ identities' = [identities EXCEPT ![Own(c).application] = Own(c)]
            /\ calls' = [calls EXCEPT ![c] =
                           [pc |-> "linkName", record |-> Own(c), created |-> TRUE]]
  /\ UNCHANGED names

\* The temporary file cannot be written, or the directory cannot be synced
\* after the link was made: the call throws.
FailIdentity(c) ==
  /\ "identity" \in faults
  /\ calls[c].pc = "linkIdentity"
  /\ \/ UNCHANGED identities
     \/ /\ identities[Own(c).application] = None
        /\ identities' = [identities EXCEPT ![Own(c).application] = Own(c)]
  /\ Moves(c, "refused")
  /\ UNCHANGED names

\* The winner may have taken its file back: the read then throws.
ReadWinner(c) ==
  /\ calls[c].pc = "winner"
  /\ Moves(c, IF identities[Own(c).application] = Own(c) THEN "linkName" ELSE "refused")
  /\ UNCHANGED <<identities, names>>

\* Mutant: a failed registration keeps its identity.
FailedKept(c) == "refused"

\* Whatever made the name fail, the creator of the identity takes it back.
Failed(c) == IF calls[c].created THEN "rollback" ELSE "refused"

LinkName(c) ==
  /\ calls[c].pc = "linkName"
  /\ IF names[Own(c).name] # None
       THEN Moves(c, "existing") /\ UNCHANGED names
       ELSE /\ names' = [names EXCEPT ![Own(c).name] = Own(c)]
            /\ Moves(c, "registered")
  /\ UNCHANGED identities

\* As FailIdentity, for the name; here the error is caught.
FailName(c) ==
  /\ "name" \in faults
  /\ calls[c].pc = "linkName"
  /\ \/ UNCHANGED names
     \/ /\ names[Own(c).name] = None
        /\ names' = [names EXCEPT ![Own(c).name] = Own(c)]
  /\ Moves(c, Failed(c))
  /\ UNCHANGED identities

\* Mutant: the identity is taken back by a call whose name is its own.
ReadExistingStrict(c) ==
  /\ calls[c].pc = "existing"
  /\ Moves(c, Failed(c))
  /\ UNCHANGED <<identities, names>>

ReadExisting(c) ==
  /\ calls[c].pc = "existing"
  /\ Moves(c, IF names[Own(c).name] = Own(c) THEN "registered" ELSE Failed(c))
  /\ UNCHANGED <<identities, names>>

\* The removal may fail: its error is thrown instead, and the file stays.
RemoveIdentity(c) ==
  /\ calls[c].pc = "rollback"
  /\ \/ identities' = [identities EXCEPT ![Own(c).application] = None]
     \/ "identity" \in faults /\ UNCHANGED identities
  /\ Moves(c, "refused")
  /\ UNCHANGED names

Crash(c) ==
  /\ c \in CrashProne
  /\ calls[c].pc \notin {"new", "registered", "refused", "killed"}
  /\ Moves(c, "killed")
  /\ UNCHANGED <<identities, names>>

-------------------------------------------------------------------------------
\* A store may hold an installation made before there were identity files.
Init ==
  /\ faults \in SUBSET {"identity", "name"}
  /\ identities = [a \in Application |-> None]
  /\ \/ names = [n \in Name |-> None]
     \/ \E r \in Record : names = [n \in Name |-> IF n = r.name THEN r ELSE None]
  /\ calls = [c \in Caller |-> [pc |-> "new", record |-> None, created |-> FALSE]]

Step(c) ==
  \/ Invoke(c) \/ ReadIdentity(c) \/ ListNames(c) \/ LinkIdentity(c) \/ FailIdentity(c)
  \/ ReadWinner(c) \/ LinkName(c) \/ FailName(c) \/ ReadExisting(c) \/ RemoveIdentity(c) \/ Crash(c)

Next == (\E c \in Caller : Step(c)) /\ UNCHANGED faults

Spec == Init /\ [][Next]_vars

-------------------------------------------------------------------------------
TypeOK ==
  /\ identities \in [Application -> Record \cup {None}]
  /\ names \in [Name -> Record \cup {None}]
  /\ DOMAIN calls = Caller
  /\ \A c \in Caller :
       /\ calls[c].pc \in PC /\ calls[c].created \in BOOLEAN
       /\ calls[c].pc # "new" => calls[c].record \in Record

OneName ==
  \A n, m \in Name :
    names[n] # None /\ names[m] # None /\ names[n].application = names[m].application
      => n = m

\* No application is ever installed under two names, whichever calls overlap
\* and wherever they are killed (the identity file is created before the name's,
\* and a name's file that was created is not taken for a failure, as it is when
\* its directory cannot be synced).
OneNamePerApplication == "name" \notin faults => OneName

Resolves(c) ==
  /\ names[Own(c).name] = Own(c)
  /\ Resolved(Own(c).application) = {Own(c)}

\* "Resolves one immutable installation by alias or application identity": what
\* register answered is what both its name and its identity resolve to from
\* then on, although identity files come and go.
RegisteredResolves ==
  "name" \notin faults => \A c \in Caller : calls[c].pc = "registered" => Resolves(c)

\* A call that has created its identity file and not yet that of the name, and one
\* that was stopped there: killed, or by an operation on the identity file that
\* failed although the file was there.
Creating(c) == calls[c].created /\ calls[c].pc \in {"linkName", "existing", "rollback"}

Stopped(c) ==
  \/ calls[c].created /\ calls[c].pc = "killed"
  \/ calls[c].pc = "refused" /\ "identity" \in faults

\* An application found by its identity is the one its name stands for, but while
\* the call that creates both is under way, or where it was stopped between them:
\* register takes its identity file back whenever it cannot have the name, and
\* nobody else does.  What a stopped call leaves nothing repairs.
IdentityHasName ==
  \A a \in Application : identities[a] # None =>
    \/ names[identities[a].name] = identities[a]
    \/ \E c \in Caller : (Creating(c) \/ Stopped(c)) /\ Own(c) = identities[a]
===============================================================================
