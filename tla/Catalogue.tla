------------------------------ MODULE Catalogue ------------------------------
(***************************************************************************)
(* The catalogue of the operation service: operations, the scripts that    *)
(* carry them out on one type of host each (architecture and system), the  *)
(* directories with the files of the scripts, and commands.  A request     *)
(* reads the snapshot of its first query, decides by it, and writes the    *)
(* current rows when it commits; other requests come in between.  Files    *)
(* are changed after the commit.                                           *)
(***************************************************************************)
CONSTANTS
  Request,  \* the requests that come; what one adds has its name as id
  First,    \* the ids of what may be there at first
  Type,     \* types of hosts
  Name,     \* of operations and commands
  None

Id == Request \cup First

ASSUME IdAssumption == Request \cap First = {} /\ None \notin Id \cup Type \cup Name

VARIABLES
  operates,  \* the names of the rows of operate, None without a row
  commands,  \* the names of the rows of command
  scripts,   \* the types of the rows of script
  assoc,     \* operate_script_association
  dirs,      \* the scripts that have a directory
  req,       \* the requests
  stale,     \* history: requests whose snapshot another commit has overtaken
  unchecked, \* history: operations that got a script without a current check
  leftover   \* history: scripts whose directory nothing removes

tables == <<operates, commands, scripts, assoc>>
catalogue_vars == <<tables, dirs, req, stale, unchecked, leftover>>

Do == {"add operate", "modify operate", "delete operates", "add command", "modify command",
       "delete commands", "add script", "modify script", "upload", "delete scripts"}

\* A request: what it does, to which rows, and what it gives.
Asked == [do : Do, ids : SUBSET Id, operate : Id \cup {None}, type : Type, name : Name]

CatalogueInit(requests) ==
  /\ LET names == CHOOSE f \in [First -> Name] : \A i, j \in First : f[i] = f[j] => i = j IN
     operates = [i \in Id |-> IF i \in First THEN names[i] ELSE None]
  /\ commands = operates
  /\ \E t \in Type : scripts = [i \in Id |-> IF i \in First THEN t ELSE None]
  /\ assoc = {<<i, i>> : i \in First} /\ dirs = First
  /\ req = [r \in Request |-> [asked |-> requests[r], pc |-> "new", on |-> None, seen |-> {}]]
  /\ stale = {} /\ unchecked = {} /\ leftover = {}

-----------------------------------------------------------------------------
\* A request's transaction is open between its first query and its commit.
Open(r) == req[r].pc \notin {"new", "remove", "done"}

Begins(r, do) == req[r].pc = "new" /\ req[r].asked.do = do
Writes(r, do) == req[r].pc = "write" /\ req[r].asked.do = do

Goes(r, pc) == req' = [req EXCEPT ![r].pc = pc]
GoesOn(r, ok) == Goes(r, IF ok THEN "write" ELSE "done")

\* r commits, to the tables or the scheduler's: what the others saw is out of date.
Commits(r) == stale' = stale \cup {q \in Request \ {r} : Open(q)}

Has(table, i) == table[i] # None
Taken(table, n) == \E i \in Id : table[i] = n
Of(o) == {i \in Id : <<o, i>> \in assoc}        \* the scripts of operation o
HasType(o, t) == \E i \in Of(o) : scripts[i] = t

Rest(r) == req[r].asked.ids \ {req[r].on}

\* The request has the rows ids still to do, and i now, of which it has seen this.
Turns(r, ids, pc, i, seen) ==
  req' = [req EXCEPT ![r] = [asked |-> [@.asked EXCEPT !.ids = ids], pc |-> pc, on |-> i,
                             seen |-> seen]]

\* The next id of a batch.
NextId(r) == Turns(r, Rest(r), IF Rest(r) = {} THEN "done" ELSE "new", None, {})

Read(r, i, seen) == Turns(r, req[r].asked.ids, "write", i, seen)

Missing(r, i) ==
  LET ids == req[r].asked.ids \ {i} IN
  Turns(r, ids, IF ids = {} THEN "done" ELSE req[r].pc, req[r].on, req[r].seen)

history == <<stale, unchecked, leftover>>

\* A write that fails is rolled back; a name that is taken is one reason.
\* The next of a batch is tried.
WriteFails(r) ==
  /\ req[r].pc = "write"
  /\ IF req[r].on = None THEN Goes(r, "done") ELSE NextId(r)
  /\ UNCHANGED <<tables, dirs, history>>

-----------------------------------------------------------------------------
\* Operations and commands: a name is looked for before it is given.

AddOperate(r) ==
  LET n == req[r].asked.name IN
  \/ /\ Begins(r, "add operate") /\ GoesOn(r, ~Taken(operates, n))
     /\ UNCHANGED <<tables, dirs, history>>
  \/ /\ Writes(r, "add operate") /\ ~Taken(operates, n)
     /\ Goes(r, "done") /\ Commits(r)
     /\ operates' = [operates EXCEPT ![r] = n]
     /\ UNCHANGED <<commands, scripts, assoc, dirs, unchecked, leftover>>

ModifyOperate(r) == \E i \in req[r].asked.ids :
  LET n == req[r].asked.name IN
  \/ /\ Begins(r, "modify operate") /\ GoesOn(r, ~Taken(operates, n))
     /\ UNCHANGED <<tables, dirs, history>>
  \/ /\ Writes(r, "modify operate") /\ ~Taken(operates, n)
     /\ Goes(r, "done") /\ Commits(r)
     /\ operates' = [operates EXCEPT ![i] = IF Has(operates, i) THEN n ELSE None]
     /\ UNCHANGED <<commands, scripts, assoc, dirs, unchecked, leftover>>

AddCommand(r) ==
  LET n == req[r].asked.name IN
  \/ /\ Begins(r, "add command") /\ GoesOn(r, ~Taken(commands, n))
     /\ UNCHANGED <<tables, dirs, history>>
  \/ /\ Writes(r, "add command") /\ ~Taken(commands, n)
     /\ Goes(r, "done") /\ Commits(r)
     /\ commands' = [commands EXCEPT ![r] = n]
     /\ UNCHANGED <<operates, scripts, assoc, dirs, unchecked, leftover>>

\* Nothing is looked for.
ModifyCommand(r) == \E i \in req[r].asked.ids :
  /\ Begins(r, "modify command")
  /\ Goes(r, "done") /\ Commits(r)
  /\ \E n \in {commands[i], req[r].asked.name} :
       commands' = [commands EXCEPT ![i] = IF Has(commands, i) THEN n ELSE None]
  /\ \A i1, i2 \in Id : i1 # i2 /\ commands'[i1] = commands'[i2] => commands'[i1] = None
  /\ UNCHANGED <<operates, scripts, assoc, dirs, unchecked, leftover>>

DeleteCommand(r) == \E i \in req[r].asked.ids :
  \/ /\ Begins(r, "delete commands")
     /\ IF Has(commands, i) THEN Read(r, i, {}) ELSE Missing(r, i)
     /\ UNCHANGED <<tables, dirs, history>>
  \/ /\ Writes(r, "delete commands") /\ i = req[r].on
     /\ NextId(r) /\ Commits(r)
     /\ commands' = [commands EXCEPT ![i] = None]
     /\ UNCHANGED <<operates, scripts, assoc, dirs, unchecked, leftover>>

\* The associations that were seen go with the operation.
DeleteOperate(r) == \E i \in req[r].asked.ids :
  \/ /\ Begins(r, "delete operates")
     /\ IF Has(operates, i) THEN Read(r, i, {i} \X Of(i)) ELSE Missing(r, i)
     /\ UNCHANGED <<tables, dirs, history>>
  \/ /\ Writes(r, "delete operates") /\ i = req[r].on
     /\ NextId(r) /\ Commits(r)
     /\ operates' = [operates EXCEPT ![i] = None]
     /\ assoc' = assoc \ req[r].seen
     /\ UNCHANGED <<commands, scripts, dirs, unchecked, leftover>>

-----------------------------------------------------------------------------
\* Scripts.

\* Seeded defect: the first script of another type settles it.
MayAdd_Early(o, t) == o = None \/ Of(o) = {} \/ \E i \in Of(o) : scripts[i] # t

MayAdd(o, t) == o = None \/ ~HasType(o, t)

\* Whether the operation exists is not looked at.
AddScript(r) ==
  LET o == req[r].asked.operate  t == req[r].asked.type IN
  \/ /\ Begins(r, "add script")
     /\ GoesOn(r, MayAdd(o, t))
     /\ UNCHANGED <<tables, dirs, stale, unchecked, leftover>>
  \/ /\ Writes(r, "add script")
     /\ Goes(r, "done") /\ Commits(r)
     /\ scripts' = [scripts EXCEPT ![r] = t]
     /\ assoc' = assoc \cup ({o} \ {None}) \X {r}
     /\ IF r \in stale
        THEN unchecked' = unchecked \cup ({o} \ {None})
        ELSE UNCHANGED unchecked
     /\ UNCHANGED <<operates, commands, dirs, leftover>>

\* The script moves to another operation, and may be for another type.
ModifyScript(r) == \E i \in req[r].asked.ids :
  LET o == req[r].asked.operate
      mine == {a \in assoc : a[2] = i}
      moved == IF o = None THEN mine ELSE {<<o, a[2]>> : a \in mine} IN
  /\ Begins(r, "modify script")
  /\ Goes(r, "done") /\ Commits(r)
  /\ scripts' = [scripts EXCEPT ![i] = IF Has(scripts, i) THEN req[r].asked.type ELSE None]
  /\ assoc' = (assoc \ mine) \cup moved
  /\ unchecked' = unchecked \cup {a[1] : a \in moved}
  /\ UNCHANGED <<operates, commands, dirs, leftover>>

\* upload_file: the query for the script is not run, so any id will do.
Upload(r) == \E i \in req[r].asked.ids :
  /\ Begins(r, "upload") /\ Goes(r, "done")
  /\ \/ /\ dirs' = dirs \cup {i}
        /\ leftover' = IF Has(scripts, i) THEN leftover ELSE leftover \cup {i}
     \/ dirs' = dirs \ {i} /\ UNCHANGED leftover   \* a file cannot be saved
  /\ UNCHANGED <<tables, stale, unchecked>>

DeleteScript(r) == \E i \in req[r].asked.ids :
  \/ /\ Begins(r, "delete scripts")
     /\ IF Has(scripts, i) THEN Read(r, i, {a \in assoc : a[2] = i}) ELSE Missing(r, i)
     /\ UNCHANGED <<tables, dirs, history>>
  \/ /\ Writes(r, "delete scripts") /\ i = req[r].on
     /\ Goes(r, "remove") /\ Commits(r)
     /\ scripts' = [scripts EXCEPT ![i] = None]
     /\ assoc' = assoc \ req[r].seen
     /\ UNCHANGED <<operates, commands, dirs, unchecked, leftover>>

\* Seeded defect: only the row is deleted.
RemoveDirectory_Keeps(r) ==
  /\ req[r].pc = "remove" /\ NextId(r)
  /\ UNCHANGED <<tables, dirs, history>>

RemoveDirectory(r) ==
  /\ req[r].pc = "remove"
  /\ dirs' = dirs \ {req[r].on}
  /\ NextId(r)
  /\ UNCHANGED <<tables, history>>

\* An error that is not the database's ends the request, as does the service.
RemoveFails(r) ==
  /\ req[r].pc = "remove" /\ Goes(r, "done")
  /\ leftover' = leftover \cup {req[r].on}
  /\ UNCHANGED <<tables, dirs, stale, unchecked>>

CatalogueNext(r) ==
  \/ AddOperate(r) \/ ModifyOperate(r) \/ DeleteOperate(r)
  \/ AddCommand(r) \/ ModifyCommand(r) \/ DeleteCommand(r)
  \/ AddScript(r) \/ ModifyScript(r) \/ DeleteScript(r) \/ Upload(r)
  \/ RemoveDirectory(r) \/ RemoveFails(r) \/ WriteFails(r)

-----------------------------------------------------------------------------
\* An operation has at most one script for a type of host, so that a task runs
\* the one that was meant: unless two requests overlapped, or a script was moved
\* or changed, which is not checked.
OneScriptPerType ==
  \A o \in Id \ unchecked : \A i, j \in Of(o) : scripts[i] = scripts[j] => i = j

\* A directory belongs to a script, or is about to be removed: unless it was
\* uploaded to when there was no script any more, or could not be removed.
DirectoryHasScript ==
  \A i \in dirs \ leftover :
    Has(scripts, i) \/ \E r \in Request : req[r].pc = "remove" /\ req[r].on = i

=============================================================================
