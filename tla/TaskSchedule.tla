----------------------------- MODULE TaskSchedule -----------------------------
(***************************************************************************)
(* Tasks and the scheduler that starts them.  A task is made of what the   *)
(* catalogue has for it when it is added.  Its job is in the scheduler's   *)
(* own table, which is written at once and not with the task's row.  The   *)
(* scheduler runs from the first request about tasks until the service     *)
(* ends; jobs whose time comes when it cannot run them are late by then,   *)
(* and skipped.                                                            *)
(***************************************************************************)
EXTENDS Catalogue

CONSTANT Mixes  \* bound: what the requests ask, one mix chosen at first

VARIABLES
  tasks,     \* the rows of operation_task
  jobs,      \* the scheduler's table: task and when
  running,   \* the scheduler has been started
  outdated,  \* history: tasks whose operation has changed since their detail was made
  used,      \* history: tasks whose single job has been started or skipped
  loose,     \* history: tasks left by a request that failed, or was overtaken, between row and job
  sent       \* history: what the last start of a task was to bring to which hosts

schedule == <<tasks, jobs, running, outdated, used, loose, sent>>
vars == <<catalogue_vars, schedule>>

When == {"never", "single", "interval"}
TaskDo == {"add task", "modify scheduler", "delete tasks"}

\* A task is for an operation on hosts of some types, or, without one, for commands.
AskedTask == [do : TaskDo, ids : SUBSET Id, operate : Id \cup {None}, types : SUBSET Type,
              name : Name, when : When]

ASSUME MixesAssumption == Mixes \subseteq [Request -> Asked \cup AskedTask]

\* The detail of a task: a script for each type, or the commands.
Detail == UNION {[T -> Id] : T \in SUBSET (Type \cup Id)}

\* A row of operation_task.
Row == [name : Name, operate : Id \cup {None}, types : SUBSET Type, detail : Detail, when : When]

ASSUME NoneAssumption == None \notin Row

Init ==
  /\ \E requests \in Mixes : CatalogueInit(requests)
  /\ tasks = [i \in Id |-> None] /\ jobs = {} /\ running \in BOOLEAN
  /\ outdated = {} /\ used = {} /\ loose = {} /\ sent = [i \in Id |-> None]

catalogue == <<operates, commands, scripts, assoc, dirs, unchecked, leftover>>

-----------------------------------------------------------------------------
\* A TaskProxy is made for every request about tasks and starts the scheduler.
Starts(r, do) == Begins(r, do) /\ running' = TRUE

JobsOf(i) == {j \in jobs : j[1] = i}

\* An overtaken request leaves row and job as it finds or makes them.
Loosens(r, i) == loose' = IF r \in stale THEN loose \cup {i} ELSE loose

-----------------------------------------------------------------------------
\* add_task.

AddTaskCheck(r) ==
  /\ Starts(r, "add task")
  /\ LET known == \E i \in Id : (Has(tasks, i) /\ tasks[i].name = req[r].asked.name) IN
     Goes(r, IF known \/ req[r].asked.types = {} THEN "done" ELSE "detail")
  /\ UNCHANGED <<catalogue, stale, tasks, jobs, outdated, used, loose, sent>>

\* Seeded defect: the script is not chosen by the type of the host.
Fits_AnyType(o, types, detail) == detail \in [types -> Of(o)]

\* The types of the task's hosts that the operation has a script for.
Served(o, types) == {t \in types : HasType(o, t)}

\* The detail has a script for each of them; of two scripts for a type one is taken.
Fits(o, types, detail) ==
  detail \in [Served(o, types) -> Of(o)] /\ \A t \in DOMAIN detail : scripts[detail[t]] = t

\* The commands that there are of those that were asked for.
Details(o, types) ==
  IF o = None THEN {[i \in {j \in Id : Has(commands, j)} |-> i]}
  ELSE {d \in UNION {[T -> Of(o)] : T \in SUBSET types} : Fits(o, types, d)}

\* An association without a script is an exception.
AddTaskDetail(r) ==
  LET o == req[r].asked.operate IN
  /\ req[r].pc = "detail" /\ \A i \in Of(o) : Has(scripts, i)
  /\ \E d \in Details(o, req[r].asked.types) :
       Turns(r, req[r].asked.ids, "schedule", req[r].on, d)
  /\ UNCHANGED <<catalogue, stale, schedule>>

\* Seeded defect: a task without a schedule gets a job.
AddTaskJob_Always(r) ==
  /\ req[r].pc = "schedule" /\ Goes(r, "commit") /\ Commits(r)
  /\ jobs' = jobs \cup {<<r, req[r].asked.when>>}
  /\ UNCHANGED <<catalogue, tasks, running, outdated, used, loose, sent>>

AddTaskJob(r) ==
  /\ req[r].pc = "schedule" /\ Goes(r, "commit") /\ Commits(r)
  /\ jobs' = jobs \cup {<<r, w>> : w \in {req[r].asked.when} \ {"never"}}
  /\ UNCHANGED <<catalogue, tasks, running, outdated, used, loose, sent>>

AddTaskCommit(r) ==
  LET a == req[r].asked IN
  /\ req[r].pc = "commit" /\ Goes(r, "done") /\ Commits(r)
  /\ tasks' = [tasks EXCEPT ![r] = [name |-> a.name, operate |-> a.operate, types |-> a.types,
                                    detail |-> req[r].seen, when |-> a.when]]
  /\ UNCHANGED <<catalogue, jobs, running, outdated, used, loose, sent>>

\* The row is rolled back, the job is not.
AddTaskFails(r) ==
  /\ req[r].pc \in {"detail", "schedule", "commit"}
  /\ Goes(r, "done")
  /\ loose' = IF req[r].pc = "commit" THEN loose \cup {r} ELSE loose
  /\ UNCHANGED <<catalogue, stale, tasks, jobs, running, outdated, used, sent>>

-----------------------------------------------------------------------------
\* del_task_sheduler finds the job and removes what it found.

FindJob(r) ==
  /\ req[r].pc = "find"
  /\ Turns(r, req[r].asked.ids, "unschedule", req[r].on, JobsOf(req[r].on))
  /\ UNCHANGED <<catalogue, stale, schedule>>

RemoveJob(r, next) ==
  /\ req[r].pc = "unschedule" /\ Goes(r, next) /\ Commits(r)
  /\ IF req[r].seen = {} THEN UNCHANGED jobs
     ELSE JobsOf(req[r].on) # {} /\ jobs' = jobs \ JobsOf(req[r].on)

\* The job that was found is gone (JobLookupError), there is one already
\* (ConflictingIdError), or the scheduler's table cannot be reached.
JobFails(r) ==
  /\ req[r].pc \in {"find", "unschedule", "renew"} /\ Goes(r, "done")
  /\ loose' = IF req[r].asked.do = "modify scheduler" THEN loose \cup {req[r].on} ELSE loose
  /\ UNCHANGED <<catalogue, stale, tasks, jobs, running, outdated, used, sent>>

-----------------------------------------------------------------------------
\* modify_task_scheduler: the row, then the old job, then the new one.

ModifyRead(r) == \E i \in req[r].asked.ids :
  /\ Starts(r, "modify scheduler")
  /\ Turns(r, req[r].asked.ids, IF Has(tasks, i) THEN "update" ELSE "done", i, req[r].seen)
  /\ UNCHANGED <<catalogue, stale, tasks, jobs, outdated, used, loose, sent>>

\* Seeded defect: the request returns before the old job is removed.
ModifyUpdate_ReturnsEarly(r) ==
  LET i == req[r].on IN
  /\ req[r].pc = "update" /\ Goes(r, IF req[r].asked.when = "never" THEN "done" ELSE "find")
  /\ Commits(r)
  /\ tasks' = IF Has(tasks, i) THEN [tasks EXCEPT ![i].when = req[r].asked.when] ELSE tasks
  /\ Loosens(r, i)
  /\ UNCHANGED <<catalogue, jobs, running, outdated, used, sent>>

ModifyUpdate(r) ==
  LET i == req[r].on IN
  /\ req[r].pc = "update" /\ Goes(r, "find") /\ Commits(r)
  /\ tasks' = IF Has(tasks, i) THEN [tasks EXCEPT ![i].when = req[r].asked.when] ELSE tasks
  /\ Loosens(r, i)
  /\ UNCHANGED <<catalogue, jobs, running, outdated, used, sent>>

ModifyRemove(r) ==
  /\ req[r].asked.do = "modify scheduler"
  /\ RemoveJob(r, IF req[r].asked.when = "never" THEN "done" ELSE "renew")
  /\ Loosens(r, req[r].on)
  /\ UNCHANGED <<catalogue, tasks, running, outdated, used, sent>>

ModifyAdd(r) ==
  LET i == req[r].on IN
  /\ req[r].pc = "renew" /\ JobsOf(i) = {} /\ Goes(r, "done") /\ Commits(r)
  /\ jobs' = jobs \cup {<<i, req[r].asked.when>>}
  /\ used' = used \ {i} /\ Loosens(r, i)
  /\ UNCHANGED <<catalogue, tasks, running, outdated, sent>>

-----------------------------------------------------------------------------
\* batch_delete_task: the job, then the row.

DeleteRead(r) == \E i \in req[r].asked.ids :
  /\ Starts(r, "delete tasks")
  /\ IF Has(tasks, i) THEN Turns(r, req[r].asked.ids, "find", i, req[r].seen) ELSE Missing(r, i)
  /\ UNCHANGED <<catalogue, stale, tasks, jobs, outdated, used, loose, sent>>

DeleteJob(r) ==
  /\ req[r].asked.do = "delete tasks"
  /\ RemoveJob(r, "erase")
  /\ UNCHANGED <<catalogue, tasks, running, outdated, used, loose, sent>>

DeleteTask(r) ==
  /\ req[r].pc = "erase" /\ NextId(r) /\ Commits(r)
  /\ tasks' = [tasks EXCEPT ![req[r].on] = None]
  /\ Loosens(r, req[r].on)
  /\ UNCHANGED <<catalogue, jobs, running, outdated, used, sent>>

\* The row stays, its job is gone.
DeleteFails(r) ==
  /\ req[r].pc = "erase" /\ NextId(r)
  /\ loose' = loose \cup {req[r].on}
  /\ UNCHANGED <<catalogue, stale, tasks, jobs, running, outdated, used, sent>>

-----------------------------------------------------------------------------
\* A start of a task (see TaskLifecycle for the rest of it) makes a job per script
\* for the hosts of its type, whose steps copy the files of the script's directory.
JobList(i) ==
  IF tasks[i].operate = None THEN {} ELSE {<<t, tasks[i].detail[t]>> : t \in DOMAIN tasks[i].detail}

\* A directory that is not there is an exception: the start fails.
StepList(i) == Has(tasks, i) /\ \A j \in JobList(i) : j[2] \in dirs

Start(i) == sent' = IF StepList(i) THEN [sent EXCEPT ![i] = JobList(i)] ELSE sent

\* By a user, or by the job of an interval.
StartTask(i) ==
  /\ Has(tasks, i) /\ Start(i)
  /\ UNCHANGED <<catalogue_vars, tasks, jobs, running, outdated, used, loose>>

\* The time of a single job comes, or has come: the task is started, or skipped
\* if it is more than a second late, and the job goes.
UseJob(i) ==
  /\ running /\ <<i, "single">> \in jobs
  /\ jobs' = jobs \ {<<i, "single">>} /\ used' = used \cup {i}
  /\ Start(i) \/ UNCHANGED sent
  /\ UNCHANGED <<catalogue_vars, tasks, running, outdated, loose>>

\* Between the two, of the row and the job, that a request about tasks changes.
Subject(r) == IF req[r].asked.do = "add task" THEN r ELSE req[r].on
Between(r) ==
  \/ req[r].pc \in {"commit", "renew", "erase"}
  \/ req[r].pc \in {"find", "unschedule"} /\ req[r].asked.do = "modify scheduler"

\* The service ends and is started again; its requests are gone.
Restart ==
  /\ running' = FALSE
  /\ req' = [r \in Request |-> [req[r] EXCEPT !.pc = IF @ = "new" THEN "new" ELSE "done"]]
  /\ leftover' = leftover \cup {req[r].on : r \in {q \in Request : req[q].pc = "remove"}}
  /\ loose' = loose \cup {Subject(r) : r \in {q \in Request : Between(q)}}
  /\ UNCHANGED <<tables, dirs, stale, unchecked, tasks, jobs, outdated, used, sent>>

Tasks(r) ==
  \/ AddTaskCheck(r) \/ AddTaskDetail(r) \/ AddTaskJob(r) \/ AddTaskCommit(r) \/ AddTaskFails(r)
  \/ FindJob(r) \/ JobFails(r)
  \/ ModifyRead(r) \/ ModifyUpdate(r) \/ ModifyRemove(r) \/ ModifyAdd(r)
  \/ DeleteRead(r) \/ DeleteJob(r) \/ DeleteTask(r) \/ DeleteFails(r)

Service(o) == {<<i, scripts[i]>> : i \in Of(o)}
For(o) == {i \in Id : Has(tasks, i) /\ tasks[i].operate = o}
  \cup {r \in Request : req[r].pc \in {"schedule", "commit"} /\ req[r].asked.operate = o}

Catalogues(r) ==
  /\ CatalogueNext(r)
  /\ outdated' = outdated \cup UNION {For(o) : o \in {p \in Id : Service(p)' # Service(p)}}
  /\ UNCHANGED <<tasks, jobs, running, used, loose, sent>>

Next == Restart \/ (\E i \in Id : UseJob(i) \/ StartTask(i)) \/ \E r \in Request : Tasks(r) \/ Catalogues(r)

Spec == Init /\ [][Next]_vars

-----------------------------------------------------------------------------
TypeOK ==
  /\ operates \in [Id -> Name \cup {None}] /\ commands \in [Id -> Name \cup {None}]
  /\ scripts \in [Id -> Type \cup {None}]
  /\ assoc \subseteq Id \X Id /\ dirs \subseteq Id
  /\ \A r \in Request : /\ req[r].asked \in Asked \cup AskedTask /\ req[r].on \in Id \cup {None}
                        /\ req[r].pc \in {"new", "write", "remove", "detail", "schedule", "commit",
                                          "update", "find", "unschedule", "renew", "erase", "done"}
  /\ tasks \in [Id -> Row \cup {None}]
  /\ jobs \subseteq Id \X (When \ {"never"}) /\ running \in BOOLEAN
  /\ stale \subseteq Request /\ unchecked \subseteq Id
  /\ leftover \subseteq Id /\ outdated \subseteq Id /\ used \subseteq Id /\ loose \subseteq Id

\* When no request is between the two, a job has a task that asks for it, and a
\* task that asks for a job has it, once, until a single job is used: unless a
\* request that changes the two failed or was overtaken between them.
JobsMatchTasks ==
  \A i \in Id \ loose : (\A r \in Request : Between(r) => Subject(r) # i) =>
    LET asked == IF Has(tasks, i) THEN {<<i, tasks[i].when>>} \ {<<i, "never">>} ELSE {} IN
    JobsOf(i) = asked \/ (JobsOf(i) = {} /\ i \in used)

\* What a start brings to hosts of a type is the script that the task's operation has
\* for the type, for all types that it has one for: as long as the operation has the
\* scripts it had when the task was added.
SentFits ==
  \A i \in Id : Has(tasks, i) /\ i \notin outdated /\ tasks[i].operate # None /\ sent[i] # None =>
    LET o == tasks[i].operate IN
    /\ \A j \in sent[i] : j[1] \in tasks[i].types /\ <<o, j[2]>> \in assoc /\ scripts[j[2]] = j[1]
    /\ \A t \in tasks[i].types : (\E s \in Of(o) : scripts[s] = t) => \E j \in sent[i] : j[1] = t

=============================================================================
