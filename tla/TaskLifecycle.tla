---------------------------- MODULE TaskLifecycle ----------------------------
(***************************************************************************)
(* One task (one task_id) under the requests that start, retry, cancel and *)
(* delete it (operation-service, core/task_manager.py, proxy/task.py; the  *)
(* scheduler's jobs are start requests) and the runs these requests submit *)
(* to the task pool (framework/task/task_factory/base_task.py and its      *)
(* subclasses).  They share the task's row, of which the status matters,   *)
(* and the task's directory under WORK_DIR.                                *)
(*                                                                         *)
(* Every access to the database blocks, so each is a step of its own and   *)
(* what was read may be stale when it is acted on; the file operations     *)
(* between two of them belong to the step before.  Each may also fail, and *)
(* the task pool loses the runs that wait in it when it fills.  A restart  *)
(* of the service loses the requests and the runs and keeps row and        *)
(* directory.                                                              *)
(*                                                                         *)
(* A task has one task_case_node, hence a start has one run, named by its  *)
(* request.  The results directory is left out.                            *)
(***************************************************************************)
EXTENDS FiniteSets, Integers

CONSTANTS Request,    \* requests for the task, each used once
          Kinds,      \* what they may ask for
          MaxBusy,    \* how many requests are handled at the same time
          Restarts    \* whether the service may restart (once)

ASSUME RequestAssumption == IsFiniteSet(Request)
ASSUME KindsAssumption   == Kinds \subseteq {"start", "retry", "cancel", "delete"}
ASSUME BusyAssumption    == MaxBusy \in Nat \ {0} /\ Restarts \in BOOLEAN

VARIABLES
  req,        \* where each request is
  run,        \* where the run a request submitted is
  status,     \* Task.status; "none" is NULL, "deleted" that there is no row
  writer,     \* history: the request that wrote the status, or whose run did
  work_dir,   \* WORK_DIR/task_id: {} or {the request that made it}
  unwritten,  \* history: the requests whose run could not write how it ended
  restarted,
  orderly     \* history: only deletions, and retries one at a time, came so far

row  == <<status, writer>>
vars == <<req, run, row, work_dir, unwritten, restarted, orderly>>

Init ==
  /\ req = [r \in Request |-> "new"]
  /\ run = [r \in Request |-> "none"]
  /\ status = "none" /\ writer = {} /\ work_dir = {} /\ unwritten = {}
  /\ restarted = FALSE /\ orderly = TRUE

\* An UPDATE of the row, which changes nothing when there is none.
Write(r, s) == IF status = "deleted" THEN UNCHANGED row ELSE status' = s /\ writer' = {r}

Goes(r, to)     == req' = [req EXCEPT ![r] = to]
RunGoes(r, to)  == run' = [run EXCEPT ![r] = to]

Busy == {"begin", "build", "reset", "wait", "submit", "cancel"}
InHand == {r \in Request : req[r] \in Busy}

Arrives(r, k) ==
  /\ req[r] = "new" /\ k \in Kinds
  /\ Cardinality(InHand) < MaxBusy
  /\ orderly' = (orderly /\ (k = "delete" \/ (k = "retry" /\ InHand = {})))

-----------------------------------------------------------------------------
(* TaskManager.                                                            *)

\* start_task reads the task and makes its directory anew.
MakeDirs(r) ==
  /\ IF status = "deleted"
     THEN Goes(r, "refused") /\ UNCHANGED work_dir
     ELSE Goes(r, "build") /\ work_dir' = {r}
  /\ UNCHANGED <<run, row, unwritten, restarted>>

Start(r) == Arrives(r, "start") /\ MakeDirs(r)

\* Seeded defect: a retry is refused to a running task only.
RetryCheck_Running(r) ==
  /\ Arrives(r, "retry")
  /\ Goes(r, IF status \in {"RUNNING", "deleted"} THEN "refused" ELSE "begin")
  /\ UNCHANGED <<run, row, work_dir, unwritten, restarted>>

\* retry_task reads the status; start_task reads the task once more.
RetryCheck(r) ==
  /\ Arrives(r, "retry")
  /\ Goes(r, IF status \in {"RUNNING", "WAITING", "deleted"} THEN "refused" ELSE "begin")
  /\ UNCHANGED <<run, row, work_dir, unwritten, restarted>>

RetryStart(r) == req[r] = "begin" /\ MakeDirs(r) /\ UNCHANGED orderly

\* TaskFactory.get_tasks_with_task_type: the hosts are read, the workflow file
\* is written to the directory, which must still be there, and init() accepts
\* the workflow.
Build(r) ==
  /\ req[r] = "build" /\ work_dir # {}
  /\ Goes(r, "reset")
  /\ UNCHANGED <<run, row, work_dir, unwritten, restarted, orderly>>

\* The directory is gone, a host or command is missing, or init() raises.
BuildFails(r) ==
  /\ req[r] = "build"
  /\ work_dir' = {}
  /\ Goes(r, "failed")
  /\ UNCHANGED <<run, row, unwritten, restarted, orderly>>

ResetTaskStatus(r) ==
  /\ req[r] = "reset"
  /\ Write(r, "RUNNABLE")
  /\ Goes(r, "wait")
  /\ UNCHANGED <<run, work_dir, unwritten, restarted, orderly>>

SetWaitStatus(r) ==
  /\ req[r] = "wait"
  /\ Write(r, "WAITING")
  /\ Goes(r, "submit")
  /\ UNCHANGED <<run, work_dir, unwritten, restarted, orderly>>

Submit(r) ==
  /\ req[r] = "submit"
  /\ RunGoes(r, "queued")
  /\ Goes(r, "done")
  /\ UNCHANGED <<row, work_dir, unwritten, restarted, orderly>>

CancelCheck(r) ==
  /\ Arrives(r, "cancel")
  /\ Goes(r, IF status = "RUNNING" THEN "cancel" ELSE "refused")
  /\ UNCHANGED <<run, row, work_dir, unwritten, restarted>>

CancelTask(r) ==
  /\ req[r] = "cancel"
  /\ Write(r, "CANCELED")
  /\ Goes(r, "done")
  /\ UNCHANGED <<run, work_dir, unwritten, restarted, orderly>>

\* batch_delete_task; a run of the task goes on.
Delete(r) ==
  /\ Arrives(r, "delete")
  /\ status' = "deleted" /\ UNCHANGED writer
  /\ Goes(r, "done")
  /\ UNCHANGED <<run, work_dir, unwritten, restarted>>

\* The database fails: what get_task_by_id, reset_task_status, set_wait_status or
\* cancel_task raises is caught nowhere, and what the request did before stays.
RequestRaises(r) ==
  /\ req[r] \in {"begin", "reset", "wait", "cancel"}
  /\ Goes(r, "raised")
  /\ UNCHANGED <<run, row, work_dir, unwritten, restarted, orderly>>

-----------------------------------------------------------------------------
(* BaseTask.run().                                                         *)

\* The pool fills before its consumer has handed the run to the executor.
Dropped(r) ==
  /\ run[r] = "queued"
  /\ RunGoes(r, "lost")
  /\ UNCHANGED <<req, row, work_dir, unwritten, restarted, orderly>>

\* _pre_start reads the task; one that is gone makes it raise.
PreStart(r) ==
  /\ run[r] = "queued"
  /\ RunGoes(r, CASE status = "deleted" -> "UNKNOWN"
                  [] status = "RUNNING" -> "running"
                  [] OTHER              -> "mark")
  /\ UNCHANGED <<req, row, work_dir, unwritten, restarted, orderly>>

SetRunningStatus(r) ==
  /\ run[r] = "mark"
  /\ Write(r, "RUNNING")
  /\ RunGoes(r, "running")
  /\ UNCHANGED <<req, work_dir, unwritten, restarted, orderly>>

\* update_progress and workflow.start(), which returns with status NORMAL or
\* another; either may raise.
WorkflowEnds(r, to) ==
  /\ run[r] = "running"
  /\ RunGoes(r, to)
  /\ UNCHANGED <<req, row, work_dir, unwritten, restarted, orderly>>

\* What a run ends with, and where it is before it writes that.
Outcome == {"SUCCESS", "TIMEOUT", "UNKNOWN"}
Ends    == Outcome \cup {"abnormal"}

\* Seeded defect: the task is expected to be WAITING.
PostSuccess_Waiting(r) ==
  /\ run[r] = "check"
  /\ RunGoes(r, CASE status = "deleted" -> "UNKNOWN"
                  [] status = "WAITING" -> "SUCCESS"
                  [] OTHER              -> "clean")
  /\ UNCHANGED <<req, row, work_dir, unwritten, restarted, orderly>>

\* _post_success reads the status: SUCCESS is for a RUNNING task only.
PostSuccess(r) ==
  /\ run[r] = "check"
  /\ RunGoes(r, CASE status = "deleted" -> "UNKNOWN"
                  [] status = "RUNNING" -> "SUCCESS"
                  [] OTHER              -> "clean")
  /\ UNCHANGED <<req, row, work_dir, unwritten, restarted, orderly>>

\* _post_success writes SUCCESS, run() UNKNOWN for a workflow that is not NORMAL,
\* and _handle_exception what the exception stands for.
WriteOutcome(r) ==
  /\ run[r] \in Ends
  /\ Write(r, IF run[r] = "abnormal" THEN "UNKNOWN" ELSE run[r])
  /\ RunGoes(r, "clean")
  /\ UNCHANGED <<req, work_dir, unwritten, restarted, orderly>>

\* The database fails in the try of run(): _handle_exception is next.
RunRaises(r) ==
  /\ run[r] \in {"queued", "mark", "check", "SUCCESS", "abnormal"}
  /\ RunGoes(r, "UNKNOWN")
  /\ UNCHANGED <<req, row, work_dir, unwritten, restarted, orderly>>

\* Seeded defect: _handle_exception leaves run() before its finally clause.
OutcomeUnwritten_Leaves(r) ==
  /\ run[r] \in {"TIMEOUT", "UNKNOWN"}
  /\ unwritten' = unwritten \cup {r}
  /\ RunGoes(r, "raised")
  /\ UNCHANGED <<req, row, work_dir, restarted, orderly>>

\* It fails in _handle_exception: the status stays, the finally clause is next.
OutcomeUnwritten(r) ==
  /\ run[r] \in {"TIMEOUT", "UNKNOWN"}
  /\ unwritten' = unwritten \cup {r}
  /\ RunGoes(r, "clean")
  /\ UNCHANGED <<req, row, work_dir, restarted, orderly>>

\* _clean_env removes the directory, whoever made it, and raises without one.
CleanEnv(r) ==
  /\ run[r] = "clean"
  /\ RunGoes(r, IF work_dir = {} THEN "raised" ELSE "ended")
  /\ work_dir' = {}
  /\ UNCHANGED <<req, row, unwritten, restarted, orderly>>

-----------------------------------------------------------------------------
Restart ==
  /\ Restarts /\ ~restarted
  /\ restarted' = TRUE
  /\ req' = [r \in Request |-> IF req[r] \in Busy THEN "lost" ELSE req[r]]
  /\ run' = [r \in Request |-> IF run[r] \in {"none", "ended", "raised"} THEN run[r] ELSE "lost"]
  /\ UNCHANGED <<row, work_dir, unwritten, orderly>>

Handle(r) ==
  \/ RetryStart(r) \/ Build(r) \/ BuildFails(r) \/ ResetTaskStatus(r)
  \/ SetWaitStatus(r) \/ Submit(r) \/ CancelTask(r) \/ RequestRaises(r)

Run(r) ==
  \/ Dropped(r) \/ PreStart(r) \/ SetRunningStatus(r)
  \/ \E to \in {"check", "abnormal", "TIMEOUT", "UNKNOWN"} : WorkflowEnds(r, to)
  \/ PostSuccess(r) \/ WriteOutcome(r) \/ RunRaises(r) \/ OutcomeUnwritten(r) \/ CleanEnv(r)

Next ==
  \/ \E r \in Request : Start(r) \/ RetryCheck(r) \/ CancelCheck(r) \/ Delete(r)
  \/ \E r \in Request : Handle(r)
  \/ \E r \in Request : Run(r)
  \/ Restart

\* Requests are answered, and a run that waits in the pool is begun or lost
\* (TaskPool!SubmittedIsRun) and ends, since the workflow has a time budget
\* (Workflow).  No request has to come.
Fairness == \A r \in Request : WF_vars(Handle(r)) /\ WF_vars(Run(r))

Spec     == Init /\ [][Next]_vars
FairSpec == Spec /\ Fairness

-----------------------------------------------------------------------------
InFlight   == {"RUNNABLE", "WAITING", "RUNNING"}
Starting   == {r \in Request : req[r] \in {"build", "reset", "wait", "submit"}}
Unmarked   == {r \in Request : run[r] \in {"queued", "mark"}}
Executing  == {r \in Request : run[r] \in {"running", "check"} \cup Ends}
Cleaning   == {r \in Request : run[r] = "clean"}

\* A request that ended on its way from the directory to the pool, or whose run
\* was lost.
Abandoned  == {r \in Request : req[r] \in {"raised", "lost"} \/ run[r] = "lost"}

TypeOK ==
  /\ req \in [Request -> {"new", "done", "refused", "failed", "raised", "lost"} \cup Busy]
  /\ run \in [Request -> {"none", "queued", "mark", "running", "check", "clean",
                          "ended", "raised", "lost"} \cup Ends]
  /\ status \in {"none", "deleted", "CANCELED"} \cup InFlight \cup Outcome
  /\ writer \in SUBSET Request
  /\ work_dir \in SUBSET Request /\ unwritten \in SUBSET Request
  /\ restarted \in BOOLEAN /\ orderly \in BOOLEAN

\* Where the request that wrote the status, or its run, must be to change it.
Owns(r) ==
  \/ status = "RUNNABLE" /\ req[r] = "wait"
  \/ status = "WAITING" /\ (req[r] = "submit" \/ r \in Unmarked \/ run[r] = "UNKNOWN")
  \/ status = "RUNNING" /\ r \in Executing

\* A status that says the task is under way was written by a request that is about
\* to change it, or whose run is, whatever concurrent starts, cancels and runs read
\* and wrote meanwhile: unless that very request raised, its run was lost by the
\* pool or by a restart, or the database did not take how its run ended.
InFlightStatusHasOwner ==
  status \in InFlight => \E r \in writer : Owns(r) \/ r \in Abandoned \cup unwritten

\* The task's directory does not outlive the request that made it and the run of
\* that request, although any of them may remove the directory of another:
\* unless that request or run was lost or the request raised between making
\* the directory and submitting the run.  A run that cannot write how it ended
\* removes it all the same.
WorkDirHasOwner ==
  work_dir \subseteq Starting \cup Unmarked \cup Executing \cup Cleaning \cup Abandoned

\* Retries that come one at a time, among deletions, never have two runs of the
\* task: the status that is tested covers the whole life of a run up to its
\* outcome.
OneRunAtATime == orderly => \A p, q \in Unmarked \cup Executing : p = q

\* When no more requests come, the row ends with a status that says how the
\* task ended and not that it is under way: unless what wrote it was abandoned
\* or could not write the outcome.
Settles == <>[](status \in InFlight => writer \subseteq Abandoned \cup unwritten)

=============================================================================
