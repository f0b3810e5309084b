------------------------------ MODULE TaskPool ------------------------------
(***************************************************************************)
(* TaskPool: the singleton that runs the started tasks (operation-service, *)
(* framework/task/task_pool.py).  submit_task() puts a task on the queue   *)
(* of the registered pool, creating one when none is registered; the       *)
(* pool's consumer thread, start(), hands the tasks to an executor of      *)
(* max_running_job workers.  A pool ends in two ways: its consumer waits   *)
(* task_pool_timeout for a task in vain and drains it, or a submitter      *)
(* finds that it was given max_task_number_in_task_pool tasks and shuts    *)
(* it down.  Both, and a consumer that fails, delete the registration,     *)
(* whichever pool is registered by then, so several pools can be at work.  *)
(*                                                                         *)
(* A greenlet runs until it blocks: the consumer in get(), in the start of *)
(* an executor thread (it holds the executor's lock meanwhile) and in      *)
(* as_completed; a submitter only when it must wait for that lock.  The    *)
(* construction of a pool also blocks in Thread.start(), which only lets   *)
(* another submitter go first.  handle_exception() changes nothing: Task   *)
(* has no attribute objects, and the AttributeError is caught per task.    *)
(***************************************************************************)
EXTENDS Integers, Sequences, FiniteSets

CONSTANTS Task,          \* the task objects given to the pool, each once
          MaxRunning,    \* max_running_job
          MaxTasks       \* max_task_number_in_task_pool

ASSUME TaskAssumption == IsFiniteSet(Task)
ASSUME SizeAssumption == MaxRunning \in Nat \ {0} /\ MaxTasks \in Nat \ {0}

\* Pools are numbered in the order of their creation; each gets a first task.
Pool == 1..Cardinality(Task)

VARIABLES
  instance,        \* TaskPool._instance: {} when the attribute is not there
  created,         \* the pools created so far
  waiting_queue,   \* of each pool
  running_tasks,   \* of each pool: what it was given and did not drain
  consumer,        \* start() of each pool: where its thread is
  all_tasks,       \* start()'s list of what the executor accepted
  work_queue,      \* the executor's queue
  executing,       \* the tasks an executor thread runs
  shut,            \* pools whose executor was shut down
  closing,         \* pools whose submitter waits for the executor's lock
  finished,        \* tasks whose run() returned or raised
  raised           \* those whose run() raised (out of _handle_exception or _clean_env)

pool_vars == <<waiting_queue, running_tasks, consumer, all_tasks, work_queue>>
all_vars == <<instance, created, pool_vars, executing, shut, closing, finished, raised>>

PoolInit ==
  /\ instance = {} /\ created = {}
  /\ waiting_queue = [p \in Pool |-> << >>]
  /\ running_tasks = [p \in Pool |-> {}]
  /\ consumer      = [p \in Pool |-> "none"]
  /\ all_tasks     = [p \in Pool |-> {}]
  /\ work_queue    = [p \in Pool |-> << >>]
  /\ executing = {} /\ shut = {} /\ closing = {} /\ finished = {} /\ raised = {}

\* The executor's lock is held while its first threads are started.
LockFree(p) == consumer[p] # "starting thread"

\* TaskPool(): the registered pool, or a new one.
Found == IF instance # {} THEN instance ELSE {Cardinality(created) + 1}

Given(t) == \E p \in Pool : t \in running_tasks[p]

Reaches(tasks) == Cardinality(tasks) >= MaxTasks

SubmitTask(t) ==
  /\ t \notin finished /\ ~Given(t)
  /\ \E p \in Found :
       /\ created' = created \cup {p}
       /\ consumer' = [consumer EXCEPT ![p] = IF p \in created THEN @ ELSE "get"]
       /\ running_tasks' = [running_tasks EXCEPT ![p] = @ \cup {t}]
       /\ waiting_queue' = [waiting_queue EXCEPT ![p] = Append(@, t)]
       /\ IF Reaches(running_tasks'[p])
          THEN /\ instance' = {}
               /\ shut'    = IF LockFree(p) THEN shut \cup {p} ELSE shut
               /\ closing' = IF LockFree(p) THEN closing ELSE closing \cup {p}
          ELSE /\ instance' = {p}
               /\ UNCHANGED <<shut, closing>>
  /\ UNCHANGED <<all_tasks, work_queue, executing, finished, raised>>

Shutdown(p) ==
  /\ p \in closing /\ LockFree(p)
  /\ closing' = closing \ {p}
  /\ shut' = shut \cup {p}
  /\ UNCHANGED <<instance, created, pool_vars, executing, finished, raised>>

\* Seeded defect: the task is read and not taken off the queue.
Consume_Peek(p) ==
  /\ consumer[p] = "get" /\ waiting_queue[p] # << >> /\ p \notin shut
  /\ all_tasks'  = [all_tasks EXCEPT ![p] = @ \cup {Head(waiting_queue[p])}]
  /\ work_queue' = [work_queue EXCEPT ![p] = Append(@, Head(waiting_queue[p]))]
  /\ UNCHANGED <<instance, created, waiting_queue, running_tasks, consumer, executing, shut,
                 closing, finished, raised>>

\* The consumer gets a task and submits it; it may have to start a thread for
\* it, while the executor has fewer than MaxRunning.
Consume(p) ==
  /\ consumer[p] = "get" /\ waiting_queue[p] # << >> /\ p \notin shut
  /\ waiting_queue' = [waiting_queue EXCEPT ![p] = Tail(@)]
  /\ all_tasks'  = [all_tasks EXCEPT ![p] = @ \cup {Head(waiting_queue[p])}]
  /\ work_queue' = [work_queue EXCEPT ![p] = Append(@, Head(waiting_queue[p]))]
  /\ \E next \in {"get"} \cup {c \in {"starting thread"} : Cardinality(all_tasks[p]) < MaxRunning} :
       consumer' = [consumer EXCEPT ![p] = next]
  /\ UNCHANGED <<instance, created, running_tasks, executing, shut, closing, finished, raised>>

ThreadStarted(p) ==
  /\ consumer[p] = "starting thread"
  /\ consumer' = [consumer EXCEPT ![p] = "get"]
  /\ UNCHANGED <<instance, created, waiting_queue, running_tasks, all_tasks, work_queue,
                 executing, shut, closing, finished, raised>>

\* submit() of an executor that was shut down raises: start() ends, and with it
\* the task it had taken from the queue.
ConsumerFails(p) ==
  /\ consumer[p] = "get" /\ waiting_queue[p] # << >> /\ p \in shut
  /\ waiting_queue' = [waiting_queue EXCEPT ![p] = Tail(@)]
  /\ consumer' = [consumer EXCEPT ![p] = "ended"]
  /\ instance' = {}
  /\ UNCHANGED <<created, running_tasks, all_tasks, work_queue,
                 executing, shut, closing, finished, raised>>

\* Seeded defect: the registration is kept when the consumer leaves.
Idle_Registered(p) ==
  /\ consumer[p] = "get" /\ waiting_queue[p] = << >>
  /\ consumer' = [consumer EXCEPT ![p] = "drain"]
  /\ UNCHANGED <<instance, created, waiting_queue, running_tasks, all_tasks, work_queue,
                 executing, shut, closing, finished, raised>>

\* get() times out.
Idle(p) ==
  /\ consumer[p] = "get" /\ waiting_queue[p] = << >>
  /\ consumer' = [consumer EXCEPT ![p] = "drain"]
  /\ instance' = {}
  /\ UNCHANGED <<created, waiting_queue, running_tasks, all_tasks, work_queue,
                 executing, shut, closing, finished, raised>>

\* as_completed(all_tasks) has yielded them all, then the finally clause.
Drained(p) ==
  /\ consumer[p] = "drain" /\ all_tasks[p] \subseteq finished \ raised
  /\ running_tasks' = [running_tasks EXCEPT ![p] = @ \ all_tasks[p]]
  /\ consumer' = [consumer EXCEPT ![p] = "ended"]
  /\ shut' = shut \cup {p}
  /\ UNCHANGED <<instance, created, waiting_queue, all_tasks, work_queue,
                 executing, closing, finished, raised>>

\* A run that raised makes task.result() raise: the pool is given up while
\* other tasks may still be queued or running in its executor.
DrainFails(p) ==
  /\ consumer[p] = "drain" /\ all_tasks[p] \cap raised # {}
  /\ \E yielded \in SUBSET (all_tasks[p] \cap (finished \ raised)) :
       running_tasks' = [running_tasks EXCEPT ![p] = @ \ yielded]
  /\ consumer' = [consumer EXCEPT ![p] = "ended"]
  /\ shut' = shut \cup {p}
  /\ UNCHANGED <<instance, created, waiting_queue, all_tasks, work_queue,
                 executing, closing, finished, raised>>

\* An executor thread takes the next task, also after shutdown(wait=False).
RunTask(p) ==
  /\ work_queue[p] # << >>
  /\ Cardinality(executing \cap all_tasks[p]) < MaxRunning
  /\ executing' = executing \cup {Head(work_queue[p])}
  /\ work_queue' = [work_queue EXCEPT ![p] = Tail(@)]
  /\ UNCHANGED <<instance, created, waiting_queue, running_tasks, consumer, all_tasks,
                 shut, closing, finished, raised>>

FinishTask(t) ==
  /\ t \in executing
  /\ executing' = executing \ {t}
  /\ finished' = finished \cup {t}
  /\ raised' \in {raised, raised \cup {t}}
  /\ UNCHANGED <<instance, created, pool_vars, shut, closing>>

PoolStep(p) ==
  \/ Shutdown(p)
  \/ Consume(p)
  \/ ThreadStarted(p)
  \/ ConsumerFails(p)
  \/ Idle(p)
  \/ Drained(p)
  \/ DrainFails(p)
  \/ RunTask(p)

PoolNext ==
  \/ \E t \in Task : SubmitTask(t) \/ FinishTask(t)
  \/ \E p \in Pool : PoolStep(p)

\* Threads run when they can, get() does time out, and every run() returns (a
\* workflow gives up after its time budget, and the database answers or fails).
\* Nobody has to submit a task.
PoolFairness ==
  /\ \A p \in Pool :
       /\ WF_all_vars(Shutdown(p)) /\ WF_all_vars(RunTask(p))
       /\ WF_all_vars(Drained(p) \/ DrainFails(p))
       /\ WF_all_vars(Consume(p) \/ ThreadStarted(p) \/ ConsumerFails(p) \/ Idle(p))
  /\ \A t \in Task : WF_all_vars(FinishTask(t))

PoolSpec     == PoolInit /\ [][PoolNext]_all_vars
FairPoolSpec == PoolSpec /\ PoolFairness

-----------------------------------------------------------------------------
Elements(s) == {s[i] : i \in DOMAIN s}

PoolTypeOK ==
  /\ instance \in SUBSET created /\ Cardinality(instance) <= 1
  /\ created \in SUBSET Pool
  /\ waiting_queue \in [Pool -> Seq(Task)] /\ work_queue \in [Pool -> Seq(Task)]
  /\ running_tasks \in [Pool -> SUBSET Task] /\ all_tasks \in [Pool -> SUBSET Task]
  /\ consumer \in [Pool -> {"none", "get", "starting thread", "drain", "ended"}]
  /\ executing \in SUBSET Task /\ finished \in SUBSET Task /\ raised \in SUBSET finished
  /\ shut \in SUBSET created /\ closing \in SUBSET created

\* However pools replace each other, a task is in one place at most: it is run
\* once at most, and what waits does so in the pool it was given to.
EveryTaskOnce ==
  \A t \in Task :
    LET queued    == {p \in Pool : t \in Elements(waiting_queue[p])}
        submitted == {p \in Pool : t \in Elements(work_queue[p])}
    IN  /\ Cardinality(queued) + Cardinality(submitted)
             + Cardinality({t} \cap executing) + Cardinality({t} \cap finished) <= 1
        /\ \A p \in queued \cup submitted : t \in running_tasks[p]

\* The consumer of pool p ended before it had handed on task t: only in a pool that
\* was given as many tasks as it may have.
LostByFullPool(p, t) == consumer[p] = "ended" /\ t \notin all_tasks[p] /\ Reaches(running_tasks[p])

\* Every task that is submitted is run, whatever pools time out, fail or are shut
\* down meanwhile: but for the tasks that wait for the consumer of a pool that is
\* full, although the pool is said to wait for the end of its tasks.  What an
\* executor accepted is run also after the shutdown.
SubmittedIsRun ==
  \A p \in Pool, t \in Task :
    t \in running_tasks[p] ~> t \in finished \/ LostByFullPool(p, t)

=============================================================================
