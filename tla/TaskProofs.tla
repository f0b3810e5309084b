------------------------------ MODULE TaskProofs ------------------------------
(***************************************************************************)
(* What becomes of a task before and while it runs: the pool it is given   *)
(* to (TaskPool), for any number of tasks, executor threads and any size   *)
(* of a pool; the life of one task under its requests (TaskLifecycle), for *)
(* any number of requests of any kind; and the graph of work nodes it is   *)
(* given by WorkFlow.init() (WorkflowInit), for any well-formed workflow   *)
(* description.                                                            *)
(***************************************************************************)
EXTENDS TaskPool, TaskLifecycle, WorkflowInit, Integers, FiniteSetTheorems, WellFoundedInduction, TLAPS

-----------------------------------------------------------------------------
(* Queues.                                                                 *)

\* No task is twice in the queue s.
Distinct(s) == \A i, j \in DOMAIN s : s[i] = s[j] => i = j

LEMMA Joins ==
  ASSUME NEW s \in Seq(Task), NEW t \in Task
  PROVE  /\ Append(s, t) \in Seq(Task) /\ Elements(Append(s, t)) = Elements(s) \cup {t}
         /\ Distinct(s) /\ t \notin Elements(s) => Distinct(Append(s, t))
<1> DEFINE r == Append(s, t)
<1>1. /\ r \in Seq(Task) /\ Len(s) \in Nat /\ DOMAIN s = 1..Len(s)
      /\ DOMAIN r = 1..(Len(s) + 1)
      /\ \A i \in 1..Len(s) : r[i] = s[i]
      /\ r[Len(s) + 1] = t
  OBVIOUS
<1> HIDE DEF r
<1>2. Elements(r) \subseteq Elements(s) \cup {t}
  BY <1>1 DEF Elements
<1>3. ASSUME NEW i \in DOMAIN s PROVE s[i] \in Elements(r)
  <2>1. i \in DOMAIN r /\ r[i] = s[i]
    BY <1>1
  <2> QED BY <2>1 DEF Elements
<1>4. t \in Elements(r)
  <2>1. Len(s) + 1 \in DOMAIN r
    BY <1>1
  <2> QED BY <1>1, <2>1 DEF Elements
<1>5. ASSUME Distinct(s), t \notin Elements(s) PROVE Distinct(r)
  BY <1>1, <1>5 DEF Distinct, Elements
<1>6. Elements(r) = Elements(s) \cup {t}
  BY <1>2, <1>3, <1>4 DEF Elements
<1> QED BY <1>1, <1>5, <1>6 DEF r

LEMMA Leaves ==
  ASSUME NEW s \in Seq(Task), s # << >>
  PROVE  /\ Tail(s) \in Seq(Task) /\ Head(s) \in Elements(s) /\ Head(s) \in Task
         /\ Elements(Tail(s)) \subseteq Elements(s)
         /\ Distinct(s) => Distinct(Tail(s)) /\ Head(s) \notin Elements(Tail(s))
<1> DEFINE r == Tail(s)
<1>1. /\ r \in Seq(Task) /\ Len(s) \in Nat /\ Len(s) > 0 /\ DOMAIN s = 1..Len(s)
      /\ DOMAIN r = 1..(Len(s) - 1)
      /\ \A i \in 1..(Len(s) - 1) : r[i] = s[i + 1]
      /\ Head(s) = s[1] /\ Head(s) \in Task
  OBVIOUS
<1> HIDE DEF r
<1>2. Head(s) \in Elements(s)
  BY <1>1 DEF Elements
<1>3. ASSUME NEW i \in DOMAIN r
      PROVE  i + 1 \in DOMAIN s /\ i + 1 # 1 /\ 1 \in DOMAIN s /\ r[i] = s[i + 1]
  BY <1>1
<1>4. Elements(r) \subseteq Elements(s)
  BY <1>3 DEF Elements
<1>5. ASSUME Distinct(s) PROVE Distinct(r) /\ Head(s) \notin Elements(r)
  <2>1. Head(s) \notin Elements(r)
    BY <1>1, <1>3, <1>5 DEF Distinct, Elements
  <2>2. ASSUME NEW i \in DOMAIN r, NEW j \in DOMAIN r, r[i] = r[j] PROVE i = j
    <3>1. i + 1 = j + 1
      BY <1>3, <1>5, <2>2 DEF Distinct
    <3> QED BY <1>1, <3>1
  <2> QED BY <2>1, <2>2 DEF Distinct
<1> QED BY <1>1, <1>2, <1>4, <1>5 DEF r

-----------------------------------------------------------------------------
(* A task that waits somewhere belongs to that pool, and one that is being *)
(* executed to some pool, so neither can be submitted again; a pool gives  *)
(* up only tasks that have been executed.                                  *)

QueueType ==
  /\ waiting_queue \in [Pool -> Seq(Task)] /\ work_queue \in [Pool -> Seq(Task)]
  /\ running_tasks \in [Pool -> SUBSET Task]
  /\ executing \subseteq Task /\ finished \subseteq Task

\* Task t waits in pool p, for the consumer or for the executor.
Waits(p, t)    == t \in Elements(waiting_queue[p])
Accepted(p, t) == t \in Elements(work_queue[p])

NoneTwice == \A p \in Pool : Distinct(waiting_queue[p]) /\ Distinct(work_queue[p])

OnePlace(t) ==
  /\ \A p, q \in Pool : Waits(p, t) /\ Waits(q, t) => p = q
  /\ \A p, q \in Pool : Accepted(p, t) /\ Accepted(q, t) => p = q
  /\ \A p, q \in Pool : ~(Waits(p, t) /\ Accepted(q, t))
  /\ \A p \in Pool : Waits(p, t) \/ Accepted(p, t) =>
       t \in running_tasks[p] /\ t \notin executing /\ t \notin finished
  /\ t \in executing => Given(t) /\ t \notin finished

PoolInv == QueueType /\ NoneTwice /\ \A t \in Task : OnePlace(t)

LEMMA PoolInvStart == PoolInit => PoolInv
BY DEF PoolInit, PoolInv, QueueType, NoneTwice, OnePlace, Distinct, Elements, Waits, Accepted

LEMMA SubmitOk == ASSUME PoolInv, NEW t \in Task, SubmitTask(t) PROVE PoolInv'
<1>1. PICK p \in Found :
        /\ running_tasks' = [running_tasks EXCEPT ![p] = @ \cup {t}]
        /\ waiting_queue' = [waiting_queue EXCEPT ![p] = Append(@, t)]
  BY DEF SubmitTask
<1>2. UNCHANGED <<work_queue, executing, finished>> /\ t \notin finished /\ ~Given(t)
  BY DEF SubmitTask
<1>3. QueueType /\ NoneTwice /\ \A u \in Task : OnePlace(u)
  BY DEF PoolInv
<1>4. CASE p \notin Pool
  <2>1. UNCHANGED <<running_tasks, waiting_queue>>
    BY <1>1, <1>3, <1>4 DEF QueueType
  <2> QED BY <1>2, <1>3, <2>1 DEF PoolInv, QueueType, NoneTwice, OnePlace, Waits, Accepted, Given
<1>5. CASE p \in Pool
  <2>1. \A q \in Pool : ~Waits(q, t) /\ ~Accepted(q, t)
    BY <1>2, <1>3 DEF OnePlace, Given
  <2>2. /\ Append(waiting_queue[p], t) \in Seq(Task)
        /\ Elements(Append(waiting_queue[p], t)) = Elements(waiting_queue[p]) \cup {t}
        /\ Distinct(Append(waiting_queue[p], t))
    BY <1>3, <1>5, <2>1, Joins DEF QueueType, NoneTwice, Waits
  <2>3. QueueType' /\ NoneTwice'
    BY <1>1, <1>2, <1>3, <1>5, <2>2 DEF QueueType, NoneTwice
  <2>4. ASSUME NEW q \in Pool, NEW u
        PROVE  /\ Waits(q, u)' <=> Waits(q, u) \/ (q = p /\ u = t)
               /\ Accepted(q, u)' <=> Accepted(q, u)
               /\ u \in running_tasks[q] => u \in running_tasks'[q]
    <3>1. CASE q = p
      BY <1>1, <1>2, <1>3, <2>2, <3>1 DEF QueueType, Waits, Accepted
    <3>2. CASE q # p
      <4>1. waiting_queue'[q] = waiting_queue[q] /\ running_tasks'[q] = running_tasks[q]
        BY <1>1, <1>3, <3>2 DEF QueueType
      <4> QED BY <1>2, <3>2, <4>1 DEF Waits, Accepted
    <3> QED BY <3>1, <3>2
  <2>5. t \notin executing /\ t \in running_tasks'[p]
    <3>1. t \notin executing
      BY <1>2, <1>3 DEF OnePlace
    <3> QED BY <1>1, <1>3, <1>5, <3>1 DEF QueueType
  <2>6. ASSUME NEW u \in Task PROVE OnePlace(u)'
    <3>1. CASE u = t
      <4>1. \A q \in Pool : (Waits(q, u)' <=> q = p) /\ ~Accepted(q, u)'
        BY <2>1, <2>4, <3>1
      <4> QED BY <1>2, <2>5, <3>1, <4>1 DEF OnePlace
    <3>2. CASE u # t
      <4>1. \A q \in Pool : /\ Waits(q, u)' <=> Waits(q, u)
                            /\ Accepted(q, u)' <=> Accepted(q, u)
                            /\ u \in running_tasks[q] => u \in running_tasks'[q]
        BY <2>4, <3>2
      <4> QED BY <1>2, <1>3, <4>1 DEF OnePlace, Given
    <3> QED BY <3>1, <3>2
  <2> QED BY <2>3, <2>6 DEF PoolInv
<1> QED BY <1>4, <1>5

LEMMA ConsumeOk == ASSUME PoolInv, NEW p \in Pool, Consume(p) PROVE PoolInv'
<1> DEFINE t == Head(waiting_queue[p])
<1>1. /\ waiting_queue[p] # << >>
      /\ waiting_queue' = [waiting_queue EXCEPT ![p] = Tail(@)]
      /\ work_queue' = [work_queue EXCEPT ![p] = Append(@, t)]
      /\ UNCHANGED <<running_tasks, executing, finished>>
  BY DEF Consume
<1>2. QueueType /\ NoneTwice /\ \A u \in Task : OnePlace(u)
  BY DEF PoolInv
<1>3. waiting_queue[p] \in Seq(Task) /\ work_queue[p] \in Seq(Task)
  BY <1>2 DEF QueueType
<1>4. /\ Tail(waiting_queue[p]) \in Seq(Task) /\ t \in Task /\ Waits(p, t)
      /\ Elements(Tail(waiting_queue[p])) \subseteq Elements(waiting_queue[p])
      /\ Distinct(Tail(waiting_queue[p])) /\ t \notin Elements(Tail(waiting_queue[p]))
  BY <1>1, <1>2, <1>3, Leaves DEF NoneTwice, Waits
<1> HIDE DEF t
<1>5. \A q \in Pool : ~Accepted(q, t)
  BY <1>2, <1>4 DEF OnePlace
<1>6. /\ Append(work_queue[p], t) \in Seq(Task)
      /\ Elements(Append(work_queue[p], t)) = Elements(work_queue[p]) \cup {t}
      /\ Distinct(Append(work_queue[p], t))
  BY <1>2, <1>3, <1>4, <1>5, Joins DEF NoneTwice, Accepted
<1>7. QueueType' /\ NoneTwice'
  BY <1>1, <1>2, <1>4, <1>6 DEF QueueType, NoneTwice
<1>8. \A q \in Pool : /\ \A u : Waits(q, u)' => Waits(q, u) /\ ~(q = p /\ u = t)
                      /\ \A u : Accepted(q, u)' <=> Accepted(q, u) \/ (q = p /\ u = t)
  BY <1>1, <1>2, <1>4, <1>6 DEF QueueType, Waits, Accepted
<1>9. ASSUME NEW u \in Task PROVE OnePlace(u)'
  <2>1. CASE u = t
    BY <1>1, <1>2, <1>4, <1>5, <1>8, <2>1 DEF OnePlace
  <2>2. CASE u # t
    BY <1>1, <1>2, <1>8, <2>2 DEF OnePlace, Given
  <2> QED BY <2>1, <2>2
<1> QED BY <1>7, <1>9 DEF PoolInv

LEMMA RunTaskOk == ASSUME PoolInv, NEW p \in Pool, RunTask(p) PROVE PoolInv'
<1> DEFINE t == Head(work_queue[p])
<1>1. /\ work_queue[p] # << >>
      /\ work_queue' = [work_queue EXCEPT ![p] = Tail(@)]
      /\ executing' = executing \cup {t}
      /\ UNCHANGED <<waiting_queue, running_tasks, finished>>
  BY DEF RunTask
<1>2. QueueType /\ NoneTwice /\ \A u \in Task : OnePlace(u)
  BY DEF PoolInv
<1>3. /\ Tail(work_queue[p]) \in Seq(Task) /\ t \in Task /\ Accepted(p, t)
      /\ Elements(Tail(work_queue[p])) \subseteq Elements(work_queue[p])
      /\ Distinct(Tail(work_queue[p])) /\ t \notin Elements(Tail(work_queue[p]))
  <2>1. work_queue[p] \in Seq(Task)
    BY <1>2 DEF QueueType
  <2> QED BY <1>1, <1>2, <2>1, Leaves DEF NoneTwice, Accepted
<1> HIDE DEF t
<1>4. QueueType' /\ NoneTwice'
  BY <1>1, <1>2, <1>3 DEF QueueType, NoneTwice
<1>5. \A q \in Pool : /\ \A u : Waits(q, u)' <=> Waits(q, u)
                      /\ \A u : Accepted(q, u)' => Accepted(q, u) /\ ~(q = p /\ u = t)
  BY <1>1, <1>2, <1>3 DEF QueueType, Waits, Accepted
<1>6. ASSUME NEW u \in Task PROVE OnePlace(u)'
  <2>1. CASE u = t
    BY <1>1, <1>2, <1>3, <1>5, <2>1 DEF OnePlace, Given
  <2>2. CASE u # t
    BY <1>1, <1>2, <1>5, <2>2 DEF OnePlace, Given
  <2> QED BY <2>1, <2>2
<1> QED BY <1>4, <1>6 DEF PoolInv

\* A consumer that fails loses the task it took.
LEMMA ConsumerFailsOk == ASSUME PoolInv, NEW p \in Pool, ConsumerFails(p) PROVE PoolInv'
<1>1. /\ waiting_queue[p] # << >>
      /\ waiting_queue' = [waiting_queue EXCEPT ![p] = Tail(@)]
      /\ UNCHANGED <<work_queue, executing, running_tasks, finished>>
  BY DEF ConsumerFails
<1>2. QueueType /\ NoneTwice /\ \A u \in Task : OnePlace(u)
  BY DEF PoolInv
<1>3. /\ Tail(waiting_queue[p]) \in Seq(Task)
      /\ Elements(Tail(waiting_queue[p])) \subseteq Elements(waiting_queue[p])
      /\ Distinct(Tail(waiting_queue[p]))
  <2>1. waiting_queue[p] \in Seq(Task)
    BY <1>2 DEF QueueType
  <2> QED BY <1>1, <1>2, <2>1, Leaves DEF NoneTwice
<1>4. QueueType' /\ NoneTwice'
  BY <1>1, <1>2, <1>3 DEF QueueType, NoneTwice
<1>5. \A q \in Pool : \A u : (Waits(q, u)' => Waits(q, u)) /\ (Accepted(q, u)' <=> Accepted(q, u))
  BY <1>1, <1>2, <1>3 DEF QueueType, Waits, Accepted
<1>6. \A u \in Task : OnePlace(u)'
  BY <1>1, <1>2, <1>5 DEF OnePlace, Given
<1> QED BY <1>4, <1>6 DEF PoolInv

\* A pool that drained, or gave up draining, forgets tasks that are finished.
LEMMA DrainOk == ASSUME PoolInv, NEW p \in Pool, Drained(p) \/ DrainFails(p) PROVE PoolInv'
<1>1. PICK S \in SUBSET finished : running_tasks' = [running_tasks EXCEPT ![p] = @ \ S]
  BY DEF Drained, DrainFails
<1>2. UNCHANGED <<waiting_queue, work_queue, executing, finished>>
  BY DEF Drained, DrainFails
<1>3. QueueType /\ NoneTwice /\ \A u \in Task : OnePlace(u)
  BY DEF PoolInv
<1>4. QueueType' /\ NoneTwice'
  BY <1>1, <1>2, <1>3 DEF QueueType, NoneTwice
<1>5. \A q \in Pool : \A u : /\ Waits(q, u)' <=> Waits(q, u)
                             /\ Accepted(q, u)' <=> Accepted(q, u)
                             /\ u \in running_tasks[q] => u \in running_tasks'[q] \/ u \in finished
  BY <1>1, <1>2, <1>3 DEF QueueType, Waits, Accepted
<1>6. \A u \in Task : OnePlace(u)'
  BY <1>2, <1>3, <1>5 DEF OnePlace, Given
<1> QED BY <1>4, <1>6 DEF PoolInv

LEMMA FinishOk == ASSUME PoolInv, NEW t \in Task, FinishTask(t) PROVE PoolInv'
<1>1. /\ t \in executing /\ executing' = executing \ {t} /\ finished' = finished \cup {t}
      /\ UNCHANGED <<waiting_queue, work_queue, running_tasks>>
  BY DEF FinishTask, pool_vars
<1>2. QueueType /\ NoneTwice /\ \A u \in Task : OnePlace(u)
  BY DEF PoolInv
<1>3. QueueType' /\ NoneTwice'
  BY <1>1, <1>2 DEF QueueType, NoneTwice
<1>4. \A u \in Task : OnePlace(u)'
  BY <1>1, <1>2 DEF OnePlace, Given, Waits, Accepted
<1> QED BY <1>3, <1>4 DEF PoolInv

LEMMA PoolInvStep == PoolInv /\ [PoolNext]_all_vars => PoolInv'
<1> SUFFICES ASSUME PoolInv, [PoolNext]_all_vars PROVE PoolInv'
  OBVIOUS
<1>1. CASE \E t \in Task : SubmitTask(t) \/ FinishTask(t)
  BY <1>1, SubmitOk, FinishOk
<1>2. CASE \E p \in Pool : PoolStep(p)
  <2>1. PICK p \in Pool : PoolStep(p)
    BY <1>2
  <2>2. CASE Consume(p) \/ RunTask(p) \/ ConsumerFails(p) \/ Drained(p) \/ DrainFails(p)
    BY <2>2, ConsumeOk, RunTaskOk, ConsumerFailsOk, DrainOk
  <2>3. CASE Shutdown(p) \/ ThreadStarted(p) \/ Idle(p)
    <3>1. UNCHANGED <<waiting_queue, work_queue, running_tasks, executing, finished>>
      BY <2>3 DEF Shutdown, ThreadStarted, Idle, pool_vars
    <3> QED BY <3>1 DEF PoolInv, QueueType, NoneTwice, OnePlace, Given, Waits, Accepted
  <2> QED BY <2>1, <2>2, <2>3 DEF PoolStep
<1>3. CASE UNCHANGED all_vars
  <2>1. UNCHANGED <<waiting_queue, work_queue, running_tasks, executing, finished>>
    BY <1>3 DEF all_vars, pool_vars
  <2> QED BY <2>1 DEF PoolInv, QueueType, NoneTwice, OnePlace, Given, Waits, Accepted
<1> QED BY <1>1, <1>2, <1>3 DEF PoolNext

LEMMA PoolInvHolds == PoolSpec => []PoolInv
BY PoolInvStart, PoolInvStep, PTL DEF PoolSpec

-----------------------------------------------------------------------------
\* A set of equals has one element at most.
LEMMA AtMostOne ==
  ASSUME NEW S, \A x, y \in S : x = y
  PROVE  (Cardinality(S) = 0 /\ S = {}) \/ (Cardinality(S) = 1 /\ S # {})
<1>1. CASE S = {}
  BY <1>1, FS_EmptySet
<1>2. CASE S # {}
  <2>1. PICK x : S = {x}
    BY <1>2
  <2> QED BY <1>2, <2>1, FS_Singleton
<1> QED BY <1>1, <1>2

\* However pools replace each other, are filled, time out and fail
\* (TaskPool.submit_task, start and their handlers in task_pool.py), a task is in
\* one place at most and is run once at most, by the pool it was given to.  A task
\* that a full pool lost is in none.
THEOREM RunAtMostOnce == PoolSpec => []EveryTaskOnce
<1>1. PoolInv => EveryTaskOnce
  <2> SUFFICES ASSUME PoolInv, NEW t \in Task
               PROVE  LET queued    == {p \in Pool : t \in Elements(waiting_queue[p])}
                          submitted == {p \in Pool : t \in Elements(work_queue[p])}
                      IN  /\ Cardinality(queued) + Cardinality(submitted)
                               + Cardinality({t} \cap executing)
                               + Cardinality({t} \cap finished) <= 1
                          /\ \A p \in queued \cup submitted : t \in running_tasks[p]
    BY DEF EveryTaskOnce
  <2> DEFINE queued    == {p \in Pool : t \in Elements(waiting_queue[p])}
             submitted == {p \in Pool : t \in Elements(work_queue[p])}
  <2>1. OnePlace(t)
    BY DEF PoolInv
  <2>2. /\ \A p, q \in queued : p = q
        /\ \A p, q \in submitted : p = q
        /\ queued = {} \/ submitted = {}
        /\ queued # {} \/ submitted # {} => t \notin executing /\ t \notin finished
        /\ t \in executing => t \notin finished
        /\ \A p \in queued \cup submitted : t \in running_tasks[p]
    BY <2>1 DEF OnePlace, Waits, Accepted
  <2> HIDE DEF queued, submitted
  <2>3. /\ \/ Cardinality(queued) = 0 /\ queued = {}
           \/ Cardinality(queued) = 1 /\ queued # {}
        /\ \/ Cardinality(submitted) = 0 /\ submitted = {}
           \/ Cardinality(submitted) = 1 /\ submitted # {}
    BY <2>2, AtMostOne
  <2>4. /\ Cardinality({t} \cap executing) = IF t \in executing THEN 1 ELSE 0
        /\ Cardinality({t} \cap finished) = IF t \in finished THEN 1 ELSE 0
    <3>1. \A S : {t} \cap S = IF t \in S THEN {t} ELSE {}
      OBVIOUS
    <3> QED BY <3>1, FS_EmptySet, FS_Singleton
  <2>5. Cardinality(queued) + Cardinality(submitted) + Cardinality({t} \cap executing)
          + Cardinality({t} \cap finished) <= 1
    BY <2>2, <2>3, <2>4
  <2> QED BY <2>2, <2>5 DEF queued, submitted
<1> QED BY <1>1, PoolInvHolds, PTL

-----------------------------------------------------------------------------
(* The life of a task.  InFlightStatusHasOwner and WorkDirHasOwner say     *)
(* that a trace of work in progress (a status, the directory) has an       *)
(* owner, or had one that was abandoned; they are inductive once it is     *)
(* known that a request has no run before it submits one, so that Submit   *)
(* replaces none.  OneRunAtATime needs what the status is at each place of *)
(* the one request or run there is (StatusFollows).                        *)

\* Where requests and runs can be.
ReqPlace == {"new", "done", "refused", "failed", "raised", "lost"} \cup Busy
RunPlace == {"none", "queued", "mark", "running", "check", "clean",
             "ended", "raised", "lost"} \cup Ends

SubmitsOnce == \A r \in Request : req[r] \in {"new"} \cup Busy => run[r] = "none"

IInv == TypeOK /\ SubmitsOnce /\ InFlightStatusHasOwner /\ WorkDirHasOwner

USE DEF Goes, RunGoes, Write, Busy, Outcome, Ends, InFlight, row

LEMMA InitIInv == Init => IInv
BY DEF Init, IInv, TypeOK, SubmitsOnce, InFlightStatusHasOwner, WorkDirHasOwner

\* Request r, or its run, excuses a status in flight; it is there to remove the
\* directory, or was abandoned before it could.
Excuses(r) == Owns(r) \/ r \in Abandoned \cup unwritten
Holds(r)   == r \in Starting \cup Unmarked \cup Executing \cup Cleaning \cup Abandoned

\* What it takes of a step of request r or of its run.
LEMMA OwnersKept ==
  ASSUME IInv, NEW r \in Request, unwritten \subseteq unwritten',
         \A q \in Request \ {r} : req'[q] = req[q] /\ run'[q] = run[q],
         \/ status' \notin InFlight
         \/ status' = status /\ writer' = writer /\ (status \in InFlight
            /\ Excuses(r) => Excuses(r)')
         \/ writer' = {r} /\ Excuses(r)',
         \/ work_dir' = {}
         \/ work_dir' = {r} /\ Holds(r)'
         \/ work_dir' = work_dir /\ (Holds(r) => Holds(r)')
  PROVE  InFlightStatusHasOwner' /\ WorkDirHasOwner'
<1>1. ASSUME NEW q \in Request \ {r}
      PROVE  /\ status' = status /\ Excuses(q) => Excuses(q)'
             /\ Holds(q) => Holds(q)'
  BY <1>1 DEF Excuses, Holds, Owns, Abandoned, Starting, Unmarked, Executing, Cleaning
<1>2. writer \subseteq Request /\ work_dir \subseteq Request
  BY DEF IInv, TypeOK
<1>3. (status \in InFlight => \E q \in writer : Excuses(q)) /\ \A q \in work_dir : Holds(q)
  BY DEF IInv, InFlightStatusHasOwner, WorkDirHasOwner, Excuses, Holds
<1>4. status' \in InFlight => \E q \in writer' : Excuses(q)'
  BY <1>1, <1>2, <1>3
<1>5. \A q \in work_dir' : Holds(q)'
  BY <1>1, <1>2, <1>3
<1> QED BY <1>4, <1>5 DEF InFlightStatusHasOwner, WorkDirHasOwner, Excuses, Holds

\* A step of request r that leaves its run alone.
LEMMA RequestKept ==
  ASSUME IInv, NEW r \in Request, NEW to \in ReqPlace,
         req' = [req EXCEPT ![r] = to], UNCHANGED <<run, unwritten, restarted>>,
         orderly' \in BOOLEAN, run[r] = "none"
  PROVE  /\ SubmitsOnce' /\ \A q \in Request \ {r} : req'[q] = req[q] /\ run'[q] = run[q]
         /\ req'[r] = to /\ run'[r] = "none" /\ req' \in [Request -> ReqPlace]
BY DEF IInv, TypeOK, SubmitsOnce, ReqPlace

\* The request makes its directory, or is refused.
LEMMA MakeDirsIInv ==
  ASSUME IInv, NEW r \in Request, MakeDirs(r), req[r] \in {"new", "begin"}, orderly' \in BOOLEAN
  PROVE  IInv'
<1>1. PICK to \in {"refused", "build"} :
        /\ req' = [req EXCEPT ![r] = to] /\ UNCHANGED <<run, row, unwritten, restarted>>
        /\ to = "refused" => work_dir' = work_dir
        /\ to = "build" => work_dir' = {r}
  BY DEF MakeDirs
<1>2. run[r] = "none" /\ to \in ReqPlace /\ status' = status /\ writer' = writer
  BY <1>1 DEF IInv, SubmitsOnce, ReqPlace
<1>3. /\ SubmitsOnce' /\ (\A q \in Request \ {r} : req'[q] = req[q] /\ run'[q] = run[q])
      /\ req'[r] = to /\ run'[r] = "none" /\ req' \in [Request -> ReqPlace]
  BY <1>1, <1>2, RequestKept
<1>4. TypeOK'
  BY <1>1, <1>2, <1>3 DEF IInv, TypeOK, ReqPlace
<1>5. Excuses(r) => Excuses(r)'
  BY <1>1, <1>2, <1>3 DEF Excuses, Owns, Abandoned, Unmarked, Executing
<1>6. to = "build" => Holds(r)'
  BY <1>3 DEF Holds, Starting
<1>7. ~Holds(r)
  BY <1>2 DEF Holds, Starting, Unmarked, Executing, Cleaning, Abandoned
<1>8. InFlightStatusHasOwner' /\ WorkDirHasOwner'
  BY <1>1, <1>2, <1>3, <1>5, <1>6, <1>7, OwnersKept
<1> QED BY <1>3, <1>4, <1>8 DEF IInv

\* The request goes on with its directory, and writes the row or nothing.
LEMMA StartingIInv ==
  ASSUME IInv, NEW r \in Request,
         Build(r) \/ BuildFails(r) \/ ResetTaskStatus(r) \/ SetWaitStatus(r) \/ RequestRaises(r)
  PROVE  IInv'
<1>1. PICK to \in {"reset", "failed", "wait", "submit", "raised"} :
        req' = [req EXCEPT ![r] = to] /\ UNCHANGED <<run, unwritten, restarted, orderly>>
  BY DEF Build, BuildFails, ResetTaskStatus, SetWaitStatus, RequestRaises
<1>2. run[r] = "none" /\ to \in ReqPlace /\ orderly' \in BOOLEAN
  BY <1>1 DEF IInv, TypeOK, SubmitsOnce, ReqPlace, Build, BuildFails, ResetTaskStatus,
              SetWaitStatus, RequestRaises
<1>3. /\ SubmitsOnce' /\ (\A q \in Request \ {r} : req'[q] = req[q] /\ run'[q] = run[q])
      /\ req'[r] = to /\ run'[r] = "none" /\ req' \in [Request -> ReqPlace]
  BY <1>1, <1>2, RequestKept
<1>4. TypeOK'
  BY <1>1, <1>2, <1>3 DEF IInv, TypeOK, ReqPlace, Build, BuildFails, ResetTaskStatus,
                          SetWaitStatus, RequestRaises
<1>5. \/ status' \notin InFlight
      \/ status' = status /\ writer' = writer /\ (Excuses(r) => Excuses(r)')
      \/ writer' = {r} /\ Excuses(r)'
  <2>1. CASE Build(r) \/ BuildFails(r)
    <3>1. status' = status /\ writer' = writer /\ req[r] = "build" /\ to \in {"reset", "failed"}
      BY <1>2, <1>3, <2>1 DEF Build, BuildFails, IInv, TypeOK
    <3> QED BY <1>1, <1>2, <1>3, <3>1 DEF Excuses, Owns, Abandoned, Unmarked, Executing
  <2>2. CASE ResetTaskStatus(r)
    <3>1. to = "wait"
      BY <1>3, <2>2 DEF ResetTaskStatus, IInv, TypeOK
    <3> QED BY <1>3, <2>2, <3>1 DEF ResetTaskStatus, Excuses, Owns
  <2>3. CASE SetWaitStatus(r)
    <3>1. to = "submit"
      BY <1>3, <2>3 DEF SetWaitStatus, IInv, TypeOK
    <3> QED BY <1>3, <2>3, <3>1 DEF SetWaitStatus, Excuses, Owns
  <2>4. CASE RequestRaises(r)
    <3>1. to = "raised" /\ status' = status /\ writer' = writer
      BY <1>3, <2>4 DEF RequestRaises, IInv, TypeOK
    <3> QED BY <1>3, <3>1 DEF Excuses, Abandoned
  <2> QED BY <2>1, <2>2, <2>3, <2>4
<1>6. work_dir' = {} \/ (work_dir' = work_dir /\ (Holds(r) => Holds(r)'))
  <2>1. CASE BuildFails(r)
    BY <2>1 DEF BuildFails
  <2>2. CASE Build(r) \/ ResetTaskStatus(r) \/ SetWaitStatus(r) \/ RequestRaises(r)
    <3>1. work_dir' = work_dir /\ to \in {"reset", "wait", "submit", "raised"}
      BY <1>3, <2>2 DEF Build, ResetTaskStatus, SetWaitStatus, RequestRaises, IInv, TypeOK
    <3>2. Holds(r)'
      BY <1>3, <3>1 DEF Holds, Starting, Abandoned
    <3> QED BY <3>1, <3>2
  <2> QED BY <2>1, <2>2
<1>7. InFlightStatusHasOwner' /\ WorkDirHasOwner'
  BY <1>1, <1>3, <1>5, <1>6, OwnersKept
<1> QED BY <1>3, <1>4, <1>7 DEF IInv

\* Requests that change the row or nothing.
LEMMA RequestIInv ==
  ASSUME IInv, NEW r \in Request,
         RetryCheck(r) \/ CancelCheck(r) \/ CancelTask(r) \/ Delete(r)
  PROVE  IInv'
<1>1. PICK to \in {"refused", "begin", "cancel", "done"} :
        req' = [req EXCEPT ![r] = to] /\ UNCHANGED <<run, unwritten, restarted, work_dir>>
  BY DEF RetryCheck, CancelCheck, CancelTask, Delete
<1>2. /\ req[r] \in {"new", "cancel"} /\ orderly' \in BOOLEAN
      /\ \/ status' = status /\ writer' = writer
         \/ status' \in {"CANCELED", "deleted"} /\ writer' \in {writer, {r}}
  BY DEF IInv, TypeOK, RetryCheck, CancelCheck, CancelTask, Delete, Arrives
<1>3. run[r] = "none" /\ to \in ReqPlace
  BY <1>2 DEF IInv, SubmitsOnce, ReqPlace
<1>4. /\ SubmitsOnce' /\ (\A q \in Request \ {r} : req'[q] = req[q] /\ run'[q] = run[q])
      /\ req'[r] = to /\ run'[r] = "none" /\ req' \in [Request -> ReqPlace]
  BY <1>1, <1>2, <1>3, RequestKept
<1>5. TypeOK'
  BY <1>1, <1>2, <1>4 DEF IInv, TypeOK, ReqPlace
<1>6. status' = status /\ writer' = writer => (Excuses(r) => Excuses(r)')
  BY <1>1, <1>2, <1>3 DEF Excuses, Owns, Abandoned, Unmarked, Executing
<1>7. ~Holds(r)
  BY <1>2, <1>3 DEF Holds, Starting, Unmarked, Executing, Cleaning, Abandoned
<1>8. InFlightStatusHasOwner' /\ WorkDirHasOwner'
  BY <1>1, <1>2, <1>4, <1>6, <1>7, OwnersKept
<1> QED BY <1>4, <1>5, <1>8 DEF IInv

\* The run takes over from its request.
LEMMA SubmitIInv ==
  ASSUME IInv, NEW r \in Request, Submit(r)
  PROVE  IInv'
<1>1. /\ req' = [req EXCEPT ![r] = "done"] /\ run' = [run EXCEPT ![r] = "queued"]
      /\ UNCHANGED <<row, work_dir, unwritten, restarted, orderly>> /\ req[r] = "submit"
  BY DEF Submit
<1>2. /\ \A q \in Request \ {r} : req'[q] = req[q] /\ run'[q] = run[q]
      /\ req'[r] = "done" /\ run'[r] = "queued" /\ run[r] = "none"
  BY <1>1 DEF IInv, TypeOK, SubmitsOnce
<1>3. TypeOK' /\ SubmitsOnce'
  BY <1>1, <1>2 DEF IInv, TypeOK, SubmitsOnce
<1>4. (Excuses(r) => Excuses(r)') /\ Holds(r)'
  BY <1>1, <1>2 DEF Excuses, Holds, Owns, Abandoned, Unmarked, Executing
<1>5. InFlightStatusHasOwner' /\ WorkDirHasOwner'
  BY <1>1, <1>2, <1>4, OwnersKept
<1> QED BY <1>3, <1>5 DEF IInv

LEMMA RunIInv ==
  ASSUME IInv, NEW r \in Request, Run(r)
  PROVE  IInv'
<1>1. run[r] \notin {"none", "ended", "raised", "lost"} /\ req' = req
      /\ UNCHANGED <<restarted, orderly>>
  BY DEF Run, Dropped, PreStart, SetRunningStatus, WorkflowEnds, PostSuccess, WriteOutcome,
         RunRaises, OutcomeUnwritten, CleanEnv
<1>2. PICK to \in RunPlace : run' = [run EXCEPT ![r] = to]
  BY DEF Run, Dropped, PreStart, SetRunningStatus, WorkflowEnds, PostSuccess, WriteOutcome,
         RunRaises, OutcomeUnwritten, CleanEnv, RunPlace
<1>3. /\ \A q \in Request \ {r} : req'[q] = req[q] /\ run'[q] = run[q]
      /\ run'[r] = to /\ run \in [Request -> RunPlace] /\ run' \in [Request -> RunPlace]
  BY <1>1, <1>2 DEF IInv, TypeOK, RunPlace
<1>4. /\ unwritten \subseteq unwritten' /\ unwritten' \in SUBSET Request
      /\ work_dir' = {} \/ work_dir' = work_dir
      /\ status' \in {"none", "deleted", "CANCELED"} \cup InFlight \cup Outcome
      /\ writer' \in SUBSET Request
  BY DEF IInv, TypeOK, Run, Dropped, PreStart, SetRunningStatus, WorkflowEnds, PostSuccess,
         WriteOutcome, RunRaises, OutcomeUnwritten, CleanEnv
<1>5. TypeOK'
  BY <1>1, <1>3, <1>4 DEF IInv, TypeOK, RunPlace
<1>6. SubmitsOnce'
  BY <1>1, <1>3 DEF IInv, SubmitsOnce
<1>7. \/ status' \notin InFlight
      \/ status' = status /\ writer' = writer /\ (status \in InFlight /\ Excuses(r) => Excuses(r)')
      \/ writer' = {r} /\ Excuses(r)'
  <2>1. r \in Abandoned => r \in Abandoned'
    BY <1>1 DEF Abandoned
  <2>2. CASE Dropped(r)
    <3>1. to = "lost" /\ status' = status /\ writer' = writer
      BY <1>3, <2>2 DEF Dropped
    <3> QED BY <1>3, <3>1 DEF Excuses, Abandoned
  <2>3. CASE PreStart(r)
    BY <1>1, <1>3, <2>1, <2>3 DEF PreStart, Excuses, Owns, Unmarked, Executing
  <2>4. CASE SetRunningStatus(r)
    BY <1>1, <1>3, <2>4 DEF SetRunningStatus, Excuses, Owns, Executing
  <2>5. CASE \E e \in {"check", "abnormal", "TIMEOUT", "UNKNOWN"} : WorkflowEnds(r, e)
    BY <1>1, <1>3, <2>1, <2>5 DEF WorkflowEnds, Excuses, Owns, Unmarked, Executing
  <2>6. CASE PostSuccess(r)
    BY <1>1, <1>3, <2>1, <2>6 DEF PostSuccess, Excuses, Owns, Unmarked, Executing
  <2>7. CASE WriteOutcome(r)
    BY <2>7 DEF WriteOutcome
  <2>8. CASE RunRaises(r)
    BY <1>1, <1>3, <2>1, <2>8 DEF RunRaises, Excuses, Owns, Unmarked, Executing
  <2>9. CASE OutcomeUnwritten(r)
    BY <2>9 DEF OutcomeUnwritten, Excuses
  <2>10. CASE CleanEnv(r)
    BY <1>1, <1>3, <2>1, <2>10 DEF CleanEnv, Excuses, Owns, Unmarked, Executing
  <2> QED BY <2>2, <2>3, <2>4, <2>5, <2>6, <2>7, <2>8, <2>9, <2>10 DEF Run
<1>8. work_dir' = {} \/ (work_dir' = work_dir /\ Holds(r)')
  <2>1. CASE CleanEnv(r)
    BY <2>1 DEF CleanEnv
  <2>2. CASE ~CleanEnv(r)
    <3>1. to \in {"lost", "mark", "running", "check", "clean"} \cup Ends
      BY <1>3, <2>2 DEF Run, Dropped, PreStart, SetRunningStatus, WorkflowEnds, PostSuccess,
                        WriteOutcome, RunRaises, OutcomeUnwritten
    <3>2. Holds(r)'
      BY <1>3, <3>1 DEF Holds, Unmarked, Executing, Cleaning, Abandoned
    <3> QED BY <1>4, <3>2
  <2> QED BY <2>1, <2>2
<1>9. InFlightStatusHasOwner' /\ WorkDirHasOwner'
  BY <1>3, <1>4, <1>7, <1>8, OwnersKept
<1> QED BY <1>5, <1>6, <1>9 DEF IInv

\* A restart abandons every request in hand and every run.
LEMMA RestartIInv == IInv /\ Restart => IInv'
<1> SUFFICES ASSUME IInv, Restart PROVE IInv'
  OBVIOUS
<1>1. /\ req \in [Request -> ReqPlace] /\ run \in [Request -> RunPlace]
      /\ restarted' = TRUE /\ status' = status /\ writer' = writer
      /\ UNCHANGED <<work_dir, unwritten, orderly>>
      /\ req' = [r \in Request |-> IF req[r] \in Busy THEN "lost" ELSE req[r]]
      /\ run' = [r \in Request |-> IF run[r] \in {"none", "ended", "raised"} THEN run[r] ELSE "lost"]
  BY DEF IInv, TypeOK, ReqPlace, RunPlace, Restart
<1>2. TypeOK'
  BY <1>1 DEF IInv, TypeOK, ReqPlace, RunPlace
<1>3. SubmitsOnce'
  BY <1>1 DEF IInv, SubmitsOnce
<1>4. ASSUME NEW r \in Request
      PROVE  (Owns(r) \/ Holds(r) => r \in Abandoned')
  BY <1>1 DEF Owns, Holds, Starting, Unmarked, Executing, Cleaning, Abandoned
<1>5. InFlightStatusHasOwner'
  BY <1>1, <1>4 DEF IInv, TypeOK, InFlightStatusHasOwner, Holds
<1>6. WorkDirHasOwner'
  BY <1>1, <1>4 DEF IInv, TypeOK, WorkDirHasOwner, Holds
<1> QED BY <1>2, <1>3, <1>5, <1>6 DEF IInv

LEMMA NextIInv == IInv /\ [Next]_vars => IInv'
<1> SUFFICES ASSUME IInv, [Next]_vars PROVE IInv'
  OBVIOUS
<1>1. ASSUME NEW r \in Request, Start(r) PROVE IInv'
  <2>1. req[r] = "new" /\ orderly' \in BOOLEAN /\ MakeDirs(r)
    BY <1>1 DEF Start, Arrives, IInv, TypeOK
  <2> QED BY <2>1, MakeDirsIInv
<1>2. ASSUME NEW r \in Request, RetryCheck(r) \/ CancelCheck(r) \/ Delete(r) PROVE IInv'
  BY <1>2, RequestIInv
<1>3. ASSUME NEW r \in Request, Handle(r) PROVE IInv'
  <2>1. CASE RetryStart(r)
    BY <2>1, MakeDirsIInv DEF RetryStart, IInv, TypeOK
  <2>2. CASE Build(r) \/ BuildFails(r) \/ ResetTaskStatus(r) \/ SetWaitStatus(r) \/ RequestRaises(r)
    BY <2>2, StartingIInv
  <2>3. CASE Submit(r)
    BY <2>3, SubmitIInv
  <2>4. CASE CancelTask(r)
    BY <2>4, RequestIInv
  <2> QED BY <1>3, <2>1, <2>2, <2>3, <2>4 DEF Handle
<1>4. ASSUME NEW r \in Request, Run(r) PROVE IInv'
  BY <1>4, RunIInv
<1>5. CASE Restart
  BY <1>5, RestartIInv
<1>6. CASE UNCHANGED vars
  BY <1>6 DEF vars, IInv, TypeOK, SubmitsOnce, InFlightStatusHasOwner, WorkDirHasOwner, Owns,
              Starting, Unmarked, Executing, Cleaning, Abandoned
<1> QED BY <1>1, <1>2, <1>3, <1>4, <1>5, <1>6 DEF Next

-----------------------------------------------------------------------------
\* While only retries come, one at a time: there is one request or run between
\* the check of the status and the outcome, and where it is tells the status.
StatusFollows ==
  orderly =>
    /\ \A p, q \in InHand \cup Unmarked \cup Executing : p = q
    /\ \A p \in InHand : /\ req[p] # "cancel"
                         /\ req[p] = "submit" => status \in {"WAITING", "deleted"}
    /\ Unmarked # {} => status \in {"WAITING", "deleted"}
    /\ \A p \in Executing : \/ status \in {"RUNNING", "deleted"}
                            \/ status = "WAITING" /\ run[p] = "UNKNOWN"

LEMMA InitStatusFollows == Init => StatusFollows
BY DEF Init, StatusFollows, InHand, Unmarked, Executing

\* A request that comes.
LEMMA ArrivalStatusFollows ==
  ASSUME IInv, StatusFollows, NEW r \in Request,
         Start(r) \/ RetryCheck(r) \/ CancelCheck(r) \/ Delete(r)
  PROVE  StatusFollows'
<1>1. /\ req \in [Request -> ReqPlace] /\ req[r] = "new" /\ run' = run
  BY DEF IInv, TypeOK, ReqPlace, Start, MakeDirs, RetryCheck, CancelCheck, Delete, Arrives
<1>2. Unmarked' = Unmarked /\ Executing' = Executing
  BY <1>1 DEF Unmarked, Executing
<1>3. CASE Start(r) \/ CancelCheck(r)
  BY <1>3 DEF Start, CancelCheck, Arrives, StatusFollows
<1>4. CASE RetryCheck(r)
  <2> SUFFICES ASSUME orderly' PROVE StatusFollows'
    BY DEF StatusFollows
  <2>1. orderly /\ InHand = {} /\ status' = status
    BY <1>4 DEF RetryCheck, Arrives
  <2>2. CASE req' = [req EXCEPT ![r] = "refused"]
    <3>1. InHand' = {}
      BY <1>1, <2>1, <2>2 DEF InHand
    <3> QED BY <1>1, <1>2, <2>1, <3>1 DEF StatusFollows
  <2>3. CASE req' = [req EXCEPT ![r] = "begin"] /\ status \notin {"RUNNING", "WAITING", "deleted"}
    <3>1. Unmarked = {} /\ Executing = {}
      BY <2>1, <2>3 DEF StatusFollows
    <3>2. InHand' = {r} /\ req'[r] = "begin"
      BY <1>1, <2>1, <2>3 DEF InHand
    <3> QED BY <1>2, <3>1, <3>2 DEF StatusFollows
  <2> QED BY <1>4, <2>2, <2>3 DEF RetryCheck
<1>5. CASE Delete(r)
  <2> SUFFICES ASSUME orderly' PROVE StatusFollows'
    BY DEF StatusFollows
  <2>1. orderly /\ status' = "deleted" /\ req' = [req EXCEPT ![r] = "done"]
    BY <1>5 DEF Delete, Arrives
  <2>2. InHand' = InHand /\ \A p \in InHand : req'[p] = req[p]
    BY <1>1, <2>1 DEF InHand
  <2> QED BY <1>1, <1>2, <2>1, <2>2 DEF StatusFollows
<1> QED BY <1>3, <1>4, <1>5

\* A request in hand goes on.
LEMMA HandleStatusFollows ==
  ASSUME IInv, StatusFollows, NEW r \in Request, Handle(r)
  PROVE  StatusFollows'
<1> SUFFICES ASSUME orderly' PROVE StatusFollows'
  BY DEF StatusFollows
<1>1. /\ req \in [Request -> ReqPlace] /\ run \in [Request -> RunPlace]
      /\ r \in InHand /\ orderly
  BY DEF IInv, TypeOK, ReqPlace, RunPlace, InHand, Handle, RetryStart, Build, BuildFails,
         ResetTaskStatus, SetWaitStatus, Submit, CancelTask, RequestRaises
<1>2. /\ InHand = {r} /\ Unmarked \subseteq {r} /\ Executing \subseteq {r}
      /\ req[r] # "cancel" /\ run[r] = "none"
      /\ req[r] = "submit" => status \in {"WAITING", "deleted"}
  BY <1>1 DEF StatusFollows, IInv, SubmitsOnce, InHand
<1>3. Unmarked = {} /\ Executing = {}
  BY <1>2 DEF Unmarked, Executing
<1>4. CASE Submit(r)
  <2>1. InHand' = {} /\ Unmarked' = {r} /\ Executing' = {} /\ status' \in {"WAITING", "deleted"}
    BY <1>1, <1>2, <1>3, <1>4 DEF Submit, InHand, Unmarked, Executing
  <2> QED BY <2>1 DEF StatusFollows
<1>5. CASE \/ RetryStart(r) \/ Build(r) \/ BuildFails(r) \/ ResetTaskStatus(r)
           \/ SetWaitStatus(r) \/ RequestRaises(r)
  <2> USE DEF RetryStart, MakeDirs, Build, BuildFails, ResetTaskStatus, SetWaitStatus, RequestRaises
  <2>1. Unmarked' = {} /\ Executing' = {}
    BY <1>3, <1>5 DEF Unmarked, Executing
  <2>2. InHand' \subseteq {r}
    BY <1>1, <1>2, <1>5 DEF InHand
  <2>3. req'[r] # "cancel" /\ (req'[r] = "submit" => status' \in {"WAITING", "deleted"})
    BY <1>1, <1>5
  <2> QED BY <2>1, <2>2, <2>3 DEF StatusFollows
<1>6. CASE CancelTask(r)
  BY <1>2, <1>6 DEF CancelTask
<1> QED BY <1>4, <1>5, <1>6 DEF Handle

\* A run goes on.
LEMMA RunStatusFollows ==
  ASSUME IInv, StatusFollows, NEW r \in Request, Run(r)
  PROVE  StatusFollows'
<1> SUFFICES ASSUME orderly' PROVE StatusFollows'
  BY DEF StatusFollows
<1> DEFINE to == run'[r]
<1>1. /\ run \in [Request -> RunPlace] /\ orderly /\ req' = req
      /\ to \in RunPlace /\ run' = [run EXCEPT ![r] = to]
  BY DEF IInv, TypeOK, RunPlace, Run, Dropped, PreStart, SetRunningStatus, WorkflowEnds,
         PostSuccess, WriteOutcome, RunRaises, OutcomeUnwritten, CleanEnv
<1>2. InHand' = InHand
  BY <1>1 DEF InHand
<1>3. CASE CleanEnv(r)
  <2>1. /\ Unmarked' = Unmarked /\ Executing' = Executing /\ status' = status
        /\ \A p \in Executing : run'[p] = run[p]
    BY <1>1, <1>3 DEF CleanEnv, Unmarked, Executing
  <2> QED BY <1>1, <1>2, <2>1 DEF StatusFollows
<1>4. CASE ~CleanEnv(r)
  <2>1. r \in Unmarked \cup Executing
    BY <1>4 DEF Run, Dropped, PreStart, SetRunningStatus, WorkflowEnds, PostSuccess, WriteOutcome,
                RunRaises, OutcomeUnwritten, Unmarked, Executing
  <2>2. /\ Unmarked \cup Executing = {r} /\ InHand \subseteq {r}
        /\ r \in Unmarked => status \in {"WAITING", "deleted"}
        /\ r \in Executing => \/ status \in {"RUNNING", "deleted"}
                              \/ status = "WAITING" /\ run[r] = "UNKNOWN"
    BY <1>1, <2>1 DEF StatusFollows
  <2>3. InHand = {}
    BY <2>1, <2>2 DEF IInv, SubmitsOnce, InHand, Unmarked, Executing
  <2>4. Unmarked' \cup Executing' \subseteq {r}
    BY <1>1, <2>2 DEF Unmarked, Executing
  <2>5. \/ to \in {"lost", "clean"}
        \/ to = "mark" /\ status' \in {"WAITING", "deleted"}
        \/ to \in {"running", "check"} \cup Ends /\ status' \in {"RUNNING", "deleted"}
        \/ to = "UNKNOWN" /\ status' = "WAITING"
    BY <1>1, <1>4, <2>2 DEF Run, Dropped, PreStart, SetRunningStatus, WorkflowEnds, PostSuccess,
         WriteOutcome, RunRaises, OutcomeUnwritten, Unmarked, Executing
  <2>6. Unmarked' # {} => status' \in {"WAITING", "deleted"}
    BY <2>4, <2>5 DEF Unmarked
  <2>7. \A p \in Executing' : \/ status' \in {"RUNNING", "deleted"}
                              \/ status' = "WAITING" /\ run'[p] = "UNKNOWN"
    BY <2>4, <2>5 DEF Executing
  <2>8. /\ \A p, q \in InHand' \cup Unmarked' \cup Executing' : p = q
        /\ InHand' = {}
    BY <1>2, <2>3, <2>4
  <2> HIDE DEF to
  <2> QED BY <2>6, <2>7, <2>8 DEF StatusFollows
<1> QED BY <1>3, <1>4

LEMMA NextStatusFollows == IInv /\ StatusFollows /\ [Next]_vars => StatusFollows'
<1> SUFFICES ASSUME IInv, StatusFollows, [Next]_vars PROVE StatusFollows'
  OBVIOUS
<1>1. ASSUME NEW r \in Request, Start(r) \/ RetryCheck(r) \/ CancelCheck(r) \/ Delete(r)
      PROVE  StatusFollows'
  BY <1>1, ArrivalStatusFollows
<1>2. ASSUME NEW r \in Request, Handle(r) PROVE StatusFollows'
  BY <1>2, HandleStatusFollows
<1>3. ASSUME NEW r \in Request, Run(r) PROVE StatusFollows'
  BY <1>3, RunStatusFollows
<1>4. CASE Restart
  <2>1. InHand' = {} /\ Unmarked' = {} /\ Executing' = {}
    BY <1>4 DEF Restart, InHand, Unmarked, Executing
  <2> QED BY <2>1 DEF StatusFollows
<1>5. CASE UNCHANGED vars
  BY <1>5 DEF vars, StatusFollows, InHand, Unmarked, Executing
<1> QED BY <1>1, <1>2, <1>3, <1>4, <1>5 DEF Next

-----------------------------------------------------------------------------
\* The row, the directory and the places of requests and runs keep their types.
THEOREM TypeCorrect == Spec => []TypeOK
<1>1. IInv => TypeOK
  BY DEF IInv
<1> QED BY <1>1, InitIInv, NextIInv, PTL DEF Spec

\* A task that TaskManager and BaseTask left RUNNABLE, WAITING or RUNNING was left
\* so by a request that will change that or whose run will: but for requests that
\* raised or whose run was lost, by a pool that is full or a restart, and runs that
\* could not write how they ended.
THEOREM StatusHasOwner == Spec => []InFlightStatusHasOwner
<1>1. IInv => InFlightStatusHasOwner
  BY DEF IInv
<1> QED BY <1>1, InitIInv, NextIInv, PTL DEF Spec

\* A directory under WORK_DIR has the request that made it, or the run of that
\* request, to remove it: but for requests that raised before they submitted a run
\* and runs that were lost, by a pool that is full or a restart.
THEOREM DirHasOwner == Spec => []WorkDirHasOwner
<1>1. IInv => WorkDirHasOwner
  BY DEF IInv
<1> QED BY <1>1, InitIInv, NextIInv, PTL DEF Spec

\* As long as only retries, one at a time, and deletions come, retry_task never
\* starts a second run of the task.
THEOREM OneRun == Spec => []OneRunAtATime
<1>1. IInv /\ StatusFollows => OneRunAtATime
  BY DEF StatusFollows, OneRunAtATime
<1> QED BY <1>1, InitIInv, NextIInv, InitStatusFollows, NextStatusFollows, PTL DEF Spec

-----------------------------------------------------------------------------
(***************************************************************************)
(* WorkFlow.init().  The invariant GraphInv follows init_workflow, the     *)
(* validation and the rollback through their loops.                        *)
(***************************************************************************)

\* init_workflow is at work, job after job.
Building == {"jobs", "steps", "job_end"}

GraphTypeOK ==
  /\ jobs \in Descriptions
  /\ job \in Nat /\ step \in Nat \ {0} /\ at \in Nat \ {0}
  /\ pc \in Building \cup {"queue", "validate", "rollback", "ready", "raised"}
  /\ IF pc \in Building THEN job \in DOMAIN jobs ELSE job = Len(jobs) + 1
  /\ next_nodes \in [Nodes -> Seq(Nodes)]
  /\ dependency_account \in [Nodes -> Nat]
  /\ search \in Seq([node : Nodes, place : Nat \ {0}, have_self_task_step : BOOLEAN])
  /\ worknode_found \subseteq Nodes
  /\ kahn_queue \in Seq(Nodes) /\ checked_node \subseteq Nodes /\ work_node_back \in Seq(Nodes)
  /\ checking = << >> \/ \E n \in checked_node : checking = <<n>>

\* validate_workflow has not begun.
BeforeValidation ==
  pc \in Building \cup {"queue"} =>
    kahn_queue = << >> /\ checked_node = {} /\ checking = << >> /\ work_node_back = << >>

\* Validation has gone through the edge e: its source was checked, and is not
\* the one whose successors are still gone through.
Gone(e) == e[1] \in checked_node /\ (checking = <<e[1]>> => e[2] < at)

\* The edges into n that validation has not gone through.
EdgesLeft(n) == {e \in EdgesInto(n) : ~Gone(e)}

\* The decrements of n that rollback_dependency_count has yet to undo.
Places(n) == {i \in DOMAIN work_node_back : work_node_back[i] = n}

\* The live accounts: with the decrements to undo they count all edges, and until
\* the verdict those validation has not gone through.
AccountsCountEdges ==
  /\ \A n \in Nodes : IsFiniteSet(EdgesInto(n))
  /\ \A n \in Nodes : dependency_account[n] + Cardinality(Places(n)) = Cardinality(EdgesInto(n))
  /\ pc \in {"queue", "validate"} =>
       \A n \in Nodes : dependency_account[n] = Cardinality(EdgesLeft(n))

Queued == {kahn_queue[i] : i \in DOMAIN kahn_queue}

\* The local queue and the checked nodes are, without repetition, the nodes that
\* wait for nothing any more.
QueueHasFree ==
  pc = "validate" =>
    /\ \A i, k \in DOMAIN kahn_queue : kahn_queue[i] = kahn_queue[k] => i = k
    /\ Queued \cap checked_node = {}
    /\ \A n \in Nodes : dependency_account[n] = 0 <=> n \in Queued \cup checked_node

\* Any checked nodes have one among them that leads to none of them: the checked
\* node taken last, as all its predecessors were taken before it.
CheckedHasNoCycle ==
  \A S \in SUBSET checked_node : S # {} => \E n \in S : Successors(n) \cap S = {}

\* What the verdict rests on: all nodes were checked, or some nodes wait for one
\* another.
Verdict ==
  /\ pc \in {"rollback", "ready"} => Nodes \subseteq checked_node
  /\ pc = "ready" => work_node_back = << >>
  /\ pc = "raised" => \E S \in SUBSET Nodes : S # {}
     /\ \A n \in S : \E p \in S : n \in Successors(p)

\* The nodes of job i.
Own(i) == {n \in Nodes : n[1] = jobs[i].name}

\* Step k of job i comes after a node of its own job.
HasOwnPredecessor(i, k) ==
  \E p \in Own(i) : p # EndOf(jobs[i].name) /\ StepNode(jobs[i], jobs[i].steps[k]) \in Successors(p)

\* The loops are past the edges of step k of job i, or at least past one from a
\* step of the same job.
Past(i, k) ==
  \/ i < job
  \/ i = job /\ pc = "job_end"
  \/ i = job /\ pc = "steps" /\ k < step
  \/ /\ i = job /\ pc = "steps" /\ k = step
     /\ \E d \in DOMAIN jobs[i].steps[k].dependency :
          d < at /\ Len(jobs[i].steps[k].dependency[d]) = 1

\* The steps whose edges are made have such a predecessor.
StepsLinked ==
  \A i \in DOMAIN jobs : \A k \in DOMAIN jobs[i].steps : Past(i, k) => HasOwnPredecessor(i, k)

\* What the search of job i has found, with the start and without the end.
FoundOf(i) == (Own(i) \cap (worknode_found \cup {StartOf(jobs[i].name)})) \ {EndOf(jobs[i].name)}

\* The search has followed n: all its successors in the job are found, and there
\* is at least one or the edge to the end.
Settled(i, n) ==
  /\ Successors(n) \cap Own(i) \subseteq worknode_found \cup {EndOf(jobs[i].name)}
  /\ Successors(n) \cap Own(i) \cap (worknode_found \cup {EndOf(jobs[i].name)}) # {}

\* The searches of the jobs gone through, and of those to come.
SearchesDone ==
  /\ pc # "job_end" => search = << >>
  /\ \A i \in DOMAIN jobs : i < job => \A n \in FoundOf(i) : Settled(i, n)
  /\ \A n \in worknode_found : \E i \in DOMAIN jobs :
       n \in Own(i) /\ (i < job \/ (i = job /\ pc = "job_end"))

\* A call has found what it has gone past, and something where it says so.
CallGoes(i, c) ==
  /\ c.node \in Own(i)
  /\ \A p \in DOMAIN next_nodes[c.node] :
       (p < c.place /\ next_nodes[c.node][p] \in Own(i))
         => next_nodes[c.node][p] \in worknode_found \cup {EndOf(jobs[i].name)}
  /\ c.have_self_task_step => Successors(c.node) \cap Own(i) \cap worknode_found # {}

\* The calls of _generate_job_end_dependency that have not returned.
Ongoing == {search[c] : c \in DOMAIN search}

\* What the search of the current job has found is settled or in a call.
SearchGoesOn ==
  \A i \in DOMAIN jobs : (i = job /\ pc = "job_end") =>
    /\ \A n \in FoundOf(i) : Settled(i, n) \/ \E c \in Ongoing : c.node = n
    /\ \A c \in Ongoing : CallGoes(i, c)

GraphInv ==
  /\ GraphTypeOK
  /\ BeforeValidation
  /\ AccountsCountEdges
  /\ QueueHasFree
  /\ CheckedHasNoCycle
  /\ Verdict
  /\ StepsLinked
  /\ SearchesDone
  /\ SearchGoesOn

-----------------------------------------------------------------------------
(* Descriptions and their nodes.                                           *)

LEMMA ListDomain ==
  ASSUME NEW s, IsList(s)
  PROVE  Len(s) \in Nat /\ DOMAIN s = 1..Len(s)
BY DEF IsList

LEMMA Described ==
  ASSUME jobs \in Descriptions
  PROVE  /\ Len(jobs) \in Nat /\ DOMAIN jobs = 1..Len(jobs)
         /\ \A i, k \in DOMAIN jobs : jobs[i].name = jobs[k].name => i = k
         /\ \A i \in DOMAIN jobs :
              /\ Len(jobs[i].dependency) \in Nat
              /\ DOMAIN jobs[i].dependency = 1..Len(jobs[i].dependency)
              /\ Len(jobs[i].steps) \in Nat /\ DOMAIN jobs[i].steps = 1..Len(jobs[i].steps)
              /\ \A d \in DOMAIN jobs[i].dependency : EndOf(jobs[i].dependency[d]) \in Nodes
<1>1. WellFormed(jobs)
  BY DescriptionsAssumption
<1>2. IsList(jobs) /\ \A i \in DOMAIN jobs : IsList(jobs[i].dependency) /\ IsList(jobs[i].steps)
  BY <1>1 DEF WellFormed
<1>3. /\ \A i, k \in DOMAIN jobs : jobs[i].name = jobs[k].name => i = k
      /\ \A i \in DOMAIN jobs : \A d \in DOMAIN jobs[i].dependency :
           EndOf(jobs[i].dependency[d]) \in Nodes
  BY <1>1 DEF WellFormed, Nodes
<1> QED BY <1>2, <1>3, ListDomain

LEMMA StepDescribed ==
  ASSUME jobs \in Descriptions, NEW i \in DOMAIN jobs, NEW k \in DOMAIN jobs[i].steps
  PROVE  LET s == jobs[i].steps[k]
         IN  /\ s.name \notin {"start", "end"}
             /\ Len(s.dependency) \in Nat /\ DOMAIN s.dependency = 1..Len(s.dependency)
             /\ \A d \in DOMAIN s.dependency :
                  /\ Target(jobs[i], s.dependency[d]) \in Nodes
                  /\ Len(s.dependency[d]) = 1 => s.dependency[d][1] # "end"
<1>1. WellFormed(jobs)
  BY DescriptionsAssumption
<1>2. LET s == jobs[i].steps[k]
      IN  /\ s.name \notin {"start", "end"}
          /\ IsList(s.dependency)
          /\ \A d \in DOMAIN s.dependency :
               /\ Target(jobs[i], s.dependency[d]) \in Nodes
               /\ Len(s.dependency[d]) = 1 => s.dependency[d][1] # "end"
  BY <1>1 DEF WellFormed, Nodes
<1> QED BY <1>2, ListDomain

\* Where the nodes of a job are.
LEMMA OwnNodes ==
  ASSUME jobs \in Descriptions, NEW i \in DOMAIN jobs
  PROVE  /\ StartOf(jobs[i].name) \in Own(i) /\ EndOf(jobs[i].name) \in Own(i)
         /\ StartOf(jobs[i].name) # EndOf(jobs[i].name)
         /\ \A k \in DOMAIN jobs[i].steps :
              StepNode(jobs[i], jobs[i].steps[k]) \in Own(i)
                /\ StepNode(jobs[i], jobs[i].steps[k]) # EndOf(jobs[i].name)
                /\ StepNode(jobs[i], jobs[i].steps[k]) # StartOf(jobs[i].name)
         /\ Own(i) \subseteq Nodes
<1>1. StartOf(jobs[i].name) \in Own(i) /\ EndOf(jobs[i].name) \in Own(i)
  BY DEF Own, Nodes, WorkNodes, StartOf, EndOf
<1>2. StartOf(jobs[i].name) # EndOf(jobs[i].name)
  BY DEF StartOf, EndOf
<1>3. ASSUME NEW k \in DOMAIN jobs[i].steps
      PROVE  StepNode(jobs[i], jobs[i].steps[k]) \in Own(i)
  BY DEF Own, Nodes, WorkNodes, StepNode
<1>4. ASSUME NEW k \in DOMAIN jobs[i].steps
      PROVE  StepNode(jobs[i], jobs[i].steps[k]) # EndOf(jobs[i].name)
               /\ StepNode(jobs[i], jobs[i].steps[k]) # StartOf(jobs[i].name)
  <2>1. jobs[i].steps[k].name \notin {"start", "end"}
    BY StepDescribed
  <2> QED BY <2>1 DEF StepNode, StartOf, EndOf
<1> QED BY <1>1, <1>2, <1>3, <1>4 DEF Own

\* Every node is a job's, and of one job only.
LEMMA OwnersDiffer ==
  ASSUME jobs \in Descriptions
  PROVE  /\ \A n \in Nodes : \E i \in DOMAIN jobs : n \in Own(i)
         /\ \A i, k \in DOMAIN jobs : Own(i) \cap Own(k) # {} => i = k
<1>1. ASSUME NEW n \in Nodes PROVE \E i \in DOMAIN jobs : n \in Own(i)
  <2>1. PICK i \in DOMAIN jobs :
          n \in {StartOf(jobs[i].name), EndOf(jobs[i].name)} \cup
                {StepNode(jobs[i], jobs[i].steps[k]) : k \in DOMAIN jobs[i].steps}
    BY DEF Nodes, WorkNodes
  <2>2. n[1] = jobs[i].name
    BY <2>1 DEF StartOf, EndOf, StepNode
  <2> QED BY <2>2 DEF Own
<1>2. \A i, k \in DOMAIN jobs : jobs[i].name = jobs[k].name => i = k
  BY Described
<1> QED BY <1>1, <1>2 DEF Own

LEMMA LeastNatural ==
  ASSUME NEW T \in SUBSET Nat, T # {}
  PROVE  \E x \in T : \A y \in T : x <= y
<1>1. IsWellFoundedOn(OpToRel(<, Nat), Nat)
  BY NatLessThanWellFounded
<1>2. PICK x \in T : \A y \in T : <<y, x>> \notin OpToRel(<, Nat)
  BY <1>1, WFMin
<1>3. ASSUME NEW y \in T PROVE x <= y
  <2>1. <<y, x>> \notin OpToRel(<, Nat)
    BY <1>2
  <2> QED BY <2>1 DEF OpToRel
<1> QED BY <1>3

\* The first k of finitely many finite sets have a finite union.
LEMMA FiniteUnion ==
  ASSUME NEW l \in Nat, NEW f, DOMAIN f = 1..l, \A i \in 1..l : IsFiniteSet(f[i])
  PROVE  IsFiniteSet(UNION {f[i] : i \in 1..l})
<1> DEFINE First(k) == UNION {f[i] : i \in 1..k}
           Bad == {k \in 0..l : ~IsFiniteSet(First(k))}
<1>1. SUFFICES ASSUME ~IsFiniteSet(First(l)) PROVE FALSE
  OBVIOUS
<1>2. First(0) = {}
  OBVIOUS
<1> HIDE DEF First
<1>3. l \in Bad /\ Bad \in SUBSET Nat
  BY <1>1
<1> HIDE DEF Bad
<1>4. PICK k \in Bad : \A y \in Bad : k <= y
  BY <1>3, LeastNatural
<1> USE DEF Bad
<1>5. k \in 1..l /\ ~IsFiniteSet(First(k))
  BY <1>2, <1>4, FS_EmptySet
<1>6. IsFiniteSet(First(k - 1))
  BY <1>4, <1>5
<1>7. First(k) = First(k - 1) \cup f[k]
  <2>1. 1..k = (1..(k - 1)) \cup {k}
    BY <1>5
  <2> QED BY <2>1 DEF First
<1>8. IsFiniteSet(f[k])
  BY <1>5
<1>9. IsFiniteSet(First(k - 1) \cup f[k])
  BY <1>6, <1>8, FS_Union
<1> QED BY <1>5, <1>7, <1>9

LEMMA FiniteImage ==
  ASSUME NEW l \in Nat, NEW f, DOMAIN f = 1..l
  PROVE  IsFiniteSet({f[i] : i \in 1..l})
<1> DEFINE T == {f[i] : i \in 1..l}
           g == [i \in 1..l |-> f[i]]
<1>1. g \in Surjection(1..l, T)
  BY DEF Surjection
<1>2. IsFiniteSet(1..l)
  BY FS_Interval
<1> QED BY <1>1, <1>2, FS_Surjection

LEMMA NodesFinite ==
  ASSUME jobs \in Descriptions
  PROVE  IsFiniteSet(Nodes)
<1> DEFINE StepsOf(i) == {StepNode(jobs[i], jobs[i].steps[k]) : k \in DOMAIN jobs[i].steps}
           Markers(i) == {StartOf(jobs[i].name), EndOf(jobs[i].name)}
           f == [i \in 1..Len(jobs) |-> Markers(i) \cup StepsOf(i)]
<1>1. /\ Len(jobs) \in Nat /\ DOMAIN jobs = 1..Len(jobs)
      /\ \A i \in DOMAIN jobs :
           Len(jobs[i].steps) \in Nat /\ DOMAIN jobs[i].steps = 1..Len(jobs[i].steps)
  BY Described
<1>2. ASSUME NEW i \in 1..Len(jobs) PROVE IsFiniteSet(f[i])
  <2> DEFINE g == [k \in 1..Len(jobs[i].steps) |-> StepNode(jobs[i], jobs[i].steps[k])]
  <2>1. IsFiniteSet({g[k] : k \in 1..Len(jobs[i].steps)})
    BY <1>1, FiniteImage
  <2>2. StepsOf(i) = {g[k] : k \in 1..Len(jobs[i].steps)}
    BY <1>1
  <2>3. IsFiniteSet({StartOf(jobs[i].name)} \cup {EndOf(jobs[i].name)})
    BY FS_Singleton, FS_Union
  <2>4. Markers(i) = {StartOf(jobs[i].name)} \cup {EndOf(jobs[i].name)}
    OBVIOUS
  <2>5. IsFiniteSet(Markers(i)) /\ IsFiniteSet(StepsOf(i))
    BY <2>1, <2>2, <2>3, <2>4
  <2> HIDE DEF Markers, StepsOf
  <2>6. IsFiniteSet(Markers(i) \cup StepsOf(i))
    BY <2>5, FS_Union
  <2> QED BY <2>6
<1>3. IsFiniteSet(UNION {f[i] : i \in 1..Len(jobs)})
  <2> HIDE DEF f
  <2>1. DOMAIN f = 1..Len(jobs)
    BY DEF f
  <2> QED BY <1>1, <1>2, <2>1, FiniteUnion
<1>4. Nodes = UNION {f[i] : i \in 1..Len(jobs)}
  BY <1>1 DEF Nodes, WorkNodes
<1> QED BY <1>3, <1>4

-----------------------------------------------------------------------------
(* Graphs: what Reach is, and where a cycle comes from.                    *)

LEMMA ReachIncludes ==
  ASSUME \A n \in Nodes : Successors(n) \subseteq Nodes, NEW n \in Nodes
  PROVE  /\ Successors(n) \subseteq Reach(n) /\ Reach(n) \subseteq Nodes
         /\ \A m \in Reach(n) : Successors(m) \subseteq Reach(n)
         /\ \A m \in Successors(n) : Reach(m) \subseteq Reach(n)
BY DEF Reach

\* Whatever is closed under successors holds what is reached from it.
LEMMA ReachLeast ==
  ASSUME NEW n \in Nodes, NEW S \in SUBSET Nodes,
         Successors(n) \subseteq S, \A k \in S : Successors(k) \subseteq S
  PROVE  Reach(n) \subseteq S
BY DEF Reach

LEMMA ReachTransitive ==
  ASSUME \A n \in Nodes : Successors(n) \subseteq Nodes,
         NEW n \in Nodes, NEW m \in Reach(n)
  PROVE  Reach(m) \subseteq Reach(n)
<1>1. m \in Nodes /\ Successors(m) \subseteq Reach(n) /\ Reach(n) \subseteq Nodes
      /\ \A k \in Reach(n) : Successors(k) \subseteq Reach(n)
  BY ReachIncludes
<1> QED BY <1>1, ReachLeast

\* What reaches m first goes to a successor.
LEMMA ReachFirst ==
  ASSUME \A n \in Nodes : Successors(n) \subseteq Nodes,
         NEW n \in Nodes, NEW m \in Reach(n)
  PROVE  \E k \in Successors(n) : m = k \/ m \in Reach(k)
<1> DEFINE S == Successors(n) \cup UNION {Reach(k) : k \in Successors(n)}
<1>1. S \subseteq Nodes /\ Successors(n) \subseteq S
  BY ReachIncludes
<1>2. ASSUME NEW x \in S PROVE Successors(x) \subseteq S
  <2>1. CASE x \in Successors(n)
    <3>1. x \in Nodes /\ Successors(x) \subseteq Reach(x)
      BY <2>1, ReachIncludes
    <3> QED BY <2>1, <3>1
  <2>2. CASE \E k \in Successors(n) : x \in Reach(k)
    <3>1. PICK k \in Successors(n) : x \in Reach(k)
      BY <2>2
    <3>2. Successors(x) \subseteq Reach(k)
      BY <3>1, ReachIncludes
    <3> QED BY <3>2
  <2> QED BY <2>1, <2>2
<1>3. m \in S
  BY <1>1, <1>2, ReachLeast
<1> QED BY <1>3

\* If every set of nodes has a member without successors in it, no node reaches
\* itself: the nodes of a cycle would have to be such a set.
LEMMA NoCycle ==
  ASSUME \A n \in Nodes : Successors(n) \subseteq Nodes,
         \A S \in SUBSET Nodes : S # {} => \E n \in S : Successors(n) \cap S = {}
  PROVE  Acyclic
<1>1. SUFFICES ASSUME NEW n \in Nodes, n \in Reach(n) PROVE FALSE
  BY DEF Acyclic
<1> DEFINE S == {m \in Reach(n) : n \in Reach(m)}
<1>2. S \subseteq Nodes /\ n \in S
  BY <1>1, ReachIncludes
<1>3. PICK m \in S : Successors(m) \cap S = {}
  BY <1>2
<1>4. PICK k \in Successors(m) : n = k \/ n \in Reach(k)
  BY <1>2, <1>3, ReachFirst
<1>5. k \in Reach(n)
  BY <1>1, <1>2, <1>3, ReachIncludes
<1> QED BY <1>2, <1>3, <1>4, <1>5

\* Finitely many nodes each of which has a predecessor among them: going back
\* from one to the next ends in a cycle, or the sets of those that are reached
\* from shrink for ever.
LEMMA PredecessorsCycle ==
  ASSUME jobs \in Descriptions, \A n \in Nodes : Successors(n) \subseteq Nodes,
         NEW S \in SUBSET Nodes, S # {}, \A n \in S : \E p \in S : n \in Successors(p)
  PROVE  ~Acyclic
<1>1. SUFFICES ASSUME Acyclic PROVE FALSE
  OBVIOUS
<1> DEFINE Before(n) == {k \in S : n \in Reach(k)}
           F == {Before(n) : n \in S}
<1>2. F # {} /\ F \subseteq FiniteSubsetsOf(S)
  <2>1. IsFiniteSet(S)
    BY NodesFinite, FS_Subset
  <2>2. FiniteSubsetsOf(S) = SUBSET S
    BY <2>1, FS_FiniteSubsetsOfFinite
  <2>3. \A n \in S : Before(n) \in SUBSET S
    OBVIOUS
  <2> HIDE DEF Before
  <2> QED BY <2>2, <2>3
<1>3. IsWellFoundedOn(StrictSubsetOrdering(S), FiniteSubsetsOf(S))
  BY FS_StrictSubsetOrderingWellFounded
<1>4. PICK B \in F : \A C \in F : <<C, B>> \notin StrictSubsetOrdering(S)
  BY <1>2, <1>3, WFMin
<1>5. PICK n \in S : B = Before(n)
  BY <1>4
<1>6. PICK p \in S : n \in Successors(p)
  BY <1>5
<1>7. p \in Before(n) /\ p \notin Before(p)
  BY <1>1, <1>6, ReachIncludes DEF Acyclic
<1>8. ASSUME NEW k \in Before(p) PROVE k \in Before(n)
  <2>1. p \in Reach(k) /\ k \in Nodes
    OBVIOUS
  <2>2. n \in Reach(k)
    BY <2>1, <1>6, ReachIncludes
  <2> QED BY <2>2
<1>9. <<Before(p), B>> \in StrictSubsetOrdering(S)
  <2>1. Before(p) \subseteq B /\ Before(p) # B /\ Before(p) \in SUBSET S /\ B \in SUBSET S
    BY <1>5, <1>7, <1>8
  <2> HIDE DEF Before
  <2> QED BY <2>1 DEF StrictSubsetOrdering
<1>10. Before(p) \in F
  OBVIOUS
<1> QED BY <1>4, <1>9, <1>10

-----------------------------------------------------------------------------
(* Edges and their number.                                                 *)

LEMMA EdgesAre ==
  ASSUME NEW n
  PROVE  \A e : e \in EdgesInto(n) <=>
           \E p \in Nodes : \E i \in DOMAIN next_nodes[p] : next_nodes[p][i] = n /\ e = <<p, i>>
BY DEF EdgesInto

LEMMA SuccessorsInside ==
  ASSUME GraphTypeOK
  PROVE  \A n \in Nodes : Successors(n) \subseteq Nodes
BY DEF GraphTypeOK, Successors

\* The graph is the same: so is everything read off it.
LEMMA SameGraph ==
  ASSUME UNCHANGED <<jobs, next_nodes>>
  PROVE  /\ Nodes' = Nodes
         /\ \A n : Successors(n)' = Successors(n)
         /\ \A n : EdgesInto(n)' = EdgesInto(n)
         /\ \A i : Own(i)' = Own(i)
         /\ \A n : Reach(n)' = Reach(n)
BY DEF Nodes, Successors, EdgesInto, Own, Reach

\* One more edge: its source has one more successor and its target one more
\* edge, which was none before.
LEMMA EdgeAdded ==
  ASSUME GraphTypeOK, NEW from \in Nodes, NEW to \in Nodes, AddEdge(from, to), UNCHANGED jobs
  PROVE  /\ next_nodes' \in [Nodes -> Seq(Nodes)]
         /\ Nodes' = Nodes /\ \A i : Own(i)' = Own(i)
         /\ \A n \in Nodes : /\ DOMAIN next_nodes[n] \subseteq DOMAIN next_nodes'[n]
                             /\ \A i \in DOMAIN next_nodes[n] : next_nodes'[n][i] = next_nodes[n][i]
                             /\ \A i \in DOMAIN next_nodes'[n] :
                                  i \in DOMAIN next_nodes[n] \/ next_nodes'[n][i] = to
         /\ \A n \in Nodes : Successors(n)' = IF n = from THEN Successors(n) \cup {to}
                                                         ELSE Successors(n)
         /\ \A n \in Nodes : n # to => EdgesInto(n)' = EdgesInto(n)
         /\ \E e : e \notin EdgesInto(to) /\ EdgesInto(to)' = EdgesInto(to) \cup {e}
<1> DEFINE last == Len(next_nodes[from]) + 1
<1>1. /\ next_nodes \in [Nodes -> Seq(Nodes)]
      /\ next_nodes' = [next_nodes EXCEPT ![from] = Append(next_nodes[from], to)]
  BY DEF GraphTypeOK, AddEdge
<1>2. Nodes' = Nodes /\ \A i : Own(i)' = Own(i)
  BY DEF Nodes, Own
<1>3. /\ next_nodes[from] \in Seq(Nodes) /\ last \in Nat
      /\ DOMAIN next_nodes[from] = 1..Len(next_nodes[from])
      /\ next_nodes'[from] \in Seq(Nodes)
      /\ DOMAIN next_nodes'[from] = 1..last
      /\ Len(next_nodes'[from]) = last
      /\ next_nodes'[from][last] = to
      /\ \A i \in DOMAIN next_nodes[from] : next_nodes'[from][i] = next_nodes[from][i]
      /\ last \notin DOMAIN next_nodes[from]
      /\ DOMAIN next_nodes'[from] = DOMAIN next_nodes[from] \cup {last}
  BY <1>1
<1>4. \A n \in Nodes : n # from => next_nodes'[n] = next_nodes[n]
  BY <1>1
<1>5. next_nodes' \in [Nodes -> Seq(Nodes)]
  BY <1>1
<1> HIDE DEF last
<1>6. ASSUME NEW n \in Nodes
      PROVE  /\ DOMAIN next_nodes[n] \subseteq DOMAIN next_nodes'[n]
             /\ \A i \in DOMAIN next_nodes[n] : next_nodes'[n][i] = next_nodes[n][i]
             /\ \A i \in DOMAIN next_nodes'[n] :
                  i \in DOMAIN next_nodes[n] \/ next_nodes'[n][i] = to
  <2>1. CASE n = from
    BY <1>3, <2>1
  <2>2. CASE n # from
    BY <1>4, <2>2
  <2> QED BY <2>1, <2>2
<1>7. ASSUME NEW n \in Nodes
      PROVE  Successors(n)' = IF n = from THEN Successors(n) \cup {to} ELSE Successors(n)
  <2>1. CASE n = from
    <3>1. {next_nodes'[from][i] : i \in DOMAIN next_nodes'[from]} =
            {next_nodes[from][i] : i \in DOMAIN next_nodes[from]} \cup {to}
      BY <1>3
    <3> QED BY <2>1, <3>1 DEF Successors
  <2>2. CASE n # from
    BY <1>4, <2>2 DEF Successors
  <2> QED BY <2>1, <2>2
<1>8. ASSUME NEW n \in Nodes, n # to PROVE EdgesInto(n)' = EdgesInto(n)
  <2>1. ASSUME NEW p \in Nodes, NEW i
        PROVE  (i \in DOMAIN next_nodes'[p] /\ next_nodes'[p][i] = n) <=>
                 (i \in DOMAIN next_nodes[p] /\ next_nodes[p][i] = n)
    BY <1>3, <1>4, <1>8
  <2>2. \A e : e \in EdgesInto(n)' <=> e \in EdgesInto(n)
    BY <1>2, <2>1 DEF EdgesInto
  <2> QED BY <2>2
<1>9. <<from, last>> \notin EdgesInto(to)
  <2>1. ASSUME <<from, last>> \in EdgesInto(to) PROVE last \in DOMAIN next_nodes[from]
    BY <2>1, EdgesAre
  <2> QED BY <1>3, <2>1
<1>10. EdgesInto(to)' = EdgesInto(to) \cup {<<from, last>>}
  <2>1. ASSUME NEW p \in Nodes, NEW i
        PROVE  (i \in DOMAIN next_nodes'[p] /\ next_nodes'[p][i] = to) <=>
                 ((i \in DOMAIN next_nodes[p] /\ next_nodes[p][i] = to)
                    \/ (p = from /\ i = last))
    BY <1>3, <1>4
  <2>2. \A e : e \in EdgesInto(to)' <=> e \in EdgesInto(to) \cup {<<from, last>>}
    BY <1>2, <2>1 DEF EdgesInto
  <2> QED BY <2>2
<1> QED BY <1>2, <1>5, <1>6, <1>7, <1>8, <1>9, <1>10

-----------------------------------------------------------------------------
(* What the steps of init_workflow have in common, and those after them.   *)

BuildJob ==
  \/ GenerateJobsDependency \/ GenerateStepDependency \/ GenerateStartDependency
  \/ SearchJob \/ VisitSuccessor \/ ReturnFromNode \/ NextJob

Validate ==
  \/ InitQueue \/ CheckNode \/ CheckSuccessor \/ NodeChecked
  \/ RejectUnreached \/ Accept \/ RollbackDependencyCount \/ Ready

\* While a job is built, only edges into its nodes are added.
Extends == UNCHANGED graph \/ \E from \in Nodes, to \in Own(job) : AddEdge(from, to)

\* Where the searches are.
LEMMA InnerCallIs ==
  ASSUME GraphTypeOK, search # << >>
  PROVE  /\ Len(search) \in Nat /\ Len(search) > 0 /\ DOMAIN search = 1..Len(search)
         /\ Len(search) \in DOMAIN search
         /\ InnerCall \in [node : Nodes, place : Nat \ {0}, have_self_task_step : BOOLEAN]
         /\ Len(next_nodes[InnerCall.node]) \in Nat
         /\ DOMAIN next_nodes[InnerCall.node] = 1..Len(next_nodes[InnerCall.node])
<1> DEFINE Calls == [node : Nodes, place : Nat \ {0}, have_self_task_step : BOOLEAN]
<1>1. search \in Seq(Calls) /\ next_nodes \in [Nodes -> Seq(Nodes)]
  BY DEF GraphTypeOK
<1> HIDE DEF Calls
<1>2. Len(search) \in Nat /\ Len(search) > 0 /\ DOMAIN search = 1..Len(search)
      /\ Len(search) \in DOMAIN search /\ search[Len(search)] \in Calls
  BY <1>1
<1>3. InnerCall \in [node : Nodes, place : Nat \ {0}, have_self_task_step : BOOLEAN]
  BY <1>2 DEF InnerCall, Calls
<1>4. next_nodes[InnerCall.node] \in Seq(Nodes)
  BY <1>1, <1>3
<1> QED BY <1>2, <1>3, <1>4

LEMMA BuildExtends ==
  ASSUME GraphInv, BuildJob
  PROVE  /\ pc \in Building /\ pc' \in Building \cup {"queue"}
         /\ UNCHANGED <<jobs, start_queue, validating>>
         /\ Extends
         /\ pc' = "queue" => UNCHANGED graph
<1> USE DEF Building
<1>1. /\ jobs \in Descriptions /\ next_nodes \in [Nodes -> Seq(Nodes)]
      /\ pc \in Building => job \in DOMAIN jobs
      /\ step \in Nat \ {0} /\ at \in Nat \ {0}
  BY DEF GraphInv, GraphTypeOK
<1>2. ASSUME GenerateJobsDependency PROVE Extends
  <2>1. job \in DOMAIN jobs /\ StartOf(CurrentJob.name) \in Own(job)
    BY <1>1, <1>2, OwnNodes DEF GenerateJobsDependency, CurrentJob
  <2>2. CASE at <= Len(CurrentJob.dependency)
    <3>1. at \in DOMAIN CurrentJob.dependency /\ EndOf(CurrentJob.dependency[at]) \in Nodes
      BY <1>1, <2>1, <2>2, Described DEF CurrentJob
    <3> QED BY <1>2, <2>1, <2>2, <3>1 DEF GenerateJobsDependency, Extends
  <2>3. CASE ~(at <= Len(CurrentJob.dependency))
    BY <1>2, <2>3 DEF GenerateJobsDependency, Extends
  <2> QED BY <2>2, <2>3
<1>3. ASSUME GenerateStepDependency PROVE Extends
  <2>1. job \in DOMAIN jobs /\ step \in DOMAIN CurrentJob.steps
    BY <1>1, <1>3, Described DEF GenerateStepDependency, CurrentJob
  <2>2. StepNode(CurrentJob, CurrentStep) \in Own(job)
    BY <1>1, <2>1, OwnNodes DEF CurrentJob, CurrentStep
  <2>3. Target(CurrentJob, CurrentStep.dependency[at]) \in Nodes
    BY <1>1, <1>3, <2>1, StepDescribed DEF GenerateStepDependency, CurrentJob, CurrentStep
  <2> QED BY <1>3, <2>2, <2>3 DEF GenerateStepDependency, Extends
<1>4. ASSUME GenerateStartDependency PROVE Extends
  <2>1. job \in DOMAIN jobs /\ step \in DOMAIN CurrentJob.steps
    BY <1>1, <1>4, Described DEF GenerateStartDependency, CurrentJob
  <2>2. StepNode(CurrentJob, CurrentStep) \in Own(job) /\ StartOf(CurrentJob.name) \in Nodes
    BY <1>1, <2>1, OwnNodes DEF CurrentJob, CurrentStep
  <2> QED BY <1>4, <2>2 DEF GenerateStartDependency, Extends
<1>5. ASSUME ReturnFromNode PROVE Extends
  <2>1. job \in DOMAIN jobs /\ EndOf(CurrentJob.name) \in Own(job)
    BY <1>1, <1>5, OwnNodes DEF ReturnFromNode, CurrentJob
  <2>2. InnerCall.node \in Nodes
    BY <1>5, InnerCallIs DEF ReturnFromNode, GraphInv
  <2> QED BY <1>5, <2>1, <2>2 DEF ReturnFromNode, Extends
<1>6. ASSUME SearchJob \/ VisitSuccessor \/ NextJob PROVE UNCHANGED graph
  BY <1>6 DEF SearchJob, VisitSuccessor, NextJob
<1>7. Extends
  BY <1>2, <1>3, <1>4, <1>5, <1>6 DEF BuildJob, Extends
<1>8. pc \in Building /\ pc' \in Building \cup {"queue"}
      /\ UNCHANGED <<jobs, start_queue, validating>>
  BY DEF BuildJob, GenerateJobsDependency, GenerateStepDependency, GenerateStartDependency,
         SearchJob, VisitSuccessor, ReturnFromNode, NextJob
<1>9. pc' = "queue" => UNCHANGED graph
  BY DEF BuildJob, GenerateJobsDependency, GenerateStepDependency, GenerateStartDependency,
         SearchJob, VisitSuccessor, ReturnFromNode, NextJob
<1> QED BY <1>7, <1>8, <1>9

LEMMA ValidateKeeps ==
  ASSUME GraphInv, Validate
  PROVE  /\ pc \notin Building /\ pc' \notin Building \cup {"queue"}
         /\ UNCHANGED <<jobs, job, step, searching, next_nodes>>
BY DEF Building, Validate, InitQueue, CheckNode, CheckSuccessor, NodeChecked, RejectUnreached,
       Accept, RollbackDependencyCount, Ready, cursor, graph

-----------------------------------------------------------------------------
(* Types.                                                                  *)

\* What a graph that is extended keeps.
LEMMA ExtendsKeepsTypes ==
  ASSUME GraphTypeOK, pc \in Building, Extends, UNCHANGED jobs
  PROVE  /\ Nodes' = Nodes
         /\ next_nodes' \in [Nodes -> Seq(Nodes)]
         /\ dependency_account' \in [Nodes -> Nat]
<1>1. next_nodes \in [Nodes -> Seq(Nodes)] /\ dependency_account \in [Nodes -> Nat]
      /\ Nodes' = Nodes
  BY DEF GraphTypeOK, Nodes
<1>2. ASSUME NEW from \in Nodes, NEW to \in Own(job), AddEdge(from, to)
      PROVE  /\ next_nodes' \in [Nodes -> Seq(Nodes)]
             /\ dependency_account' \in [Nodes -> Nat]
  <2>1. to \in Nodes
        /\ dependency_account' = [dependency_account EXCEPT ![to] = dependency_account[to] + 1]
    BY <1>2 DEF Own, AddEdge
  <2>2. next_nodes' \in [Nodes -> Seq(Nodes)]
    BY <1>2, <2>1, EdgeAdded
  <2>3. dependency_account[to] + 1 \in Nat
    BY <1>1, <2>1
  <2>4. dependency_account' \in [Nodes -> Nat]
    BY <1>1, <2>1, <2>3
  <2> QED BY <2>2, <2>4
<1> QED BY <1>1, <1>2 DEF Extends, graph

LEMMA BuildKeepsTypes ==
  ASSUME GraphInv, BuildJob
  PROVE  GraphTypeOK'
<1> USE DEF Building
<1> DEFINE Calls == [node : Nodes, place : Nat \ {0}, have_self_task_step : BOOLEAN]
<1>1. /\ GraphTypeOK /\ pc \in Building /\ pc' \in Building \cup {"queue"}
      /\ UNCHANGED <<jobs, start_queue, validating>> /\ Extends
  BY BuildExtends DEF GraphInv
<1>2. /\ jobs' \in Descriptions /\ Nodes' = Nodes
      /\ next_nodes' \in [Nodes' -> Seq(Nodes')]
      /\ dependency_account' \in [Nodes' -> Nat]
      /\ kahn_queue' \in Seq(Nodes') /\ checked_node' \subseteq Nodes'
      /\ work_node_back' \in Seq(Nodes')
      /\ checking' = << >> \/ \E n \in checked_node' : checking' = <<n>>
  BY <1>1, ExtendsKeepsTypes DEF GraphTypeOK, validating
<1>3. /\ job \in Nat /\ job \in DOMAIN jobs /\ step \in Nat \ {0} /\ at \in Nat \ {0}
      /\ search \in Seq(Calls) /\ worknode_found \subseteq Nodes
      /\ Len(jobs) \in Nat /\ DOMAIN jobs = 1..Len(jobs)
  BY <1>1, Described DEF GraphTypeOK
<1>4. job' \in Nat /\ step' \in Nat \ {0} /\ at' \in Nat \ {0}
      /\ IF pc' \in Building THEN job' \in DOMAIN jobs' ELSE job' = Len(jobs') + 1
  <2>1. ASSUME NextJob
        PROVE  job' \in Nat /\ step' \in Nat \ {0} /\ at' \in Nat \ {0}
               /\ IF pc' \in Building THEN job' \in DOMAIN jobs' ELSE job' = Len(jobs') + 1
    BY <1>3, <2>1 DEF NextJob
  <2>2. ASSUME ~NextJob
        PROVE  job' = job /\ step' \in Nat \ {0} /\ at' \in Nat \ {0} /\ pc' \in Building
    BY <1>3, <2>2
       DEF BuildJob, GenerateJobsDependency, GenerateStepDependency, GenerateStartDependency,
         SearchJob, VisitSuccessor, ReturnFromNode, cursor
  <2> QED BY <1>1, <1>3, <2>1, <2>2
<1>5. search' \in Seq(Calls) /\ worknode_found' \subseteq Nodes
  <2>1. CASE GenerateJobsDependency \/ GenerateStepDependency \/ GenerateStartDependency \/ NextJob
    BY <1>3, <2>1 DEF GenerateJobsDependency, GenerateStepDependency, GenerateStartDependency,
                      NextJob, searching
  <2>2. CASE SearchJob
    <3>1. StartOf(CurrentJob.name) \in Nodes
      BY <1>1, <1>3, OwnNodes DEF CurrentJob, GraphTypeOK
    <3>2. Call(StartOf(CurrentJob.name)) \in Calls
      BY <3>1 DEF Call
    <3> HIDE DEF Calls
    <3> QED BY <1>3, <2>2, <3>2 DEF SearchJob
  <2>3. CASE VisitSuccessor
    <3> DEFINE m == next_nodes[InnerCall.node][InnerCall.place]
               on == [node |-> InnerCall.node, place |-> InnerCall.place + 1,
                      have_self_task_step |-> TRUE]
               skip == [node |-> InnerCall.node, place |-> InnerCall.place + 1,
                        have_self_task_step |-> InnerCall.have_self_task_step]
    <3>1. /\ search # << >> /\ Len(search) \in DOMAIN search /\ InnerCall \in Calls
          /\ Len(next_nodes[InnerCall.node]) \in Nat
          /\ DOMAIN next_nodes[InnerCall.node] = 1..Len(next_nodes[InnerCall.node])
      BY <1>1, <2>3, InnerCallIs DEF VisitSuccessor
    <3>2. InnerCall.place \in DOMAIN next_nodes[InnerCall.node]
      BY <2>3, <3>1 DEF VisitSuccessor, Exhausted
    <3>3. m \in Nodes
      <4>1. next_nodes[InnerCall.node] \in Seq(Nodes)
        BY <1>1, <3>1 DEF GraphTypeOK
      <4> QED BY <3>2, <4>1
    <3>4. on \in Calls /\ skip \in Calls /\ Call(m) \in Calls
      BY <3>1, <3>3 DEF Call
    <3>5. \/ /\ worknode_found' = worknode_found \cup {m}
             /\ search' = Append([search EXCEPT ![Len(search)] = on], Call(m))
          \/ /\ worknode_found' = worknode_found
             /\ search' = [search EXCEPT ![Len(search)] = skip]
      BY <2>3 DEF VisitSuccessor
    <3> HIDE DEF Calls, m, on, skip
    <3>6. [search EXCEPT ![Len(search)] = on] \in Seq(Calls)
          /\ [search EXCEPT ![Len(search)] = skip] \in Seq(Calls)
      BY <1>3, <3>1, <3>4
    <3> QED BY <1>3, <3>3, <3>4, <3>5, <3>6
  <2>4. CASE ReturnFromNode
    <3>1. search # << >>
      BY <2>4 DEF ReturnFromNode
    <3>2. /\ search' = SubSeq(search, 1, Len(search) - 1) /\ worknode_found' = worknode_found
          /\ Len(search) \in Nat /\ Len(search) > 0
      BY <1>1, <2>4, <3>1, InnerCallIs DEF ReturnFromNode
    <3> HIDE DEF Calls
    <3> QED BY <1>3, <3>2
  <2> QED BY <2>1, <2>2, <2>3, <2>4 DEF BuildJob
<1> QED BY <1>1, <1>2, <1>4, <1>5 DEF GraphTypeOK

-----------------------------------------------------------------------------
(* The accounts and the edges.                                             *)

\* While the graph is built nothing is gone through and nothing is recorded.
LEMMA NothingGone ==
  ASSUME checked_node = {}, work_node_back = << >>
  PROVE  /\ \A n : EdgesLeft(n) = EdgesInto(n)
         /\ \A n : Cardinality(Places(n)) = 0
<1>1. \A n : Places(n) = {}
  BY DEF Places
<1> QED BY <1>1, FS_EmptySet DEF EdgesLeft, Gone

LEMMA BuildKeepsAccounts ==
  ASSUME GraphInv, BuildJob
  PROVE  AccountsCountEdges'
<1>1. /\ GraphTypeOK /\ UNCHANGED jobs /\ Extends /\ Nodes' = Nodes
      /\ checked_node = {} /\ work_node_back = << >>
      /\ checked_node' = {} /\ work_node_back' = << >>
      /\ dependency_account \in [Nodes -> Nat]
  BY BuildExtends, ExtendsKeepsTypes
     DEF GraphInv, GraphTypeOK, BeforeValidation, Building, validating
<1>2. \A n \in Nodes : IsFiniteSet(EdgesInto(n))
      /\ dependency_account[n] = Cardinality(EdgesInto(n))
  <2>1. ASSUME NEW n \in Nodes PROVE dependency_account[n] = Cardinality(EdgesInto(n))
    <3>1. dependency_account[n] + 0 = Cardinality(EdgesInto(n))
      BY <1>1, NothingGone DEF GraphInv, AccountsCountEdges
    <3> QED BY <1>1, <3>1
  <2> QED BY <2>1 DEF GraphInv, AccountsCountEdges
<1>3. \A n \in Nodes : IsFiniteSet(EdgesInto(n)')
      /\ dependency_account'[n] = Cardinality(EdgesInto(n)')
  <2>1. CASE UNCHANGED graph
    <3>1. \A n \in Nodes : EdgesInto(n)' = EdgesInto(n) /\ dependency_account' = dependency_account
      BY <1>1, <2>1, SameGraph DEF graph
    <3> QED BY <1>2, <3>1
  <2>2. CASE ~UNCHANGED graph
    <3>1. PICK from \in Nodes, to \in Own(job) : AddEdge(from, to)
      BY <1>1, <2>2 DEF Extends
    <3>2. to \in Nodes
          /\ dependency_account' = [dependency_account EXCEPT ![to] = dependency_account[to] + 1]
      BY <3>1 DEF Own, AddEdge
    <3>3. PICK e : e \notin EdgesInto(to) /\ EdgesInto(to)' = EdgesInto(to) \cup {e}
      BY <1>1, <3>1, <3>2, EdgeAdded
    <3>4. \A n \in Nodes : n # to => EdgesInto(n)' = EdgesInto(n)
      BY <1>1, <3>1, <3>2, EdgeAdded
    <3>5. IsFiniteSet(EdgesInto(to)')
          /\ Cardinality(EdgesInto(to)') = Cardinality(EdgesInto(to)) + 1
      BY <1>2, <3>2, <3>3, FS_AddElement
    <3>6. \A n \in Nodes : dependency_account'[n] = IF n = to THEN dependency_account[to] + 1
                                                             ELSE dependency_account[n]
      BY <1>1, <3>2
    <3>7. ASSUME NEW n \in Nodes
          PROVE  IsFiniteSet(EdgesInto(n)') /\ dependency_account'[n] = Cardinality(EdgesInto(n)')
      <4>1. CASE n = to
        BY <1>2, <3>5, <3>6, <4>1
      <4>2. CASE n # to
        BY <1>2, <3>4, <3>6, <4>2
      <4> QED BY <4>1, <4>2
    <3> QED BY <3>7
  <2> QED BY <2>1, <2>2
<1>4. /\ \A n \in Nodes : EdgesLeft(n)' = EdgesInto(n)'
      /\ \A n \in Nodes : Cardinality(Places(n)') = 0
  <2>1. \A n \in Nodes : Places(n)' = {}
    BY <1>1 DEF Places
  <2> QED BY <1>1, <2>1, FS_EmptySet DEF EdgesLeft, Gone
<1>5. dependency_account' \in [Nodes -> Nat]
  BY <1>1, ExtendsKeepsTypes, BuildExtends
<1>6. \A n \in Nodes : dependency_account'[n] + 0 = dependency_account'[n]
  BY <1>5
<1> QED BY <1>1, <1>3, <1>4, <1>6 DEF AccountsCountEdges

\* The oldest entry of the record leaves it: one place less for that node.
LEMMA PlacesOfTail ==
  ASSUME NEW q \in Seq(Nodes), q # << >>, NEW n
  PROVE  Cardinality({i \in DOMAIN q : q[i] = n}) =
           IF n = Head(q) THEN Cardinality({i \in DOMAIN Tail(q) : Tail(q)[i] = n}) + 1
                          ELSE Cardinality({i \in DOMAIN Tail(q) : Tail(q)[i] = n})
<1> DEFINE P == {i \in DOMAIN q : q[i] = n}
           R == {i \in DOMAIN Tail(q) : Tail(q)[i] = n}
           f == [i \in P \ {1} |-> i - 1]
<1>1. /\ Len(q) \in Nat /\ Len(q) > 0 /\ DOMAIN q = 1..Len(q) /\ Head(q) = q[1]
      /\ DOMAIN Tail(q) = 1..(Len(q) - 1)
      /\ \A i \in 1..(Len(q) - 1) : Tail(q)[i] = q[i + 1]
  OBVIOUS
<1>2. IsFiniteSet(P) /\ IsFiniteSet(P \ {1}) /\ Cardinality(P) \in Nat
  <2>1. IsFiniteSet(1..Len(q)) /\ P \subseteq 1..Len(q) /\ P \ {1} \subseteq 1..Len(q)
    BY <1>1, FS_Interval
  <2> QED BY <2>1, FS_Subset, FS_CardinalityType
<1>3. f \in Bijection(P \ {1}, R)
  <2>1. ASSUME NEW i \in P \ {1} PROVE i - 1 \in R
    BY <1>1
  <2>2. ASSUME NEW i \in R PROVE i + 1 \in P \ {1} /\ f[i + 1] = i
    BY <1>1
  <2>3. \A i, k \in P \ {1} : f[i] = f[k] => i = k
    BY <1>1
  <2>4. f \in [P \ {1} -> R]
    BY <2>1
  <2>5. \A t \in R : \E i \in P \ {1} : f[i] = t
    BY <2>2
  <2> HIDE DEF P, R, f
  <2>6. f \in Injection(P \ {1}, R)
    BY <2>3, <2>4 DEF Injection, IsInjective
  <2>7. f \in Surjection(P \ {1}, R)
    BY <2>4, <2>5 DEF Surjection
  <2> QED BY <2>6, <2>7 DEF Bijection
<1>4. Cardinality(R) = Cardinality(P \ {1})
  BY <1>2, <1>3, FS_Bijection DEF ExistsBijection
<1>5. Cardinality(P \ {1}) = IF 1 \in P THEN Cardinality(P) - 1 ELSE Cardinality(P)
  BY <1>2, FS_RemoveElement
<1>6. 1 \in P <=> n = Head(q)
  BY <1>1
<1> HIDE DEF P, R
<1>7. Cardinality(P) = IF n = Head(q) THEN Cardinality(R) + 1 ELSE Cardinality(R)
  BY <1>2, <1>4, <1>5, <1>6
<1> QED BY <1>7 DEF P, R

-----------------------------------------------------------------------------
(* Validation, action by action.                                           *)

\* What an action that only validates can disturb.
Validation ==
  /\ AccountsCountEdges
  /\ QueueHasFree
  /\ CheckedHasNoCycle
  /\ Verdict

\* The queue of the nodes that wait for nothing has each of them once.
LEMMA QueueOf ==
  ASSUME jobs \in Descriptions, NEW S \in SUBSET Nodes, NEW q \in ListsOf(S)
  PROVE  /\ q \in Seq(Nodes) /\ {q[i] : i \in DOMAIN q} = S
         /\ \A i, k \in DOMAIN q : q[i] = q[k] => i = k
<1>1. IsFiniteSet(S) /\ Cardinality(S) \in Nat
  BY NodesFinite, FS_Subset, FS_CardinalityType
<1>2. q \in [1..Cardinality(S) -> S] /\ \A n \in S : \E i \in DOMAIN q : q[i] = n
  BY DEF ListsOf
<1>3. q \in Seq(Nodes) /\ DOMAIN q = 1..Cardinality(S)
  BY <1>1, <1>2
<1>4. q \in Surjection(1..Cardinality(S), S)
  BY <1>2, <1>3 DEF Surjection
<1>5. IsFiniteSet(1..Cardinality(S)) /\ Cardinality(1..Cardinality(S)) = Cardinality(S)
  BY <1>1, FS_Interval
<1>6. q \in Injection(1..Cardinality(S), S)
  BY <1>4, <1>5, FS_Surjection
<1>7. \A i, k \in DOMAIN q : q[i] = q[k] => i = k
  BY <1>3, <1>6 DEF Injection, IsInjective
<1>8. {q[i] : i \in DOMAIN q} = S
  BY <1>2, <1>3
<1> QED BY <1>3, <1>7, <1>8

\* The nodes without waiting edges are those with account 0.
LEMMA FreeMeansNoneWaits ==
  ASSUME AccountsCountEdges, pc \in {"queue", "validate"}, NEW n \in Nodes
  PROVE  /\ IsFiniteSet(EdgesLeft(n))
         /\ dependency_account[n] = Cardinality(EdgesLeft(n))
         /\ dependency_account[n] = 0 <=> EdgesLeft(n) = {}
<1>1. IsFiniteSet(EdgesInto(n)) /\ dependency_account[n] = Cardinality(EdgesLeft(n))
  BY DEF AccountsCountEdges
<1>2. EdgesLeft(n) \subseteq EdgesInto(n)
  BY DEF EdgesLeft
<1>3. IsFiniteSet(EdgesLeft(n))
  BY <1>1, <1>2, FS_Subset
<1> QED BY <1>1, <1>3, FS_EmptySet

LEMMA InitQueueKeeps ==
  ASSUME GraphInv, InitQueue
  PROVE  /\ kahn_queue' \in Seq(Nodes)
         /\ Validation'
<1> DEFINE S == {n \in Nodes : dependency_account[n] = 0}
<1>1. /\ jobs \in Descriptions /\ pc = "queue" /\ pc' = "validate"
      /\ kahn_queue' \in ListsOf(S)
      /\ UNCHANGED <<jobs, next_nodes, dependency_account, checked_node, checking, at, work_node_back>>
      /\ checked_node = {} /\ work_node_back = << >>
  BY DEF InitQueue, GraphInv, GraphTypeOK, BeforeValidation, cursor, graph
<1>2. /\ kahn_queue' \in Seq(Nodes) /\ {kahn_queue'[i] : i \in DOMAIN kahn_queue'} = S
      /\ \A i, k \in DOMAIN kahn_queue' : kahn_queue'[i] = kahn_queue'[k] => i = k
  BY <1>1, QueueOf
<1>3. Nodes' = Nodes /\ \A n : EdgesInto(n)' = EdgesInto(n)
  BY <1>1, SameGraph
<1>4. (\A n : EdgesLeft(n)' = EdgesLeft(n)) /\ \A n : Places(n)' = Places(n)
  BY <1>1, <1>3 DEF EdgesLeft, Gone, Places
<1>5. AccountsCountEdges'
  BY <1>1, <1>3, <1>4 DEF GraphInv, AccountsCountEdges
<1>6. QueueHasFree'
  BY <1>1, <1>2, <1>3 DEF QueueHasFree, Queued
<1>7. CheckedHasNoCycle'
  BY <1>1 DEF CheckedHasNoCycle
<1>8. Verdict'
  BY <1>1 DEF Verdict
<1> QED BY <1>2, <1>5, <1>6, <1>7, <1>8 DEF Validation

\* The head of the queue is a node whose predecessors were checked, and none of
\* whose successors was.
LEMMA CheckNodeKeeps ==
  ASSUME GraphInv, CheckNode
  PROVE  /\ kahn_queue' \in Seq(Nodes)
         /\ checked_node' \subseteq Nodes /\ \E n \in checked_node' : checking' = <<n>>
         /\ Validation'
<1> DEFINE n == Head(kahn_queue)
<1>1. /\ GraphTypeOK /\ AccountsCountEdges /\ QueueHasFree /\ CheckedHasNoCycle
      /\ pc = "validate" /\ checking = << >> /\ kahn_queue # << >>
      /\ checking' = <<n>> /\ at' = 1
      /\ kahn_queue' = Tail(kahn_queue) /\ checked_node' = checked_node \cup {n}
      /\ UNCHANGED <<jobs, next_nodes, dependency_account, work_node_back, pc>>
  BY DEF CheckNode, GraphInv, graph
<1>2. /\ kahn_queue \in Seq(Nodes) /\ checked_node \subseteq Nodes
      /\ Nodes' = Nodes /\ \A m : EdgesInto(m)' = EdgesInto(m)
      /\ \A m : Successors(m)' = Successors(m)
      /\ next_nodes \in [Nodes -> Seq(Nodes)]
  BY <1>1, SameGraph DEF GraphTypeOK
<1>3. /\ Len(kahn_queue) \in Nat /\ Len(kahn_queue) > 0 /\ DOMAIN kahn_queue = 1..Len(kahn_queue)
      /\ n = kahn_queue[1] /\ n \in Nodes
      /\ kahn_queue' \in Seq(Nodes)
      /\ DOMAIN kahn_queue' = 1..(Len(kahn_queue) - 1)
      /\ \A i \in 1..(Len(kahn_queue) - 1) : kahn_queue'[i] = kahn_queue[i + 1]
  BY <1>1, <1>2
<1> HIDE DEF n
<1>4. n \in Queued /\ n \notin checked_node /\ dependency_account[n] = 0
  <2>1. n \in Queued
    BY <1>3 DEF Queued
  <2> QED BY <1>1, <1>3, <2>1 DEF QueueHasFree
<1>5. ASSUME NEW m \in Nodes PROVE EdgesLeft(m)' = EdgesLeft(m)
  <2>1. ASSUME NEW e \in EdgesInto(m) PROVE Gone(e)' <=> Gone(e)
    <3>1. PICK p \in Nodes : \E i \in DOMAIN next_nodes[p] : e = <<p, i>>
      BY EdgesAre
    <3>2. PICK i \in DOMAIN next_nodes[p] : e = <<p, i>>
      BY <3>1
    <3>3. ~(i < 1)
      BY <1>2, <3>2
    <3>4. e[1] = p /\ e[2] = i /\ (checking' = <<e[1]>> <=> p = n)
      BY <1>1, <3>2
    <3> QED BY <1>1, <1>4, <3>3, <3>4 DEF Gone
  <2> QED BY <1>2, <2>1 DEF EdgesLeft
<1>6. AccountsCountEdges'
  <2>1. \A m : Places(m)' = Places(m)
    BY <1>1 DEF Places
  <2> QED BY <1>1, <1>2, <1>5, <2>1 DEF AccountsCountEdges
<1>7. QueueHasFree'
  <2>1. ASSUME NEW i \in DOMAIN kahn_queue', NEW k \in DOMAIN kahn_queue',
               kahn_queue'[i] = kahn_queue'[k]
        PROVE  i = k
    <3>1. /\ i \in Nat /\ k \in Nat /\ i + 1 \in DOMAIN kahn_queue /\ k + 1 \in DOMAIN kahn_queue
          /\ kahn_queue[i + 1] = kahn_queue[k + 1]
      BY <1>3, <2>1
    <3>2. i + 1 = k + 1
      BY <1>1, <3>1 DEF QueueHasFree
    <3> QED BY <3>1, <3>2
  <2>2. Queued' \cup {n} = Queued
    <3>1. ASSUME NEW i \in DOMAIN kahn_queue' PROVE kahn_queue'[i] \in Queued
      <4>1. i + 1 \in DOMAIN kahn_queue /\ kahn_queue'[i] = kahn_queue[i + 1]
        BY <1>3
      <4> QED BY <4>1 DEF Queued
    <3>2. ASSUME NEW i \in DOMAIN kahn_queue, i # 1 PROVE kahn_queue[i] \in Queued'
      <4>1. i - 1 \in DOMAIN kahn_queue' /\ kahn_queue'[i - 1] = kahn_queue[i]
        BY <1>3, <3>2
      <4> QED BY <4>1 DEF Queued
    <3> QED BY <1>3, <1>4, <3>1, <3>2 DEF Queued
  <2>3. n \notin Queued'
    <3>1. SUFFICES ASSUME NEW i \in DOMAIN kahn_queue', kahn_queue'[i] = n PROVE FALSE
      BY DEF Queued
    <3>2. i + 1 \in DOMAIN kahn_queue /\ 1 \in DOMAIN kahn_queue /\ i + 1 # 1
          /\ kahn_queue[i + 1] = kahn_queue[1]
      BY <1>3, <3>1
    <3> QED BY <1>1, <3>2 DEF QueueHasFree
  <2> QED BY <1>1, <1>2, <2>1, <2>2, <2>3 DEF QueueHasFree
<1>8. Successors(n) \cap checked_node' = {}
  <2>1. SUFFICES ASSUME NEW m \in Successors(n), m \in checked_node' PROVE FALSE
    OBVIOUS
  <2>2. PICK i \in DOMAIN next_nodes[n] : next_nodes[n][i] = m
    BY DEF Successors
  <2>3. m \in Nodes /\ dependency_account[m] = 0
    BY <1>1, <1>2, <1>3, <1>4, <2>1 DEF QueueHasFree
  <2>4. <<n, i>> \in EdgesInto(m) /\ ~Gone(<<n, i>>)
    BY <1>3, <1>4, <2>2, EdgesAre DEF Gone
  <2>5. EdgesLeft(m) = {}
    BY <1>1, <2>3, FreeMeansNoneWaits
  <2> QED BY <2>4, <2>5 DEF EdgesLeft
<1>9. CheckedHasNoCycle'
  <2>1. SUFFICES ASSUME NEW S \in SUBSET checked_node', S # {}
                 PROVE  \E m \in S : Successors(m) \cap S = {}
    BY <1>2 DEF CheckedHasNoCycle
  <2>2. CASE n \in S
    BY <1>8, <2>2
  <2>3. CASE n \notin S
    BY <1>1, <2>1, <2>3 DEF CheckedHasNoCycle
  <2> QED BY <2>2, <2>3
<1>10. Verdict'
  BY <1>1 DEF Verdict
<1> QED BY <1>1, <1>2, <1>3, <1>6, <1>7, <1>9, <1>10 DEF Validation

\* Where the elements of a longer queue are.
LEMMA Appended ==
  ASSUME NEW S, NEW q \in Seq(S), NEW x \in S, NEW r, r = Append(q, x)
  PROVE  /\ r \in Seq(S) /\ Len(q) \in Nat /\ DOMAIN q = 1..Len(q)
         /\ DOMAIN r = DOMAIN q \cup {Len(q) + 1} /\ Len(r) = Len(q) + 1
         /\ \A i \in DOMAIN q : r[i] = q[i]
         /\ r[Len(q) + 1] = x /\ Len(q) + 1 \notin DOMAIN q
<1>1. /\ r \in Seq(S) /\ Len(q) \in Nat /\ DOMAIN q = 1..Len(q)
      /\ Len(r) = Len(q) + 1 /\ DOMAIN r = 1..(Len(q) + 1)
      /\ \A i \in 1..Len(q) : r[i] = q[i]
      /\ r[Len(q) + 1] = x
  OBVIOUS
<1>2. 1..(Len(q) + 1) = 1..Len(q) \cup {Len(q) + 1} /\ Len(q) + 1 \notin 1..Len(q)
  BY <1>1
<1> QED BY <1>1, <1>2

\* A waiting edge is gone through: its target was not checked, and is queued if
\* the edge was its last.
LEMMA CheckSuccessorKeeps ==
  ASSUME GraphInv, CheckSuccessor
  PROVE  /\ kahn_queue' \in Seq(Nodes) /\ work_node_back' \in Seq(Nodes)
         /\ dependency_account' \in [Nodes -> Nat] /\ at' \in Nat \ {0} /\ pc' = pc
         /\ Validation'
<1>1. /\ GraphTypeOK /\ AccountsCountEdges /\ QueueHasFree /\ CheckedHasNoCycle
      /\ pc = "validate" /\ checking # << >>
      /\ UNCHANGED <<jobs, next_nodes, checked_node, checking>>
  BY DEF CheckSuccessor, GraphInv
<1>2. /\ kahn_queue \in Seq(Nodes) /\ work_node_back \in Seq(Nodes) /\ checked_node \subseteq Nodes
      /\ next_nodes \in [Nodes -> Seq(Nodes)] /\ dependency_account \in [Nodes -> Nat]
      /\ at \in Nat \ {0}
      /\ Nodes' = Nodes /\ \A m : EdgesInto(m)' = EdgesInto(m)
      /\ \A m : Successors(m)' = Successors(m)
  BY <1>1, SameGraph DEF GraphTypeOK
<1>3. PICK n \in checked_node : checking = <<n>>
  BY <1>1 DEF GraphTypeOK
<1> DEFINE m == next_nodes[n][at]
           e0 == <<n, at>>
<1>4. n \in Nodes /\ at \in DOMAIN next_nodes[n] /\ m \in Nodes
  <2>1. at <= Len(next_nodes[n]) /\ next_nodes[n] \in Seq(Nodes)
    BY <1>2, <1>3 DEF CheckSuccessor
  <2> QED BY <1>2, <2>1
<1>5. e0 \in EdgesLeft(m)
  <2>1. e0 \in EdgesInto(m)
    BY <1>4, EdgesAre
  <2>2. ~(e0[2] < at) /\ checking = <<e0[1]>>
    BY <1>2, <1>3
  <2> QED BY <2>1, <2>2 DEF EdgesLeft, Gone
<1>6. IsFiniteSet(EdgesLeft(m)) /\ dependency_account[m] = Cardinality(EdgesLeft(m))
      /\ dependency_account[m] # 0
  BY <1>1, <1>4, <1>5, FreeMeansNoneWaits
<1>7. m \notin checked_node /\ m \notin Queued
  BY <1>1, <1>4, <1>6 DEF QueueHasFree
<1>8. /\ work_node_back' = Append(work_node_back, m)
      /\ dependency_account' = [dependency_account EXCEPT ![m] = dependency_account[m] - 1]
      /\ kahn_queue' = IF dependency_account'[m] = 0 THEN Append(kahn_queue, m) ELSE kahn_queue
      /\ at' = at + 1 /\ pc' = pc
  BY <1>3, <1>7 DEF CheckSuccessor
<1> HIDE DEF m, e0
<1>9. /\ dependency_account[m] - 1 \in Nat
      /\ \A k \in Nodes : dependency_account'[k] =
           IF k = m THEN dependency_account[m] - 1 ELSE dependency_account[k]
      /\ dependency_account' \in [Nodes -> Nat]
      /\ kahn_queue' \in Seq(Nodes) /\ work_node_back' \in Seq(Nodes) /\ at' \in Nat \ {0}
  <2>1. dependency_account[m] \in Nat /\ dependency_account[m] - 1 \in Nat
    BY <1>2, <1>4, <1>6
  <2>2. /\ \A k \in Nodes : dependency_account'[k] =
             IF k = m THEN dependency_account[m] - 1 ELSE dependency_account[k]
        /\ dependency_account' \in [Nodes -> Nat]
    BY <1>2, <1>4, <1>8, <2>1
  <2>3. kahn_queue' \in Seq(Nodes) /\ work_node_back' \in Seq(Nodes) /\ at' \in Nat \ {0}
    BY <1>2, <1>4, <1>8
  <2> QED BY <2>1, <2>2, <2>3
<1>10. ASSUME NEW k \in Nodes
       PROVE  EdgesLeft(k)' = IF k = m THEN EdgesLeft(k) \ {e0} ELSE EdgesLeft(k)
  <2>1. ASSUME NEW e \in EdgesInto(k) PROVE Gone(e)' <=> (Gone(e) \/ e = e0)
    <3>1. PICK p \in Nodes : \E i \in DOMAIN next_nodes[p] : e = <<p, i>>
      BY EdgesAre
    <3>2. PICK i \in DOMAIN next_nodes[p] : e = <<p, i>>
      BY <3>1
    <3>3. i \in Nat
      BY <1>2, <3>2
    <3>4. e[1] = p /\ e[2] = i /\ (checking = <<e[1]>> <=> p = n) /\ (e = e0 <=> (p = n /\ i = at))
      BY <1>3, <3>2 DEF e0
    <3>5. i < at + 1 <=> i < at \/ i = at
      BY <1>2, <3>3
    <3> QED BY <1>1, <1>3, <1>8, <3>4, <3>5 DEF Gone
  <2>2. e0 \in EdgesInto(k) => k = m
    BY EdgesAre DEF e0, m
  <2>3. \A e : e \in EdgesLeft(k)' <=> e \in EdgesLeft(k) /\ e # e0
    BY <1>2, <2>1 DEF EdgesLeft
  <2> QED BY <2>2, <2>3 DEF EdgesLeft
<1>11. ASSUME NEW k \in Nodes
       PROVE  dependency_account'[k] = Cardinality(EdgesLeft(k)')
  <2>1. CASE k = m
    <3>1. Cardinality(EdgesLeft(m) \ {e0}) = Cardinality(EdgesLeft(m)) - 1
      BY <1>5, <1>6, FS_RemoveElement
    <3> QED BY <1>6, <1>9, <1>10, <2>1, <3>1
  <2>2. CASE k # m
    BY <1>1, <1>9, <1>10, <2>2 DEF AccountsCountEdges
  <2> QED BY <2>1, <2>2
<1>12. ASSUME NEW k \in Nodes
       PROVE  dependency_account'[k] + Cardinality(Places(k)') = Cardinality(EdgesInto(k)')
  <2>1. /\ Len(work_node_back) \in Nat /\ DOMAIN work_node_back = 1..Len(work_node_back)
        /\ DOMAIN work_node_back' = DOMAIN work_node_back \cup {Len(work_node_back) + 1}
        /\ \A i \in DOMAIN work_node_back : work_node_back'[i] = work_node_back[i]
        /\ work_node_back'[Len(work_node_back) + 1] = m
        /\ Len(work_node_back) + 1 \notin DOMAIN work_node_back
    <3>1. work_node_back' = Append(work_node_back, m)
      BY <1>8
    <3>2. work_node_back \in Seq(Nodes) /\ m \in Nodes
      BY <1>2, <1>4
    <3> QED BY <3>1, <3>2, Appended
  <2>2. Places(k)' = IF k = m THEN Places(k) \cup {Len(work_node_back) + 1} ELSE Places(k)
    <3>1. \A i : i \in Places(k)' <=>
            i \in Places(k) \/ (k = m /\ i = Len(work_node_back) + 1)
      BY <2>1 DEF Places
    <3> QED BY <3>1
  <2>3. IsFiniteSet(Places(k)) /\ Cardinality(Places(k)) \in Nat
        /\ Len(work_node_back) + 1 \notin Places(k)
    <3>1. Places(k) \subseteq 1..Len(work_node_back) /\ IsFiniteSet(1..Len(work_node_back))
      BY <2>1, FS_Interval DEF Places
    <3>2. IsFiniteSet(Places(k))
      BY <3>1, FS_Subset
    <3> QED BY <2>1, <3>1, <3>2, FS_CardinalityType
  <2>4. Cardinality(Places(k)') =
          IF k = m THEN Cardinality(Places(k)) + 1 ELSE Cardinality(Places(k))
    BY <2>2, <2>3, FS_AddElement
  <2>5. dependency_account[k] + Cardinality(Places(k)) = Cardinality(EdgesInto(k)')
    BY <1>1, <1>2 DEF AccountsCountEdges
  <2>6. dependency_account[k] \in Nat
    BY <1>2
  <2>7. CASE k = m
    <3>1. dependency_account'[k] = dependency_account[k] - 1
          /\ Cardinality(Places(k)') = Cardinality(Places(k)) + 1
      BY <1>9, <2>4, <2>7
    <3> QED BY <2>3, <2>5, <2>6, <3>1
  <2>8. CASE k # m
    BY <1>9, <2>4, <2>5, <2>8
  <2> QED BY <2>7, <2>8
<1>13. AccountsCountEdges'
  BY <1>1, <1>2, <1>11, <1>12 DEF AccountsCountEdges
<1>14. QueueHasFree'
  <2>1. CASE dependency_account'[m] = 0
    <3>1. /\ Len(kahn_queue) \in Nat /\ DOMAIN kahn_queue = 1..Len(kahn_queue)
          /\ DOMAIN kahn_queue' = DOMAIN kahn_queue \cup {Len(kahn_queue) + 1}
          /\ \A i \in DOMAIN kahn_queue : kahn_queue'[i] = kahn_queue[i]
          /\ kahn_queue'[Len(kahn_queue) + 1] = m
          /\ Len(kahn_queue) + 1 \notin DOMAIN kahn_queue
      <4>1. kahn_queue' = Append(kahn_queue, m)
        BY <1>8, <2>1
      <4>2. kahn_queue \in Seq(Nodes) /\ m \in Nodes
        BY <1>2, <1>4
      <4> QED BY <4>1, <4>2, Appended
    <3>2. \A i \in DOMAIN kahn_queue : kahn_queue[i] # m
      BY <1>7 DEF Queued
    <3>3. \A i, k \in DOMAIN kahn_queue' : kahn_queue'[i] = kahn_queue'[k] => i = k
      BY <1>1, <3>1, <3>2 DEF QueueHasFree
    <3>4. Queued' = Queued \cup {m}
      BY <3>1 DEF Queued
    <3>5. \A k \in Nodes : k # m => dependency_account'[k] = dependency_account[k]
      BY <1>9
    <3> QED BY <1>1, <1>2, <1>7, <2>1, <3>3, <3>4, <3>5 DEF QueueHasFree
  <2>2. CASE dependency_account'[m] # 0
    <3>1. kahn_queue' = kahn_queue /\ Queued' = Queued
      BY <1>8, <2>2 DEF Queued
    <3>2. \A k \in Nodes : k # m => dependency_account'[k] = dependency_account[k]
      BY <1>9
    <3> QED BY <1>1, <1>2, <1>7, <2>2, <3>1, <3>2 DEF QueueHasFree
  <2> QED BY <2>1, <2>2
<1>15. CheckedHasNoCycle'
  BY <1>1, <1>2 DEF CheckedHasNoCycle
<1>16. Verdict'
  BY <1>1, <1>8 DEF Verdict
<1> QED BY <1>8, <1>9, <1>13, <1>14, <1>15, <1>16 DEF Validation

\* Nothing is queued any more: every node that was not checked has a
\* predecessor that was not.
LEMMA RejectUnreachedKeeps ==
  ASSUME GraphInv, RejectUnreached
  PROVE  Validation'
<1>1. /\ GraphTypeOK /\ AccountsCountEdges /\ QueueHasFree /\ CheckedHasNoCycle
      /\ pc = "validate" /\ checking = << >> /\ kahn_queue = << >> /\ pc' = "raised"
      /\ Nodes \ checked_node # {}
      /\ UNCHANGED <<jobs, next_nodes, dependency_account, checked_node, checking, at,
                     work_node_back>>
  BY DEF RejectUnreached, GraphInv, validating, graph, cursor
<1>2. /\ Nodes' = Nodes /\ \A m : EdgesInto(m)' = EdgesInto(m)
      /\ \A m : Successors(m)' = Successors(m) /\ Places(m)' = Places(m)
  BY <1>1, SameGraph DEF Places
<1>3. ASSUME NEW n \in Nodes \ checked_node
      PROVE  \E p \in Nodes \ checked_node : n \in Successors(p)
  <2>1. dependency_account[n] # 0
    BY <1>1 DEF QueueHasFree, Queued
  <2>2. PICK e : e \in EdgesInto(n) /\ ~Gone(e)
    BY <1>1, <2>1, FreeMeansNoneWaits DEF EdgesLeft
  <2>3. PICK p \in Nodes : \E i \in DOMAIN next_nodes[p] : next_nodes[p][i] = n /\ e = <<p, i>>
    BY <2>2, EdgesAre
  <2>4. p \notin checked_node /\ n \in Successors(p)
    BY <1>1, <2>2, <2>3 DEF Gone, Successors
  <2> QED BY <2>4
<1>4. Verdict'
  <2>1. Nodes \ checked_node \in SUBSET Nodes
    OBVIOUS
  <2> QED BY <1>1, <1>2, <1>3, <2>1 DEF Verdict
<1> QED BY <1>1, <1>2, <1>4 DEF Validation, AccountsCountEdges, QueueHasFree, CheckedHasNoCycle

\* Putting back one recorded decrement.
LEMMA RollbackKeeps ==
  ASSUME GraphInv, RollbackDependencyCount
  PROVE  /\ work_node_back' \in Seq(Nodes) /\ dependency_account' \in [Nodes -> Nat]
         /\ Validation'
<1> DEFINE h == Head(work_node_back)
<1>1. /\ GraphTypeOK /\ AccountsCountEdges /\ CheckedHasNoCycle /\ Verdict
      /\ pc = "rollback" /\ work_node_back # << >> /\ pc' = pc
      /\ dependency_account' = [dependency_account EXCEPT ![h] = dependency_account[h] + 1]
      /\ work_node_back' = Tail(work_node_back)
      /\ UNCHANGED <<jobs, next_nodes, checked_node>>
  BY DEF RollbackDependencyCount, GraphInv
<1>2. /\ work_node_back \in Seq(Nodes) /\ dependency_account \in [Nodes -> Nat]
      /\ Nodes' = Nodes /\ \A m : EdgesInto(m)' = EdgesInto(m)
      /\ \A m : Successors(m)' = Successors(m)
  BY <1>1, SameGraph DEF GraphTypeOK
<1>3. h \in Nodes /\ work_node_back' \in Seq(Nodes)
  BY <1>1, <1>2
<1>4. ASSUME NEW k \in Nodes
      PROVE  Cardinality(Places(k)) =
               IF k = h THEN Cardinality(Places(k)') + 1 ELSE Cardinality(Places(k)')
  <2>1. /\ Places(k) = {i \in DOMAIN work_node_back : work_node_back[i] = k}
        /\ Places(k)' = {i \in DOMAIN Tail(work_node_back) : Tail(work_node_back)[i] = k}
    BY <1>1 DEF Places
  <2>2. work_node_back \in Seq(Nodes) /\ work_node_back # << >>
    BY <1>1, <1>2
  <2>3. Cardinality({i \in DOMAIN work_node_back : work_node_back[i] = k}) =
          IF k = h THEN Cardinality({i \in DOMAIN Tail(work_node_back) : Tail(work_node_back)[i] = k}) + 1
                   ELSE Cardinality({i \in DOMAIN Tail(work_node_back) : Tail(work_node_back)[i] = k})
    BY <2>2, PlacesOfTail, Zenon
  <2> QED BY <2>1, <2>3, Zenon
<1> HIDE DEF h
<1>5. /\ dependency_account[h] \in Nat /\ dependency_account[h] + 1 \in Nat
      /\ dependency_account' \in [Nodes -> Nat]
      /\ \A k \in Nodes : dependency_account'[k] =
           IF k = h THEN dependency_account[h] + 1 ELSE dependency_account[k]
  <2>1. dependency_account[h] \in Nat /\ dependency_account[h] + 1 \in Nat
    BY <1>2, <1>3
  <2> QED BY <1>1, <1>2, <1>3, <2>1
<1>6. ASSUME NEW k \in Nodes
      PROVE  dependency_account'[k] + Cardinality(Places(k)') = Cardinality(EdgesInto(k))
  <2>1. dependency_account[k] + Cardinality(Places(k)) = Cardinality(EdgesInto(k))
        /\ dependency_account[k] \in Nat
    BY <1>1, <1>2 DEF AccountsCountEdges
  <2>2. Cardinality(Places(k)') \in Nat
    <3>1. DOMAIN work_node_back' = 1..Len(work_node_back') /\ Len(work_node_back') \in Nat
      BY <1>3
    <3>2. Places(k)' \subseteq 1..Len(work_node_back') /\ IsFiniteSet(1..Len(work_node_back'))
      BY <3>1, FS_Interval DEF Places
    <3> QED BY <3>2, FS_Subset, FS_CardinalityType
  <2>3. CASE k = h
    <3>1. dependency_account'[k] = dependency_account[k] + 1
          /\ Cardinality(Places(k)) = Cardinality(Places(k)') + 1
      BY <1>4, <1>5, <2>3
    <3> QED BY <2>1, <2>2, <3>1
  <2>4. CASE k # h
    BY <1>4, <1>5, <2>1, <2>4
  <2> QED BY <2>3, <2>4
<1>7. AccountsCountEdges'
  BY <1>1, <1>2, <1>6 DEF AccountsCountEdges
<1>8. QueueHasFree' /\ CheckedHasNoCycle' /\ Verdict'
  BY <1>1, <1>2 DEF QueueHasFree, CheckedHasNoCycle, Verdict
<1> QED BY <1>3, <1>5, <1>7, <1>8 DEF Validation

\* The other steps of validation move no account.
LEMMA OthersKeep ==
  ASSUME GraphInv, NodeChecked \/ Accept \/ Ready
  PROVE  Validation'
<1>1. /\ GraphTypeOK /\ AccountsCountEdges /\ QueueHasFree /\ CheckedHasNoCycle /\ Verdict
      /\ UNCHANGED <<jobs, next_nodes, dependency_account, kahn_queue, checked_node, at,
                     work_node_back>>
  BY DEF GraphInv, NodeChecked, Accept, Ready, validating, graph, cursor
<1>2. /\ Nodes' = Nodes /\ \A m : EdgesInto(m)' = EdgesInto(m)
      /\ \A m : Successors(m)' = Successors(m) /\ Places(m)' = Places(m)
      /\ Queued' = Queued
  BY <1>1, SameGraph DEF Places, Queued
<1>3. CheckedHasNoCycle'
  BY <1>1, <1>2 DEF CheckedHasNoCycle
<1>4. CASE NodeChecked
  <2>1. pc = "validate" /\ pc' = pc /\ checking # << >> /\ checking' = << >>
        /\ at > Len(next_nodes[checking[1]])
    BY <1>4 DEF NodeChecked
  <2>2. PICK n \in checked_node : checking = <<n>>
    BY <1>1, <2>1 DEF GraphTypeOK
  <2>3. n \in Nodes /\ next_nodes[n] \in Seq(Nodes) /\ at \in Nat
    BY <1>1, <2>2 DEF GraphTypeOK
  <2>4. \A i \in DOMAIN next_nodes[n] : i < at
    BY <2>1, <2>2, <2>3
  <2>5. ASSUME NEW m \in Nodes, NEW e \in EdgesInto(m) PROVE Gone(e)' <=> Gone(e)
    <3>1. PICK p \in Nodes : \E i \in DOMAIN next_nodes[p] : e = <<p, i>>
      BY EdgesAre
    <3>2. PICK i \in DOMAIN next_nodes[p] : e = <<p, i>>
      BY <3>1
    <3>3. e[1] = p /\ e[2] = i /\ (checking = <<e[1]>> => p = n)
      BY <2>2, <3>2
    <3> QED BY <1>1, <2>1, <2>4, <3>3 DEF Gone
  <2>6. \A m \in Nodes : EdgesLeft(m)' = EdgesLeft(m)
    BY <1>2, <2>5 DEF EdgesLeft
  <2>7. AccountsCountEdges'
    BY <1>1, <1>2, <2>1, <2>6 DEF AccountsCountEdges
  <2>8. QueueHasFree' /\ Verdict'
    BY <1>1, <1>2, <2>1 DEF QueueHasFree, Verdict
  <2> QED BY <1>3, <2>7, <2>8 DEF Validation
<1>5. CASE Accept
  <2>1. pc' = "rollback" /\ Nodes \subseteq checked_node
    BY <1>5 DEF Accept
  <2> QED BY <1>1, <1>2, <1>3, <2>1
          DEF Validation, AccountsCountEdges, QueueHasFree, Verdict
<1>6. CASE Ready
  <2>1. pc = "rollback" /\ pc' = "ready" /\ work_node_back = << >>
    BY <1>6 DEF Ready
  <2> QED BY <1>1, <1>2, <1>3, <2>1
          DEF Validation, AccountsCountEdges, QueueHasFree, Verdict
<1> QED BY <1>4, <1>5, <1>6

LEMMA ValidateInductive ==
  ASSUME GraphInv, Validate
  PROVE  GraphInv'
<1>1. /\ pc \notin Building /\ pc' \notin Building \cup {"queue"}
      /\ UNCHANGED <<jobs, job, step, searching, next_nodes>>
      /\ pc' \in {"validate", "rollback", "ready", "raised"}
  <2>1. pc' \in {"validate", "rollback", "ready", "raised"}
    BY DEF Validate, InitQueue, CheckNode, CheckSuccessor, NodeChecked, RejectUnreached,
           Accept, RollbackDependencyCount, Ready
  <2> QED BY <2>1, ValidateKeeps
<1>2. /\ GraphTypeOK /\ StepsLinked /\ SearchesDone
      /\ Nodes' = Nodes /\ (\A n : Successors(n)' = Successors(n)) /\ \A i : Own(i)' = Own(i)
  BY <1>1, SameGraph DEF GraphInv
<1>3. /\ Validation'
      /\ kahn_queue' \in Seq(Nodes) /\ work_node_back' \in Seq(Nodes)
      /\ dependency_account' \in [Nodes -> Nat] /\ at' \in Nat \ {0}
      /\ checked_node' \subseteq Nodes
      /\ checking' = << >> \/ \E n \in checked_node' : checking' = <<n>>
  <2>1. /\ kahn_queue \in Seq(Nodes) /\ work_node_back \in Seq(Nodes)
        /\ dependency_account \in [Nodes -> Nat] /\ at \in Nat \ {0}
        /\ checked_node \subseteq Nodes
        /\ checking = << >> \/ \E n \in checked_node : checking = <<n>>
    BY <1>2 DEF GraphTypeOK
  <2>2. CASE InitQueue
    BY <2>1, <2>2, InitQueueKeeps DEF InitQueue, graph, cursor
  <2>3. CASE CheckNode
    BY <2>1, <2>3, CheckNodeKeeps DEF CheckNode, graph
  <2>4. CASE CheckSuccessor
    BY <2>1, <2>4, CheckSuccessorKeeps DEF CheckSuccessor
  <2>5. CASE RejectUnreached
    BY <2>1, <2>5, RejectUnreachedKeeps DEF RejectUnreached, graph, cursor, validating
  <2>6. CASE RollbackDependencyCount
    BY <2>1, <2>6, RollbackKeeps DEF RollbackDependencyCount, cursor
  <2>7. CASE NodeChecked \/ Accept \/ Ready
    BY <2>1, <2>7, OthersKeep DEF NodeChecked, Accept, Ready, graph, cursor, validating
  <2> QED BY <2>2, <2>3, <2>4, <2>5, <2>6, <2>7 DEF Validate
<1>4. GraphTypeOK'
  BY <1>1, <1>2, <1>3 DEF GraphTypeOK, Building, searching
<1>5. BeforeValidation' /\ SearchGoesOn'
  BY <1>1 DEF BeforeValidation, SearchGoesOn, Building
<1>6. StepsLinked'
  <2>1. pc \notin {"job_end", "steps"} /\ pc' \notin {"job_end", "steps"}
    BY <1>1 DEF Building
  <2>2. \A i, k : HasOwnPredecessor(i, k)' <=> HasOwnPredecessor(i, k)
    BY <1>1, <1>2 DEF HasOwnPredecessor
  <2>3. \A i, k : Past(i, k)' => Past(i, k)
    BY <1>1, <2>1 DEF Past
  <2> QED BY <1>1, <1>2, <2>2, <2>3 DEF StepsLinked
<1>7. SearchesDone'
  <2>1. pc # "job_end" /\ pc' # "job_end" /\ search' = search /\ worknode_found' = worknode_found
    BY <1>1 DEF Building, searching
  <2>2. \A i : FoundOf(i)' = FoundOf(i) /\ \A n : Settled(i, n)' <=> Settled(i, n)
    BY <1>1, <1>2, <2>1 DEF FoundOf, Settled
  <2> QED BY <1>1, <1>2, <2>1, <2>2 DEF SearchesDone
<1> QED BY <1>3, <1>4, <1>5, <1>6, <1>7 DEF GraphInv, Validation

-----------------------------------------------------------------------------
(* The graph, job by job.                                                  *)

\* Building a job adds edges, and none into another job's nodes.
LEMMA ExtendsGrows ==
  ASSUME GraphInv, BuildJob
  PROVE  /\ jobs' = jobs /\ Nodes' = Nodes /\ \A i : Own(i)' = Own(i)
         /\ \A n \in Nodes : Successors(n) \subseteq Successors(n)'
         /\ \A n \in Nodes, i \in DOMAIN jobs :
              i # job => Successors(n)' \cap Own(i) = Successors(n) \cap Own(i)
<1>1. GraphTypeOK /\ pc \in Building /\ UNCHANGED jobs /\ Extends
  BY BuildExtends DEF GraphInv
<1>2. Nodes' = Nodes /\ \A i : Own(i)' = Own(i)
  BY <1>1 DEF Nodes, Own
<1>3. CASE UNCHANGED graph
  <2>1. \A n : Successors(n)' = Successors(n)
    BY <1>1, <1>3, SameGraph DEF graph
  <2> QED BY <1>1, <1>2, <2>1
<1>4. CASE ~UNCHANGED graph
  <2>1. PICK from \in Nodes, to \in Own(job) : AddEdge(from, to)
    BY <1>1, <1>4 DEF Extends
  <2>2. to \in Nodes
    BY <2>1 DEF Own
  <2>3. \A n \in Nodes : Successors(n)' = IF n = from THEN Successors(n) \cup {to} ELSE Successors(n)
    BY <1>1, <2>1, <2>2, EdgeAdded
  <2>4. \A i \in DOMAIN jobs : i # job => to \notin Own(i)
    BY <1>1, <2>1, OwnersDiffer DEF GraphTypeOK, Building
  <2> QED BY <1>1, <1>2, <2>3, <2>4
<1> QED BY <1>3, <1>4

LEMMA StillPreceded ==
  ASSUME GraphInv, BuildJob, NEW i \in DOMAIN jobs, NEW k, HasOwnPredecessor(i, k)
  PROVE  HasOwnPredecessor(i, k)'
<1>1. PICK p \in Own(i) :
        p # EndOf(jobs[i].name) /\ StepNode(jobs[i], jobs[i].steps[k]) \in Successors(p)
  BY DEF HasOwnPredecessor
<1>2. p \in Nodes /\ p \in Own(i)' /\ Successors(p) \subseteq Successors(p)' /\ jobs' = jobs
  BY <1>1, ExtendsGrows DEF Own
<1> QED BY <1>1, <1>2 DEF HasOwnPredecessor

\* A step that was given the edges of its list, or the one from the start, has a
\* predecessor in its own job.
LEMMA EdgeToStep ==
  ASSUME GraphInv, BuildJob, NEW i \in DOMAIN jobs, i = job, NEW k \in DOMAIN jobs[i].steps,
         NEW from, NEW to, AddEdge(from, to), from \in Nodes, to = StepNode(jobs[i], jobs[i].steps[k]),
         from[1] = jobs[i].name, from # EndOf(jobs[i].name)
  PROVE  HasOwnPredecessor(i, k)'
<1>1. GraphTypeOK /\ UNCHANGED jobs /\ jobs \in Descriptions
  BY BuildExtends DEF GraphInv, GraphTypeOK
<1>2. to \in Nodes
  BY <1>1, OwnNodes DEF Own
<1>3. Successors(from)' = Successors(from) \cup {to}
  BY <1>1, <1>2, EdgeAdded
<1>4. from \in Own(i)'
  BY ExtendsGrows DEF Own
<1> QED BY <1>1, <1>3, <1>4 DEF HasOwnPredecessor

LEMMA BuildKeepsLinks ==
  ASSUME GraphInv, BuildJob
  PROVE  StepsLinked'
<1>1. /\ GraphTypeOK /\ StepsLinked /\ pc \in Building /\ jobs \in Descriptions
      /\ job \in DOMAIN jobs /\ jobs' = jobs
      /\ job \in Nat /\ step \in Nat \ {0} /\ at \in Nat \ {0}
  BY BuildExtends DEF GraphInv, GraphTypeOK
<1> SUFFICES ASSUME NEW i \in DOMAIN jobs, NEW k \in DOMAIN jobs[i].steps, Past(i, k)'
             PROVE  HasOwnPredecessor(i, k)'
  BY <1>1 DEF StepsLinked
<1>2. /\ Len(jobs) \in Nat /\ DOMAIN jobs = 1..Len(jobs)
      /\ Len(jobs[i].steps) \in Nat /\ DOMAIN jobs[i].steps = 1..Len(jobs[i].steps)
  BY <1>1, Described
<1>3. /\ Len(jobs[i].steps[k].dependency) \in Nat
      /\ DOMAIN jobs[i].steps[k].dependency = 1..Len(jobs[i].steps[k].dependency)
      /\ \A d \in DOMAIN jobs[i].steps[k].dependency :
           /\ Target(jobs[i], jobs[i].steps[k].dependency[d]) \in Nodes
           /\ Len(jobs[i].steps[k].dependency[d]) = 1 => jobs[i].steps[k].dependency[d][1] # "end"
  BY <1>1, StepDescribed
<1>4. ASSUME Past(i, k) PROVE HasOwnPredecessor(i, k)'
  BY <1>1, <1>4, StillPreceded DEF StepsLinked
<1> SUFFICES ASSUME ~Past(i, k) PROVE HasOwnPredecessor(i, k)'
  BY <1>4
<1>5. CASE GenerateJobsDependency
  <2>1. pc = "jobs" /\ job' = job /\ (pc' = "jobs" \/ (pc' = "steps" /\ step' = 1 /\ at' = 1))
    BY <1>1, <1>5 DEF GenerateJobsDependency
  <2> QED BY <1>1, <1>2, <1>3, <2>1 DEF Past
<1>6. CASE GenerateStepDependency
  <2>1. pc = "steps" /\ pc' = pc /\ job' = job /\ step' = step /\ at' = at + 1
    BY <1>6 DEF GenerateStepDependency
  <2>2. i = job /\ k = step /\ Len(jobs[i].steps[k].dependency[at]) = 1
        /\ at \in DOMAIN jobs[i].steps[k].dependency
    BY <1>1, <1>2, <1>3, <2>1 DEF Past
  <2>3. AddEdge(Target(jobs[i], jobs[i].steps[k].dependency[at]), StepNode(jobs[i], jobs[i].steps[k]))
    BY <1>6, <2>2 DEF GenerateStepDependency, CurrentStep, CurrentJob
  <2>4. Target(jobs[i], jobs[i].steps[k].dependency[at])
          = <<jobs[i].name, jobs[i].steps[k].dependency[at][1]>>
    BY <2>2 DEF Target
  <2> DEFINE from == Target(jobs[i], jobs[i].steps[k].dependency[at])
  <2>5. from[1] = jobs[i].name /\ from # EndOf(jobs[i].name)
    BY <1>3, <2>2, <2>4 DEF EndOf
  <2>6. from \in Nodes
    BY <1>3, <2>2
  <2> QED BY <2>2, <2>3, <2>5, <2>6, EdgeToStep
<1>7. CASE GenerateStartDependency
  <2>1. pc = "steps" /\ pc' = pc /\ job' = job /\ step' = step + 1 /\ at' = 1
    BY <1>7 DEF GenerateStartDependency
  <2>2. i = job /\ k = step
    BY <1>1, <1>2, <1>3, <2>1 DEF Past
  <2>3. ~DependsOnOwnStep(jobs[i].steps[k])
    <3>1. at > Len(jobs[i].steps[k].dependency)
      BY <1>7, <2>2 DEF GenerateStartDependency, CurrentStep, CurrentJob
    <3> QED BY <1>1, <1>2, <1>3, <2>1, <2>2, <3>1 DEF Past, DependsOnOwnStep
  <2>4. AddEdge(StartOf(jobs[i].name), StepNode(jobs[i], jobs[i].steps[k]))
    BY <1>7, <2>2, <2>3 DEF GenerateStartDependency, CurrentStep, CurrentJob
  <2>5. StartOf(jobs[i].name) \in Nodes /\ StartOf(jobs[i].name)[1] = jobs[i].name
        /\ StartOf(jobs[i].name) # EndOf(jobs[i].name)
    BY <1>1, OwnNodes DEF Own
  <2> QED BY <2>2, <2>4, <2>5, EdgeToStep
<1>8. CASE SearchJob
  <2>1. pc = "steps" /\ pc' = "job_end" /\ job' = job /\ step > Len(jobs[job].steps)
    BY <1>8 DEF SearchJob, cursor, CurrentJob
  <2> QED BY <1>1, <1>2, <2>1 DEF Past
<1>9. CASE VisitSuccessor \/ ReturnFromNode
  <2>1. pc = "job_end" /\ pc' = "job_end" /\ job' = job
    BY <1>9 DEF VisitSuccessor, ReturnFromNode, cursor
  <2> QED BY <1>1, <2>1 DEF Past
<1>10. CASE NextJob
  <2>1. pc = "job_end" /\ pc' \in {"jobs", "queue"} /\ job' = job + 1
    BY <1>10 DEF NextJob
  <2> QED BY <1>1, <1>2, <2>1 DEF Past
<1> QED BY <1>5, <1>6, <1>7, <1>8, <1>9, <1>10 DEF BuildJob

\* What has been found, what is settled and what a call has seen stay so.
LEMMA SettledStays ==
  ASSUME NEW i \in DOMAIN jobs, NEW n \in Nodes, Settled(i, n),
         jobs' = jobs, Own(i)' = Own(i), worknode_found \subseteq worknode_found',
         Successors(n) \subseteq Successors(n)',
         Successors(n)' \cap Own(i) \subseteq Successors(n) \cup {EndOf(jobs[i].name)}
  PROVE  Settled(i, n)'
BY DEF Settled

LEMMA CallStays ==
  ASSUME GraphTypeOK, NEW i \in DOMAIN jobs, NEW c, c.node \in Nodes, CallGoes(i, c),
         UNCHANGED <<jobs, next_nodes>>, worknode_found \subseteq worknode_found'
  PROVE  CallGoes(i, c)'
<1>1. Own(i)' = Own(i) /\ Successors(c.node)' = Successors(c.node)
  BY DEF Own, Nodes, Successors
<1> QED BY <1>1 DEF CallGoes

\* What is in a list whose last member is replaced, and in one that grows.
LEMMA LastReplaced ==
  ASSUME NEW S, NEW s \in Seq(S), s # << >>, NEW y \in S, NEW q, q = [s EXCEPT ![Len(s)] = y]
  PROVE  /\ q \in Seq(S)
         /\ {q[c] : c \in DOMAIN q} \subseteq {s[c] : c \in DOMAIN s} \cup {y}
         /\ ({s[c] : c \in DOMAIN s} \ {s[Len(s)]}) \cup {y} \subseteq {q[c] : c \in DOMAIN q}
<1>1. Len(s) \in Nat /\ Len(s) > 0 /\ DOMAIN s = 1..Len(s)
  OBVIOUS
<1>2. q \in Seq(S) /\ DOMAIN q = DOMAIN s
  OBVIOUS
<1>3. \A c \in DOMAIN s : q[c] = IF c = Len(s) THEN y ELSE s[c]
  BY <1>1
<1> QED BY <1>1, <1>2, <1>3

LEMMA OneAppended ==
  ASSUME NEW S, NEW q \in Seq(S), NEW z \in S, NEW r, r = Append(q, z)
  PROVE  {r[c] : c \in DOMAIN r} = {q[c] : c \in DOMAIN q} \cup {z}
<1>1. /\ Len(q) \in Nat /\ DOMAIN q = 1..Len(q) /\ DOMAIN r = 1..(Len(q) + 1)
      /\ r[Len(q) + 1] = z /\ \A c \in 1..Len(q) : r[c] = q[c]
  OBVIOUS
<1>2. /\ Len(q) + 1 \in DOMAIN r /\ DOMAIN q \subseteq DOMAIN r
      /\ \A c \in DOMAIN r : c \in DOMAIN q \/ c = Len(q) + 1
  BY <1>1
<1> QED BY <1>1, <1>2

\* One step of the search: the innermost call looks at the next successor.
LEMMA VisitIs ==
  ASSUME GraphInv, VisitSuccessor, NEW i \in DOMAIN jobs, i = job
  PROVE  \E x \in Ongoing, m \in Nodes, h \in BOOLEAN :
           LET y == [node |-> x.node, place |-> x.place + 1, have_self_task_step |-> h]
           IN  /\ x.node \in Nodes /\ x.place \in Nat
               /\ x.place \in DOMAIN next_nodes[x.node] /\ m = next_nodes[x.node][x.place]
               /\ \/ /\ m \notin worknode_found /\ m \in Own(i) /\ h
                     /\ worknode_found' = worknode_found \cup {m}
                     /\ Ongoing' \subseteq Ongoing \cup {y, Call(m)}
                     /\ (Ongoing \ {x}) \cup {y, Call(m)} \subseteq Ongoing'
                  \/ /\ m \in worknode_found \/ m \notin Own(i)
                     /\ h = x.have_self_task_step
                     /\ worknode_found' = worknode_found
                     /\ Ongoing' \subseteq Ongoing \cup {y}
                     /\ (Ongoing \ {x}) \cup {y} \subseteq Ongoing'
<1> DEFINE Calls == [node : Nodes, place : Nat \ {0}, have_self_task_step : BOOLEAN]
           last == Len(search)
           x == search[last]
           m == next_nodes[x.node][x.place]
           Onward(h) == [node |-> x.node, place |-> x.place + 1, have_self_task_step |-> h]
           New == m \notin worknode_found /\ m[1] = jobs[i].name
           call == Call(m)
<1>1. /\ GraphTypeOK /\ pc = "job_end" /\ search # << >>
      /\ search \in Seq(Calls) /\ next_nodes \in [Nodes -> Seq(Nodes)]
  BY DEF GraphInv, GraphTypeOK, VisitSuccessor
<1>2. /\ last \in Nat /\ last > 0 /\ DOMAIN search = 1..last /\ last \in DOMAIN search
      /\ x \in Calls
      /\ Len(next_nodes[x.node]) \in Nat
      /\ DOMAIN next_nodes[x.node] = 1..Len(next_nodes[x.node])
  BY <1>1, InnerCallIs DEF InnerCall
<1>3. x.place \in DOMAIN next_nodes[x.node]
  BY <1>2, <1>1 DEF VisitSuccessor, Exhausted, InnerCall
<1>4. m \in Nodes
  <2>1. next_nodes[x.node] \in Seq(Nodes)
    BY <1>1, <1>2
  <2> QED BY <1>3, <2>1
<1>5. m[1] = jobs[i].name <=> m \in Own(i)
  BY <1>4 DEF Own
<1>6. \/ /\ New /\ worknode_found' = worknode_found \cup {m}
         /\ search' = Append([search EXCEPT ![last] = Onward(TRUE)], call)
      \/ /\ ~New /\ worknode_found' = worknode_found
         /\ search' = [search EXCEPT ![last] = Onward(x.have_self_task_step)]
  BY DEF VisitSuccessor, InnerCall, CurrentJob
<1>7. /\ x \in Ongoing /\ x.node \in Nodes /\ x.place \in Nat /\ x.have_self_task_step \in BOOLEAN
      /\ Onward(TRUE) \in Calls /\ Onward(x.have_self_task_step) \in Calls /\ call \in Calls
  BY <1>2, <1>4 DEF Ongoing, Call
<1>8. CASE New
  <2>6. PICK h \in BOOLEAN : h = TRUE
    OBVIOUS
  <2> DEFINE y == Onward(h)
  <2>1. search' = Append([search EXCEPT ![last] = y], call)
    BY <1>6, <1>8, <2>6
  <2>2. y \in Calls /\ call \in Calls
    BY <1>7, <2>6
  <2>3. Ongoing' \subseteq Ongoing \cup {y, call}
        /\ (Ongoing \ {x}) \cup {y, call} \subseteq Ongoing'
    <3> DEFINE q == [search EXCEPT ![last] = y]
    <3> HIDE DEF Calls, Onward, y, call
    <3>1. /\ q \in Seq(Calls)
          /\ {q[c] : c \in DOMAIN q} \subseteq Ongoing \cup {y}
          /\ (Ongoing \ {x}) \cup {y} \subseteq {q[c] : c \in DOMAIN q}
      BY <1>1, <2>2, LastReplaced DEF Ongoing
    <3> HIDE DEF q
    <3>2. Ongoing' = {q[c] : c \in DOMAIN q} \cup {call}
      <4>1. search' = Append(q, call)
        BY <2>1 DEF q
      <4> QED BY <2>2, <3>1, <4>1, OneAppended DEF Ongoing
    <3> QED BY <3>1, <3>2
  <2>4. worknode_found' = worknode_found \cup {m} /\ m \notin worknode_found /\ m \in Own(i)
    BY <1>5, <1>6, <1>8
  <2> HIDE DEF Calls, x, m, New
  <2>5. /\ x \in Ongoing /\ m \in Nodes
        /\ x.node \in Nodes /\ x.place \in Nat
        /\ x.place \in DOMAIN next_nodes[x.node] /\ m = next_nodes[x.node][x.place]
    BY <1>3, <1>4, <1>7 DEF m
  <2> QED BY <2>3, <2>4, <2>5, <2>6 DEF y, call
<1>9. CASE ~New
  <2> DEFINE y == Onward(x.have_self_task_step)
  <2>1. search' = [search EXCEPT ![last] = y]
    BY <1>6, <1>9
  <2>2. y \in Calls
    BY <1>7
  <2>3. Ongoing' \subseteq Ongoing \cup {y} /\ (Ongoing \ {x}) \cup {y} \subseteq Ongoing'
    <3> HIDE DEF Calls, Onward, y
    <3> QED BY <1>1, <2>1, <2>2, LastReplaced DEF Ongoing
  <2>4. worknode_found' = worknode_found /\ (m \in worknode_found \/ m \notin Own(i))
    BY <1>5, <1>6, <1>9
  <2>5. x.have_self_task_step \in BOOLEAN
    BY <1>7
  <2> HIDE DEF Calls, x, m, New
  <2>6. /\ x \in Ongoing /\ m \in Nodes
        /\ x.node \in Nodes /\ x.place \in Nat
        /\ x.place \in DOMAIN next_nodes[x.node] /\ m = next_nodes[x.node][x.place]
    BY <1>3, <1>4, <1>7 DEF m
  <2> QED BY <2>3, <2>4, <2>5, <2>6 DEF y
<1> QED BY <1>8, <1>9

LEMMA VisitKeepsSearch ==
  ASSUME GraphInv, VisitSuccessor, NEW i \in DOMAIN jobs, i = job
  PROVE  /\ \A n \in FoundOf(i)' : Settled(i, n)' \/ \E c \in Ongoing' : c.node = n
         /\ \A c \in Ongoing' : CallGoes(i, c)'
         /\ worknode_found \subseteq worknode_found'
         /\ worknode_found' \subseteq worknode_found \cup Own(i)
<1>1. /\ GraphTypeOK /\ UNCHANGED <<jobs, next_nodes>>
      /\ \A n \in FoundOf(i) : Settled(i, n) \/ \E c \in Ongoing : c.node = n
      /\ \A c \in Ongoing : CallGoes(i, c)
  BY DEF GraphInv, SearchGoesOn, VisitSuccessor, graph
<1>2. Own(i)' = Own(i) /\ \A n : Successors(n)' = Successors(n)
  BY <1>1 DEF Own, Nodes, Successors
<1>3. PICK x \in Ongoing, m \in Nodes, h \in BOOLEAN :
        LET y == [node |-> x.node, place |-> x.place + 1, have_self_task_step |-> h]
        IN  /\ x.node \in Nodes /\ x.place \in Nat
            /\ x.place \in DOMAIN next_nodes[x.node] /\ m = next_nodes[x.node][x.place]
            /\ \/ /\ m \notin worknode_found /\ m \in Own(i) /\ h
                  /\ worknode_found' = worknode_found \cup {m}
                  /\ Ongoing' \subseteq Ongoing \cup {y, Call(m)}
                  /\ (Ongoing \ {x}) \cup {y, Call(m)} \subseteq Ongoing'
               \/ /\ m \in worknode_found \/ m \notin Own(i)
                  /\ h = x.have_self_task_step
                  /\ worknode_found' = worknode_found
                  /\ Ongoing' \subseteq Ongoing \cup {y}
                  /\ (Ongoing \ {x}) \cup {y} \subseteq Ongoing'
  BY VisitIs
<1> DEFINE y == [node |-> x.node, place |-> x.place + 1, have_self_task_step |-> h]
<1>4. /\ worknode_found \subseteq worknode_found'
      /\ worknode_found' \subseteq worknode_found \cup Own(i)
      /\ m \in Own(i) => m \in worknode_found'
      /\ h => x.have_self_task_step \/ m \in worknode_found' \cap Own(i)
      /\ y \in Ongoing' /\ Ongoing \ {x} \subseteq Ongoing'
      /\ m \in Successors(x.node)
  BY <1>3 DEF Successors
<1>5. \A c \in Ongoing : CallGoes(i, c)'
  <2>1. \A c \in Ongoing : c.node \in Nodes
    BY <1>1 DEF CallGoes, Own
  <2> QED BY <1>1, <1>4, <2>1, CallStays
<1>6. CallGoes(i, y)'
  <2>1. \A p \in DOMAIN next_nodes[x.node] : p < x.place + 1 => p < x.place \/ p = x.place
    <3>1. next_nodes[x.node] \in Seq(Nodes)
      BY <1>1, <1>3 DEF GraphTypeOK
    <3> QED BY <1>3, <3>1
  <2>2. y.node = x.node /\ y.place = x.place + 1 /\ y.have_self_task_step = h
    OBVIOUS
  <2>3. CallGoes(i, x)'
    BY <1>5
  <2>4. h => Successors(x.node)' \cap Own(i)' \cap worknode_found' # {}
    BY <1>2, <1>4, <2>3 DEF CallGoes
  <2> HIDE DEF y
  <2> QED BY <1>1, <1>2, <1>3, <1>4, <2>1, <2>2, <2>3, <2>4 DEF CallGoes
<1>7. m \in Own(i) => CallGoes(i, Call(m))'
  <2>1. \A p \in DOMAIN next_nodes'[m] : ~(p < 1)
    <3>1. next_nodes'[m] \in Seq(Nodes)
      BY <1>1 DEF GraphTypeOK
    <3> QED BY <3>1
  <2>2. Call(m).node = m /\ Call(m).place = 1 /\ Call(m).have_self_task_step = FALSE
    BY DEF Call
  <2> QED BY <1>2, <2>1, <2>2 DEF CallGoes
<1>8. \A c \in Ongoing' : CallGoes(i, c)'
  <2>1. \A c \in Ongoing' : c \in Ongoing \/ c = y \/ (m \in Own(i) /\ c = Call(m))
    BY <1>3
  <2> HIDE DEF y
  <2> QED BY <1>5, <1>6, <1>7, <2>1
<1>9. ASSUME NEW n \in FoundOf(i)'
      PROVE  Settled(i, n)' \/ \E c \in Ongoing' : c.node = n
  <2>1. n \in FoundOf(i) \/ (n = m /\ m \notin worknode_found /\ m \in worknode_found')
    BY <1>1, <1>2, <1>3, <1>9 DEF FoundOf
  <2>2. CASE n \in FoundOf(i)
    <3>1. CASE Settled(i, n)
      <4>1. n \in Nodes
        BY <2>2 DEF FoundOf, Own
      <4> QED BY <1>1, <1>2, <1>4, <3>1, <4>1, SettledStays
    <3>2. ASSUME NEW c \in Ongoing, c.node = n PROVE \E d \in Ongoing' : d.node = n
      <4>1. y.node = x.node
        OBVIOUS
      <4> HIDE DEF y
      <4> QED BY <1>4, <3>2, <4>1
    <3> QED BY <1>1, <2>2, <3>1, <3>2
  <2>3. CASE n = m /\ m \notin worknode_found /\ m \in worknode_found'
    <3>1. Call(m) \in Ongoing' /\ Call(m).node = m
      BY <1>3, <2>3 DEF Call
    <3> QED BY <2>3, <3>1
  <2> QED BY <2>1, <2>2, <2>3
<1> QED BY <1>4, <1>8, <1>9

\* The innermost call ends, after the edge to the end of the job if it called
\* itself for nothing: its node is settled then.
LEMMA ReturnKeepsSearch ==
  ASSUME GraphInv, ReturnFromNode, NEW i \in DOMAIN jobs, i = job
  PROVE  /\ \A n \in FoundOf(i)' : Settled(i, n)' \/ \E c \in Ongoing' : c.node = n
         /\ \A c \in Ongoing' : CallGoes(i, c)'
<1> DEFINE end == EndOf(jobs[i].name)
<1>1. /\ GraphTypeOK /\ UNCHANGED <<jobs, worknode_found>> /\ search # << >>
      /\ jobs \in Descriptions /\ next_nodes \in [Nodes -> Seq(Nodes)]
      /\ \A n \in FoundOf(i) : Settled(i, n) \/ \E c \in Ongoing : c.node = n
      /\ \A c \in Ongoing : CallGoes(i, c)
      /\ search' = SubSeq(search, 1, Len(search) - 1)
  BY DEF GraphInv, GraphTypeOK, SearchGoesOn, ReturnFromNode
<1>2. PICK x \in Ongoing : x = InnerCall
  BY <1>1, InnerCallIs DEF Ongoing, InnerCall
<1>3. /\ x.node \in Nodes /\ x.place \in Nat /\ x.have_self_task_step \in BOOLEAN
      /\ Len(next_nodes[x.node]) \in Nat /\ DOMAIN next_nodes[x.node] = 1..Len(next_nodes[x.node])
      /\ x.node = end \/ x.place > Len(next_nodes[x.node])
      /\ IF x.node = end \/ x.have_self_task_step THEN UNCHANGED graph ELSE AddEdge(x.node, end)
  BY <1>1, <1>2, InnerCallIs DEF ReturnFromNode, Exhausted, CurrentJob
<1>4. end \in Nodes /\ end \in Own(i)
  BY <1>1, OwnNodes
<1>5. /\ Own(i)' = Own(i)
      /\ \A n \in Nodes : /\ Successors(n) \subseteq Successors(n)'
                          /\ Successors(n)' \subseteq Successors(n) \cup {end}
                          /\ \A p \in DOMAIN next_nodes'[n] :
                               \/ p \in DOMAIN next_nodes[n] /\ next_nodes'[n][p] = next_nodes[n][p]
                               \/ next_nodes'[n][p] = end
  <2>1. CASE UNCHANGED graph
    BY <1>1, <2>1, SameGraph DEF graph
  <2>2. CASE AddEdge(x.node, end)
    <3>1. \A n \in Nodes : Successors(n)' = IF n = x.node THEN Successors(n) \cup {end}
                                                         ELSE Successors(n)
      <4> HIDE DEF end
      <4> QED BY <1>1, <1>3, <1>4, <2>2, EdgeAdded
    <3>2. /\ Own(i)' = Own(i)
          /\ \A n \in Nodes : \A p \in DOMAIN next_nodes'[n] :
               \/ p \in DOMAIN next_nodes[n] /\ next_nodes'[n][p] = next_nodes[n][p]
               \/ next_nodes'[n][p] = end
      <4> HIDE DEF end
      <4> QED BY <1>1, <1>3, <1>4, <2>2, EdgeAdded
    <3> HIDE DEF end
    <3> QED BY <3>1, <3>2
  <2> QED BY <1>3, <2>1, <2>2
<1>6. Ongoing' \subseteq Ongoing /\ Ongoing \ {x} \subseteq Ongoing'
  <2>1. /\ Len(search) \in Nat /\ Len(search) > 0 /\ DOMAIN search = 1..Len(search)
        /\ x = search[Len(search)]
    BY <1>1, <1>2, InnerCallIs DEF InnerCall
  <2>2. /\ DOMAIN search' = 1..(Len(search) - 1)
        /\ \A c \in 1..(Len(search) - 1) : search'[c] = search[c]
    <3>1. search \in Seq([node : Nodes, place : Nat \ {0}, have_self_task_step : BOOLEAN])
      BY <1>1 DEF GraphTypeOK
    <3> QED BY <1>1, <2>1, <3>1
  <2> QED BY <2>1, <2>2 DEF Ongoing
<1>7. ASSUME NEW c \in Ongoing PROVE CallGoes(i, c)'
  <2>1. CallGoes(i, c) /\ c.node \in Nodes
    BY <1>1 DEF CallGoes, Own
  <2> QED BY <1>1, <1>5, <2>1 DEF CallGoes
<1>8. x.node # end => Settled(i, x.node)'
  <2>1. SUFFICES ASSUME x.node # end PROVE Settled(i, x.node)'
    OBVIOUS
  <2>2. CallGoes(i, x)
    BY <1>1
  <2>3. \A p \in DOMAIN next_nodes[x.node] : p < x.place
    BY <1>3, <2>1
  <2>4. Successors(x.node) \cap Own(i) \subseteq worknode_found \cup {end}
    BY <2>2, <2>3 DEF CallGoes, Successors
  <2>5. Successors(x.node)' \cap Own(i) \cap (worknode_found \cup {end}) # {}
    <3>1. CASE x.have_self_task_step
      BY <1>3, <1>5, <2>2, <3>1 DEF CallGoes
    <3>2. CASE ~x.have_self_task_step
      <4>1. AddEdge(x.node, end)
        BY <1>3, <2>1, <3>2
      <4>2. end \in Successors(x.node)'
        <5> HIDE DEF end
        <5> QED BY <1>1, <1>3, <1>4, <4>1, EdgeAdded
      <4> QED BY <1>4, <4>2
    <3> QED BY <3>1, <3>2
  <2> QED BY <1>1, <1>3, <1>5, <2>4, <2>5 DEF Settled
<1>9. ASSUME NEW n \in FoundOf(i)'
      PROVE  Settled(i, n)' \/ \E c \in Ongoing' : c.node = n
  <2>1. n \in FoundOf(i) /\ n # end /\ n \in Nodes
    BY <1>1, <1>5, <1>9 DEF FoundOf, Own
  <2>2. CASE n = x.node
    BY <1>8, <2>1, <2>2
  <2>3. CASE n # x.node
    <3>1. CASE Settled(i, n)
      BY <1>1, <1>5, <2>1, <3>1, SettledStays
    <3>2. CASE \E c \in Ongoing : c.node = n
      BY <1>6, <2>3, <3>2
    <3> QED BY <1>1, <2>1, <3>1, <3>2
  <2> QED BY <2>2, <2>3
<1> QED BY <1>6, <1>7, <1>9

LEMMA BuildKeepsSearches ==
  ASSUME GraphInv, BuildJob
  PROVE  SearchesDone' /\ SearchGoesOn'
<1>1. /\ GraphTypeOK /\ SearchesDone /\ SearchGoesOn /\ pc \in Building
      /\ jobs \in Descriptions /\ jobs' = jobs /\ job \in DOMAIN jobs /\ job \in Nat
      /\ Len(jobs) \in Nat /\ DOMAIN jobs = 1..Len(jobs)
  BY BuildExtends, Described DEF GraphInv, GraphTypeOK
<1>2. PICK i \in DOMAIN jobs : i = job
  BY <1>1
<1>3. /\ (\A k : Own(k)' = Own(k)) /\ \A n \in Nodes : Successors(n) \subseteq Successors(n)'
      /\ \A n \in Nodes, k \in DOMAIN jobs :
           k # i => Successors(n)' \cap Own(k) = Successors(n) \cap Own(k)
      /\ \A k, l \in DOMAIN jobs : Own(k) \cap Own(l) # {} => k = l
  BY <1>1, <1>2, ExtendsGrows, OwnersDiffer
<1>4. worknode_found \subseteq worknode_found'
      /\ worknode_found' \subseteq worknode_found \cup Own(i)
  <2>1. CASE VisitSuccessor
    BY <1>2, <2>1, VisitKeepsSearch DEF GraphInv
  <2>2. CASE ~VisitSuccessor
    BY <2>2 DEF BuildJob, GenerateJobsDependency, GenerateStepDependency, GenerateStartDependency,
                SearchJob, ReturnFromNode, NextJob, searching
  <2> QED BY <2>1, <2>2
\* What was done for the jobs before this one.
<1>5. ASSUME NEW k \in DOMAIN jobs, k < job, NEW n \in FoundOf(k)'
      PROVE  Settled(k, n)'
  <2>1. k # i /\ Own(k) \cap Own(i) = {}
    BY <1>1, <1>2, <1>3, <1>5
  <2>2. n \in FoundOf(k) /\ n \in Nodes
    BY <1>1, <1>3, <1>4, <1>5, <2>1 DEF FoundOf, Own
  <2>3. Settled(k, n)
    BY <1>1, <1>5, <2>2 DEF SearchesDone
  <2> QED BY <1>1, <1>3, <1>4, <2>1, <2>2, <2>3, SettledStays
<1>6. CASE GenerateJobsDependency \/ GenerateStepDependency \/ GenerateStartDependency
  <2>1. /\ pc # "job_end" /\ pc' # "job_end" /\ job' = job
        /\ search' = search /\ worknode_found' = worknode_found
    BY <1>6 DEF GenerateJobsDependency, GenerateStepDependency, GenerateStartDependency, searching
  <2> QED BY <1>1, <1>3, <1>5, <2>1 DEF SearchesDone, SearchGoesOn
<1>7. CASE SearchJob
  <2>1. /\ pc = "steps" /\ pc' = "job_end" /\ job' = job
        /\ worknode_found' = worknode_found /\ search' = <<Call(StartOf(jobs[i].name))>>
    BY <1>2, <1>7 DEF SearchJob, cursor, CurrentJob
  <2>2. SearchesDone'
    BY <1>1, <1>3, <1>5, <2>1 DEF SearchesDone
  <2>3. worknode_found \cap Own(i) = {}
    <3>1. \A n \in worknode_found : \E k \in DOMAIN jobs : n \in Own(k) /\ k < i
      BY <1>1, <1>2, <2>1 DEF SearchesDone
    <3>2. \A k \in DOMAIN jobs : k < i => Own(k) \cap Own(i) = {}
      BY <1>1, <1>3
    <3> QED BY <3>1, <3>2
  <2>4. PICK c : c = Call(StartOf(jobs[i].name))
    OBVIOUS
  <2>5. Ongoing' = {c}
    BY <2>1, <2>4 DEF Ongoing
  <2>6. c.node = StartOf(jobs[i].name) /\ c.place = 1 /\ c.have_self_task_step = FALSE
    BY <2>4 DEF Call
  <2>7. CallGoes(i, c)'
    <3>1. c.node \in Nodes /\ c.node \in Own(i)'
      BY <1>1, <1>3, <2>6, OwnNodes DEF Own
    <3>2. \A p \in DOMAIN next_nodes'[c.node] : ~(p < 1)
      <4>1. next_nodes' \in [Nodes -> Seq(Nodes)]
        BY <1>1, <1>7 DEF SearchJob, graph, GraphTypeOK
      <4>2. next_nodes'[c.node] \in Seq(Nodes)
        BY <3>1, <4>1
      <4> QED BY <4>2
    <3> QED BY <2>6, <3>1, <3>2 DEF CallGoes
  <2>8. \A n \in FoundOf(i)' : n = c.node
    BY <1>1, <1>3, <2>1, <2>3, <2>6 DEF FoundOf
  <2>9. SearchGoesOn'
    BY <1>1, <1>2, <2>1, <2>5, <2>7, <2>8 DEF SearchGoesOn
  <2> QED BY <2>2, <2>9
<1>8. CASE VisitSuccessor \/ ReturnFromNode
  <2>1. pc = "job_end" /\ pc' = "job_end" /\ job' = job
    BY <1>8 DEF VisitSuccessor, ReturnFromNode, cursor
  <2>2. SearchesDone'
    BY <1>1, <1>2, <1>3, <1>4, <1>5, <2>1 DEF SearchesDone
  <2>3. SearchGoesOn'
    BY <1>1, <1>2, <1>8, <2>1, VisitKeepsSearch, ReturnKeepsSearch DEF SearchGoesOn
  <2> QED BY <2>2, <2>3
<1>9. CASE NextJob
  <2>1. /\ pc = "job_end" /\ search = << >> /\ pc' # "job_end" /\ job' = job + 1
        /\ search' = search /\ worknode_found' = worknode_found /\ next_nodes' = next_nodes
    BY <1>9 DEF NextJob, searching, graph
  <2>2. ASSUME NEW n \in FoundOf(i)' PROVE Settled(i, n)'
    <3>1. n \in FoundOf(i) /\ Ongoing = {}
      BY <1>1, <1>3, <2>1, <2>2 DEF FoundOf, Ongoing
    <3>2. Settled(i, n)
      BY <1>1, <1>2, <2>1, <3>1 DEF SearchGoesOn
    <3> QED BY <1>1, <1>3, <2>1, <3>2 DEF Settled, Successors
  <2>3. \A k \in DOMAIN jobs : k < job + 1 <=> k < job \/ k = i
    BY <1>1, <1>2
  <2>4. SearchesDone'
    BY <1>1, <1>2, <1>3, <1>5, <2>1, <2>2, <2>3 DEF SearchesDone
  <2> QED BY <2>1, <2>4 DEF SearchGoesOn
<1> QED BY <1>6, <1>7, <1>8, <1>9 DEF BuildJob

-----------------------------------------------------------------------------
(* The invariant.                                                          *)

LEMMA GraphStarts ==
  ASSUME GraphInit
  PROVE  GraphInv
<1>1. /\ jobs \in Descriptions /\ job = 1 /\ step = 1 /\ at = 1 /\ search = << >>
      /\ worknode_found = {}
      /\ next_nodes = [n \in Nodes |-> << >>] /\ dependency_account = [n \in Nodes |-> 0]
      /\ kahn_queue = << >> /\ checked_node = {} /\ checking = << >> /\ work_node_back = << >>
      /\ pc = IF jobs = << >> THEN "queue" ELSE "jobs"
      /\ Len(jobs) \in Nat /\ DOMAIN jobs = 1..Len(jobs)
  BY Described DEF GraphInit
<1>2. jobs = << >> \/ 1 \in DOMAIN jobs
  <2>1. IsList(jobs)
    BY <1>1, DescriptionsAssumption DEF WellFormed
  <2> QED BY <1>1, <2>1 DEF IsList
<1>3. GraphTypeOK
  BY <1>1, <1>2 DEF GraphTypeOK, Building
<1>4. AccountsCountEdges
  <2>1. \A n : EdgesInto(n) = {}
    BY <1>1, EdgesAre
  <2>2. (\A n : EdgesLeft(n) = EdgesInto(n)) /\ \A n : Cardinality(Places(n)) = 0
    BY <1>1, NothingGone
  <2>3. \A n \in Nodes : /\ IsFiniteSet(EdgesInto(n)) /\ Cardinality(EdgesInto(n)) = 0
                         /\ Cardinality(EdgesLeft(n)) = 0 /\ Cardinality(Places(n)) = 0
                         /\ dependency_account[n] = 0
    BY <1>1, <2>1, <2>2, FS_EmptySet
  <2> QED BY <2>3 DEF AccountsCountEdges
<1>5. StepsLinked
  BY <1>1 DEF StepsLinked, Past
<1>6. SearchesDone /\ SearchGoesOn
  BY <1>1 DEF SearchesDone, SearchGoesOn
<1>7. BeforeValidation /\ QueueHasFree /\ CheckedHasNoCycle /\ Verdict
  BY <1>1 DEF BeforeValidation, QueueHasFree, CheckedHasNoCycle, Verdict, Building
<1> QED BY <1>3, <1>4, <1>5, <1>6, <1>7 DEF GraphInv

LEMMA BuildInductive ==
  ASSUME GraphInv, BuildJob
  PROVE  GraphInv'
<1>1. /\ pc \in Building /\ pc' \in Building \cup {"queue"} /\ UNCHANGED validating
      /\ BeforeValidation
  BY BuildExtends DEF GraphInv
<1>2. BeforeValidation' /\ QueueHasFree' /\ CheckedHasNoCycle' /\ Verdict'
  BY <1>1 DEF BeforeValidation, QueueHasFree, CheckedHasNoCycle, Verdict, Building, validating
<1> QED BY <1>2, BuildKeepsTypes, BuildKeepsAccounts, BuildKeepsLinks, BuildKeepsSearches
           DEF GraphInv

LEMMA GraphStutters ==
  ASSUME GraphInv, UNCHANGED graph_vars
  PROVE  GraphInv'
<1>1. /\ UNCHANGED <<jobs, job, step, at, search, worknode_found, next_nodes, dependency_account,
                    start_queue, kahn_queue, checked_node, checking, work_node_back, pc>>
  BY DEF graph_vars, cursor, searching, graph, validating
<1>2. /\ Nodes' = Nodes /\ (\A n : Successors(n)' = Successors(n))
      /\ (\A n : EdgesInto(n)' = EdgesInto(n)) /\ \A i : Own(i)' = Own(i)
  BY <1>1, SameGraph
<1>3. GraphTypeOK'
  BY <1>1, <1>2 DEF GraphInv, GraphTypeOK
<1>4. AccountsCountEdges'
  <2>1. \A n : EdgesLeft(n)' = EdgesLeft(n) /\ Places(n)' = Places(n)
    BY <1>1, <1>2 DEF EdgesLeft, Gone, Places
  <2> QED BY <1>1, <1>2, <2>1 DEF GraphInv, AccountsCountEdges
<1>5. BeforeValidation' /\ QueueHasFree' /\ CheckedHasNoCycle' /\ Verdict'
  BY <1>1, <1>2 DEF GraphInv, BeforeValidation, QueueHasFree, Queued, CheckedHasNoCycle, Verdict
<1>6. StepsLinked'
  <2>1. \A i, k : HasOwnPredecessor(i, k)' <=> HasOwnPredecessor(i, k)
    BY <1>1, <1>2 DEF HasOwnPredecessor
  <2>2. \A i, k : Past(i, k)' <=> Past(i, k)
    BY <1>1 DEF Past
  <2> QED BY <1>1, <2>1, <2>2 DEF GraphInv, StepsLinked
<1>7. SearchesDone' /\ SearchGoesOn'
  <2>1. \A i : FoundOf(i)' = FoundOf(i) /\ \A n : Settled(i, n)' <=> Settled(i, n)
    BY <1>1, <1>2 DEF FoundOf, Settled
  <2>2. Ongoing' = Ongoing
    BY <1>1 DEF Ongoing
  <2>3. \A i, c : CallGoes(i, c)' <=> CallGoes(i, c)
    BY <1>1, <1>2 DEF CallGoes
  <2>4. SearchesDone'
    BY <1>1, <1>2, <2>1 DEF GraphInv, SearchesDone
  <2>5. SearchGoesOn'
    BY <1>1, <2>1, <2>2, <2>3 DEF GraphInv, SearchGoesOn
  <2> QED BY <2>4, <2>5
<1> QED BY <1>3, <1>4, <1>5, <1>6, <1>7 DEF GraphInv

\* The invariant of WorkFlow.init(): before validation the accounts count the
\* edges, during it the edges validation has not gone through, the nodes checked
\* have no cycle among them, the steps of the jobs gone through have a
\* predecessor in their own job, and what the searches found leads on to the end.
THEOREM GraphInductive == GraphSpec => []GraphInv
<1>1. GraphInit => GraphInv
  BY GraphStarts
<1>2. GraphInv /\ [GraphNext]_graph_vars => GraphInv'
  <2>1. ASSUME GraphInv, [GraphNext]_graph_vars PROVE GraphInv'
    <3>1. BuildJob \/ Validate \/ UNCHANGED graph_vars
      BY <2>1 DEF GraphNext, BuildJob, Validate
    <3> QED BY <2>1, <3>1, BuildInductive, ValidateInductive, GraphStutters
  <2> QED BY <2>1
<1> QED BY <1>1, <1>2, PTL DEF GraphSpec

-----------------------------------------------------------------------------
(* What init() promises.                                                   *)

\* A ready workflow has a last node in every set of nodes, and a rejected one a
\* set of nodes that all wait for one another.
LEMMA VerdictIsRight ==
  ASSUME GraphInv
  PROVE  AcceptsExactlyAcyclic
<1>1. jobs \in Descriptions /\ \A n \in Nodes : Successors(n) \subseteq Nodes
  BY SuccessorsInside DEF GraphInv, GraphTypeOK
<1>2. ASSUME pc = "ready" PROVE Acyclic
  <2>1. SUBSET Nodes \subseteq SUBSET checked_node
    BY <1>2 DEF GraphInv, Verdict
  <2>2. \A S \in SUBSET Nodes : S # {} => \E n \in S : Successors(n) \cap S = {}
    BY <2>1 DEF GraphInv, CheckedHasNoCycle
  <2> QED BY <1>1, <2>2, NoCycle
<1>3. ASSUME pc = "raised" PROVE ~Acyclic
  <2>1. PICK S \in SUBSET Nodes : S # {} /\ \A n \in S : \E p \in S : n \in Successors(p)
    BY <1>3 DEF GraphInv, Verdict
  <2> QED BY <1>1, <2>1, PredecessorsCycle
<1> QED BY <1>2, <1>3 DEF AcceptsExactlyAcyclic

\* An accepted graph has no cycle and a rejected one has: validate_workflow
\* decides by checked_node and by the nodes its queue never reaches, and every
\* node it takes from the queue has no edge left from a node not checked.
THEOREM InitAcceptsExactlyAcyclic == GraphSpec => []AcceptsExactlyAcyclic
<1>1. GraphInv => AcceptsExactlyAcyclic
  BY VerdictIsRight
<1> QED BY <1>1, GraphInductive, PTL

\* What validation took from the live accounts is all put back: a decrement is
\* recorded for every edge it goes through, duplicates included.
THEOREM InitRestoresAccounts == GraphSpec => []AccountsRestored
<1>1. GraphInv => AccountsRestored
  <2>1. ASSUME GraphInv, pc = "ready", NEW n \in Nodes
        PROVE  dependency_account[n] = Cardinality(EdgesInto(n))
    <3>1. /\ work_node_back = << >> /\ dependency_account[n] \in Nat
          /\ dependency_account[n] + Cardinality(Places(n)) = Cardinality(EdgesInto(n))
      BY <2>1 DEF GraphInv, GraphTypeOK, Verdict, AccountsCountEdges
    <3>2. Places(n) = {}
      BY <3>1 DEF Places
    <3> QED BY <3>1, <3>2, FS_EmptySet
  <2> QED BY <2>1 DEF AccountsRestored
<1> QED BY <1>1, GraphInductive, PTL

\* The nodes of a job are its markers and its steps.
LEMMA OwnAre ==
  ASSUME jobs \in Descriptions, NEW i \in DOMAIN jobs, NEW n \in Own(i)
  PROVE  \/ n = StartOf(jobs[i].name) \/ n = EndOf(jobs[i].name)
         \/ \E k \in DOMAIN jobs[i].steps : n = StepNode(jobs[i], jobs[i].steps[k])
<1>1. PICK l \in DOMAIN jobs :
        n \in {StartOf(jobs[l].name), EndOf(jobs[l].name)} \cup
              {StepNode(jobs[l], jobs[l].steps[k]) : k \in DOMAIN jobs[l].steps}
  BY DEF Own, Nodes, WorkNodes
<1>2. n[1] = jobs[l].name /\ n[1] = jobs[i].name
  BY <1>1 DEF StartOf, EndOf, StepNode, Own
<1>3. l = i
  BY <1>2, Described
<1> QED BY <1>1, <1>3

\* In a graph without a cycle what every first step outside a set would lead to
\* is impossible: every step of a job is in a set that holds what the steps in it
\* and the start lead to.
LEMMA EveryStep ==
  ASSUME GraphInv, Acyclic, NEW i \in DOMAIN jobs, i < job, NEW S,
         \A p \in Own(i), n \in Own(i) :
           (p = StartOf(jobs[i].name) \/ p \in S) /\ p # EndOf(jobs[i].name)
             /\ n # EndOf(jobs[i].name) /\ n \in Successors(p) => n \in S
  PROVE  \A k \in DOMAIN jobs[i].steps : StepNode(jobs[i], jobs[i].steps[k]) \in S
<1> DEFINE steps == {StepNode(jobs[i], jobs[i].steps[k]) : k \in DOMAIN jobs[i].steps}
           U == steps \ S
<1>1. jobs \in Descriptions /\ (\A n \in Nodes : Successors(n) \subseteq Nodes) /\ StepsLinked
  BY SuccessorsInside DEF GraphInv, GraphTypeOK
<1>2. steps \subseteq Own(i) /\ Own(i) \subseteq Nodes /\ EndOf(jobs[i].name) \notin steps
  BY <1>1, OwnNodes
<1>3. SUFFICES ASSUME U # {} PROVE FALSE
  OBVIOUS
<1>4. PICK n \in U : \A p \in U : n \notin Successors(p)
  BY <1>1, <1>2, <1>3, PredecessorsCycle
<1>5. PICK k \in DOMAIN jobs[i].steps : n = StepNode(jobs[i], jobs[i].steps[k])
  BY <1>4
<1>6. HasOwnPredecessor(i, k)
  BY <1>1 DEF StepsLinked, Past
<1>7. PICK p \in Own(i) : p # EndOf(jobs[i].name) /\ n \in Successors(p)
  BY <1>5, <1>6 DEF HasOwnPredecessor
<1>8. p = StartOf(jobs[i].name) \/ p \in steps
  BY <1>1, <1>7, OwnAre
<1>9. n \in S
  BY <1>2, <1>4, <1>7, <1>8
<1> QED BY <1>4, <1>9

\* In an accepted workflow every step comes after its job's start and before its
\* end: the first step that did not would have a predecessor in its own job that
\* does, and the last node found that does not lead to the end a successor that
\* does.
THEOREM JobsBracketTheirSteps == GraphSpec => []JobBracketsSteps
<1>1. GraphInv => AcceptsExactlyAcyclic
  BY VerdictIsRight
<1>2. ASSUME GraphInv, pc = "ready", NEW i \in DOMAIN jobs, NEW k \in DOMAIN jobs[i].steps
      PROVE  LET n == StepNode(jobs[i], jobs[i].steps[k])
             IN  n \in Reach(StartOf(jobs[i].name)) /\ EndOf(jobs[i].name) \in Reach(n)
  <2> DEFINE start == StartOf(jobs[i].name)
             end == EndOf(jobs[i].name)
             n == StepNode(jobs[i], jobs[i].steps[k])
             Stuck == {m \in FoundOf(i) : end \notin Reach(m)}
  <2>1. /\ jobs \in Descriptions /\ Acyclic /\ i < job
        /\ (\A m \in Nodes : Successors(m) \subseteq Nodes)
        /\ \A m \in FoundOf(i) : Settled(i, m)
        /\ SUBSET Nodes \subseteq SUBSET checked_node
    <3>1. /\ GraphTypeOK /\ Verdict /\ SearchesDone
          /\ job = Len(jobs) + 1 /\ Len(jobs) \in Nat /\ DOMAIN jobs = 1..Len(jobs)
      BY <1>2, Described DEF GraphInv, GraphTypeOK, Building
    <3>2. i < job
      BY <3>1
    <3> QED BY <1>1, <1>2, <3>1, <3>2, SuccessorsInside DEF AcceptsExactlyAcyclic, GraphTypeOK,
            Verdict, SearchesDone
  <2>2. /\ start \in Own(i) /\ end \in Own(i) /\ start # end /\ Own(i) \subseteq Nodes
        /\ n \in Own(i) /\ n # end
    BY <2>1, OwnNodes
  <2>3. n \in Reach(start)
    <3>1. ASSUME NEW p \in Own(i), NEW m \in Own(i), p = start
          \/ p \in Reach(start), m \in Successors(p)
          PROVE  m \in Reach(start)
      BY <2>1, <2>2, <3>1, ReachIncludes
    <3> HIDE DEF start
    <3> QED BY <1>2, <2>1, <3>1, EveryStep DEF start
  <2>4. n \in FoundOf(i)
    <3>1. ASSUME NEW p \in Own(i), NEW m \in Own(i), p = start \/ p \in worknode_found,
                 p # end, m # end, m \in Successors(p)
          PROVE  m \in worknode_found
      <4>1. Settled(i, p)
        BY <2>1, <2>2, <3>1 DEF FoundOf
      <4> QED BY <3>1, <4>1 DEF Settled
    <3>2. n \in worknode_found
      BY <1>2, <2>1, <3>1, EveryStep
    <3> QED BY <2>2, <3>2 DEF FoundOf
  <2>5. Stuck = {}
    <3>1. SUFFICES ASSUME Stuck # {} PROVE FALSE
      OBVIOUS
    <3>2. PICK m \in Stuck : Successors(m) \cap Stuck = {}
      <4>1. Stuck \in SUBSET checked_node
        BY <2>1 DEF FoundOf, Own
      <4> QED BY <1>2, <3>1, <4>1 DEF GraphInv, CheckedHasNoCycle
    <3>3. PICK l \in Successors(m) : l \in Own(i) /\ (l \in worknode_found \/ l = end)
      BY <2>1, <3>2 DEF Settled
    <3>4. m \in Nodes /\ l \in Reach(m) /\ Reach(l) \subseteq Reach(m)
      BY <2>1, <3>2, <3>3, ReachIncludes DEF FoundOf, Own
    <3>5. CASE l = end
      BY <3>2, <3>4, <3>5
    <3>6. CASE l # end
      <4>1. l \in FoundOf(i) /\ l \notin Stuck
        BY <3>2, <3>3, <3>6 DEF FoundOf
      <4> QED BY <3>2, <3>4, <4>1
    <3> QED BY <3>5, <3>6
  <2> QED BY <2>3, <2>4, <2>5
<1>3. GraphInv => JobBracketsSteps
  BY <1>2 DEF JobBracketsSteps
<1> QED BY <1>3, GraphInductive, PTL

=============================================================================
