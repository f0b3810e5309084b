--------------------------- MODULE TaskDispatcher ---------------------------
(***************************************************************************)
(* TaskDispatcher.run(): execute one step on all its hosts                 *)
(* (operation-service, framework/task_dispatcher.py with                   *)
(* process/task_executor.py).  The dispatching thread connects to the      *)
(* hosts one after the other and submits an executor for each to a pool of *)
(* batch_size workers; when all are submitted it collects their results as *)
(* they complete and calls the work node's callback with the statistics of *)
(* all hosts.  Any exception (a connection that cannot be made, a future   *)
(* that raised, the timeout) makes it report FAILED at once; executors     *)
(* already submitted go on.                                                *)
(*                                                                         *)
(* The dispatcher blocks while it connects and while it waits for futures; *)
(* the executors run in between.                                           *)
(***************************************************************************)
EXTENDS Integers, Sequences, FiniteSets

CONSTANTS Host,       \* hosts a step may have
          BatchSize   \* batch_size

ASSUME HostAssumption  == IsFiniteSet(Host)
ASSUME BatchAssumption == BatchSize \in Nat \ {0}

VARIABLES
  hosts,        \* context["hosts"]
  todo_hosts,   \* _todo_hosts
  connecting,   \* the popped host while TaskExecutor() connects to it: {} or {h}
  work_queue,   \* the pool's queue of submitted executors
  executing,    \* hosts on which a worker runs TaskExecutor.run
  future,       \* of each host: "none", or how run() ended
  collected,    \* hosts whose result handle_result has counted
  stat,         \* _stat: the hosts listed under "success" and "failed"
  reports,      \* the result codes _callback was called with, in order
  pc            \* "dispatch", "collect" or "returned"

pool_vars == <<work_queue, executing, future>>
vars == <<hosts, todo_hosts, connecting, pool_vars, collected, stat, reports, pc>>

Init ==
  /\ hosts \in SUBSET Host
  /\ todo_hosts = hosts
  /\ connecting = {} /\ work_queue = << >> /\ executing = {}
  /\ future = [h \in hosts |-> "none"]
  /\ collected = {}
  /\ stat = [success |-> {}, failed |-> {}]
  /\ reports = << >>
  /\ pc = "dispatch"

\* The except clause: report FAILED and return.
Fail ==
  /\ reports' = Append(reports, "FAILED")
  /\ pc' = "returned"

Connect(h) ==
  /\ pc = "dispatch" /\ connecting = {} /\ h \in todo_hosts
  /\ todo_hosts' = todo_hosts \ {h}
  /\ connecting' = {h}
  /\ UNCHANGED <<hosts, pool_vars, collected, stat, reports, pc>>

ConnectFails ==
  /\ pc = "dispatch" /\ connecting # {}
  /\ connecting' = {}
  /\ Fail
  /\ UNCHANGED <<hosts, todo_hosts, pool_vars, collected, stat>>

Submit(h) ==
  /\ pc = "dispatch" /\ h \in connecting
  /\ connecting' = {}
  /\ work_queue' = Append(work_queue, h)
  /\ UNCHANGED <<hosts, todo_hosts, executing, future, collected, stat, reports, pc>>

StartCollecting ==
  /\ pc = "dispatch" /\ connecting = {} /\ todo_hosts = {}
  /\ pc' = "collect"
  /\ UNCHANGED <<hosts, todo_hosts, connecting, pool_vars, collected, stat, reports>>

\* _statistic_execution_result of the hosts counted in s.
StatisticExecutionResult(s) ==
  IF Cardinality(s.success) = Cardinality(hosts) THEN "SUCCESS"
  ELSE IF s.success # {} THEN "PARTIAL_PASSED"
  ELSE "FAILED"

\* Seeded defect: the count is compared before it is incremented.
HandleResult_OffByOne(h) ==
  /\ pc = "collect" /\ h \in hosts \ collected
  /\ future[h] \in {"ok", "failed"}
  /\ collected' = collected \cup {h}
  /\ stat' = IF future[h] = "ok" THEN [stat EXCEPT !.success = @ \cup {h}]
                                 ELSE [stat EXCEPT !.failed = @ \cup {h}]
  /\ reports' = IF Cardinality(collected) = Cardinality(hosts)
                THEN Append(reports, StatisticExecutionResult(stat'))
                ELSE reports
  /\ UNCHANGED <<hosts, todo_hosts, connecting, pool_vars, pc>>

\* as_completed yields the future of host h, which has a result.
HandleResult(h) ==
  /\ pc = "collect" /\ h \in hosts \ collected
  /\ future[h] \in {"ok", "failed"}
  /\ collected' = collected \cup {h}
  /\ stat' = IF future[h] = "ok" THEN [stat EXCEPT !.success = @ \cup {h}]
                                 ELSE [stat EXCEPT !.failed = @ \cup {h}]
  /\ reports' = IF Cardinality(collected') = Cardinality(hosts)
                THEN Append(reports, StatisticExecutionResult(stat'))
                ELSE reports
  /\ UNCHANGED <<hosts, todo_hosts, connecting, pool_vars, pc>>

\* task.result() raises what run() raised: building the plugin handler and
\* closing the connection are outside its try block.
ResultRaises(h) ==
  /\ pc = "collect" /\ h \in hosts \ collected
  /\ future[h] = "raised"
  /\ Fail
  /\ UNCHANGED <<hosts, todo_hosts, connecting, pool_vars, collected, stat>>

\* Seeded defect: the dispatcher goes on collecting after it reported a timeout.
Timeout_GoesOn ==
  /\ pc = "collect" /\ collected # hosts
  /\ reports' = Append(reports, "FAILED")
  /\ UNCHANGED <<hosts, todo_hosts, connecting, pool_vars, collected, stat, pc>>

\* The timeout passes before as_completed has yielded every future.
Timeout ==
  /\ pc = "collect" /\ collected # hosts
  /\ Fail
  /\ UNCHANGED <<hosts, todo_hosts, connecting, pool_vars, collected, stat>>

\* The loop over as_completed ends; with no hosts it does so at once.
Return ==
  /\ pc = "collect" /\ collected = hosts
  /\ pc' = "returned"
  /\ UNCHANGED <<hosts, todo_hosts, connecting, pool_vars, collected, stat, reports>>

StartExecutor ==
  /\ work_queue # << >> /\ Cardinality(executing) < BatchSize
  /\ work_queue' = Tail(work_queue)
  /\ executing' = executing \cup {Head(work_queue)}
  /\ UNCHANGED <<hosts, todo_hosts, connecting, future, collected, stat, reports, pc>>

\* The plugin succeeded; it failed or raised; run() itself raised.
EndExecutor(h, end) ==
  /\ h \in executing
  /\ executing' = executing \ {h}
  /\ future' = [future EXCEPT ![h] = end]
  /\ UNCHANGED <<hosts, todo_hosts, connecting, work_queue, collected, stat, reports, pc>>

Dispatch ==
  \/ \E h \in hosts : Connect(h) \/ Submit(h) \/ HandleResult(h) \/ ResultRaises(h)
  \/ ConnectFails \/ StartCollecting \/ Return

Ends == {"ok", "failed", "raised"}

Next ==
  \/ \E h \in hosts : Connect(h)
  \/ ConnectFails
  \/ \E h \in hosts : Submit(h)
  \/ StartCollecting
  \/ \E h \in hosts : HandleResult(h)
  \/ \E h \in hosts : ResultRaises(h)
  \/ Timeout
  \/ Return
  \/ StartExecutor
  \/ \E h \in hosts, end \in Ends : EndExecutor(h, end)

\* The dispatching thread and the pool go on; a connection attempt gives up
\* after its retries, and a host that lets itself be connected is assumed to open
\* the shell and the file channel or to break off, as that has no time limit
\* (RemoteShell!Unlimited).  A command on a host need not end (the SSH channel's
\* timeout is an hour), but the dispatcher's own timeout does strike.
Fairness == WF_vars(Dispatch) /\ WF_vars(Timeout) /\ WF_vars(StartExecutor)

Spec     == Init /\ [][Next]_vars
FairSpec == Spec /\ Fairness

-----------------------------------------------------------------------------
Distinct(s) == \A i, j \in DOMAIN s : s[i] = s[j] => i = j
Queued == {work_queue[i] : i \in DOMAIN work_queue}

TypeOK ==
  /\ hosts \in SUBSET Host
  /\ todo_hosts \in SUBSET hosts /\ connecting \in SUBSET hosts
  /\ work_queue \in Seq(hosts) /\ executing \in SUBSET hosts
  /\ future \in [hosts -> {"none"} \cup Ends]
  /\ collected \in SUBSET hosts
  /\ stat \in [success : SUBSET hosts, failed : SUBSET hosts]
  /\ reports \in Seq({"SUCCESS", "PARTIAL_PASSED", "FAILED"})
  /\ pc \in {"dispatch", "collect", "returned"}

\* Where a host is: to do, being connected, queued for a worker, executing the
\* step, or done.
Places == <<todo_hosts, connecting, Queued, executing, {h \in hosts : future[h] # "none"}>>

\* No host is executed twice, also not after the dispatcher gave up, and none
\* is forgotten unless it gave up.
EveryHostOnce ==
  /\ Distinct(work_queue)
  /\ \A i, j \in 1..5 : i # j => Places[i] \cap Places[j] = {}
  /\ \A h \in hosts : (\E i \in 1..5 : h \in Places[i]) \/ reports = <<"FAILED">>

\* A code other than FAILED counts every host's own result.
VerdictCountsAllHosts ==
  \A i \in DOMAIN reports :
    /\ reports[i] = "SUCCESS" => \A h \in hosts : future[h] = "ok"
    /\ reports[i] = "PARTIAL_PASSED" =>
         /\ \E h \in hosts : future[h] = "ok"
         /\ \E h \in hosts : future[h] = "failed"
         /\ \A h \in hosts : future[h] \in {"ok", "failed"}

\* run() returns without a callback exactly when the step has no hosts; the
\* node then never ends for the workflow.
SilentOnlyWithoutHosts == pc = "returned" => (reports = << >> <=> hosts = {})

\* The promise the workflow relies on: one report per step, and a good one only
\* for good results.
Execution == INSTANCE StepExecution
  WITH outcome <- [h \in hosts |-> CASE future[h] = "none" -> "none"
                                     [] future[h] = "ok"   -> "ok"
                                     [] OTHER              -> "failed"]

ImplementsStepExecution == Execution!Spec

\* And the report comes, under the dispatcher's own fairness, whatever the
\* hosts do.
StepIsReported == Execution!FairSpec

=============================================================================
