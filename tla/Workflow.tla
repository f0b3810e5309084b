------------------------------ MODULE Workflow ------------------------------
(***************************************************************************)
(* The execution of one initialised workflow: WorkFlow.start() takes work  *)
(* nodes off the waiting queue and submits them to a thread pool; a pool   *)
(* worker runs WorkNode.work(), which ends in the callback _handle_result; *)
(* the callback records the result, tells the successors about a failure   *)
(* and puts those that wait for nothing more on the waiting queue          *)
(* (operation-service, framework/workflow/workflow.py and work_node.py).   *)
(*                                                                         *)
(* The services run with gevent's monkey patching (aops-zeus.spec requires *)
(* python3-gevent), so code between two blocking calls is atomic: the      *)
(* callback blocks nowhere and is part of the step that ends a node.       *)
(*                                                                         *)
(* What init() leaves behind is the initial state: WorkflowInit checks     *)
(* that the accounts are the numbers of incoming edges and that a plan     *)
(* with a cycle is rejected.  An edge listed twice counts once here, on    *)
(* both sides (the account and the decrements), and the order of a         *)
(* next_nodes list is left open.                                           *)
(***************************************************************************)
EXTENDS Integers, Sequences, FiniteSets

CONSTANTS
  Node,         \* the work nodes of worknode_map
  Step,         \* those with a step; the others are the start / end markers
  Plans,        \* the next_nodes relations init() accepts
  Settings,     \* what the steps' YAML says of essential, ignore_result and hosts
  MaxWorkJobs   \* max_work_jobs, the size of the pool

\* A YAML boolean, or a key that is not there.
YamlFlag == {"unset", "true", "false"}

ASSUME NodeAssumption     == IsFiniteSet(Node) /\ Step \subseteq Node
\* Every step comes before the end of its job (WorkflowInit!JobBracketsSteps).
StepsHaveSuccessors(next) == \A n \in Step : next[n] # {}

StepSetting == [essential : YamlFlag, ignore_result : YamlFlag, has_hosts : BOOLEAN]

ASSUME PlansAssumption    == \A next \in Plans : next \in [Node -> SUBSET Node]
                                             /\ StepsHaveSuccessors(next)
ASSUME SettingsAssumption == Settings \subseteq [Step -> StepSetting]
ASSUME PoolAssumption     == MaxWorkJobs \in Nat \ {0}

StepCode == {"SUCCESS", "PARTIAL_PASSED", "FAILED"}     \* what TaskDispatcher reports
Code     == StepCode \cup {"PRE_DEPENDENCY_ERROR"}      \* PluginResultCode

VARIABLES
  next_nodes,          \* WorkNode.next_nodes of every node, fixed by init()
  setting,             \* the steps' YAML, fixed by init()
  dependency_account,  \* WorkNode.dependency_account
  pre_status,          \* WorkNode.pre_status: 0, or -1 once a predecessor failed
  status,              \* WorkNode._status
  status_reason,       \* WorkNode.status_reason: "", "ok" or the node it names
  waiting_queue,       \* WorkFlow._waiting_queue
  got,                 \* WorkFlow._get_jobs_number
  pool,                \* nodes submitted to the pool that no worker took yet
  dispatched,          \* nodes whose step was dispatched and has not called back
  result,              \* the result_code of each finished node, or "none"
  wf_status,           \* WorkFlow.status
  pc                   \* start(): its loop, its final wait, or how it ended

plan  == <<next_nodes, setting>>
marks == <<dependency_account, pre_status, status, status_reason, wf_status>>
vars  == <<plan, marks, waiting_queue, got, pool, dispatched, result, pc>>

\* The YAML default of both keys is the string "False".  essential is compared
\* with that string, so a YAML boolean of either value makes a step essential;
\* ignore_result is tested for truth, and a non-empty string is true.
Essential(n)     == setting[n].essential # "unset"
IgnoresResult(n) == setting[n].ignore_result # "false"
HasHosts(n)      == setting[n].has_hosts

Predecessors(n) == {p \in Node : n \in next_nodes[p]}

Orderings(S) ==
  {s \in [1..Cardinality(S) -> S] :
     \A i, j \in 1..Cardinality(S) : s[i] = s[j] => i = j}

-----------------------------------------------------------------------------
Init ==
  /\ next_nodes \in Plans
  /\ setting \in Settings
  /\ dependency_account = [n \in Node |-> Cardinality(Predecessors(n))]
  /\ pre_status    = [n \in Node |-> 0]
  /\ status        = [n \in Node |-> "waiting"]
  /\ status_reason = [n \in Node |-> ""]
  /\ waiting_queue \in Orderings({n \in Node : dependency_account[n] = 0})
  /\ got = 0 /\ pool = << >> /\ dispatched = {}
  /\ result    = [n \in Node |-> "none"]
  /\ wf_status = "NORMAL"
  /\ pc = "loop"

\* One turn of the loop of start(): get a node, count it, submit it; the last
\* one is followed by the wait for all results.
GetAndSubmit ==
  /\ pc = "loop" /\ waiting_queue # << >>
  /\ waiting_queue' = Tail(waiting_queue)
  /\ got' = got + 1
  /\ pool' = Append(pool, Head(waiting_queue))
  /\ pc' = IF got' = Cardinality(Node) THEN "wait" ELSE "loop"
  /\ UNCHANGED <<plan, marks, dispatched, result>>

\* Nodes that occupy a worker.  TaskDispatcher.run() of a step without hosts
\* returns at once and never calls back (module TaskDispatcher).
Working == {n \in dispatched : HasHosts(n)}

\* as_completed(all_tasks): every submitted future has its result.
AllCompleted == pool = << >> /\ Working = {}

\* The time budget is spent: the loop raises, whether or not a node waits
\* (WorkFlowException, or queue.Empty out of get), and the final wait raises if
\* a future is not completed.  What was submitted stays with the pool, which
\* shutdown(wait=False) lets finish.
Timeout ==
  /\ pc = "loop" \/ (pc = "wait" /\ ~AllCompleted)
  /\ pc' = "raised"
  /\ UNCHANGED <<plan, marks, waiting_queue, got, pool, dispatched, result>>

\* Seeded defect: start() does not wait for the submitted nodes.
Finish_NoWait ==
  /\ pc = "wait"
  /\ pc' = "done"
  /\ UNCHANGED <<plan, marks, waiting_queue, got, pool, dispatched, result>>

Finish ==
  /\ pc = "wait" /\ AllCompleted
  /\ pc' = "done"
  /\ UNCHANGED <<plan, marks, waiting_queue, got, pool, dispatched, result>>

\* Seeded defect: a skipped node names itself as the reason.
MarkSkipped_OwnName(n) ==
  /\ status' = [status EXCEPT ![n] = "failed"]
  /\ pre_status' = [m \in Node |-> IF m \in next_nodes[n] THEN -1 ELSE pre_status[m]]
  /\ status_reason' = [m \in Node |-> IF m \in next_nodes[n] THEN n ELSE status_reason[m]]
  /\ UNCHANGED wf_status

\* The three branches of _handle_result: node n could not run because of a
\* predecessor; it counts as a success; it failed.
MarkSkipped(n) ==
  /\ status' = [status EXCEPT ![n] = "failed"]
  /\ pre_status' = [m \in Node |-> IF m \in next_nodes[n] THEN -1 ELSE pre_status[m]]
  /\ status_reason' =
       [m \in Node |-> IF m \in next_nodes[n] THEN status_reason[n] ELSE status_reason[m]]
  /\ UNCHANGED wf_status

MarkSuccess(n) ==
  /\ status' = [status EXCEPT ![n] = "success"]
  /\ status_reason' = [status_reason EXCEPT ![n] = "ok"]
  /\ UNCHANGED <<pre_status, wf_status>>

MarkFailed(n) ==
  /\ status' = [status EXCEPT ![n] = "failed"]
  /\ wf_status' = "ERR_WORKFLOW_EXECUTE"
  /\ pre_status' = [m \in Node |-> IF m \in next_nodes[n] THEN -1 ELSE pre_status[m]]
  /\ status_reason' =
       [m \in Node |-> IF m \in next_nodes[n] \cup {n} THEN n ELSE status_reason[m]]

\* Seeded defect: a node with one dependency left is released.
ReleaseNext_Early(n) ==
  /\ dependency_account' =
       [m \in Node |-> IF m \in next_nodes[n] THEN dependency_account[m] - 1
                                              ELSE dependency_account[m]]
  /\ \E free \in Orderings({m \in next_nodes[n] : dependency_account'[m] <= 1}) :
       waiting_queue' = waiting_queue \o free

\* Seeded defect: only the first free successor is queued.
ReleaseNext_FirstOnly(n) ==
  /\ dependency_account' =
       [m \in Node |-> IF m \in next_nodes[n] THEN dependency_account[m] - 1
                                              ELSE dependency_account[m]]
  /\ \E free \in Orderings({m \in next_nodes[n] : dependency_account'[m] = 0}) :
       waiting_queue' = waiting_queue \o SubSeq(free, 1, IF free = << >> THEN 0 ELSE 1)

\* get_next_free_nodes: every successor has one dependency less; those left
\* with none are put on the waiting queue.
ReleaseNext(n) ==
  /\ dependency_account' =
       [m \in Node |-> IF m \in next_nodes[n] THEN dependency_account[m] - 1
                                              ELSE dependency_account[m]]
  /\ \E free \in Orderings({m \in next_nodes[n] : dependency_account'[m] = 0}) :
       waiting_queue' = waiting_queue \o free

HandleResult(n, code) ==
  /\ result' = [result EXCEPT ![n] = code]
  /\ IF code = "PRE_DEPENDENCY_ERROR" THEN MarkSkipped(n)
     ELSE IF code = "SUCCESS" \/ IgnoresResult(n) THEN MarkSuccess(n)
     ELSE MarkFailed(n)
  /\ ReleaseNext(n)
  /\ UNCHANGED <<plan, got, pc>>

\* work(): the node is not run at all.
Skips(n) == pre_status[n] = -1 /\ (n \in Step => ~Essential(n))

\* A free worker takes the oldest submitted node and calls work().
WorkerFree == Cardinality(Working) < MaxWorkJobs

StartSkipped ==
  /\ pool # << >> /\ WorkerFree /\ Skips(Head(pool))
  /\ pool' = Tail(pool)
  /\ HandleResult(Head(pool), "PRE_DEPENDENCY_ERROR")
  /\ UNCHANGED dispatched

StartMarker ==
  /\ pool # << >> /\ WorkerFree
  /\ ~Skips(Head(pool)) /\ Head(pool) \notin Step
  /\ pool' = Tail(pool)
  /\ HandleResult(Head(pool), "SUCCESS")
  /\ UNCHANGED dispatched

StartStep ==
  /\ pool # << >> /\ WorkerFree
  /\ ~Skips(Head(pool)) /\ Head(pool) \in Step
  /\ pool' = Tail(pool)
  /\ dispatched' = dispatched \cup {Head(pool)}
  /\ UNCHANGED <<plan, marks, waiting_queue, got, result, pc>>

\* TaskDispatcher calls back once (module TaskDispatcher).
FinishStep(n, code) ==
  /\ n \in Working
  /\ dispatched' = dispatched \ {n}
  /\ HandleResult(n, code)
  /\ UNCHANGED pool

Work == StartSkipped \/ StartMarker \/ StartStep

Next ==
  \/ GetAndSubmit
  \/ Timeout
  \/ Finish
  \/ StartSkipped
  \/ StartMarker
  \/ StartStep
  \/ \E n \in Node, code \in StepCode : FinishStep(n, code)

\* start() and the workers run while they can, and every dispatched step ends
\* (TaskDispatcher!StepIsReported, with its assumption on hosts).  Nothing makes the time budget
\* run out.
Fairness ==
  /\ WF_vars(GetAndSubmit)
  /\ WF_vars(Finish)
  /\ WF_vars(Work)
  /\ \A n \in Node : WF_vars(\E code \in StepCode : FinishStep(n, code))

Spec     == Init /\ [][Next]_vars
FairSpec == Spec /\ Fairness

-----------------------------------------------------------------------------
Elements(s) == {s[i] : i \in DOMAIN s}
Distinct(s) == \A i, j \in DOMAIN s : s[i] = s[j] => i = j

Finished(n) == result[n] # "none"
Placed(n)   == n \in Elements(waiting_queue) \cup Elements(pool) \cup dispatched \/ Finished(n)

TypeOK ==
  /\ next_nodes \in [Node -> SUBSET Node]
  /\ setting \in [Step -> StepSetting]
  /\ dependency_account \in [Node -> Int]
  /\ pre_status \in [Node -> {0, -1}]
  /\ status \in [Node -> {"waiting", "success", "failed"}]
  /\ status_reason \in [Node -> Node \cup {"", "ok"}]
  /\ waiting_queue \in Seq(Node) /\ pool \in Seq(Node)
  /\ got \in Nat
  /\ dispatched \subseteq Step
  /\ result \in [Node -> Code \cup {"none"}]
  /\ wf_status \in {"NORMAL", "ERR_WORKFLOW_EXECUTE"}
  /\ pc \in {"loop", "wait", "done", "raised"}

\* A node goes once through the waiting queue, the pool and a worker, so its
\* step is dispatched to the hosts at most once, however its predecessors'
\* callbacks are interleaved.
NeverQueuedTwice ==
  /\ Distinct(waiting_queue) /\ Distinct(pool)
  /\ Elements(waiting_queue) \cap Elements(pool) = {}
  /\ (Elements(waiting_queue) \cup Elements(pool)) \cap dispatched = {}
  /\ \A n \in Elements(waiting_queue) \cup Elements(pool) \cup dispatched : ~Finished(n)

\* No node is queued, run or finished before all its predecessors finished.
StartsAfterPredecessors ==
  \A n \in Node : Placed(n) => \A p \in Predecessors(n) : Finished(p)

\* pre_status says exactly whether some predecessor failed or was skipped.
PreStatusIsPredecessorFailure ==
  \A n \in Node : pre_status[n] = -1 <=> \E p \in Predecessors(n) : status[p] = "failed"

\* The reason a skipped node reports is a step that was run and failed, even
\* through a chain of skipped nodes and when several predecessors failed.
SkipReasonIsFailedStep ==
  \A n \in Node :
    result[n] = "PRE_DEPENDENCY_ERROR" =>
      LET r == status_reason[n]
      IN  /\ r \in Step
          /\ result[r] \in {"FAILED", "PARTIAL_PASSED"}
          /\ ~IgnoresResult(r)

\* start() returns normally only when every node finished (a step without hosts
\* keeps it from returning), and WorkFlow.status is then NORMAL, so that
\* BaseTask.run writes SUCCESS, exactly if no node failed.
NormalMeansAllSucceeded ==
  pc = "done" =>
    /\ \A n \in Node : Finished(n)
    /\ wf_status = "NORMAL" <=> \A n \in Node : status[n] = "success"

\* The callback of a node is its last word: a finished node's result, status
\* and reason are never written again, not even by a predecessor's failure.
FinishedIsFinal ==
  [][\A n \in Node : Finished(n) =>
       /\ result'[n] = result[n]
       /\ status'[n] = status[n]
       /\ status_reason'[n] = status_reason[n]]_vars

\* Unless the time budget runs out, start() returns if every step has a host:
\* the queue is never empty for good while nodes are missing.
Terminates == (\A n \in Step : HasHosts(n)) => <>(pc \in {"done", "raised"})

\* work_node.py:31 "if a predecessor failed and the step is not essential,
\* return failed without dispatched it", for steps that set neither flag: the
\* shipped templates set none.
FailedPredecessorStopsStep ==
  \A n \in Step : \A p \in Predecessors(n) :
    /\ p \in Step /\ result[p] \in {"FAILED", "PARTIAL_PASSED"}
    /\ setting[p].ignore_result = "unset" /\ setting[n].essential = "unset"
    => n \notin dispatched /\ result[n] \notin StepCode

=============================================================================
