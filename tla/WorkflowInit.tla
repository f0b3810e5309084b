---------------------------- MODULE WorkflowInit ----------------------------
(***************************************************************************)
(* WorkFlow.init() (operation-service, framework/workflow/workflow.py):    *)
(* it builds the work-node graph of a parsed workflow.yaml one dependency  *)
(* at a time, fills the waiting queue with the nodes that wait for nothing *)
(* and validates the graph by running Kahn's algorithm on the live         *)
(* dependency accounts, which are put back when the workflow is accepted.  *)
(* start() relies on what init() leaves behind: accounts equal to the      *)
(* number of incoming edges, no cycle, every step between its job's        *)
(* markers.                                                                *)
(*                                                                         *)
(* A description is a sequence of jobs                                     *)
(*   [name, dependency : Seq(job names),                                   *)
(*    steps : Seq([name, dependency : Seq(references)])]                   *)
(* where a reference is the result of step_depend.split(":"): <<step>> for *)
(* a step of the same job, <<job, step>> for a node named in full.  A work *)
(* node's name "job:step" is the pair <<job, step>>, "start" and "end"     *)
(* being the markers of the job.                                           *)
(***************************************************************************)
EXTENDS Naturals, Sequences, FiniteSets

StartOf(job) == <<job, "start">>
EndOf(job)   == <<job, "end">>

StepNode(job, step) == <<job.name, step.name>>
Target(job, ref)    == IF Len(ref) = 1 THEN <<job.name, ref[1]>> ELSE ref

\* worknode_map: two markers per job and one node per step.
WorkNodes(js) ==
  UNION { {StartOf(js[i].name), EndOf(js[i].name)} \cup
          {StepNode(js[i], js[i].steps[k]) : k \in DOMAIN js[i].steps}
        : i \in DOMAIN js }

IsList(s) == s \in Seq({s[i] : i \in DOMAIN s})

\* What init() is given a chance with: job names are keys of a dictionary, a job
\* without steps is an error (ERR_WORKFLOW_STEPS_NULL) and so is a reference that
\* names nothing (KeyError).  A bare reference names a step of its own job, which
\* is what _generate_step_dependency takes it for.
WellFormed(js) ==
  /\ IsList(js)
  /\ \A i, k \in DOMAIN js : js[i].name = js[k].name => i = k
  /\ \A i \in DOMAIN js :
       /\ IsList(js[i].dependency) /\ IsList(js[i].steps) /\ js[i].steps # << >>
       /\ \A d \in DOMAIN js[i].dependency : EndOf(js[i].dependency[d]) \in WorkNodes(js)
       /\ \A k \in DOMAIN js[i].steps :
            LET step == js[i].steps[k]
            IN  /\ step.name \notin {"start", "end"}
                /\ IsList(step.dependency)
                /\ \A d \in DOMAIN step.dependency :
                     /\ Target(js[i], step.dependency[d]) \in WorkNodes(js)
                     /\ Len(step.dependency[d]) = 1 => step.dependency[d][1] # "end"

CONSTANT Descriptions    \* the parsed workflow files to try

ASSUME DescriptionsAssumption == \A js \in Descriptions : WellFormed(js)

VARIABLES
  jobs,                \* the description being initialised
  job, step, at,       \* where the loops are: job, step and place in a list
  search,              \* the calls of _generate_job_end_dependency, outermost first
  worknode_found,      \* WorkFlow.worknode_found, shared by all searches
  next_nodes,          \* WorkNode.next_nodes of every node
  dependency_account,  \* WorkNode.dependency_account of every node
  start_queue,         \* WorkFlow._waiting_queue
  kahn_queue,          \* the local waitting_queue of validate_workflow
  checked_node,        \* keys of validate_workflow's checked_node, and the
  checking,            \*   one added last, whose successors are gone through
  work_node_back,      \* validate_workflow's queue of decremented nodes
  pc                   \* what init() is doing, or how it ended

graph      == <<next_nodes, dependency_account>>
cursor     == <<job, step, at>>
searching  == <<search, worknode_found>>
validating == <<kahn_queue, checked_node, checking, work_node_back>>
graph_vars == <<jobs, cursor, searching, graph, start_queue, validating, pc>>

Nodes == WorkNodes(jobs)

GraphInit ==
  /\ jobs \in Descriptions
  /\ job = 1 /\ step = 1 /\ at = 1
  /\ search = << >> /\ worknode_found = {}
  /\ next_nodes = [n \in Nodes |-> << >>]
  /\ dependency_account = [n \in Nodes |-> 0]
  /\ start_queue = << >> /\ kahn_queue = << >>
  /\ checked_node = {} /\ checking = << >> /\ work_node_back = << >>
  /\ pc = IF jobs = << >> THEN "queue" ELSE "jobs"

-----------------------------------------------------------------------------
(* init_workflow                                                           *)

\* dependency_account.increment() of the target and add_next_node() of the source.
AddEdge(from, to) ==
  /\ next_nodes' = [next_nodes EXCEPT ![from] = Append(@, to)]
  /\ dependency_account' = [dependency_account EXCEPT ![to] = @ + 1]

CurrentJob  == jobs[job]
CurrentStep == CurrentJob.steps[step]

\* The start of a job waits for the end of every job it depends on.
GenerateJobsDependency ==
  /\ pc = "jobs"
  /\ IF at <= Len(CurrentJob.dependency)
     THEN /\ AddEdge(EndOf(CurrentJob.dependency[at]), StartOf(CurrentJob.name))
          /\ at' = at + 1
          /\ UNCHANGED <<step, pc>>
     ELSE /\ step' = 1 /\ at' = 1 /\ pc' = "steps"
          /\ UNCHANGED graph
  /\ UNCHANGED <<jobs, job, searching, start_queue, validating>>

\* A step waits for every node it names.
GenerateStepDependency ==
  /\ pc = "steps" /\ step <= Len(CurrentJob.steps)
  /\ at <= Len(CurrentStep.dependency)
  /\ AddEdge(Target(CurrentJob, CurrentStep.dependency[at]), StepNode(CurrentJob, CurrentStep))
  /\ at' = at + 1
  /\ UNCHANGED <<jobs, job, step, searching, start_queue, validating, pc>>

\* depend_self_task_step
DependsOnOwnStep(s) == \E d \in DOMAIN s.dependency : Len(s.dependency[d]) = 1

\* Seeded defect: a step with dependencies never waits for its job's start.
GenerateStartDependency_NoStart ==
  /\ pc = "steps" /\ step <= Len(CurrentJob.steps)
  /\ at > Len(CurrentStep.dependency)
  /\ IF CurrentStep.dependency # << >>
     THEN UNCHANGED graph
     ELSE AddEdge(StartOf(CurrentJob.name), StepNode(CurrentJob, CurrentStep))
  /\ step' = step + 1 /\ at' = 1
  /\ UNCHANGED <<jobs, job, searching, start_queue, validating, pc>>

\* If none of what it names is a step of its own job, also for the job's start.
GenerateStartDependency ==
  /\ pc = "steps" /\ step <= Len(CurrentJob.steps)
  /\ at > Len(CurrentStep.dependency)
  /\ IF DependsOnOwnStep(CurrentStep)
     THEN UNCHANGED graph
     ELSE AddEdge(StartOf(CurrentJob.name), StepNode(CurrentJob, CurrentStep))
  /\ step' = step + 1 /\ at' = 1
  /\ UNCHANGED <<jobs, job, searching, start_queue, validating, pc>>

\* A call of _generate_job_end_dependency: its node, the place it has reached
\* in the node's (live) list, and have_self_task_step.
Call(n) == [node |-> n, place |-> 1, have_self_task_step |-> FALSE]

SearchJob ==
  /\ pc = "steps" /\ step > Len(CurrentJob.steps)
  /\ search' = <<Call(StartOf(CurrentJob.name))>>
  /\ pc' = "job_end"
  /\ UNCHANGED <<jobs, cursor, worknode_found, graph, start_queue, validating>>

InnerCall == search[Len(search)]

Exhausted(call) ==
  call.node = EndOf(CurrentJob.name) \/ call.place > Len(next_nodes[call.node])

\* The innermost call looks at the next successor of its node, and calls itself
\* for a node of the same job that no call has found yet.
VisitSuccessor ==
  /\ pc = "job_end" /\ search # << >> /\ ~Exhausted(InnerCall)
  /\ LET m == next_nodes[InnerCall.node][InnerCall.place]
         Onward(have) == [search EXCEPT ![Len(search)] =
                            [node |-> InnerCall.node, place |-> InnerCall.place + 1,
                             have_self_task_step |-> have]]
     IN  IF m \notin worknode_found /\ m[1] = CurrentJob.name
         THEN /\ worknode_found' = worknode_found \cup {m}
              /\ search' = Append(Onward(TRUE), Call(m))
         ELSE /\ search' = Onward(InnerCall.have_self_task_step)
              /\ UNCHANGED worknode_found
  /\ UNCHANGED <<jobs, cursor, graph, start_queue, validating, pc>>

\* A node below which it called itself for none precedes the end of the job.
\* worknode_found is shared, so that is also a node all of whose own successors
\* were found before.
ReturnFromNode ==
  /\ pc = "job_end" /\ search # << >> /\ Exhausted(InnerCall)
  /\ IF InnerCall.node = EndOf(CurrentJob.name) \/ InnerCall.have_self_task_step
     THEN UNCHANGED graph
     ELSE AddEdge(InnerCall.node, EndOf(CurrentJob.name))
  /\ search' = SubSeq(search, 1, Len(search) - 1)
  /\ UNCHANGED <<jobs, cursor, worknode_found, start_queue, validating, pc>>

NextJob ==
  /\ pc = "job_end" /\ search = << >>
  /\ job' = job + 1 /\ step' = 1 /\ at' = 1
  /\ pc' = IF job < Len(jobs) THEN "jobs" ELSE "queue"
  /\ UNCHANGED <<jobs, searching, graph, start_queue, validating>>

-----------------------------------------------------------------------------
(* init_queue and validate_workflow                                        *)

ListsOf(S) == {q \in [1..Cardinality(S) -> S] : \A n \in S : \E i \in DOMAIN q : q[i] = n}

\* The queue's order is that of worknode_map, which is left open.
InitQueue ==
  /\ pc = "queue"
  /\ start_queue' \in ListsOf({n \in Nodes : dependency_account[n] = 0})
  /\ kahn_queue' = start_queue'         \* the copy validate_workflow starts from
  /\ pc' = "validate"
  /\ UNCHANGED <<jobs, cursor, searching, graph, checked_node, checking, work_node_back>>

CheckNode ==
  /\ pc = "validate" /\ checking = << >> /\ kahn_queue # << >>
  /\ checking' = <<Head(kahn_queue)>> /\ at' = 1
  /\ kahn_queue' = Tail(kahn_queue)
  /\ checked_node' = checked_node \cup {Head(kahn_queue)}
  /\ UNCHANGED <<jobs, job, step, searching, graph, start_queue, work_node_back, pc>>

\* A successor that was checked before means a cycle: init() raises.  Otherwise
\* it is recorded and decremented, and queued when it reaches 0.
CheckSuccessor ==
  /\ pc = "validate" /\ checking # << >> /\ at <= Len(next_nodes[checking[1]])
  /\ LET m == next_nodes[checking[1]][at]
     IN  IF m \in checked_node
         THEN /\ pc' = "raised"
              /\ UNCHANGED <<at, dependency_account, kahn_queue, work_node_back>>
         ELSE /\ work_node_back' = Append(work_node_back, m)
              /\ dependency_account' = [dependency_account EXCEPT ![m] = @ - 1]
              /\ kahn_queue' = IF dependency_account'[m] = 0 THEN Append(kahn_queue, m)
                                                            ELSE kahn_queue
              /\ at' = at + 1
              /\ UNCHANGED pc
  /\ UNCHANGED <<jobs, job, step, searching, next_nodes, start_queue, checked_node, checking>>

NodeChecked ==
  /\ pc = "validate" /\ checking # << >> /\ at > Len(next_nodes[checking[1]])
  /\ checking' = << >>
  /\ UNCHANGED <<jobs, cursor, searching, graph, start_queue,
                 kahn_queue, checked_node, work_node_back, pc>>

\* A node the search never reached belongs to, or follows, a closed cycle.
RejectUnreached ==
  /\ pc = "validate" /\ checking = << >> /\ kahn_queue = << >>
  /\ Nodes \ checked_node # {}
  /\ pc' = "raised"
  /\ UNCHANGED <<jobs, cursor, searching, graph, start_queue, validating>>

\* Seeded defect: unreached nodes are not looked for.
Accept_Unreached ==
  /\ pc = "validate" /\ checking = << >> /\ kahn_queue = << >>
  /\ pc' = "rollback"
  /\ UNCHANGED <<jobs, cursor, searching, graph, start_queue, validating>>

Accept ==
  /\ pc = "validate" /\ checking = << >> /\ kahn_queue = << >>
  /\ Nodes \subseteq checked_node
  /\ pc' = "rollback"
  /\ UNCHANGED <<jobs, cursor, searching, graph, start_queue, validating>>

\* Seeded defect: a node that was decremented several times is incremented once.
RollbackDependencyCount_Once ==
  /\ pc = "rollback" /\ work_node_back # << >>
  /\ LET rest == Tail(work_node_back)
     IN  dependency_account' =
           [dependency_account EXCEPT ![Head(work_node_back)] =
              IF \E i \in DOMAIN rest : rest[i] = Head(work_node_back) THEN @ ELSE @ + 1]
  /\ work_node_back' = Tail(work_node_back)
  /\ UNCHANGED <<jobs, cursor, searching, next_nodes, start_queue,
                 kahn_queue, checked_node, checking, pc>>

\* rollback_dependency_count: one increment per recorded decrement.
RollbackDependencyCount ==
  /\ pc = "rollback" /\ work_node_back # << >>
  /\ dependency_account' = [dependency_account EXCEPT ![Head(work_node_back)] = @ + 1]
  /\ work_node_back' = Tail(work_node_back)
  /\ UNCHANGED <<jobs, cursor, searching, next_nodes, start_queue,
                 kahn_queue, checked_node, checking, pc>>

Ready ==
  /\ pc = "rollback" /\ work_node_back = << >>
  /\ pc' = "ready"
  /\ UNCHANGED <<jobs, cursor, searching, graph, start_queue, validating>>

GraphNext ==
  \/ GenerateJobsDependency \/ GenerateStepDependency \/ GenerateStartDependency
  \/ SearchJob \/ VisitSuccessor \/ ReturnFromNode \/ NextJob
  \/ InitQueue \/ CheckNode \/ CheckSuccessor \/ NodeChecked
  \/ RejectUnreached \/ Accept \/ RollbackDependencyCount \/ Ready

GraphSpec == GraphInit /\ [][GraphNext]_graph_vars

-----------------------------------------------------------------------------
Successors(n) == {next_nodes[n][i] : i \in DOMAIN next_nodes[n]}

\* The nodes that can be reached from n by at least one edge: those in every set
\* that holds n's successors and the successors of its members.
Reach(n) ==
  {m \in Nodes : \A S \in SUBSET Nodes :
     (Successors(n) \subseteq S /\ \A k \in S : Successors(k) \subseteq S) => m \in S}

Acyclic == \A n \in Nodes : n \notin Reach(n)

\* The edges into n, each place of a next_nodes list being an edge.
EdgesInto(n) ==
  UNION {{<<p, i>> : i \in {k \in DOMAIN next_nodes[p] : next_nodes[p][k] = n}} : p \in Nodes}

\* validate_workflow accepts exactly the graphs without a cycle, although it
\* looks for cycles through checked_node and for unreached nodes only.
AcceptsExactlyAcyclic ==
  /\ pc = "ready"  => Acyclic
  /\ pc = "raised" => ~Acyclic

\* Validation consumes the live accounts and must hand start() the accounts
\* init_workflow built: the number of edges into each node, duplicates counted.
AccountsRestored ==
  pc = "ready" => \A n \in Nodes : dependency_account[n] = Cardinality(EdgesInto(n))

\* The depth-first construction of _generate_job_end_dependency, with its
\* shared worknode_found, still makes the end of a job wait for all its steps
\* (and its start come before them), so a dependent job starts after them.
JobBracketsSteps ==
  pc = "ready" =>
    \A i \in DOMAIN jobs : \A k \in DOMAIN jobs[i].steps :
      LET n == StepNode(jobs[i], jobs[i].steps[k])
      IN  n \in Reach(StartOf(jobs[i].name)) /\ EndOf(jobs[i].name) \in Reach(n)

=============================================================================
