--------------------------- MODULE ExecutorProofs ---------------------------
(***************************************************************************)
(* The two sides of a step's execution, for any number of hosts, executors *)
(* and files.  The dispatcher: its invariant says where the hosts are,     *)
(* that the statistics are the results counted so far, and that nothing    *)
(* was reported before the last one was; it implements StepExecution.  The *)
(* remote shell: its invariant says what of a command's reply came and is  *)
(* to come, where the command was run, and of which file a digest is.      *)
(***************************************************************************)
EXTENDS TaskDispatcher, RemoteShell, FiniteSetTheorems, TLAPS

-----------------------------------------------------------------------------
\* The dispatcher.

\* Hosts by how their executor ended.
Ended(end) == {h \in hosts : future[h] = end}

\* At most one host is being connected.
OneConnection == \A g, h \in connecting : g = h

HostsApart ==
  /\ Distinct(work_queue)
  /\ todo_hosts \cap (connecting \cup Queued \cup executing) = {}
  /\ connecting \cap (Queued \cup executing) = {}
  /\ Queued \cap executing = {}
  /\ \A h \in todo_hosts \cup connecting \cup Queued \cup executing : future[h] = "none"

NoHostLost ==
  \A h \in hosts : \/ h \in todo_hosts \cup connecting \cup Queued \cup executing
                   \/ future[h] # "none"
                   \/ reports = <<"FAILED">>

StatCounts ==
  /\ collected = stat.success \cup stat.failed
  /\ stat.success \subseteq Ended("ok") /\ stat.failed \subseteq Ended("failed")

Verdicts ==
  /\ pc = "dispatch" => reports = << >> /\ collected = {}
  /\ pc = "collect" => todo_hosts = {} /\ connecting = {}
  /\ pc = "collect" /\ (collected # hosts \/ hosts = {}) => reports = << >>
  /\ pc = "collect" /\ collected = hosts /\ hosts # {} => Len(reports) = 1
  /\ pc = "returned" => (reports = << >> <=> hosts = {}) /\ Len(reports) <= 1

IInv ==
  TypeOK /\ OneConnection /\ HostsApart /\ NoHostLost /\ StatCounts /\ Verdicts
    /\ VerdictCountsAllHosts

-----------------------------------------------------------------------------
LEMMA HostsFinite == TypeOK => IsFiniteSet(hosts)
BY HostAssumption, FS_Subset DEF TypeOK

\* Comparing sizes, as the code does, compares the sets.
LEMMA SameSize ==
  ASSUME TypeOK, NEW S \in SUBSET hosts
  PROVE  Cardinality(S) = Cardinality(hosts) <=> S = hosts
<1>1. IsFiniteSet(hosts)
  BY HostsFinite
<1> QED BY <1>1, FS_Subset, FS_CardinalityType

\* Init establishes the invariant.
LEMMA InitIInv == Init => IInv
<1> SUFFICES ASSUME Init PROVE IInv
  OBVIOUS
<1>1. TypeOK
  BY DEF Init, TypeOK, Ends
<1>2. OneConnection /\ HostsApart /\ NoHostLost
  BY DEF Init, OneConnection, HostsApart, NoHostLost, Distinct, Queued
<1>3. StatCounts /\ Verdicts /\ VerdictCountsAllHosts
  BY DEF Init, StatCounts, Verdicts, VerdictCountsAllHosts
<1> QED BY <1>1, <1>2, <1>3 DEF IInv

-----------------------------------------------------------------------------
\* Dispatching: a host moves from to do, by the connection, to the queue.

LEMMA ConnectIInv ==
  ASSUME IInv, NEW h \in hosts, Connect(h)
  PROVE  IInv'
<1> USE DEF IInv, Connect, pool_vars
<1>1. TypeOK'
  BY DEF TypeOK
<1>2. OneConnection' /\ HostsApart' /\ NoHostLost'
  BY DEF TypeOK, OneConnection, HostsApart, NoHostLost, Distinct, Queued
<1>3. StatCounts' /\ Verdicts' /\ VerdictCountsAllHosts'
  BY DEF StatCounts, Ended, Verdicts, VerdictCountsAllHosts
<1> QED BY <1>1, <1>2, <1>3

LEMMA SubmitIInv ==
  ASSUME IInv, NEW h \in hosts, Submit(h)
  PROVE  IInv'
<1> USE DEF IInv, Submit
<1>1. TypeOK'
  BY DEF TypeOK
<1>2. Queued' = Queued \cup {h}
  BY DEF TypeOK, Queued
<1>3. OneConnection'
  BY DEF OneConnection
<1>4. HostsApart'
  <2>1. Distinct(work_queue)'
    <3>1. h \notin Queued
      BY DEF HostsApart
    <3> QED BY <3>1 DEF TypeOK, HostsApart, Distinct, Queued
  <2> QED BY <1>2, <2>1 DEF HostsApart
<1>5. NoHostLost'
  BY <1>2 DEF NoHostLost, OneConnection
<1>6. StatCounts' /\ Verdicts' /\ VerdictCountsAllHosts'
  BY DEF StatCounts, Ended, Verdicts, VerdictCountsAllHosts
<1> QED BY <1>1, <1>3, <1>4, <1>5, <1>6

\* StartCollecting and Return move only the dispatcher.
LEMMA TurnIInv ==
  ASSUME IInv, StartCollecting \/ Return
  PROVE  IInv'
<1> USE DEF IInv, StartCollecting, Return, pool_vars
<1>1. TypeOK'
  BY DEF TypeOK
<1>2. OneConnection' /\ HostsApart' /\ NoHostLost'
  BY DEF OneConnection, HostsApart, NoHostLost, Distinct, Queued
<1>3. StatCounts' /\ VerdictCountsAllHosts'
  BY DEF StatCounts, Ended, VerdictCountsAllHosts
<1>4. Verdicts'
  <2>1. CASE StartCollecting
    BY <2>1 DEF Verdicts
  <2>2. CASE Return
    <3>1. hosts = {} => reports = << >>
      BY <2>2 DEF Verdicts
    <3>2. hosts # {} => Len(reports) = 1 /\ reports # << >>
      BY <2>2 DEF Verdicts
    <3>3. Len(reports) <= 1
      <4>1. CASE hosts = {}
        <5>1. reports = << >>
          BY <3>1, <4>1
        <5>2. Len(<< >>) = 0
          OBVIOUS
        <5> QED BY <5>1, <5>2
      <4>2. CASE hosts # {}
        <5>1. Len(reports) = 1 /\ reports \in Seq({"SUCCESS", "PARTIAL_PASSED", "FAILED"})
          BY <3>2, <4>2 DEF TypeOK
        <5> QED BY <5>1
      <4> QED BY <4>1, <4>2
    <3>4. pc' = "returned" /\ reports' = reports /\ hosts' = hosts
      BY <2>2
    <3>5. reports = << >> <=> hosts = {}
      BY <3>1, <3>2
    <3> QED BY <3>3, <3>4, <3>5 DEF Verdicts
  <2> QED BY <2>1, <2>2
<1> QED BY <1>1, <1>2, <1>3, <1>4

-----------------------------------------------------------------------------
\* Reporting.

\* Who gives up has reported nothing and has hosts.
GivesUp == ConnectFails \/ (\E h \in hosts : ResultRaises(h)) \/ Timeout

LEMMA GivesUpFirst ==
  ASSUME IInv, GivesUp
  PROVE  /\ reports = << >> /\ hosts # {} /\ Fail
         /\ connecting' \subseteq connecting
         /\ UNCHANGED <<hosts, todo_hosts, pool_vars, collected, stat>>
BY DEF IInv, TypeOK, Verdicts, GivesUp, ConnectFails, ResultRaises, Timeout

LEMMA GivesUpIInv ==
  ASSUME IInv, GivesUp
  PROVE  IInv'
<1> USE DEF IInv, Fail, pool_vars
<1>1. /\ reports' = <<"FAILED">> /\ pc' = "returned" /\ hosts # {}
      /\ connecting' \subseteq connecting
      /\ UNCHANGED <<hosts, todo_hosts, pool_vars, collected, stat>>
  BY GivesUpFirst
<1>2. TypeOK'
  BY <1>1 DEF TypeOK
<1>3. OneConnection' /\ HostsApart' /\ NoHostLost'
  BY <1>1 DEF OneConnection, HostsApart, NoHostLost, Distinct, Queued
<1>4. StatCounts' /\ Verdicts' /\ VerdictCountsAllHosts'
  BY <1>1 DEF StatCounts, Ended, Verdicts, VerdictCountsAllHosts
<1> QED BY <1>2, <1>3, <1>4

\* The statistics after one more result, and that the report waits for the
\* last one.
LEMMA Counting ==
  ASSUME IInv, NEW h \in hosts, HandleResult(h)
  PROVE  /\ TypeOK' /\ StatCounts'
         /\ reports = << >>
         /\ collected' = hosts => reports' = <<StatisticExecutionResult(stat')>>
         /\ collected' # hosts => reports' = << >>
<1>1. collected' \in SUBSET hosts
  BY DEF IInv, TypeOK, HandleResult
<1>2. Cardinality(collected') = Cardinality(hosts) <=> collected' = hosts
  BY <1>1, SameSize DEF IInv
<1>3. reports = << >>
  BY DEF IInv, TypeOK, Verdicts, HandleResult
<1>4. StatisticExecutionResult(stat') \in {"SUCCESS", "PARTIAL_PASSED", "FAILED"}
  BY DEF StatisticExecutionResult
<1>5. /\ collected' = hosts => reports' = <<StatisticExecutionResult(stat')>>
      /\ collected' # hosts => reports' = << >>
  BY <1>2, <1>3 DEF HandleResult
<1>6. stat' \in [success : SUBSET hosts, failed : SUBSET hosts]
  BY DEF IInv, TypeOK, HandleResult
<1>7. TypeOK'
  BY <1>1, <1>4, <1>5, <1>6 DEF IInv, TypeOK, HandleResult, pool_vars
<1>8. StatCounts'
  BY DEF IInv, TypeOK, StatCounts, Ended, HandleResult, pool_vars
<1> QED BY <1>3, <1>5, <1>7, <1>8

\* The last result makes the verdict one about all hosts.
LEMMA LastResult ==
  ASSUME IInv, NEW h \in hosts, HandleResult(h), collected' = hosts
  PROVE  LET v == StatisticExecutionResult(stat')
         IN  /\ \A g \in hosts : future[g] \in {"ok", "failed"}
             /\ v = "SUCCESS" <=> \A g \in hosts : future[g] = "ok"
             /\ v = "PARTIAL_PASSED" <=> /\ \E g \in hosts : future[g] = "ok"
                                         /\ \E g \in hosts : future[g] = "failed"
             /\ v \in {"SUCCESS", "PARTIAL_PASSED", "FAILED"}
<1>1. TypeOK' /\ StatCounts'
  BY Counting
<1>2. hosts' = hosts /\ future' = future
  BY DEF HandleResult, pool_vars
<1>3. /\ hosts = stat'.success \cup stat'.failed
      /\ \A g \in stat'.success : future[g] = "ok"
      /\ \A g \in stat'.failed : future[g] = "failed"
  BY <1>1, <1>2 DEF StatCounts, Ended
<1>4. Cardinality(stat'.success) = Cardinality(hosts) <=> stat'.success = hosts
  <2>1. stat'.success \in SUBSET hosts
    BY <1>3
  <2> QED BY <2>1, SameSize DEF IInv
<1> QED BY <1>3, <1>4 DEF StatisticExecutionResult

LEMMA HandleResultIInv ==
  ASSUME IInv, NEW h \in hosts, HandleResult(h)
  PROVE  IInv'
<1> USE DEF IInv
<1>1. /\ UNCHANGED <<hosts, todo_hosts, connecting, work_queue, executing, future, pc>>
      /\ pc = "collect" /\ h \in collected'
  BY DEF HandleResult, pool_vars
<1>2. TypeOK' /\ StatCounts'
  BY Counting
<1>3. OneConnection' /\ HostsApart'
  BY <1>1 DEF OneConnection, HostsApart, Distinct, Queued
<1>4. NoHostLost'
  BY <1>1, Counting DEF NoHostLost, Queued
<1>5. Verdicts'
  <2>1. collected' = hosts => Len(reports') = 1
    BY Counting
  <2> QED BY <1>1, <2>1, Counting DEF Verdicts
<1>6. VerdictCountsAllHosts'
  <2>1. CASE collected' # hosts
    BY <2>1, Counting DEF VerdictCountsAllHosts
  <2>2. CASE collected' = hosts
    <3>1. reports' = <<StatisticExecutionResult(stat')>>
      BY <2>2, Counting
    <3> QED BY <1>1, <2>2, <3>1, LastResult DEF VerdictCountsAllHosts
  <2> QED BY <2>1, <2>2
<1> QED BY <1>2, <1>3, <1>4, <1>5, <1>6

-----------------------------------------------------------------------------
\* The pool: a queued host is executed, then it is done.

LEMMA StartExecutorIInv ==
  ASSUME IInv, StartExecutor
  PROVE  IInv'
<1> USE DEF IInv
<1> DEFINE h == Head(work_queue)
<1>0. /\ work_queue # << >> /\ work_queue \in Seq(hosts)
      /\ work_queue' = Tail(work_queue) /\ executing' = executing \cup {h}
      /\ UNCHANGED <<hosts, todo_hosts, connecting, future, collected, stat, reports, pc>>
  BY DEF TypeOK, StartExecutor
<1>1. h \in Queued /\ h \in hosts
  BY <1>0 DEF Queued
<1>2. Tail(work_queue) \in Seq(hosts)
  BY <1>0
<1>3. TypeOK'
  BY <1>0, <1>1, <1>2 DEF TypeOK
<1>4. Distinct(work_queue)'
  <2> SUFFICES ASSUME NEW i \in DOMAIN work_queue', NEW j \in DOMAIN work_queue',
                      work_queue'[i] = work_queue'[j]
               PROVE  i = j
    BY DEF Distinct
  <2>1. /\ i \in Nat /\ i + 1 \in DOMAIN work_queue /\ work_queue'[i] = work_queue[i + 1]
        /\ j \in Nat /\ j + 1 \in DOMAIN work_queue /\ work_queue'[j] = work_queue[j + 1]
    BY <1>0
  <2>2. work_queue[i + 1] = work_queue[j + 1]
    BY <2>1
  <2>3. i + 1 = j + 1
    BY <2>1, <2>2 DEF HostsApart, Distinct
  <2> QED BY <2>1, <2>3
<1>5. Queued' = Queued \ {h}
  <2>1. ASSUME NEW g \in Queued' PROVE g \in Queued /\ g # h
    <3>1. PICK i \in DOMAIN work_queue' : g = work_queue'[i]
      BY DEF Queued
    <3>2. i \in Nat /\ i >= 1 /\ i + 1 \in DOMAIN work_queue /\ g = work_queue[i + 1]
      BY <1>0, <3>1
    <3>3. 1 \in DOMAIN work_queue /\ h = work_queue[1]
      BY <1>0
    <3> QED BY <3>2, <3>3 DEF Queued, HostsApart, Distinct
  <2>2. ASSUME NEW g \in Queued, g # h PROVE g \in Queued'
    <3>1. PICK i \in DOMAIN work_queue : g = work_queue[i]
      BY DEF Queued
    <3>2. i \in Nat /\ i > 1 /\ i <= Len(work_queue)
      BY <1>0, <2>2, <3>1
    <3>3. i - 1 \in DOMAIN work_queue' /\ work_queue'[i - 1] = g
      BY <1>0, <3>1, <3>2
    <3> QED BY <3>3 DEF Queued
  <2> QED BY <2>1, <2>2
<1>6. OneConnection' /\ HostsApart' /\ NoHostLost'
  BY <1>0, <1>1, <1>4, <1>5 DEF OneConnection, HostsApart, NoHostLost
<1>7. StatCounts' /\ Verdicts' /\ VerdictCountsAllHosts'
  BY <1>0 DEF StatCounts, Ended, Verdicts, VerdictCountsAllHosts
<1> QED BY <1>3, <1>6, <1>7

LEMMA EndExecutorIInv ==
  ASSUME IInv, NEW h \in hosts, NEW end \in Ends, EndExecutor(h, end)
  PROVE  IInv'
<1> USE DEF IInv, EndExecutor
<1>1. future[h] = "none"
  BY DEF HostsApart
<1>2. future' \in [hosts -> {"none"} \cup Ends] /\ future'[h] = end
      /\ \A g \in hosts \ {h} : future'[g] = future[g]
  BY DEF TypeOK
<1>3. TypeOK'
  BY <1>2 DEF TypeOK
<1>4. end # "none" /\ Queued' = Queued
  BY DEF Ends, Queued
<1>5. OneConnection'
  BY DEF OneConnection
<1>6. HostsApart'
  BY <1>2, <1>4 DEF TypeOK, HostsApart, Distinct, Queued
<1>7. NoHostLost'
  BY <1>2, <1>4 DEF TypeOK, NoHostLost
<1>8. StatCounts'
  BY <1>1, <1>2 DEF TypeOK, StatCounts, Ended
<1>9. Verdicts' /\ VerdictCountsAllHosts'
  BY <1>1, <1>2 DEF Verdicts, VerdictCountsAllHosts
<1> QED BY <1>3, <1>5, <1>6, <1>7, <1>8, <1>9

\* The invariant is inductive.
LEMMA NextIInv == IInv /\ [Next]_vars => IInv'
<1> SUFFICES ASSUME IInv, [Next]_vars PROVE IInv'
  OBVIOUS
<1>1. CASE \E h \in hosts : Connect(h)
  BY <1>1, ConnectIInv
<1>2. CASE \E h \in hosts : Submit(h)
  BY <1>2, SubmitIInv
<1>3. CASE StartCollecting \/ Return
  BY <1>3, TurnIInv
<1>4. CASE GivesUp
  BY <1>4, GivesUpIInv
<1>5. CASE \E h \in hosts : HandleResult(h)
  BY <1>5, HandleResultIInv
<1>6. CASE StartExecutor
  BY <1>6, StartExecutorIInv
<1>7. CASE \E h \in hosts, end \in Ends : EndExecutor(h, end)
  BY <1>7, EndExecutorIInv
<1>8. CASE UNCHANGED vars
  BY <1>8 DEF vars, pool_vars, IInv, TypeOK, OneConnection, HostsApart, NoHostLost,
     Distinct, Queued, StatCounts, Ended, Verdicts, VerdictCountsAllHosts
<1> QED
  BY <1>1, <1>2, <1>3, <1>4, <1>5, <1>6, <1>7, <1>8 DEF Next, GivesUp

LEMMA Inductive == Spec => []IInv
BY InitIInv, NextIInv, PTL DEF Spec

-----------------------------------------------------------------------------
\* The state variables of the dispatcher have their types.
THEOREM TypeCorrect == Spec => []TypeOK
<1>1. IInv => TypeOK
  BY DEF IInv
<1> QED BY <1>1, Inductive, PTL

\* No host is executed twice by one dispatcher, whatever the order of
\* connections, results and timeouts, and none is forgotten unless it gave up.
THEOREM HostsOnce == Spec => []EveryHostOnce
<1>1. IInv => EveryHostOnce
  <2> SUFFICES ASSUME IInv PROVE EveryHostOnce
    OBVIOUS
  <2>1. Distinct(work_queue)
    BY DEF IInv, HostsApart
  <2> DEFINE P == Places
  <2>2. /\ P[1] = todo_hosts /\ P[2] = connecting /\ P[3] = Queued /\ P[4] = executing
        /\ P[5] = {h \in hosts : future[h] # "none"}
    BY DEF Places
  <2> HIDE DEF P
  <2>3. /\ P[1] \cap P[2] = {} /\ P[1] \cap P[3] = {} /\ P[1] \cap P[4] = {}
        /\ P[2] \cap P[3] = {} /\ P[2] \cap P[4] = {} /\ P[3] \cap P[4] = {}
        /\ P[1] \cap P[5] = {} /\ P[2] \cap P[5] = {} /\ P[3] \cap P[5] = {}
        /\ P[4] \cap P[5] = {}
    BY <2>2 DEF IInv, HostsApart
  <2>4. \A i, j \in 1..5 : i # j => P[i] \cap P[j] = {}
    <3> SUFFICES ASSUME NEW i \in 1..5, NEW j \in 1..5, i # j PROVE P[i] \cap P[j] = {}
      OBVIOUS
    <3>1. /\ i = 1 \/ i = 2 \/ i = 3 \/ i = 4 \/ i = 5
          /\ j = 1 \/ j = 2 \/ j = 3 \/ j = 4 \/ j = 5
      OBVIOUS
    <3> QED BY <2>3, <3>1
  <2>5. \A h \in hosts : (\E i \in 1..5 : h \in P[i]) \/ reports = <<"FAILED">>
    BY <2>2 DEF IInv, NoHostLost
  <2> QED BY <2>1, <2>4, <2>5 DEF EveryHostOnce, P
<1> QED BY <1>1, Inductive, PTL

\* SUCCESS and PARTIAL_PASSED are reported for the results of all hosts only.
THEOREM VerdictSound == Spec => []VerdictCountsAllHosts
<1>1. IInv => VerdictCountsAllHosts
  BY DEF IInv
<1> QED BY <1>1, Inductive, PTL

\* run() calls back before it returns, but for a step without hosts.
THEOREM Silent == Spec => []SilentOnlyWithoutHosts
<1>1. IInv => SilentOnlyWithoutHosts
  BY DEF IInv, Verdicts, SilentOnlyWithoutHosts
<1> QED BY <1>1, Inductive, PTL

-----------------------------------------------------------------------------
\* Refinement: the outcomes of the abstract specification.
Bar == [h \in hosts |-> CASE future[h] = "none" -> "none"
                          [] future[h] = "ok"   -> "ok"
                          [] OTHER              -> "failed"]

LEMMA InitRefines == Init => Execution!Init
BY DEF Init, Execution!Init

\* The end of an executor is the step's outcome on its host.
LEMMA EndRefines ==
  ASSUME IInv, NEW h \in hosts, NEW end \in Ends, EndExecutor(h, end)
  PROVE  \E o \in {"ok", "failed"} : Execution!HostEnds(h, o)
<1> DEFINE o == IF end = "ok" THEN "ok" ELSE "failed"
<1>1. future[h] = "none" /\ future' = [future EXCEPT ![h] = end]
  BY DEF IInv, HostsApart, EndExecutor
<1>2. Bar[h] = "none"
  BY <1>1 DEF Bar
<1>3. Bar' = [Bar EXCEPT ![h] = o]
  BY <1>1 DEF Bar, IInv, TypeOK, EndExecutor, Ends
<1>4. hosts' = hosts /\ reports' = reports
  BY DEF EndExecutor
<1>5. Execution!HostEnds(h, o)
  BY <1>2, <1>3, <1>4 DEF Execution!HostEnds, Bar
<1> QED BY <1>5

\* The last result is the report of all of them.
LEMMA ReportRefines ==
  ASSUME IInv, NEW h \in hosts, HandleResult(h), collected' = hosts
  PROVE  Execution!Report
<1>1. \A g \in hosts : future[g] \in {"ok", "failed"} /\ Bar[g] = future[g]
  BY LastResult DEF Bar
<1>2. Execution!Verdict = StatisticExecutionResult(stat')
  BY <1>1, LastResult DEF Execution!Verdict, Bar
<1>3. reports = << >> /\ reports' = <<StatisticExecutionResult(stat')>>
  BY Counting
<1>4. hosts' = hosts /\ future' = future
  BY DEF HandleResult, pool_vars
<1> QED BY <1>1, <1>2, <1>3, <1>4 DEF Execution!Report, Bar

LEMMA GivesUpRefines ==
  ASSUME IInv, GivesUp
  PROVE  Execution!GiveUp
<1>1. reports = << >> /\ hosts # {} /\ reports' = <<"FAILED">>
      /\ hosts' = hosts /\ future' = future
  BY GivesUpFirst DEF Fail, pool_vars
<1> QED BY <1>1 DEF Execution!GiveUp

\* Every other step changes nothing the workflow sees.
LEMMA StepRefines == IInv /\ [Next]_vars => [Execution!Next]_(Execution!vars)
<1> SUFFICES ASSUME IInv, [Next]_vars PROVE [Execution!Next]_(Execution!vars)
  OBVIOUS
<1>1. CASE \E h \in hosts, end \in Ends : EndExecutor(h, end)
  BY <1>1, EndRefines DEF Execution!Next
<1>2. CASE GivesUp
  BY <1>2, GivesUpRefines DEF Execution!Next
<1>3. ASSUME NEW h \in hosts, HandleResult(h)
      PROVE  [Execution!Next]_(Execution!vars)
  <2>1. CASE collected' = hosts
    BY <1>3, <2>1, ReportRefines DEF Execution!Next
  <2>2. CASE collected' # hosts
    <3>1. reports' = reports /\ hosts' = hosts /\ future' = future
      BY <1>3, <2>2, Counting DEF HandleResult, pool_vars
    <3> QED BY <3>1 DEF Execution!vars
  <2> QED BY <2>1, <2>2
<1>4. CASE (\E h \in hosts : Connect(h) \/ Submit(h)) \/ StartCollecting \/ Return
           \/ StartExecutor \/ UNCHANGED vars
  <2>1. reports' = reports /\ hosts' = hosts /\ future' = future
    BY <1>4 DEF Connect, Submit, StartCollecting, Return, StartExecutor, vars, pool_vars
  <2> QED BY <2>1 DEF Execution!vars
<1> QED
  BY <1>1, <1>2, <1>3, <1>4 DEF Next, GivesUp

\* The dispatcher keeps what the workflow relies on: each host once, one report,
\* and a good report only for good results of all hosts.
THEOREM Implements == Spec => ImplementsStepExecution
<1>1. Init => Execution!Init
  BY InitRefines
<1>2. IInv /\ [Next]_vars => [Execution!Next]_(Execution!vars)
  BY StepRefines
<1> QED BY <1>1, <1>2, Inductive, PTL DEF Spec, ImplementsStepExecution, Execution!Spec

-----------------------------------------------------------------------------
\* The remote shell.  A connection, and how far its executor is.

Login == {"ask", "hear", "hear more", "ask again", "settle", "settle second", "settle last"}
Waiting == {"new", "again", "ready", "send", "reply", "relogin", "resend", "raised"}
Item == (Command \cup Own \cup {"#", None}) \X (Source \cup {None, 0, 1})

ConType ==
  [at : Login \cup Waiting, then : {"ready", "resend"}, tried : Nat, sftp : BOOLEAN, up : BOOLEAN,
   breaks : Nat, coming : Seq(Item), screen : Seq(Item), cmd : Command \cup {None},
   how : {"cmd", "retry"}, reply : Seq(Item), code : {0, 1}, ran : [Command -> Nat],
   marks : SUBSET {"unread", "late", "anew", "repeated"}]

Local == {"source", "folder", "remove", "put", "write", "check", "script", "fetch", "get"}
Pc == Local \cup {"start", "home", "sum", "ran", "status"}

\* The names of local files and the files' writers are of no consequence here.
IsRun(r) ==
  r \in [pc : Pc, place : Place, node : {r.node}, exit : BOOLEAN, got : {r.got},
         result : {None, "unconnected", "SUCCESS", "ERROR", "FAILED"}, code : {None, 0, 1},
         touched : BOOLEAN]

IsFile(f) ==
  /\ f \in [node : {f.node}, by : {f.by}, whole : BOOLEAN, others : {f.others}]
  /\ f.whole => f.by \in Executors

ShellShape ==
  /\ job \in Mixes
  /\ con \in [Executors -> ConType]
  /\ run = [x \in Executors |-> run[x]] /\ \A x \in Executors : IsRun(run[x])
  /\ files = [p \in Place |-> files[p]] /\ \A p \in Place : files[p] # None => IsFile(files[p])

\* The commands that a plugin has called by then, or may have, and the one it waits for.
Called(r) ==
  CASE r.pc = "start" -> {}
    [] r.pc = "sum" -> {"home", "sum"}
    [] r.pc = "ran" -> {"home", "sum", "run"}
    [] r.pc = "status" -> Command
    [] OTHER -> {"home"}

CalledFor(r) ==
  CASE r.pc = "start" -> {None}
    [] r.pc = "home" -> {"home"}
    [] r.pc = "sum" -> {"sum"}
    [] r.pc = "ran" -> {"run"}
    [] r.pc = "status" -> {"status"}
    [] OTHER -> {None, "home"}

LoginFor(c, then) == c.at \in Login /\ c.then = then

\* A command that has not been sent in any session.
Pending(c) ==
  c.at = "send" \/ (c.how = "cmd" /\ (c.at \in {"relogin", "resend"} \/ LoginFor(c, "resend")))
Unsent(c, r) == (Command \ Called(r)) \cup (IF Pending(c) THEN {c.cmd} ELSE {})

Coming(c, t) == \E i \in DOMAIN c.coming : c.coming[i][1] = t

\* What is not repeated runs, is under way, or was not sent yet.
RunsOnce(c, r) ==
  "repeated" \notin c.marks =>
    \A t \in Command :
      /\ c.ran[t] <= 1
      /\ Coming(c, t) => c.ran[t] = 0
      /\ \A i, j \in DOMAIN c.coming : c.coming[i][1] = t /\ c.coming[j][1] = t => i = j
      /\ t \in Unsent(c, r) => c.ran[t] = 0 /\ ~Coming(c, t)

Marked(c) ==
  c.at = "resend" \/ LoginFor(c, "resend") =>
    "anew" \in c.marks /\ (c.how = "retry" => "repeated" \in c.marks)

Asked(c, r) ==
  /\ c.cmd \in CalledFor(r)
  /\ c.at \in {"new", "again"} \/ LoginFor(c, "ready") => c.cmd = None

\* Before it is logged in no command is sent.
NoneSent(c) == c.at \in Login \cup {"new", "again"} => \A t \in Command : ~Coming(c, t)

\* In between two commands nothing is left to read; during one, what came and what
\* comes are its output and the prompt, or the session ended.
Clean(c) == c.marks \cap {"unread", "late"} = {}
Quiet(c) == c.coming = <<>> /\ c.screen = <<>>
IsReply(c, s) == Len(s) = 2 /\ s[1][1] = c.cmd /\ s[2] = Prompt
Exchange(c) ==
  /\ Len(c.screen) <= 2
  /\ Len(c.screen) >= 1 => c.screen[1][1] = c.cmd
  /\ Len(c.screen) = 2 => c.screen[2] = Prompt
  /\ \/ c.coming = <<>>
     \/ Len(c.coming) = 1 /\ Len(c.screen) = 1 /\ c.coming[1] = Prompt
     \/ Len(c.coming) = 2 /\ Len(c.screen) = 0 /\ c.coming[1][1] = c.cmd /\ c.coming[2] = Prompt

Dialogue(c) ==
  Clean(c) =>
    /\ c.at \in {"ready", "send", "resend"} => Quiet(c)
    /\ c.at = "ready" /\ c.cmd # None => IsReply(c, c.reply)
    /\ c.at = "reply" => Exchange(c)

Idles(c, r) == r.result = None /\ r.pc \in Local => c.at = "ready"

\* The exit code of the first session's only command.
HasRun(c, r) == c.ran["run"] = 1 /\ c.code = r.code
Verdict(c, r, j) ==
  j.plugin = "shell" /\ c.marks = {} =>
    /\ r.pc = "ran" /\ (c.at = "ready" \/ (c.at = "reply" /\ Len(c.screen) > 0)) => HasRun(c, r)
    /\ r.pc = "status" => c.ran["run"] = 1
    /\ r.pc = "status" /\ (c.at = "send" \/ (c.at = "reply" /\ Len(c.screen) = 0)) => HasRun(c, r)
    /\ r.pc = "status" /\ c.at = "reply" /\ Len(c.screen) > 0 => c.screen[1][2] = r.code
    /\ r.pc = "status" /\ c.at = "ready" => c.reply[1][2] = r.code
    /\ r.exit => r.pc = "status" /\ r.code = 0

\* A digest that was read is that of the file, as f is its content, until it is touched.
Digest(c, r, f, v) ==
  c.ran["sum"] = 1 /\ r.pc \in {"sum", "ran"} /\ (~r.touched => f = v)
Digests(c, r, j, f) ==
  j.plugin \in {"copy", "script"} =>
    /\ \A i \in DOMAIN c.screen : c.screen[i][1] = "sum" => Digest(c, r, f, c.screen[i][2])
    /\ \A i \in DOMAIN c.reply : c.reply[i][1] = "sum" => Digest(c, r, f, c.reply[i][2])
    /\ r.pc = "ran" \/ r.result = "SUCCESS" => Digest(c, r, f, j.src)

Plain(c, r, j) ==
  /\ j.plugin # "retry" => c.how = "cmd" /\ "repeated" \notin c.marks
  /\ r.pc = "status" => j.plugin = "shell"
  /\ r.pc \in {"fetch", "get"} => j.plugin = "fetch"
  /\ r.exit => r.result # None

Ok(c, r, j, f) ==
  /\ RunsOnce(c, r) /\ Marked(c) /\ Asked(c, r) /\ NoneSent(c) /\ Dialogue(c) /\ Idles(c, r)
  /\ Verdict(c, r, j) /\ Digests(c, r, j, f) /\ Plain(c, r, j)

Content(x) == ContentOf(files[run[x].place])
ShellInv == ShellShape /\ \A x \in Executors : Ok(con[x], run[x], job[x], Content(x))

-----------------------------------------------------------------------------
\* What the updates of a connection leave alone.

Keeps(c, d) == d.cmd = c.cmd /\ d.how = c.how /\ d.ran = c.ran /\ d.code = c.code
Streams(c, d) == d.coming = c.coming /\ d.screen = c.screen /\ d.reply = c.reply

LEMMA AtFields ==
  ASSUME NEW c \in ConType, NEW at \in Login \cup Waiting
  PROVE  LET d == [c EXCEPT !.at = at] IN
         d \in ConType /\ d.at = at /\ d.then = c.then /\ Keeps(c, d) /\ Streams(c, d)
         /\ d.marks = c.marks
BY DEF ConType, Keeps, Streams

LEMMA SftpFields ==
  ASSUME NEW c \in ConType, NEW b \in BOOLEAN
  PROVE  LET d == [c EXCEPT !.sftp = b] IN
         d \in ConType /\ d.at = c.at /\ d.then = c.then /\ Keeps(c, d) /\ Streams(c, d)
         /\ d.marks = c.marks
BY DEF ConType, Keeps, Streams

LEMMA ReadFields ==
  ASSUME NEW c \in ConType, NEW names
  PROVE  LET d == ReadUntil(c, names) IN
         /\ d \in ConType /\ d.at = c.at /\ d.then = c.then /\ Keeps(c, d) /\ d.coming = c.coming
         /\ d.screen = <<>> /\ d.reply = c.screen /\ d.marks = c.marks /\ d.tried = c.tried
<1> DEFINE q == c.screen  e == <<>>
<1>1. q \in Seq(Item) /\ e \in Seq(Item)
  BY DEF ConType
<1> HIDE DEF q, e
<1>2. LET d == [c EXCEPT !.reply = q, !.screen = e] IN
         /\ d \in ConType /\ d.at = c.at /\ d.then = c.then /\ Keeps(c, d) /\ d.coming = c.coming
         /\ d.screen = e /\ d.reply = q /\ d.marks = c.marks /\ d.tried = c.tried
  BY <1>1 DEF ConType, Keeps
<1> QED BY <1>2 DEF ReadUntil, q, e

LEMMA OpensFields ==
  ASSUME NEW c \in ConType, NEW then \in {"ready", "resend"}
  PROVE  LET d == Opens(c, then) IN
         /\ d \in ConType /\ d.at = "ask" /\ d.then = then /\ d.cmd = c.cmd /\ d.how = c.how
         /\ d.ran = c.ran /\ d.coming = <<Shell>> /\ d.screen = <<>> /\ d.reply = c.reply
         /\ d.marks = c.marks
<1> DEFINE q == <<Shell>>  e == <<>>
<1>1. q \in Seq(Item) /\ e \in Seq(Item)
  BY DEF Shell, Item
<1> HIDE DEF q, e
<1>2. LET d == [c EXCEPT !.at = "ask", !.then = then, !.up = TRUE, !.coming = q, !.screen = e,
                         !.code = 0] IN
         /\ d \in ConType /\ d.at = "ask" /\ d.then = then /\ d.cmd = c.cmd /\ d.how = c.how
         /\ d.ran = c.ran /\ d.coming = q /\ d.screen = e /\ d.reply = c.reply
         /\ d.marks = c.marks
  BY <1>1 DEF ConType, Login
<1> QED BY <1>2 DEF Opens, q, e

LEMMA LostFields ==
  ASSUME NEW c \in ConType, NEW done
  PROVE  LET d == Lost(c, done) IN
         /\ d \in ConType /\ d.at = c.at /\ d.then = c.then /\ d.cmd = c.cmd /\ d.how = c.how
         /\ \A t \in Command : d.ran[t] = IF t \in done THEN c.ran[t] + 1 ELSE c.ran[t]
         /\ d.coming = <<>> /\ d.screen = c.screen /\ d.reply = c.reply /\ d.marks = c.marks
         /\ d.code = c.code
<1> DEFINE e == <<>>  ran == [t \in Command |-> IF t \in done THEN c.ran[t] + 1 ELSE c.ran[t]]
<1>1. e \in Seq(Item) /\ ran \in [Command -> Nat]
  BY DEF ConType
<1>2. \A t \in Command : ran[t] = IF t \in done THEN c.ran[t] + 1 ELSE c.ran[t]
  OBVIOUS
<1> HIDE DEF e, ran
<1>3. LET d == [c EXCEPT !.up = FALSE, !.sftp = FALSE, !.coming = e, !.ran = ran] IN
         /\ d \in ConType /\ d.at = c.at /\ d.then = c.then /\ d.cmd = c.cmd /\ d.how = c.how
         /\ d.ran = ran
         /\ d.coming = e /\ d.screen = c.screen /\ d.reply = c.reply /\ d.marks = c.marks
         /\ d.code = c.code
  BY <1>1 DEF ConType
<1> QED BY <1>2, <1>3 DEF Lost, ran, e

LEMMA BreaksFields ==
  ASSUME NEW c \in ConType, NEW n \in Nat
  PROVE  LET d == [c EXCEPT !.breaks = n] IN
         d \in ConType /\ d.at = c.at /\ d.then = c.then /\ Keeps(c, d) /\ Streams(c, d)
         /\ d.marks = c.marks
BY DEF ConType, Keeps, Streams

-----------------------------------------------------------------------------
\* A step of a connection keeps what holds of it.

LEMMA LoginStep ==
  ASSUME NEW c \in ConType, NEW d \in ConType, NEW r, NEW j, NEW f, IsRun(r), Ok(c, r, j, f),
         c.at \in Login \cup {"new", "again"},
         d.at \in Login \cup {"again", "raised", "relogin", "ready", "resend"},
         d.at \in Login => IF c.at \in Login THEN d.then = c.then ELSE d.then = "ready",
         d.at = "again" => c.at \in {"new", "again"},
         d.at \in {"relogin", "resend"} => LoginFor(c, "resend"),
         d.at = "ready" => LoginFor(c, "ready"),
         d.at \in {"ready", "resend"} /\ Clean(d) => Quiet(d),
         \A t \in Command : ~Coming(d, t),
         d.cmd = c.cmd, d.how = c.how, d.ran = c.ran, c.marks \subseteq d.marks,
         "repeated" \in d.marks => "repeated" \in c.marks,
         d.reply \in {c.reply, c.screen}, d.screen \in {c.screen, <<>>}
  PROVE  Ok(d, r, j, f)
<1>1. RunsOnce(d, r)
  <2> SUFFICES ASSUME "repeated" \notin d.marks, NEW t \in Command
               PROVE  d.ran[t] <= 1 /\ (t \in Unsent(d, r) => d.ran[t] = 0)
    BY DEF RunsOnce, Coming
  <2>1. "repeated" \notin c.marks
    OBVIOUS
  <2>2. c.ran[t] <= 1 /\ (t \in Unsent(c, r) => c.ran[t] = 0)
    BY <2>1 DEF Ok, RunsOnce
  <2>3. t \in Unsent(d, r) => t \in Unsent(c, r)
    BY DEF Unsent, Pending, LoginFor, Login, ConType
  <2> QED BY <2>2, <2>3
<1>2. Marked(d)
  BY DEF Ok, Marked, LoginFor, Login, ConType
<1>3. Asked(d, r)
  BY DEF Ok, Asked, LoginFor, Login, ConType
<1>4. NoneSent(d)
  BY DEF NoneSent
<1>5. Dialogue(d)
  <2>1. d.at = "ready" => d.cmd = None
    BY DEF Ok, Asked, LoginFor
  <2> QED BY <2>1 DEF Dialogue, Login
<1>6. Idles(d, r)
  BY DEF Ok, Idles, Login
<1>7. Verdict(d, r, j)
  <2>1. d.at = "ready" => d.cmd = None
    BY DEF Ok, Asked, LoginFor
  <2>2. d.at = "ready" => r.pc \notin {"ran", "status"}
    BY <2>1, NoneAssumption DEF Ok, Asked, CalledFor, Command
  <2> QED BY <2>2 DEF Ok, Verdict, Login
<1>8. Digests(d, r, j, f)
  <2>1. \A v : Digest(d, r, f, v) <=> Digest(c, r, f, v)
    BY DEF Digest
  <2>2. \A i \in DOMAIN <<>> : FALSE
    OBVIOUS
  <2> QED BY <2>1, <2>2 DEF Ok, Digests
<1>9. Plain(d, r, j)
  BY DEF Ok, Plain
<1> QED BY <1>1, <1>2, <1>3, <1>4, <1>5, <1>6, <1>7, <1>8, <1>9 DEF Ok

\* A session that ends, having run some of what was sent.
LEMMA LostOk ==
  ASSUME NEW c \in ConType, NEW r, NEW j, NEW f, IsRun(r), Ok(c, r, j, f),
         NEW done \in SUBSET Outstanding(c)
  PROVE  Ok(Lost(c, done), r, j, f)
<1> DEFINE d == Lost(c, done)
<1>1. /\ d \in ConType /\ d.at = c.at /\ d.then = c.then /\ d.cmd = c.cmd /\ d.how = c.how
      /\ \A t \in Command : d.ran[t] = IF t \in done THEN c.ran[t] + 1 ELSE c.ran[t]
      /\ d.coming = <<>> /\ d.screen = c.screen /\ d.reply = c.reply /\ d.marks = c.marks
      /\ d.code = c.code
  BY LostFields
<1>2. \A t \in done : t \in Command /\ Coming(c, t)
  BY DEF Outstanding, Coming
<1>3. \A t : ~Coming(d, t)
  BY <1>1 DEF Coming
<1>4. \A t \in Command : c.ran[t] \in Nat
  BY DEF ConType
<1> HIDE DEF d
<1>5. "repeated" \notin c.marks => \A t \in Command : c.ran[t] = 1 => d.ran[t] = 1
  BY <1>1, <1>2, <1>4 DEF Ok, RunsOnce
<1>6. RunsOnce(d, r)
  <2> SUFFICES ASSUME "repeated" \notin d.marks, NEW t \in Command
               PROVE  d.ran[t] <= 1 /\ (t \in Unsent(d, r) => d.ran[t] = 0)
    BY <1>1, <1>3 DEF RunsOnce, Coming
  <2>1. t \in Unsent(d, r) => t \in Unsent(c, r)
    BY <1>1 DEF Unsent, Pending, LoginFor
  <2>2. /\ c.ran[t] <= 1
        /\ Coming(c, t) => c.ran[t] = 0
        /\ t \in Unsent(c, r) => c.ran[t] = 0 /\ ~Coming(c, t)
    BY <1>1 DEF Ok, RunsOnce
  <2> QED BY <1>1, <1>2, <1>4, <2>1, <2>2
<1>7. Marked(d) /\ Asked(d, r) /\ Idles(d, r) /\ Plain(d, r, j)
  BY <1>1 DEF Ok, Marked, Asked, Idles, Plain, LoginFor
<1>8. NoneSent(d)
  BY <1>3 DEF NoneSent
<1>9. Dialogue(d)
  BY <1>1 DEF Ok, Dialogue, Clean, Quiet, IsReply, Exchange
<1>10. Verdict(d, r, j)
  <2> SUFFICES ASSUME j.plugin = "shell", d.marks = {} PROVE Verdict(d, r, j)
    BY DEF Verdict
  <2>1. c.ran["run"] = 1 => d.ran["run"] = 1
    BY <1>1, <1>5 DEF Command
  <2> QED BY <1>1, <2>1 DEF Ok, Verdict, HasRun
<1>11. Digests(d, r, j, f)
  <2> SUFFICES ASSUME j.plugin \in {"copy", "script"} PROVE Digests(d, r, j, f)
    BY DEF Digests
  <2>1. c.ran["sum"] = 1 => d.ran["sum"] = 1
    BY <1>5 DEF Ok, Plain, Command
  <2>2. \A v : Digest(c, r, f, v) => Digest(d, r, f, v)
    BY <2>1 DEF Digest
  <2> QED BY <1>1, <2>2 DEF Ok, Digests
<1> QED BY <1>6, <1>7, <1>8, <1>9, <1>10, <1>11 DEF Ok, d

\* What only looks at marks, screen and the like when at a command or between two.
LEMMA AwayOk ==
  ASSUME NEW c \in ConType, NEW d \in ConType, NEW r, NEW j, NEW f, IsRun(r), Ok(c, r, j, f),
         c.at \notin Login \cup {"new", "again"}, ~(r.result = None /\ r.pc \in Local),
         d.at \in {"raised", "relogin"},
         d.at = "relogin" /\ c.how = "cmd" => c.at \in {"send", "resend", "relogin"},
         d.cmd = c.cmd, d.how = c.how, d.ran = c.ran, c.marks \subseteq d.marks,
         "repeated" \in d.marks => "repeated" \in c.marks,
         d.coming = c.coming, d.screen \in {c.screen, <<>>}, d.reply \in {c.reply, c.screen}
  PROVE  Ok(d, r, j, f)
<1>1. RunsOnce(d, r)
  <2>1. Unsent(d, r) \subseteq Unsent(c, r)
    BY DEF Unsent, Pending, LoginFor, Login
  <2> QED BY <2>1 DEF Ok, RunsOnce, Coming
<1>2. Marked(d) /\ Asked(d, r) /\ NoneSent(d) /\ Idles(d, r) /\ Plain(d, r, j)
  BY DEF Ok, Marked, Asked, NoneSent, Idles, Plain, LoginFor, Login
<1>3. Dialogue(d)
  BY DEF Dialogue
<1>4. Verdict(d, r, j)
  BY DEF Ok, Verdict
<1>5. Digests(d, r, j, f)
  <2>1. \A v : Digest(d, r, f, v) <=> Digest(c, r, f, v)
    BY DEF Digest
  <2>2. \A i \in DOMAIN <<>> : FALSE
    OBVIOUS
  <2> QED BY <2>1, <2>2 DEF Ok, Digests
<1> QED BY <1>1, <1>2, <1>3, <1>4, <1>5 DEF Ok

\* A session that is begun anew, after the one before was lost.
LEMMA ReopensOk ==
  ASSUME NEW c \in ConType, NEW r, NEW j, NEW f, IsRun(r), Ok(c, r, j, f),
         c.at = "relogin", c.coming = <<>>, NEW m,
         m = c.marks \cup {"anew"} \cup (IF c.how = "retry" THEN {"repeated"} ELSE {})
  PROVE  LET d == [Opens(c, "resend") EXCEPT !.marks = m] IN d \in ConType /\ Ok(d, r, j, f)
<1> DEFINE o == Opens(c, "resend")  d == [o EXCEPT !.marks = m]
<1>1. /\ o \in ConType /\ o.at = "ask" /\ o.then = "resend" /\ o.cmd = c.cmd /\ o.how = c.how
      /\ o.ran = c.ran /\ o.coming = <<Shell>> /\ o.screen = <<>> /\ o.reply = c.reply
  BY OpensFields
<1> HIDE DEF o
<1>2. m \in SUBSET {"unread", "late", "anew", "repeated"}
  BY DEF ConType
<1>3. /\ d \in ConType /\ d.at = o.at /\ d.then = o.then /\ Keeps(o, d) /\ Streams(o, d)
      /\ d.marks = m
  BY <1>1, <1>2 DEF ConType, Keeps, Streams
<1> HIDE DEF d
<1>4. /\ d.at = "ask" /\ d.then = "resend" /\ d.cmd = c.cmd /\ d.how = c.how /\ d.ran = c.ran
      /\ d.coming = <<Shell>> /\ d.screen = <<>> /\ d.reply = c.reply
  BY <1>1, <1>3 DEF Keeps, Streams
<1>5. \A t \in Command : ~Coming(d, t)
  <2>1. \A i \in DOMAIN <<Shell>> : <<Shell>>[i] = Shell
    OBVIOUS
  <2> QED BY <1>4, <2>1 DEF Coming, Shell, Command
<1>6. RunsOnce(d, r)
  <2> SUFFICES ASSUME "repeated" \notin d.marks, NEW t \in Command
               PROVE  d.ran[t] <= 1 /\ (t \in Unsent(d, r) => d.ran[t] = 0)
    BY <1>5 DEF RunsOnce, Coming
  <2>1. c.how = "cmd" /\ "repeated" \notin c.marks
    BY <1>3 DEF ConType
  <2>2. t \in Unsent(d, r) => t \in Unsent(c, r)
    BY <1>4, <2>1 DEF Unsent, Pending, LoginFor, Login
  <2> QED BY <1>4, <2>1, <2>2 DEF Ok, RunsOnce
<1>7. Marked(d) /\ Asked(d, r) /\ NoneSent(d)
  BY <1>3, <1>4, <1>5 DEF Ok, Marked, Asked, NoneSent, LoginFor, Login
<1>8. Dialogue(d) /\ Verdict(d, r, j)
  BY <1>3, <1>4 DEF Dialogue, Verdict
<1>9. Idles(d, r)
  BY <1>4 DEF Ok, Idles
<1>10. Digests(d, r, j, f)
  <2>1. \A v : Digest(d, r, f, v) <=> Digest(c, r, f, v)
    BY <1>4 DEF Digest
  <2>2. \A i \in DOMAIN <<>> : FALSE
    OBVIOUS
  <2> QED BY <1>4, <2>1, <2>2 DEF Ok, Digests
<1>11. Plain(d, r, j)
  BY <1>3, <1>4 DEF Ok, Plain
<1> QED BY <1>3, <1>6, <1>7, <1>8, <1>9, <1>10, <1>11 DEF Ok, d, o

\* A command and its prompt are added to what is to come.
LEMMA TwoMore ==
  ASSUME NEW q \in Seq(Item), NEW a \in Item, NEW b \in Item
  PROVE  LET d == q \o <<a, b>> IN
         /\ Len(d) = Len(q) + 2 /\ \A i \in 1..Len(q) : d[i] = q[i]
         /\ d[Len(q) + 1] = a /\ d[Len(q) + 2] = b
         /\ DOMAIN d = 1..(Len(q) + 2) /\ DOMAIN q = 1..Len(q) /\ Len(q) \in Nat
OBVIOUS

\* A command is sent to a session that goes on, or takes it silently.
LEMMA SendOk ==
  ASSUME NEW c \in ConType, NEW d \in ConType, NEW r, NEW j, NEW f, IsRun(r), Ok(c, r, j, f),
         r.result = None, c.at \in {"send", "resend"}, d.at = "reply", Keeps(c, d),
         d.screen = c.screen, d.reply = c.reply, d.marks = c.marks,
         \/ d.coming = c.coming
         \/ d.coming = c.coming \o << <<c.cmd, None>>, Prompt >>
  PROVE  Ok(d, r, j, f)
<1>1. c.coming \in Seq(Item) /\ c.screen \in Seq(Item)
  BY DEF ConType
<1>2. ASSUME d.coming = c.coming PROVE RunsOnce(d, r) /\ Dialogue(d)
  <2>1. \A t : Coming(d, t) <=> Coming(c, t)
    BY <1>2 DEF Coming
  <2>2. Unsent(d, r) \subseteq Unsent(c, r)
    BY DEF Unsent, Pending, LoginFor, Login
  <2>3. RunsOnce(d, r)
    BY <1>2, <2>1, <2>2 DEF Ok, RunsOnce, Keeps
  <2>4. Dialogue(d)
    BY <1>1, <1>2 DEF Ok, Dialogue, Clean, Quiet, Exchange
  <2> QED BY <2>3, <2>4
<1>3. ASSUME d.coming = c.coming \o << <<c.cmd, None>>, Prompt >>
      PROVE  RunsOnce(d, r) /\ Dialogue(d)
  <2> DEFINE q == c.coming
  <2>1. /\ Len(d.coming) = Len(q) + 2
        /\ \A i \in 1..Len(q) : d.coming[i] = q[i]
        /\ d.coming[Len(q) + 1] = <<c.cmd, None>> /\ d.coming[Len(q) + 2] = Prompt
        /\ DOMAIN d.coming = 1..(Len(q) + 2) /\ DOMAIN q = 1..Len(q) /\ Len(q) \in Nat
    <3> DEFINE a == <<c.cmd, None>>
    <3>1. q \in Seq(Item) /\ d.coming = q \o <<a, Prompt>>
      BY <1>3 DEF ConType
    <3>2. a \in Item /\ Prompt \in Item
      BY DEF ConType, Item, Prompt, Own
    <3> HIDE DEF q, a
    <3> QED BY <3>1, <3>2, TwoMore DEF a
  <2> HIDE DEF q
  <2>5. d.coming[Len(q) + 1][1] = c.cmd /\ d.coming[Len(q) + 2][1] = "prompt"
    BY <2>1 DEF Prompt
  <2>6. \A i \in DOMAIN d.coming : i \in 1..Len(q) \/ i = Len(q) + 1 \/ i = Len(q) + 2
    BY <2>1
  <2>7. \A i \in 1..Len(q) : i \in DOMAIN d.coming /\ d.coming[i][1] = q[i][1]
    BY <2>1
  <2>8. Len(q) + 1 \in DOMAIN d.coming
    BY <2>1
  <2>9. \A t : Coming(c, t) <=> \E i \in 1..Len(q) : q[i][1] = t
    BY <2>1 DEF Coming, q
  <2>2. \A t \in Command : Coming(d, t) <=> Coming(c, t) \/ t = c.cmd
    <3> SUFFICES ASSUME NEW t \in Command PROVE Coming(d, t) <=> Coming(c, t) \/ t = c.cmd
      OBVIOUS
    <3>1. \A i \in DOMAIN d.coming : d.coming[i][1] = t => Coming(c, t) \/ t = c.cmd
      BY <2>5, <2>6, <2>7, <2>9 DEF Command
    <3>2. ASSUME Coming(c, t) PROVE Coming(d, t)
      <4>1. PICK i \in 1..Len(q) : q[i][1] = t
        BY <2>9, <3>2
      <4> QED BY <2>7, <4>1 DEF Coming
    <3>3. t = c.cmd => Coming(d, t)
      BY <2>5, <2>8 DEF Coming
    <3> QED BY <3>1, <3>2, <3>3 DEF Coming
  <2>3. RunsOnce(d, r)
    <3> SUFFICES ASSUME "repeated" \notin d.marks, NEW t \in Command
                 PROVE  /\ d.ran[t] <= 1
                        /\ Coming(d, t) => d.ran[t] = 0
                        /\ \A i, k \in DOMAIN d.coming :
                             d.coming[i][1] = t /\ d.coming[k][1] = t => i = k
                        /\ t \in Unsent(d, r) => d.ran[t] = 0 /\ ~Coming(d, t)
      BY DEF RunsOnce
    <3>1. /\ c.ran[t] <= 1 /\ d.ran[t] = c.ran[t]
          /\ Coming(c, t) => c.ran[t] = 0
          /\ \A i, k \in DOMAIN c.coming : c.coming[i][1] = t /\ c.coming[k][1] = t => i = k
          /\ t \in Unsent(c, r) => c.ran[t] = 0 /\ ~Coming(c, t)
      BY DEF Ok, RunsOnce, Keeps
    <3>2. Pending(c)
      BY DEF Pending, Ok, Marked, ConType
    <3>3. t = c.cmd => t \in Unsent(c, r)
      BY <3>2 DEF Unsent
    <3>4. t \in Unsent(d, r) => t \in Unsent(c, r) /\ t # c.cmd
      BY NoneAssumption DEF Unsent, Pending, LoginFor, Login, Ok, Asked, CalledFor, Called, Command
    <3>5. \A i \in 1..Len(q) : d.coming[i][1] = t => Coming(c, t)
      BY <2>7, <2>9
    <3>6. ASSUME NEW i \in DOMAIN d.coming, NEW k \in DOMAIN d.coming,
                 d.coming[i][1] = t, d.coming[k][1] = t
          PROVE  i = k
      <4>1. i # Len(q) + 2 /\ k # Len(q) + 2
        BY <2>5, <3>6 DEF Command
      <4>2. CASE t = c.cmd
        BY <2>6, <3>1, <3>3, <3>5, <3>6, <4>1, <4>2
      <4>3. CASE t # c.cmd
        <5>1. i \in 1..Len(q) /\ k \in 1..Len(q)
          BY <2>5, <2>6, <3>6, <4>1, <4>3
        <5> QED BY <2>1, <2>7, <3>1, <3>6, <5>1 DEF q
      <4> QED BY <4>2, <4>3
    <3> QED BY <2>2, <3>1, <3>3, <3>4, <3>6
  <2>4. Dialogue(d)
    <3> SUFFICES ASSUME Clean(d) PROVE Exchange(d)
      BY DEF Dialogue
    <3>1. c.coming = <<>> /\ c.screen = <<>>
      BY DEF Ok, Dialogue, Clean, Quiet
    <3>2. Len(d.coming) = 2 /\ Len(d.screen) = 0
      BY <2>1, <3>1 DEF q
    <3>3. d.coming[1][1] = c.cmd /\ d.coming[2] = Prompt
      BY <2>1, <3>1 DEF q
    <3> QED BY <3>2, <3>3 DEF Exchange, Keeps
  <2> QED BY <2>3, <2>4
<1>4. RunsOnce(d, r) /\ Dialogue(d)
  BY <1>2, <1>3
<1>5. Marked(d) /\ Asked(d, r) /\ NoneSent(d) /\ Idles(d, r) /\ Plain(d, r, j)
  BY DEF Ok, Marked, Asked, NoneSent, Idles, Plain, LoginFor, Login, Keeps
<1>6. Verdict(d, r, j)
  <2> SUFFICES ASSUME j.plugin = "shell", d.marks = {} PROVE Verdict(d, r, j)
    BY DEF Verdict
  <2>1. c.at = "send"
    BY DEF Ok, Marked
  <2>2. Len(d.screen) = 0
    BY <1>1, <2>1 DEF Ok, Dialogue, Clean, Quiet
  <2> QED BY <2>1, <2>2 DEF Ok, Verdict, HasRun, Keeps
<1>7. Digests(d, r, j, f)
  <2>1. \A v : Digest(d, r, f, v) <=> Digest(c, r, f, v)
    BY DEF Digest, Keeps
  <2> QED BY <2>1 DEF Ok, Digests
<1> QED BY <1>4, <1>5, <1>6, <1>7 DEF Ok

-----------------------------------------------------------------------------
\* Counting what was heard.

LEMMA HeardMeans ==
  ASSUME NEW c \in ConType, NEW names
  PROVE  Heard(c, names) <=> \E i \in DOMAIN c.screen : c.screen[i][1] \in names
<1> DEFINE S == {i \in DOMAIN c.screen : c.screen[i][1] \in names}
<1>1. DOMAIN c.screen = 1..Len(c.screen) /\ Len(c.screen) \in Nat
  BY DEF ConType
<1>2. IsFiniteSet(1..Len(c.screen))
  BY <1>1, FS_Interval
<1>3. IsFiniteSet(S)
  BY <1>1, <1>2, FS_Subset
<1>4. Cardinality(S) \in Nat /\ (Cardinality(S) = 0 <=> S = {})
  BY <1>3, FS_EmptySet, FS_CardinalityType
<1> QED BY <1>4 DEF Heard, Count

\* A reply that is read, or not awaited to its end.
LEMMA ReplyOk ==
  ASSUME NEW c \in ConType, NEW d \in ConType, NEW r, NEW j, NEW f, IsRun(r), Ok(c, r, j, f),
         r.result = None, c.at = "reply", d.at = "ready", Keeps(c, d), d.coming = c.coming,
         d.screen = <<>>, d.reply = c.screen, c.marks \subseteq d.marks,
         "repeated" \in d.marks => "repeated" \in c.marks,
         Heard(c, {"prompt"}) \/ "late" \in d.marks
  PROVE  Ok(d, r, j, f)
<1>1. RunsOnce(d, r)
  <2>1. Unsent(d, r) \subseteq Unsent(c, r)
    BY DEF Unsent, Pending, LoginFor, Login
  <2> QED BY <2>1 DEF Ok, RunsOnce, Coming, Keeps
<1>2. Marked(d) /\ Asked(d, r) /\ NoneSent(d) /\ Idles(d, r) /\ Plain(d, r, j)
  BY DEF Ok, Marked, Asked, NoneSent, Idles, Plain, LoginFor, Login, Keeps
<1>3. c.screen \in Seq(Item) /\ c.coming \in Seq(Item)
  BY DEF ConType
<1>4. ASSUME Clean(d) PROVE c.coming = <<>> /\ IsReply(d, c.screen)
  <2>1. Exchange(c) /\ Heard(c, {"prompt"})
    BY <1>4 DEF Ok, Dialogue, Clean
  <2>2. PICK i \in DOMAIN c.screen : c.screen[i][1] = "prompt"
    BY <2>1, HeardMeans
  <2>3. c.cmd # "prompt"
    BY NoneAssumption DEF ConType, Command, Own
  <2>5. DOMAIN c.screen = 1..Len(c.screen) /\ Len(c.screen) \in Nat
    BY <1>3
  <2>6. Len(c.screen) # 1
    BY <2>1, <2>2, <2>3, <2>5 DEF Exchange
  <2>7. Len(c.screen) <= 2
    BY <2>1 DEF Exchange
  <2>8. Len(c.screen) # 0
    BY <2>2, <2>5
  <2>9. PICK n \in Nat : n = Len(c.screen)
    BY <2>5
  <2>10. n <= 2 /\ n # 1 /\ n # 0
    BY <2>6, <2>7, <2>8, <2>9
  <2>11. n \in Nat
    OBVIOUS
  <2>12. n = 2
    BY <2>10, <2>11
  <2>4. Len(c.screen) = 2
    BY <2>9, <2>12
  <2> QED BY <1>3, <2>1, <2>4 DEF Exchange, IsReply, Keeps
<1>5. Dialogue(d)
  BY <1>4 DEF Dialogue, Quiet
<1>6. Verdict(d, r, j)
  <2> SUFFICES ASSUME j.plugin = "shell", d.marks = {} PROVE Verdict(d, r, j)
    BY DEF Verdict
  <2>1. Len(c.screen) = 2
    BY <1>4 DEF Clean, IsReply
  <2> QED BY <2>1 DEF Ok, Verdict, HasRun, Keeps
<1>7. Digests(d, r, j, f)
  <2>1. \A v : Digest(d, r, f, v) <=> Digest(c, r, f, v)
    BY DEF Digest, Keeps
  <2>2. \A i \in DOMAIN <<>> : FALSE
    OBVIOUS
  <2> QED BY <2>1, <2>2 DEF Ok, Digests
<1> QED BY <1>1, <1>2, <1>5, <1>6, <1>7 DEF Ok

\* The next of what is coming is written.
LEMMA AnswerOk ==
  ASSUME NEW c \in ConType, NEW d \in ConType, NEW r, NEW s, NEW j, NEW f, IsRun(r), IsRun(s),
         Ok(c, r, j, f), c.coming # <<>>, NEW t, t = Head(c.coming)[1],
         NEW prints \in Source \cup {None, 0, 1}, NEW code \in {0, 1},
         d.at = c.at, d.then = c.then, d.cmd = c.cmd, d.how = c.how, d.reply = c.reply,
         d.marks = c.marks, d.coming = Tail(c.coming),
         d.screen = Append(c.screen, IF t \in Command THEN <<t, prints>> ELSE Head(c.coming)),
         d.code = IF t \in Command THEN code ELSE c.code,
         \A u \in Command : d.ran[u] = IF u = t THEN c.ran[u] + 1 ELSE c.ran[u],
         t = "sum" => prints = f, t = "status" => prints = c.code,
         s.pc = r.pc, s.exit = r.exit, s.result = r.result,
         s.code = IF t = "run" THEN code ELSE r.code,
         s.touched <=> r.touched /\ t # "sum"
  PROVE  Ok(d, s, j, f)
<1> DEFINE q == c.coming  w == c.screen  z == IF t \in Command THEN <<t, prints>> ELSE Head(q)
<1>1. /\ q \in Seq(Item) /\ q # <<>> /\ w \in Seq(Item)
      /\ d.coming = Tail(q) /\ d.screen = Append(w, z) /\ t = Head(q)[1]
  BY DEF ConType
<1>2. z[1] = t /\ z \in Item
  BY <1>1 DEF Item
<1> HIDE DEF q, w, z
<1>3. /\ Len(q) \in Nat /\ Len(q) > 0 /\ q[1][1] = t /\ Len(d.coming) = Len(q) - 1
      /\ DOMAIN q = 1..Len(q) /\ DOMAIN d.coming = 1..(Len(q) - 1)
      /\ \A i \in 1..(Len(q) - 1) : d.coming[i] = q[i + 1]
  <2>1. Len(q) \in Nat /\ Len(q) > 0 /\ q[1][1] = t /\ DOMAIN q = 1..Len(q)
    BY <1>1
  <2>2. Len(Tail(q)) = Len(q) - 1 /\ DOMAIN Tail(q) = 1..(Len(q) - 1)
    BY <1>1
  <2>3. \A i \in 1..(Len(q) - 1) : Tail(q)[i] = q[i + 1]
    BY <1>1
  <2> QED BY <1>1, <2>1, <2>2, <2>3
<1>4. /\ Len(w) \in Nat /\ Len(d.screen) = Len(w) + 1 /\ d.screen[Len(w) + 1] = z
      /\ DOMAIN w = 1..Len(w) /\ DOMAIN d.screen = 1..(Len(w) + 1)
      /\ \A i \in 1..Len(w) : d.screen[i] = w[i]
  <2>1. Len(w) \in Nat /\ DOMAIN w = 1..Len(w)
    BY <1>1
  <2>2. /\ Len(Append(w, z)) = Len(w) + 1 /\ DOMAIN Append(w, z) = 1..(Len(w) + 1)
        /\ Append(w, z)[Len(w) + 1] = z
    BY <1>1, <1>2
  <2>3. \A i \in 1..Len(w) : Append(w, z)[i] = w[i]
    BY <1>1, <1>2
  <2> QED BY <1>1, <2>1, <2>2, <2>3
<1>5. Coming(c, t) /\ \A u : Coming(d, u) => Coming(c, u)
  <2>1. 1 \in DOMAIN q /\ q[1][1] = t
    BY <1>3
  <2>2. ASSUME NEW i \in DOMAIN d.coming PROVE \E k \in DOMAIN q : d.coming[i] = q[k]
    <3>1. i \in 1..(Len(q) - 1) /\ d.coming[i] = q[i + 1]
      BY <1>3, <2>2
    <3>2. i + 1 \in DOMAIN q
      BY <1>3, <3>1
    <3> QED BY <3>1, <3>2
  <2> QED BY <2>1, <2>2 DEF Coming, q
<1>6. \A u \in Command : c.ran[u] \in Nat
  BY DEF ConType
<1>7. Unsent(d, s) = Unsent(c, r)
  BY DEF Unsent, Called, Pending, LoginFor
<1>8. RunsOnce(d, s)
  <2> SUFFICES ASSUME "repeated" \notin d.marks, NEW u \in Command
               PROVE  /\ d.ran[u] <= 1
                      /\ Coming(d, u) => d.ran[u] = 0
                      /\ \A i, k \in DOMAIN d.coming :
                           d.coming[i][1] = u /\ d.coming[k][1] = u => i = k
                      /\ u \in Unsent(d, s) => d.ran[u] = 0 /\ ~Coming(d, u)
    BY DEF RunsOnce
  <2>1. /\ c.ran[u] <= 1 /\ (Coming(c, u) => c.ran[u] = 0)
        /\ \A i, k \in DOMAIN q : q[i][1] = u /\ q[k][1] = u => i = k
        /\ u \in Unsent(c, r) => c.ran[u] = 0 /\ ~Coming(c, u)
    BY DEF Ok, RunsOnce, q
  <2>2. u = t => ~Coming(d, u)
    <3> SUFFICES ASSUME u = t, NEW i \in DOMAIN d.coming, d.coming[i][1] = u PROVE FALSE
      BY DEF Coming
    <3>2. DOMAIN d.coming = 1..(Len(q) - 1)
      BY <1>3
    <3>3. i \in 1..(Len(q) - 1)
      BY <3>2
    <3>4. q[i + 1] = d.coming[i]
      BY <1>3, <3>3
    <3>1. i + 1 \in DOMAIN q /\ 1 \in DOMAIN q /\ q[i + 1][1] = u /\ q[1][1] = u /\ i + 1 # 1
      BY <1>3, <3>3, <3>4
    <3> QED BY <2>1, <3>1
  <2>3. d.ran[u] <= 1
    BY <1>5, <1>6, <2>1
  <2>4. Coming(d, u) => d.ran[u] = 0
    BY <1>5, <2>1, <2>2
  <2>5. ASSUME NEW i \in DOMAIN d.coming, NEW k \in DOMAIN d.coming,
               d.coming[i][1] = u, d.coming[k][1] = u
        PROVE  i = k
    <3>2. DOMAIN d.coming = 1..(Len(q) - 1)
      BY <1>3
    <3>3. i \in 1..(Len(q) - 1) /\ k \in 1..(Len(q) - 1)
      BY <3>2
    <3>4. q[i + 1] = d.coming[i] /\ q[k + 1] = d.coming[k]
      BY <1>3, <3>3
    <3>1. q[i + 1][1] = u /\ q[k + 1][1] = u
      BY <2>5, <3>4
    <3>5. i + 1 \in DOMAIN q /\ k + 1 \in DOMAIN q
      BY <1>3, <3>3
    <3>6. i + 1 = k + 1
      BY <2>1, <3>1, <3>5
    <3> QED BY <3>3, <3>6
  <2>6. u \in Unsent(d, s) => d.ran[u] = 0 /\ ~Coming(d, u)
    BY <1>5, <1>7, <2>1
  <2> QED BY <2>3, <2>4, <2>5, <2>6
<1>9. Marked(d) /\ Asked(d, s) /\ Idles(d, s) /\ Plain(d, s, j)
  BY DEF Ok, Marked, Asked, Idles, Plain, CalledFor, LoginFor
<1>10. NoneSent(d)
  BY <1>5 DEF Ok, NoneSent
<1>11. ASSUME Clean(d), c.at = "reply"
       PROVE  \/ Len(w) = 0 /\ t = c.cmd
              \/ Len(w) = 1 /\ z = Prompt
  <2>1. Exchange(c)
    BY <1>11 DEF Ok, Dialogue, Clean
  <2>2. q # <<>>
    BY <1>1
  <2>3. CASE Len(q) = 1 /\ Len(w) = 1 /\ q[1] = Prompt
    <3>1. t = "prompt" /\ Head(q) = Prompt
      BY <1>1, <2>3 DEF Prompt
    <3> QED BY <2>3, <3>1 DEF z, Command
  <2>4. CASE Len(q) = 2 /\ Len(w) = 0 /\ q[1][1] = c.cmd /\ q[2] = Prompt
    BY <1>3, <2>4
  <2> QED BY <2>1, <2>2, <2>3, <2>4 DEF Exchange, q, w
<1>12. Dialogue(d)
  <2> SUFFICES ASSUME Clean(d) PROVE Dialogue(d)
    BY DEF Dialogue
  <2>1. c.at \notin {"ready", "send", "resend"}
    BY <1>1 DEF Ok, Dialogue, Clean, Quiet, q
  <2>2. ASSUME c.at = "reply" PROVE Exchange(d)
    <3>1. Exchange(c)
      BY <2>2 DEF Ok, Dialogue, Clean
    <3>2. CASE Len(w) = 0 /\ t = c.cmd
      <4>1. Len(q) = 2 /\ q[2] = Prompt
        BY <1>3, <3>1, <3>2 DEF Exchange, q, w
      <4>2. Len(d.coming) = 1 /\ d.coming[1] = Prompt
        BY <1>3, <4>1
      <4> QED BY <1>2, <1>4, <3>2, <4>2 DEF Exchange
    <3>3. CASE Len(w) = 1 /\ z = Prompt
      <4>1. Len(q) = 1 /\ w[1][1] = c.cmd
        BY <1>3, <3>1, <3>3 DEF Exchange, q, w
      <4>2. d.coming = <<>>
        BY <1>1, <1>3, <4>1
      <4>3. Len(d.screen) = 2 /\ d.screen[1] = w[1] /\ d.screen[2] = z
        BY <1>4, <3>3
      <4>4. d.screen[1][1] = d.cmd /\ d.screen[2] = Prompt
        BY <3>3, <4>1, <4>3
      <4>5. Len(d.screen) = 2
        BY <4>3
      <4>6. d.screen[1][1] = d.cmd /\ d.screen[2] = Prompt /\ Len(d.screen) <= 2
        BY <4>4, <4>5
      <4> QED BY <4>2, <4>6 DEF Exchange
    <3> QED BY <1>11, <2>2, <3>2, <3>3
  <2> QED BY <2>1, <2>2 DEF Dialogue
<1>13. Verdict(d, s, j)
  <2> SUFFICES ASSUME j.plugin = "shell", d.marks = {} PROVE Verdict(d, s, j)
    BY DEF Verdict
  <2>1. "repeated" \notin c.marks /\ Clean(c) /\ Clean(d)
    BY DEF Clean
  <2>2. \A u \in Command : (Coming(c, u) => c.ran[u] = 0) /\ (u = t => c.ran[u] = 0)
    BY <1>5, <2>1 DEF Ok, RunsOnce
  <2>3. c.at \notin {"ready", "send", "resend"}
    BY <1>1, <2>1 DEF Ok, Dialogue, Quiet, q
  <2>4. c.at = "reply" => \/ Len(w) = 0 /\ t = c.cmd
                          \/ Len(w) = 1 /\ z = Prompt /\ t = "prompt"
    BY <1>2, <1>11, <2>1 DEF Prompt
  <2>5. c.ran["run"] = 1 => t # "run"
    BY <2>2 DEF Command
  <2>6. c.ran["run"] = 1 => d.ran["run"] = 1 /\ s.code = r.code
    BY <2>5 DEF Command
  <2>7. r.pc = "ran" => c.cmd = "run"
    BY DEF Ok, Asked, CalledFor
  <2>8. r.pc = "status" => c.cmd = "status"
    BY DEF Ok, Asked, CalledFor
  <2>9. ASSUME r.pc = "ran", c.at = "reply" PROVE HasRun(d, s)
    <3>1. CASE Len(w) = 0 /\ t = c.cmd
      BY <2>2, <2>7, <2>9, <3>1 DEF HasRun, Command
    <3>2. CASE Len(w) = 1 /\ t = "prompt"
      BY <2>6, <2>9, <3>2 DEF Ok, Verdict, HasRun, Command, w
    <3> QED BY <2>4, <2>9, <3>1, <3>2
  <2>10. r.pc = "status" => d.ran["run"] = 1
    BY <2>6 DEF Ok, Verdict
  <2>11. ASSUME r.pc = "status", c.at = "reply" PROVE d.screen[1][2] = s.code /\ Len(d.screen) # 0
    <3>1. s.code = r.code
      BY <2>6, <2>11 DEF Ok, Verdict
    <3>2. CASE Len(w) = 0 /\ t = c.cmd
      <4>1. z = <<t, prints>> /\ prints = c.code
        BY <2>8, <2>11, <3>2 DEF z, Command
      <4>2. c.code = r.code
        BY <2>11, <3>2 DEF Ok, Verdict, HasRun, w
      <4> QED BY <1>4, <3>1, <3>2, <4>1, <4>2
    <3>3. CASE Len(w) = 1
      <4>1. w[1][2] = r.code
        BY <2>11, <3>3 DEF Ok, Verdict, w
      <4> QED BY <1>4, <3>1, <3>3, <4>1
    <3> QED BY <2>4, <2>11, <3>2, <3>3
  <2>12. s.exit => s.pc = "status" /\ s.code = 0
    BY <2>6 DEF Ok, Verdict
  <2> QED BY <1>4, <2>3, <2>9, <2>10, <2>11, <2>12 DEF Verdict
<1>14. Digests(d, s, j, f)
  <2> SUFFICES ASSUME j.plugin \in {"copy", "script"} PROVE Digests(d, s, j, f)
    BY DEF Digests
  <2>1. "repeated" \notin c.marks
    BY DEF Ok, Plain
  <2>2. CASE t = "sum"
    <3>1. c.ran["sum"] = 0 /\ d.ran["sum"] = 1 /\ ~s.touched
      BY <1>5, <2>1, <2>2 DEF Ok, RunsOnce, Command
    <3>2. \A v : ~Digest(c, r, f, v)
      BY <3>1 DEF Digest
    <3>3. z = <<"sum", f>>
      BY <2>2 DEF z, Command
    <3>4. r.pc \in {"sum", "ran"}
      <4>1. "sum" \notin Unsent(c, r)
        BY <1>5, <2>1, <2>2 DEF Ok, RunsOnce, Command
      <4>2. "sum" \in Called(r)
        BY <4>1 DEF Unsent, Command
      <4> QED BY <4>2 DEF Called, Ok, Plain, IsRun, Pc, Local
    <3>5. Digest(d, s, f, f)
      BY <3>1, <3>4 DEF Digest
    <3>6. ASSUME NEW i \in DOMAIN d.screen, d.screen[i][1] = "sum"
          PROVE  Digest(d, s, f, d.screen[i][2])
      <4>1. CASE i \in 1..Len(w)
        BY <1>4, <3>2, <3>6, <4>1 DEF Ok, Digests, w
      <4>2. CASE i = Len(w) + 1
        BY <1>4, <3>3, <3>5, <4>2
      <4> QED BY <1>4, <4>1, <4>2
    <3> QED BY <3>2, <3>6 DEF Ok, Digests
  <2>3. CASE t # "sum"
    <3>1. \A v : Digest(c, r, f, v) => Digest(d, s, f, v)
      BY <2>3 DEF Digest, Command
    <3>2. ASSUME NEW i \in DOMAIN d.screen, d.screen[i][1] = "sum"
          PROVE  Digest(d, s, f, d.screen[i][2])
      <4>1. i \in 1..Len(w)
        BY <1>2, <1>4, <2>3, <3>2
      <4> QED BY <1>4, <3>1, <3>2, <4>1 DEF Ok, Digests, w
    <3> QED BY <3>1, <3>2 DEF Ok, Digests
  <2> QED BY <2>2, <2>3
<1> QED BY <1>8, <1>9, <1>10, <1>12, <1>13, <1>14 DEF Ok

\* A plugin calls a command it has not called before.
LEMMA CallOk ==
  ASSUME NEW c \in ConType, NEW d \in ConType, NEW r, NEW s, NEW j, NEW f, IsRun(r), IsRun(s),
         Ok(c, r, j, f), c.at = "ready", r.result = None, s.result = None, d.at = "send",
         d.cmd \in Command \ Called(r), CalledFor(s) = {d.cmd}, Called(s) \subseteq Command,
         Called(r) \cup {d.cmd} \subseteq Called(s),
         d.how \in {"cmd", "retry"}, j.plugin # "retry" => d.how = "cmd", d.then = c.then,
         d.ran = c.ran, d.code = c.code, d.marks = c.marks, Streams(c, d),
         s.exit = r.exit, s.code = r.code, s.touched = r.touched, s.pc \notin Local,
         s.pc = "status" => r.pc = "ran" /\ j.plugin = "shell",
         s.pc # "start", r.pc = "sum" => s.pc = "ran", r.pc = "ran" => s.pc = "status",
         s.pc = "ran" /\ j.plugin \in {"copy", "script"} =>
           r.pc = "sum" /\ Digest(c, r, f, j.src)
  PROVE  Ok(d, s, j, f)
<1>1. \A t : Coming(d, t) <=> Coming(c, t)
  BY DEF Coming, Streams
<1>2. RunsOnce(d, s)
  <2>1. Unsent(d, s) \subseteq Unsent(c, r)
    BY DEF Unsent, Pending
  <2> QED BY <1>1, <2>1 DEF Ok, RunsOnce, Streams
<1>3. Marked(d) /\ Asked(d, s) /\ NoneSent(d) /\ Idles(d, s)
  BY DEF Marked, Asked, NoneSent, Idles, LoginFor, Login
<1>4. Plain(d, s, j)
  BY DEF Ok, Plain, Local
<1>5. Dialogue(d)
  BY DEF Ok, Dialogue, Clean, Quiet, Streams
<1>6. Verdict(d, s, j)
  <2> SUFFICES ASSUME j.plugin = "shell", d.marks = {} PROVE Verdict(d, s, j)
    BY DEF Verdict
  <2>1. ~r.exit
    BY DEF Ok, Plain
  <2> QED BY <2>1 DEF Ok, Verdict, HasRun
<1>7. Digests(d, s, j, f)
  <2> SUFFICES ASSUME j.plugin \in {"copy", "script"} PROVE Digests(d, s, j, f)
    BY DEF Digests
  <2>1. s.pc # "status"
    BY Zenon
  <2>2. \A v : Digest(c, r, f, v) => Digest(d, s, f, v)
    BY <2>1 DEF Digest
  <2>3. s.pc = "ran" => Digest(d, s, f, j.src)
    BY <2>2
  <2>4. s.result # "SUCCESS"
    BY ResultAssumption DEF IsRun
  <2> QED BY <2>2, <2>3, <2>4 DEF Ok, Digests, Streams
<1> QED BY <1>2, <1>3, <1>4, <1>5, <1>6, <1>7 DEF Ok

\* A plugin goes on, without a command, before it asks for a digest; its file's
\* content may be another one by then.
LEMMA GoesOnOk ==
  ASSUME NEW c \in ConType, NEW r, NEW s, NEW j, NEW f, NEW g, IsRun(r), IsRun(s),
         Ok(c, r, j, f), c.at = "ready", r.result = None, s.result = None,
         r.pc \in Local \cup {"start", "home"}, s.pc \in Local,
         s.exit = r.exit, s.code = r.code, s.pc \in {"fetch", "get"} => j.plugin = "fetch"
  PROVE  Ok(c, s, j, g)
<1>1. RunsOnce(c, s)
  <2>1. Called(r) \subseteq Called(s) /\ Called(s) = {"home"}
    BY DEF Called, Local
  <2>2. Unsent(c, s) \subseteq Unsent(c, r)
    BY <2>1 DEF Unsent
  <2> QED BY <2>2 DEF Ok, RunsOnce
<1>2. Marked(c) /\ NoneSent(c) /\ Dialogue(c) /\ Idles(c, s)
  BY DEF Ok, Idles
<1>3. Asked(c, s)
  BY DEF Ok, Asked, CalledFor, Local
<1>4. Verdict(c, s, j) /\ Plain(c, s, j)
  BY DEF Ok, Verdict, Plain, Local
<1>5. Digests(c, s, j, g)
  <2>1. \A v : ~Digest(c, r, f, v)
    BY DEF Digest, Local
  <2>2. s.pc # "ran" /\ s.result # "SUCCESS"
    BY ResultAssumption DEF Local, IsRun
  <2> QED BY <2>1, <2>2 DEF Ok, Digests
<1> QED BY <1>1, <1>2, <1>3, <1>4, <1>5 DEF Ok

\* A plugin ends.
LEMMA ResultOk ==
  ASSUME NEW c \in ConType, NEW d \in ConType, NEW r, NEW s, NEW j, NEW f, IsRun(r), IsRun(s),
         Ok(c, r, j, f), r.result = None, s.result # None,
         d.at = c.at, d.then = c.then, Keeps(c, d), Streams(c, d), d.marks = c.marks,
         s.pc = r.pc, s.code = r.code, s.touched = r.touched,
         s.exit /\ j.plugin = "shell" /\ c.marks = {} => r.pc = "status" /\ r.code = 0,
         s.result = "SUCCESS" /\ j.plugin \in {"copy", "script"} => Digest(c, r, f, j.src)
  PROVE  Ok(d, s, j, f)
<1>1. \A t : Coming(d, t) <=> Coming(c, t)
  BY DEF Coming, Streams
<1>2. RunsOnce(d, s)
  <2>1. Unsent(d, s) = Unsent(c, r)
    BY DEF Unsent, Pending, Called, LoginFor, Keeps
  <2> QED BY <1>1, <2>1 DEF Ok, RunsOnce, Streams, Keeps
<1>3. Marked(d) /\ Asked(d, s) /\ NoneSent(d) /\ Idles(d, s)
  BY <1>1 DEF Ok, Marked, Asked, NoneSent, Idles, LoginFor, CalledFor, Keeps
<1>4. Plain(d, s, j)
  BY DEF Ok, Plain, Keeps
<1>5. Dialogue(d)
  BY DEF Ok, Dialogue, Clean, Quiet, Exchange, IsReply, Streams, Keeps
<1>6. Verdict(d, s, j)
  BY DEF Ok, Verdict, HasRun, Streams, Keeps
<1>7. Digests(d, s, j, f)
  <2>1. \A v : Digest(c, r, f, v) => Digest(d, s, f, v)
    BY DEF Digest, Keeps
  <2> QED BY <2>1 DEF Ok, Digests, Streams
<1> QED BY <1>2, <1>3, <1>4, <1>5, <1>6, <1>7 DEF Ok

\* Another executor changes the file, and so touches what was read of it.
LEMMA TouchedOk ==
  ASSUME NEW c, NEW r, NEW s, NEW j, NEW f, NEW g, Ok(c, r, j, f), s.pc = r.pc,
         s.code = r.code, s.exit = r.exit, s.result = r.result,
         s.touched \/ (f = g /\ ~r.touched)
  PROVE  Ok(c, s, j, g)
<1>1. Unsent(c, s) = Unsent(c, r)
  BY DEF Unsent, Called
<1>2. RunsOnce(c, s) /\ Marked(c) /\ Asked(c, s) /\ NoneSent(c) /\ Dialogue(c) /\ Idles(c, s)
  BY <1>1 DEF Ok, RunsOnce, Asked, CalledFor, Idles
<1>3. Verdict(c, s, j) /\ Plain(c, s, j)
  BY DEF Ok, Verdict, Plain, HasRun
<1>4. Digests(c, s, j, g)
  <2>1. \A v : Digest(c, r, f, v) => Digest(c, s, g, v)
    BY DEF Digest
  <2> QED BY <2>1 DEF Ok, Digests
<1> QED BY <1>2, <1>3, <1>4 DEF Ok

-----------------------------------------------------------------------------
\* The steps of a connection.

LEMMA SameOk ==
  ASSUME NEW c, NEW d, NEW r, NEW j, NEW f, Ok(c, r, j, f), d.at = c.at, d.then = c.then,
         Keeps(c, d), Streams(c, d), d.marks = c.marks
  PROVE  Ok(d, r, j, f)
<1>1. Unsent(d, r) = Unsent(c, r) /\ \A t : Coming(d, t) <=> Coming(c, t)
  BY DEF Unsent, Pending, LoginFor, Coming, Keeps, Streams
<1>2. RunsOnce(d, r) /\ Marked(d) /\ Asked(d, r) /\ NoneSent(d) /\ Idles(d, r) /\ Plain(d, r, j)
  BY <1>1 DEF Ok, RunsOnce, Marked, Asked, NoneSent, Idles, Plain, LoginFor, Keeps, Streams
<1>3. Dialogue(d)
  BY DEF Ok, Dialogue, Clean, Quiet, Exchange, IsReply, Keeps, Streams
<1>4. Verdict(d, r, j)
  BY DEF Ok, Verdict, HasRun, Keeps, Streams
<1>5. Digests(d, r, j, f)
  <2>1. \A v : Digest(d, r, f, v) <=> Digest(c, r, f, v)
    BY DEF Digest, Keeps
  <2> QED BY <2>1 DEF Ok, Digests, Streams
<1> QED BY <1>2, <1>3, <1>4, <1>5 DEF Ok

LEMMA TypesFields ==
  ASSUME NEW c \in ConType, \A t \in Command : ~Coming(c, t)
  PROVE  LET d == Types(c) IN
         /\ d \in ConType /\ d.at = c.at /\ d.then = c.then /\ Keeps(c, d) /\ d.screen = c.screen
         /\ d.reply = c.reply /\ d.marks = c.marks /\ \A t \in Command : ~Coming(d, t)
<1> DEFINE q == c.coming  e == <<Echo>>  p == <<Echo, Prompt>>
           s == IF q = <<>> THEN q ELSE e \o q
           z == s \o p
<1>1. q \in Seq(Item) /\ e \in Seq(Item) /\ p \in Seq(Item)
  BY DEF ConType, Echo, Prompt, Item, Own
<1>2. /\ \A i \in DOMAIN q : q[i][1] \notin Command
      /\ \A i \in DOMAIN e : e[i][1] \notin Command
      /\ \A i \in DOMAIN p : p[i][1] \notin Command
  BY DEF Coming, Echo, Prompt, Command
<1> HIDE DEF q, e, p
<1>3. s \in Seq(Item) /\ \A i \in DOMAIN s : s[i][1] \notin Command
  <2>1. CASE q = <<>>
    BY <1>1, <1>2, <2>1
  <2>2. CASE q # <<>>
    <3>1. s = e \o q
      BY <2>2
    <3>2. e \o q \in Seq(Item) /\ DOMAIN (e \o q) = 1..(Len(e) + Len(q)) /\ Len(e) \in Nat
          /\ Len(q) \in Nat
      BY <1>1
    <3>3. \A i \in 1..(Len(e) + Len(q)) : (e \o q)[i] = IF i <= Len(e) THEN e[i] ELSE q[i - Len(e)]
      BY <1>1
    <3>4. DOMAIN e = 1..Len(e) /\ DOMAIN q = 1..Len(q)
      BY <1>1
    <3>5. ASSUME NEW i \in 1..(Len(e) + Len(q)) PROVE (e \o q)[i][1] \notin Command
      <4>1. CASE i <= Len(e)
        BY <1>2, <3>2, <3>3, <3>4, <4>1
      <4>2. CASE ~(i <= Len(e))
        <5>1. i - Len(e) \in DOMAIN q
          BY <3>2, <3>4, <4>2
        <5> QED BY <1>2, <3>3, <4>2, <5>1
      <4> QED BY <4>1, <4>2
    <3> QED BY <3>1, <3>2, <3>5
  <2> QED BY <2>1, <2>2
<1> HIDE DEF s
<1>4. z \in Seq(Item) /\ \A i \in DOMAIN z : z[i][1] \notin Command
  <3>2. s \o p \in Seq(Item) /\ DOMAIN (s \o p) = 1..(Len(s) + Len(p)) /\ Len(s) \in Nat
        /\ Len(p) \in Nat
    BY <1>1, <1>3
  <3>3. \A i \in 1..(Len(s) + Len(p)) : (s \o p)[i] = IF i <= Len(s) THEN s[i] ELSE p[i - Len(s)]
    BY <1>1, <1>3
  <3>4. DOMAIN s = 1..Len(s) /\ DOMAIN p = 1..Len(p)
    BY <1>1, <1>3
  <3>5. ASSUME NEW i \in 1..(Len(s) + Len(p)) PROVE (s \o p)[i][1] \notin Command
    <4>1. CASE i <= Len(s)
      BY <1>3, <3>2, <3>3, <3>4, <4>1
    <4>2. CASE ~(i <= Len(s))
      <5>1. i - Len(s) \in DOMAIN p
        BY <3>2, <3>4, <4>2
      <5> QED BY <1>2, <3>3, <4>2, <5>1
    <4> QED BY <4>1, <4>2
  <3> QED BY <3>2, <3>5
<1> HIDE DEF z
<1>5. LET d == [c EXCEPT !.coming = z] IN
         /\ d \in ConType /\ d.at = c.at /\ d.then = c.then /\ Keeps(c, d) /\ d.screen = c.screen
         /\ d.reply = c.reply /\ d.marks = c.marks /\ d.coming = z
  BY <1>4 DEF ConType, Keeps
<1>6. Types(c) = IF ~c.up THEN c ELSE [c EXCEPT !.coming = z]
  BY DEF Types, z, s, q, e, p
<1>7. CASE ~c.up
  BY <1>6, <1>7 DEF Keeps
<1>8. CASE c.up
  <2>1. \A t \in Command : ~Coming([c EXCEPT !.coming = z], t)
    BY <1>4, <1>5 DEF Coming
  <2> QED BY <1>5, <1>6, <1>8, <2>1
<1> QED BY <1>7, <1>8

\* The connection of x moves on, as one of which the invariant holds.
StaysOk(x) == \E d \in ConType : Becomes(x, d) /\ Ok(d, run[x], job[x], Content(x))

LEMMA OfOne ==
  ASSUME ShellInv, NEW x \in Executors
  PROVE  con[x] \in ConType /\ IsRun(run[x]) /\ Ok(con[x], run[x], job[x], Content(x))
BY DEF ShellInv, ShellShape

LEMMA OpensOk ==
  ASSUME NEW c \in ConType, NEW r, NEW j, NEW f, IsRun(r), Ok(c, r, j, f), c.at \in {"new", "again"}
  PROVE  /\ Opens(c, "ready") \in ConType /\ Ok(Opens(c, "ready"), r, j, f)
         /\ Opens(c, "ready").at = "ask"
<1> DEFINE o == Opens(c, "ready")
<1>1. /\ o \in ConType /\ o.at = "ask" /\ o.then = "ready" /\ o.cmd = c.cmd /\ o.how = c.how
      /\ o.ran = c.ran /\ o.coming = <<Shell>> /\ o.screen = <<>> /\ o.reply = c.reply
      /\ o.marks = c.marks
  BY OpensFields
<1> HIDE DEF o
<1>2. \A i \in DOMAIN <<Shell>> : <<Shell>>[i] = Shell
  OBVIOUS
<1>3. \A t \in Command : ~Coming(o, t)
  BY <1>1, <1>2 DEF Coming, Shell, Command
<1>4. Ok(o, r, j, f)
  BY <1>1, <1>3, LoginStep DEF Login
<1> QED BY <1>1, <1>4 DEF o

\* A step that only changes where the login is.
LEMMA LoginMoves ==
  ASSUME NEW c \in ConType, NEW d \in ConType, NEW r, NEW j, NEW f, IsRun(r), Ok(c, r, j, f),
         c.at \in Login \cup {"new", "again"},
         d.at \in Login \cup {"again", "raised", "relogin"},
         d.at \in Login => c.at \in Login,
         d.at = "again" => c.at \in {"new", "again"},
         d.at = "relogin" => LoginFor(c, "resend"),
         d.then = c.then, Keeps(c, d), Streams(c, d), d.marks = c.marks
  PROVE  Ok(d, r, j, f)
<1>1. \A t \in Command : ~Coming(d, t)
  BY DEF Ok, NoneSent, Coming, Streams
<1>2. d.at \notin {"ready", "resend"}
  BY DEF Login
<1> QED BY <1>1, <1>2, LoginStep DEF Keeps, Streams

LEMMA ConnectStays ==
  ASSUME ShellInv, NEW x \in Executors, FirstConnect(x) \/ Reconnect(x)
  PROVE  StaysOk(x)
<1> DEFINE c == con[x]  r == run[x]  j == job[x]  f == Content(x)
<1>1. c \in ConType /\ IsRun(r) /\ Ok(c, r, j, f)
  BY OfOne
<1>2. c.at \in {"new", "again"} /\ c.tried \in Nat /\ c.tried + 1 \in Nat
  BY <1>1 DEF FirstConnect, Reconnect, ConType
<1> HIDE DEF c, r, j, f
<1>3. Opens(c, "ready") \in ConType /\ Ok(Opens(c, "ready"), r, j, f)
  BY <1>1, <1>2, OpensOk
<1>4. LET d == [Opens(c, "ready") EXCEPT !.sftp = TRUE] IN d \in ConType /\ Ok(d, r, j, f)
  <2>1. PICK o \in ConType : o = Opens(c, "ready")
    BY <1>3
  <2> DEFINE d == [o EXCEPT !.sftp = TRUE]
  <2>2. d \in ConType /\ d.at = o.at /\ d.then = o.then /\ Keeps(o, d) /\ Streams(o, d)
        /\ d.marks = o.marks
    BY SftpFields
  <2> HIDE DEF d
  <2>3. Ok(d, r, j, f)
    BY <1>3, <2>1, <2>2, SameOk
  <2> QED BY <2>1, <2>2, <2>3 DEF d
<1>5. LET d == [c EXCEPT !.at = "raised"] IN d \in ConType /\ Ok(d, r, j, f)
  <2> DEFINE d == [c EXCEPT !.at = "raised"]
  <2>1. d \in ConType /\ d.at = "raised" /\ d.then = c.then /\ Keeps(c, d) /\ Streams(c, d)
        /\ d.marks = c.marks
    BY <1>1, AtFields DEF Waiting
  <2> HIDE DEF d
  <2>2. Ok(d, r, j, f)
    BY <1>1, <1>2, <2>1, LoginMoves DEF Login
  <2> QED BY <2>1, <2>2 DEF d
<1>6. ASSUME NEW n \in Nat
      PROVE  LET d == [c EXCEPT !.at = "again", !.tried = n] IN d \in ConType /\ Ok(d, r, j, f)
  <2> DEFINE d == [c EXCEPT !.at = "again", !.tried = n]
  <2>1. d \in ConType /\ d.at = "again" /\ d.then = c.then /\ Keeps(c, d) /\ Streams(c, d)
        /\ d.marks = c.marks
    BY <1>1, <1>6 DEF ConType, Keeps, Streams, Waiting
  <2> HIDE DEF d
  <2>2. Ok(d, r, j, f)
    BY <1>1, <1>2, <2>1, LoginMoves DEF Login
  <2> QED BY <2>1, <2>2 DEF d
<1>7. LET d == [c EXCEPT !.tried = c.tried + 1] IN d \in ConType /\ Ok(d, r, j, f)
  <2> DEFINE d == [c EXCEPT !.tried = c.tried + 1]
  <2>1. d \in ConType /\ d.at = c.at /\ d.then = c.then /\ Keeps(c, d) /\ Streams(c, d)
        /\ d.marks = c.marks
    BY <1>1, <1>2 DEF ConType, Keeps, Streams
  <2> HIDE DEF d
  <2>2. Ok(d, r, j, f)
    BY <1>1, <2>1, SameOk
  <2> QED BY <2>1, <2>2 DEF d
<1>8. CASE FirstConnect(x)
  BY <1>3, <1>4, <1>5, <1>6, <1>8 DEF FirstConnect, Goes, StaysOk, c, r, j, f
<1>9. CASE Reconnect(x)
  BY <1>3, <1>5, <1>7, <1>9 DEF Reconnect, Goes, StaysOk, c, r, j, f
<1> QED BY <1>8, <1>9

LEMMA AskStays ==
  ASSUME ShellInv, NEW x \in Executors, Ask(x)
  PROVE  StaysOk(x)
<1> DEFINE c == con[x]  r == run[x]  j == job[x]  f == Content(x)
<1>1. c \in ConType /\ IsRun(r) /\ Ok(c, r, j, f)
  BY OfOne
<1>2. c.at \in {"ask", "ask again"}
  BY DEF Ask
<1>3. \/ Becomes(x, [Types(c) EXCEPT !.at = IF @ = "ask" THEN "hear" ELSE "settle"])
      \/ Becomes(x, [c EXCEPT !.at = IF c.then = "resend" THEN "relogin" ELSE "raised"])
  BY DEF Ask, Goes
<1> HIDE DEF c, r, j, f
<1>4. \A t \in Command : ~Coming(c, t)
  BY <1>1, <1>2 DEF Ok, NoneSent, Login
<1>5. CASE Becomes(x, [Types(c) EXCEPT !.at = IF @ = "ask" THEN "hear" ELSE "settle"])
  <2> DEFINE y == Types(c)
  <2>1. /\ y \in ConType /\ y.at = c.at /\ y.then = c.then /\ Keeps(c, y) /\ y.screen = c.screen
        /\ y.reply = c.reply /\ y.marks = c.marks /\ \A t \in Command : ~Coming(y, t)
    BY <1>1, <1>4, TypesFields
  <2> HIDE DEF y
  <2> DEFINE at == IF y.at = "ask" THEN "hear" ELSE "settle"
             d == [y EXCEPT !.at = at]
  <2>5. at \in {"hear", "settle"} /\ at \in Login \cup Waiting
    BY DEF Login
  <2>6. Becomes(x, d)
    BY <1>5 DEF y
  <2> HIDE DEF at
  <2>2. /\ d \in ConType /\ d.at \in {"hear", "settle"} /\ d.then = y.then /\ Keeps(y, d)
        /\ Streams(y, d) /\ d.marks = y.marks
    BY <2>1, <2>5, AtFields
  <2> HIDE DEF d
  <2>3. \A t \in Command : ~Coming(d, t)
    BY <2>1, <2>2 DEF Coming, Streams
  <2>4. Ok(d, r, j, f)
    BY <1>1, <1>2, <2>1, <2>2, <2>3, LoginStep DEF Login, Keeps, Streams
  <2> QED BY <2>2, <2>4, <2>6 DEF StaysOk, r, j, f
<1>6. CASE Becomes(x, [c EXCEPT !.at = IF c.then = "resend" THEN "relogin" ELSE "raised"])
  <2> DEFINE at == IF c.then = "resend" THEN "relogin" ELSE "raised"
             d == [c EXCEPT !.at = at]
  <2>1. at \in {"relogin", "raised"} /\ (at = "relogin" => c.then = "resend")
    OBVIOUS
  <2> HIDE DEF at
  <2>2. d \in ConType /\ d.at = at /\ d.then = c.then /\ Keeps(c, d) /\ Streams(c, d)
        /\ d.marks = c.marks
    BY <1>1, <2>1, AtFields DEF Waiting
  <2> HIDE DEF d
  <2>3. Ok(d, r, j, f)
    BY <1>1, <1>2, <2>1, <2>2, LoginMoves DEF Login, LoginFor
  <2> QED BY <1>6, <2>2, <2>3 DEF StaysOk, d, at, r, j, f
<1> QED BY <1>3, <1>5, <1>6

LEMMA HearStays ==
  ASSUME ShellInv, NEW x \in Executors, Hear(x)
  PROVE  StaysOk(x)
<1> DEFINE c == con[x]  r == run[x]  j == job[x]  f == Content(x)  e == ReadUntil(c, Own \cup {"#"})
<1>1. c \in ConType /\ IsRun(r) /\ Ok(c, r, j, f)
  BY OfOne
<1>2. /\ c.at \in {"hear", "hear more"}
      /\ \E at \in {"hear more", "ask again"} : Becomes(x, [e EXCEPT !.at = at])
  BY DEF Hear
<1>3. PICK at \in {"hear more", "ask again"} : Becomes(x, [e EXCEPT !.at = at])
  BY <1>2
<1> HIDE DEF c, r, j, f
<1>4. /\ e \in ConType /\ e.then = c.then /\ Keeps(c, e) /\ e.coming = c.coming
      /\ e.screen = <<>> /\ e.reply = c.screen /\ e.marks = c.marks
  BY <1>1, ReadFields
<1> HIDE DEF e
<1> DEFINE d == [e EXCEPT !.at = at]
<1>5. d \in ConType /\ d.at = at /\ d.then = e.then /\ Keeps(e, d) /\ Streams(e, d)
      /\ d.marks = e.marks
  BY <1>4, AtFields DEF Login
<1> HIDE DEF d
<1>6. \A t \in Command : ~Coming(d, t)
  BY <1>1, <1>2, <1>4, <1>5 DEF Ok, NoneSent, Coming, Streams, Login
<1>7. Ok(d, r, j, f)
  BY <1>1, <1>2, <1>4, <1>5, <1>6, LoginStep DEF Login, Keeps, Streams
<1> QED BY <1>3, <1>5, <1>7 DEF StaysOk, d, e, r, j, f

LEMMA SettleStays ==
  ASSUME ShellInv, NEW x \in Executors, Settle(x)
  PROVE  StaysOk(x)
<1> DEFINE c == con[x]  r == run[x]  j == job[x]  f == Content(x)  e == ReadUntil(c, Own)
<1>1. c \in ConType /\ IsRun(r) /\ Ok(c, r, j, f)
  BY OfOne
<1>2. /\ c.at \in {"settle", "settle second", "settle last"}
      /\ \/ Becomes(x, LoggedIn(e))
         \/ \E at \in {"settle second", "settle last"} : Becomes(x, [e EXCEPT !.at = at])
  BY DEF Settle
<1> HIDE DEF c, r, j, f
<1>3. /\ e \in ConType /\ e.then = c.then /\ Keeps(c, e) /\ e.coming = c.coming
      /\ e.screen = <<>> /\ e.reply = c.screen /\ e.marks = c.marks
  BY <1>1, ReadFields
<1> HIDE DEF e
<1>4. CASE Becomes(x, LoggedIn(e))
  <2> DEFINE m == IF e.coming = <<>> THEN e.marks ELSE e.marks \cup {"unread"}
             at == e.then
             d == [e EXCEPT !.at = at, !.marks = m]
  <2>1. /\ m \in SUBSET {"unread", "late", "anew", "repeated"} /\ e.marks \subseteq m
        /\ "unread" \notin m => e.coming = <<>>
        /\ "repeated" \in m => "repeated" \in e.marks
    BY <1>3 DEF ConType
  <2>2. at \in {"ready", "resend"} /\ at \in Login \cup Waiting /\ at = e.then
    BY <1>3 DEF ConType, Waiting
  <2>3. LoggedIn(e) = d
    BY <1>3 DEF LoggedIn
  <2> HIDE DEF m, at
  <2>4. /\ d \in ConType /\ d.at = at /\ d.then = e.then /\ Keeps(e, d) /\ Streams(e, d)
        /\ d.marks = m
    BY <1>3, <2>1, <2>2 DEF ConType, Keeps, Streams
  <2> HIDE DEF d
  <2>5. \A t \in Command : ~Coming(d, t)
    BY <1>1, <1>2, <1>3, <2>4 DEF Ok, NoneSent, Coming, Streams, Login
  <2>6. Clean(d) => Quiet(d)
    BY <1>3, <2>1, <2>4 DEF Clean, Quiet, Streams
  <2>7. Ok(d, r, j, f)
    <3>1. /\ d.at \in {"ready", "resend"} /\ c.at \in Login
             /\ (d.at = "ready" <=> LoginFor(c, "ready"))
          /\ (d.at = "resend" <=> LoginFor(c, "resend"))
      BY <1>2, <1>3, <2>2, <2>4 DEF Login, LoginFor
    <3>2. d.cmd = c.cmd /\ d.how = c.how /\ d.ran = c.ran /\ d.reply = c.screen /\ d.screen = <<>>
      BY <1>3, <2>4 DEF Keeps, Streams
    <3>3. c.marks \subseteq d.marks /\ ("repeated" \in d.marks => "repeated" \in c.marks)
      BY <1>3, <2>1, <2>4
    <3>4. d.at \notin Login \cup {"again", "relogin"}
      BY <3>1 DEF Login
    <3> QED BY <1>1, <2>4, <2>5, <2>6, <3>1, <3>2, <3>3, <3>4, LoginStep
  <2> QED BY <1>4, <2>3, <2>4, <2>7 DEF StaysOk, e, r, j, f
<1>5. CASE \E at \in {"settle second", "settle last"} : Becomes(x, [e EXCEPT !.at = at])
  <2>1. PICK at \in {"settle second", "settle last"} : Becomes(x, [e EXCEPT !.at = at])
    BY <1>5
  <2> DEFINE d == [e EXCEPT !.at = at]
  <2>2. d \in ConType /\ d.at = at /\ d.then = e.then /\ Keeps(e, d) /\ Streams(e, d)
        /\ d.marks = e.marks
    BY <1>3, AtFields DEF Login
  <2> HIDE DEF d
  <2>3. \A t \in Command : ~Coming(d, t)
    BY <1>1, <1>2, <1>3, <2>2 DEF Ok, NoneSent, Coming, Streams, Login
  <2>4. Ok(d, r, j, f)
    BY <1>1, <1>2, <1>3, <2>2, <2>3, LoginStep DEF Login, Keeps, Streams
  <2> QED BY <2>1, <2>2, <2>4 DEF StaysOk, d, e, r, j, f
<1> QED BY <1>2, <1>4, <1>5

\* A session whose channel is found closed is given up, or begun anew.
LEMMA ClosedStays ==
  ASSUME NEW c \in ConType, NEW r, NEW j, NEW f, IsRun(r), Ok(c, r, j, f),
         c.at \in {"send", "resend", "relogin"}
  PROVE  Closed(c) \in ConType /\ Ok(Closed(c), r, j, f)
<1> DEFINE again == IF c.how = "cmd" THEN c.at = "send" ELSE c.tried < Tries
           at == IF again THEN "relogin" ELSE "raised"
           n == IF again THEN c.tried + 1 ELSE c.tried
           d == [c EXCEPT !.at = at, !.tried = n]
<1>1. at \in {"relogin", "raised"} /\ n \in Nat /\ at \in Login \cup Waiting
  BY DEF ConType, Waiting
<1>2. Closed(c) = d
  BY DEF Closed
<1> HIDE DEF at, n
<1>3. d \in ConType /\ d.at = at /\ d.then = c.then /\ Keeps(c, d) /\ Streams(c, d)
      /\ d.marks = c.marks
  BY <1>1 DEF ConType, Keeps, Streams
<1> HIDE DEF d
<1>4. ~(r.result = None /\ r.pc \in Local)
  BY DEF Ok, Idles
<1>5. Ok(d, r, j, f)
  BY <1>1, <1>3, <1>4, AwayOk DEF Login, Keeps, Streams
<1> QED BY <1>2, <1>3, <1>5

LEMMA SendStays ==
  ASSUME ShellInv, NEW x \in Executors, run[x].result = None, Send(x)
  PROVE  StaysOk(x)
<1> DEFINE c == con[x]  r == run[x]  j == job[x]  f == Content(x)
<1>1. c \in ConType /\ IsRun(r) /\ Ok(c, r, j, f) /\ r.result = None
  BY OfOne
<1>2. /\ c.at \in {"send", "resend"}
      /\ \/ \E z \in {c.coming, c.coming \o << <<c.cmd, None>>, Prompt >>} :
              Becomes(x, [c EXCEPT !.at = "reply", !.coming = z])
         \/ Becomes(x, Closed(c))
  BY DEF Send
<1> HIDE DEF c, r, j, f
<1>3. CASE Becomes(x, Closed(c))
  BY <1>1, <1>2, <1>3, ClosedStays DEF StaysOk, r, j, f
<1>4. ASSUME NEW z \in {c.coming, c.coming \o << <<c.cmd, None>>, Prompt >>},
             Becomes(x, [c EXCEPT !.at = "reply", !.coming = z])
      PROVE  StaysOk(x)
  <2> DEFINE q == c.coming  p == << <<c.cmd, None>>, Prompt >>
             d == [c EXCEPT !.at = "reply", !.coming = z]
  <2>1. q \in Seq(Item) /\ p \in Seq(Item)
    BY <1>1 DEF ConType, Item, Prompt, Own
  <2>2. z \in {q, q \o p}
    BY <1>4
  <2> HIDE DEF q, p
  <2>7. q \o p \in Seq(Item)
    BY <2>1
  <2>3. z \in Seq(Item)
    BY <2>1, <2>2, <2>7
  <2>4. /\ d \in ConType /\ d.at = "reply" /\ d.then = c.then /\ Keeps(c, d) /\ d.coming = z
        /\ d.screen = c.screen /\ d.reply = c.reply /\ d.marks = c.marks
    BY <1>1, <2>3 DEF ConType, Keeps, Waiting
  <2> HIDE DEF d
  <2>5. \/ d.coming = c.coming
        \/ d.coming = c.coming \o << <<c.cmd, None>>, Prompt >>
    BY <1>4, <2>4
  <2>6. Ok(d, r, j, f)
    BY <1>1, <1>2, <2>4, <2>5, SendOk
  <2> QED BY <1>4, <2>4, <2>6 DEF StaysOk, d, r, j, f
<1> QED BY <1>2, <1>3, <1>4

LEMMA ReplyStays ==
  ASSUME ShellInv, NEW x \in Executors, run[x].result = None, Reply(x)
  PROVE  StaysOk(x)
<1> DEFINE c == con[x]  r == run[x]  j == job[x]  f == Content(x)
           e == ReadUntil(c, {"prompt"})
           late == IF Heard(c, {"prompt"}) THEN {} ELSE {"late"}
           m == e.marks \cup late
<1>1. c \in ConType /\ IsRun(r) /\ Ok(c, r, j, f) /\ r.result = None
  BY OfOne
<1>2. /\ c.at = "reply"
      /\ \/ /\ c.how = "retry" /\ ~Heard(c, {"prompt"})
            /\ Becomes(x, [e EXCEPT !.at = "relogin", !.tried = e.tried + 1, !.marks = m])
         \/ Becomes(x, [e EXCEPT !.at = IF e.how = "retry" /\ late # {} THEN "raised" ELSE "ready",
                                 !.marks = m])
  BY DEF Reply, Repeats, Awaited
<1>3. /\ e \in ConType /\ e.at = c.at /\ e.then = c.then /\ Keeps(c, e) /\ e.coming = c.coming
      /\ e.screen = <<>> /\ e.reply = c.screen /\ e.marks = c.marks /\ e.tried = c.tried
  BY <1>1, ReadFields
<1>4. late \subseteq {"late"} /\ (Heard(c, {"prompt"}) \/ "late" \in late)
  OBVIOUS
<1> HIDE DEF c, r, j, f, e, late
<1>5. /\ m \in SUBSET {"unread", "late", "anew", "repeated"} /\ c.marks \subseteq m
      /\ "repeated" \in m => "repeated" \in c.marks
      /\ Heard(c, {"prompt"}) \/ "late" \in m
  BY <1>3, <1>4 DEF ConType
<1> HIDE DEF m
<1>6. ~(r.result = None /\ r.pc \in Local)
  BY <1>1, <1>2 DEF Ok, Idles
<1>7. CASE /\ c.how = "retry" /\ ~Heard(c, {"prompt"})
           /\ Becomes(x, [e EXCEPT !.at = "relogin", !.tried = e.tried + 1, !.marks = m])
  <2> DEFINE n == e.tried + 1  d == [e EXCEPT !.at = "relogin", !.tried = n, !.marks = m]
  <2>1. n \in Nat
    BY <1>3 DEF ConType
  <2> HIDE DEF n
  <2>2. /\ d \in ConType /\ d.at = "relogin" /\ d.then = e.then /\ Keeps(e, d) /\ Streams(e, d)
        /\ d.marks = m
    BY <1>3, <1>5, <2>1 DEF ConType, Keeps, Streams, Waiting
  <2> HIDE DEF d
  <2>3. Ok(d, r, j, f)
    BY <1>1, <1>2, <1>3, <1>5, <1>6, <1>7, <2>2, AwayOk DEF Login, Keeps, Streams
  <2> QED BY <1>7, <2>2, <2>3 DEF StaysOk, d, n, r, j, f
<1>8. CASE Becomes(x, [e EXCEPT !.at = IF e.how = "retry" /\ late # {} THEN "raised" ELSE "ready",
                                !.marks = m])
  <2> DEFINE at == IF e.how = "retry" /\ late # {} THEN "raised" ELSE "ready"
             d == [e EXCEPT !.at = at, !.marks = m]
  <2>1. at \in {"raised", "ready"} /\ at \in Login \cup Waiting
    BY DEF Waiting
  <2> HIDE DEF at
  <2>2. /\ d \in ConType /\ d.at = at /\ d.then = e.then /\ Keeps(e, d) /\ Streams(e, d)
        /\ d.marks = m
    BY <1>3, <1>5, <2>1 DEF ConType, Keeps, Streams
  <2> HIDE DEF d
  <2>3. CASE at = "raised"
    <3>1. Ok(d, r, j, f)
      BY <1>1, <1>2, <1>3, <1>5, <1>6, <2>2, <2>3, AwayOk DEF Login, Keeps, Streams
    <3> QED BY <1>8, <2>2, <3>1 DEF StaysOk, d, at, r, j, f
  <2>4. CASE at = "ready"
    <3>1. Ok(d, r, j, f)
      BY <1>1, <1>2, <1>3, <1>5, <2>2, <2>4, ReplyOk DEF Keeps, Streams
    <3> QED BY <1>8, <2>2, <3>1 DEF StaysOk, d, at, r, j, f
  <2> QED BY <2>1, <2>3, <2>4
<1> QED BY <1>2, <1>7, <1>8

LEMMA ReloginStays ==
  ASSUME ShellInv, NEW x \in Executors, Relogin(x)
  PROVE  StaysOk(x)
<1> DEFINE c == con[x]  r == run[x]  j == job[x]  f == Content(x)
           marks == {"anew"} \cup (IF c.how = "retry" THEN {"repeated"} ELSE {})
<1>1. c \in ConType /\ IsRun(r) /\ Ok(c, r, j, f)
  BY OfOne
<1>2. c.at = "relogin"
  BY DEF Relogin
<1>3. PICK done \in SUBSET Outstanding(c) :
        \/ Becomes(x, [Opens(Lost(c, done), "resend") EXCEPT !.marks = @ \cup marks])
        \/ Becomes(x, Closed(Lost(c, done)))
  BY DEF Relogin
<1> DEFINE l == Lost(c, done)  o == Opens(l, "resend")
<1>4. \/ Becomes(x, [o EXCEPT !.marks = o.marks \cup marks])
      \/ Becomes(x, Closed(l))
  BY <1>3
<1> HIDE DEF c, r, j, f
<1>5. /\ l \in ConType /\ l.at = c.at /\ l.how = c.how /\ l.coming = <<>> /\ l.marks = c.marks
  BY <1>1, LostFields
<1>6. Ok(l, r, j, f)
  BY <1>1, LostOk
<1> HIDE DEF l
<1>7. o.marks = l.marks
  BY <1>5, OpensFields
<1>8. CASE Becomes(x, [o EXCEPT !.marks = o.marks \cup marks])
  <2> DEFINE m == o.marks \cup marks
  <2>1. m = l.marks \cup {"anew"} \cup (IF l.how = "retry" THEN {"repeated"} ELSE {})
    BY <1>5, <1>7
  <2> HIDE DEF m
  <2>2. LET d == [Opens(l, "resend") EXCEPT !.marks = m] IN d \in ConType /\ Ok(d, r, j, f)
    BY <1>1, <1>2, <1>5, <1>6, <2>1, ReopensOk
  <2> QED BY <1>8, <2>2 DEF StaysOk, m, r, j, f
<1>9. CASE Becomes(x, Closed(l))
  BY <1>1, <1>2, <1>5, <1>6, <1>9, ClosedStays DEF StaysOk, r, j, f
<1> QED BY <1>4, <1>8, <1>9

LEMMA BreakStays ==
  ASSUME ShellInv, NEW x \in Executors, Break(x)
  PROVE  StaysOk(x)
<1> DEFINE c == con[x]  r == run[x]  j == job[x]  f == Content(x)
<1>1. c \in ConType /\ IsRun(r) /\ Ok(c, r, j, f)
  BY OfOne
<1>2. PICK done \in SUBSET Outstanding(c) : Becomes(x, [Lost(c, done) EXCEPT !.breaks = @ - 1])
  BY DEF Break
<1>3. c.breaks > 0
  BY DEF Break
<1> DEFINE l == Lost(c, done)  n == l.breaks - 1  d == [l EXCEPT !.breaks = n]
<1>4. Becomes(x, d)
  BY <1>2
<1> HIDE DEF c, r, j, f
<1>5. l \in ConType
  BY <1>1, LostFields
<1>6. Ok(l, r, j, f)
  BY <1>1, LostOk
<1>7. n \in Nat
  BY <1>1, <1>3 DEF Lost, ConType
<1> HIDE DEF l, n
<1>8. d \in ConType /\ d.at = l.at /\ d.then = l.then /\ Keeps(l, d) /\ Streams(l, d)
      /\ d.marks = l.marks
  BY <1>5, <1>7, BreaksFields
<1> HIDE DEF d
<1>9. Ok(d, r, j, f)
  BY <1>6, <1>8, SameOk
<1> QED BY <1>4, <1>8, <1>9 DEF StaysOk, r, j, f

LEMMA ConnectionStays ==
  ASSUME ShellInv, NEW x \in Executors, run[x].result = None, ConnectionStep(x)
  PROVE  StaysOk(x)
BY ConnectStays, AskStays, HearStays, SettleStays, SendStays, ReplyStays, ReloginStays
   DEF ConnectionStep

-----------------------------------------------------------------------------
\* The plugins.

LEMMA JobOf ==
  ASSUME ShellInv, NEW x \in Executors
  PROVE  job[x] \in Job /\ x \in Executor /\ x \in Place
BY MixesAssumption DEF ShellInv, ShellShape, Executors, Place

\* A step of one executor that leaves the files alone.
LEMMA OneMoves ==
  ASSUME ShellInv, NEW x \in Executors, NEW d \in ConType, NEW s, IsRun(s), Becomes(x, d),
         Turns(x, s), UNCHANGED <<job, files>>, Ok(d, s, job[x], ContentOf(files[s.place]))
  PROVE  ShellInv'
<1>1. Executors' = Executors
  BY DEF Executors
<1>2. con' \in [Executors -> ConType] /\ con'[x] = d /\ \A y \in Executors \ {x} : con'[y] = con[y]
  BY DEF ShellInv, ShellShape, Becomes
<1>3. /\ run' = [y \in Executors |-> run'[y]] /\ run'[x] = s
      /\ \A y \in Executors \ {x} : run'[y] = run[y]
  BY DEF ShellInv, ShellShape, Turns
<1>4. ShellShape'
  BY <1>1, <1>2, <1>3 DEF ShellInv, ShellShape, IsFile, IsRun
<1>5. ASSUME NEW y \in Executors PROVE Ok(con'[y], run'[y], job'[y], Content(y)')
  <2>1. Content(y)' = ContentOf(files[run'[y].place])
    BY DEF Content, ContentOf
  <2>2. CASE y = x
    BY <1>2, <1>3, <2>1, <2>2
  <2>3. CASE y # x
    BY <1>2, <1>3, <2>1, <2>3 DEF ShellInv, Content
  <2> QED BY <2>2, <2>3
<1> QED BY <1>1, <1>4, <1>5 DEF ShellInv

\* A step of a connection.
LEMMA StaysMoves ==
  ASSUME ShellInv, NEW x \in Executors, StaysOk(x), UNCHANGED <<job, run, files>>
  PROVE  ShellInv'
<1>1. PICK d \in ConType : Becomes(x, d) /\ Ok(d, run[x], job[x], Content(x))
  BY DEF StaysOk
<1>2. Turns(x, run[x]) /\ IsRun(run[x])
  BY DEF ShellInv, ShellShape, Turns
<1> QED BY <1>1, <1>2, OneMoves DEF Content

\* A step that changes the file at p.
LEMMA FileMoves ==
  ASSUME ShellInv, NEW x \in Executors, NEW s, IsRun(s), UNCHANGED <<job, con>>,
         NEW p \in Place, s.place = p, Changes(x, p, s), NEW g, g # None => IsFile(g),
         files' = [files EXCEPT ![p] = g], Ok(con[x], s, job[x], ContentOf(g))
  PROVE  ShellInv'
<1>1. Executors' = Executors
  BY DEF Executors
<1>2. files' = [q \in Place |-> files'[q]] /\ files'[p] = g
      /\ \A q \in Place \ {p} : files'[q] = files[q]
  BY DEF ShellInv, ShellShape
<1>3. run' = [y \in Executors |-> run'[y]] /\ run'[x] = s
  BY DEF Changes
<1>4. ASSUME NEW y \in Executors \ {x}
      PROVE  /\ IsRun(run'[y]) /\ run'[y].pc = run[y].pc /\ run'[y].code = run[y].code
             /\ run'[y].exit = run[y].exit /\ run'[y].result = run[y].result
             /\ run'[y].place = run[y].place
             /\ run'[y].touched <=> run[y].touched \/ run[y].place = p
  <2>1. run'[y] = [run[y] EXCEPT !.touched = run[y].touched \/ run[y].place = p]
    BY DEF Changes
  <2>2. IsRun(run[y])
    BY DEF ShellInv, ShellShape
  <2> QED BY <2>1, <2>2 DEF IsRun
<1>5. ShellShape'
  <2>1. con' \in [Executors -> ConType] /\ job' \in Mixes
    BY DEF ShellInv, ShellShape
  <2>2. \A y \in Executors : IsRun(run'[y])
    BY <1>3, <1>4
  <2>3. \A q \in Place : files'[q] # None => IsFile(files'[q])
    BY <1>2 DEF ShellInv, ShellShape
  <2> QED BY <1>1, <1>2, <1>3, <2>1, <2>2, <2>3 DEF ShellShape, IsFile, IsRun
<1>6. ASSUME NEW y \in Executors PROVE Ok(con'[y], run'[y], job'[y], Content(y)')
  <2>1. Content(y)' = ContentOf(files'[run'[y].place])
    BY DEF Content, ContentOf
  <2>2. CASE y = x
    BY <1>2, <1>3, <2>1, <2>2
  <2>3. CASE y # x
    <3>1. Ok(con[y], run[y], job[y], Content(y)) /\ run[y].place \in Place
      BY DEF ShellInv, ShellShape, IsRun
    <3>2. run'[y].touched \/ (Content(y)' = Content(y) /\ ~run[y].touched)
      BY <1>2, <1>4, <2>1, <2>3, <3>1 DEF Content
    <3> QED BY <1>4, <2>3, <3>1, <3>2, TouchedOk
  <2> QED BY <2>2, <2>3
<1> QED BY <1>1, <1>5, <1>6 DEF ShellInv

\* A plugin that goes on without a command, where it is, or at another place.
LEMMA ToMoves ==
  ASSUME ShellInv, NEW x \in Executors, NEW s, IsRun(s), Turns(x, s), UNCHANGED <<job, con, files>>,
         con[x].at = "ready", run[x].result = None, s.result = None,
         run[x].pc \in Local \cup {"start", "home"}, s.pc \in Local,
         s.exit = run[x].exit, s.code = run[x].code,
         s.pc \in {"fetch", "get"} => job[x].plugin = "fetch"
  PROVE  ShellInv'
<1>1. con[x] \in ConType /\ IsRun(run[x]) /\ Ok(con[x], run[x], job[x], Content(x))
  BY OfOne
<1>2. Ok(con[x], s, job[x], ContentOf(files[s.place]))
  BY <1>1, GoesOnOk
<1>3. Becomes(x, con[x])
  BY DEF Becomes, ShellInv, ShellShape
<1> QED BY <1>1, <1>2, <1>3, OneMoves

\* A plugin that ends.
LEMMA ResultMoves ==
  ASSUME ShellInv, NEW x \in Executors,
         NEW result \in {"unconnected", "SUCCESS", "ERROR", "FAILED"},
         Result(x, result), UNCHANGED <<job, files>>, run[x].result = None,
         result = "SUCCESS" /\ job[x].plugin \in {"copy", "script"} =>
           Digest(con[x], run[x], Content(x), job[x].src)
  PROVE  ShellInv'
<1> DEFINE c == con[x]  r == run[x]  s == [r EXCEPT !.result = result]
           d == [c EXCEPT !.sftp = FALSE]
<1>1. c \in ConType /\ IsRun(r) /\ Ok(c, r, job[x], Content(x))
  BY OfOne
<1>2. Turns(x, s) /\ Becomes(x, d)
  BY DEF Result
<1>3. ~r.exit
  BY <1>1 DEF Ok, Plain
<1>4. ContentOf(files[r.place]) = Content(x)
  BY DEF Content
<1> HIDE DEF c, r
<1>5. /\ IsRun(s) /\ s.result = result /\ s.pc = r.pc /\ s.code = r.code /\ s.exit = r.exit
      /\ s.touched = r.touched /\ s.place = r.place
  BY <1>1 DEF IsRun
<1>6. d \in ConType /\ d.at = c.at /\ d.then = c.then /\ Keeps(c, d) /\ Streams(c, d)
      /\ d.marks = c.marks
  BY <1>1, SftpFields
<1> HIDE DEF s, d
<1>7. Ok(d, s, job[x], Content(x))
  BY <1>1, <1>3, <1>5, <1>6, ResultOk, ResultAssumption DEF c, r
<1> QED BY <1>2, <1>4, <1>5, <1>6, <1>7, OneMoves

\* A plugin that calls a command.
LEMMA CallMoves ==
  ASSUME ShellInv, NEW x \in Executors, NEW text \in Command, NEW how \in {"cmd", "retry"}, NEW to,
         Calls(x, text, how), run' = To(x, to), UNCHANGED <<job, files>>,
         con[x].at = "ready", run[x].result = None, job[x].plugin # "retry" => how = "cmd",
         \/ text = "home" /\ run[x].pc = "start" /\ to = "home"
         \/ text = "sum" /\ run[x].pc = "check" /\ to = "sum"
         \/ text = "run" /\ run[x].pc \in {"start", "sum"} /\ to = "ran"
         \/ text = "status" /\ run[x].pc = "ran" /\ to = "status" /\ job[x].plugin = "shell",
         to = "ran" /\ job[x].plugin \in {"copy", "script"} =>
           run[x].pc = "sum" /\ Digest(con[x], run[x], Content(x), job[x].src)
  PROVE  ShellInv'
<1> DEFINE c == con[x]  r == run[x]  s == [r EXCEPT !.pc = to]
           d == [c EXCEPT !.at = "send", !.cmd = text, !.how = how, !.tried = 0]
<1>1. c \in ConType /\ IsRun(r) /\ Ok(c, r, job[x], Content(x))
  BY OfOne
<1>2. Turns(x, s) /\ Becomes(x, d)
  BY DEF Turns, To, Calls
<1>3. ContentOf(files[r.place]) = Content(x)
  BY DEF Content
<1>4. /\ c.at = "ready" /\ r.result = None
      /\ \/ text = "home" /\ r.pc = "start" /\ to = "home"
         \/ text = "sum" /\ r.pc = "check" /\ to = "sum"
         \/ text = "run" /\ r.pc \in {"start", "sum"} /\ to = "ran"
         \/ text = "status" /\ r.pc = "ran" /\ to = "status" /\ job[x].plugin = "shell"
      /\ to = "ran" /\ job[x].plugin \in {"copy", "script"} =>
           r.pc = "sum" /\ Digest(c, r, Content(x), job[x].src)
  OBVIOUS
<1> HIDE DEF c, r
<1>5. to \in Pc
  BY <1>4 DEF Pc
<1>6. /\ IsRun(s) /\ s.result = None /\ s.pc = to /\ s.code = r.code /\ s.exit = r.exit
      /\ s.touched = r.touched /\ s.place = r.place
  BY <1>1, <1>4, <1>5 DEF IsRun
<1>7. /\ d \in ConType /\ d.at = "send" /\ d.cmd = text /\ d.how = how /\ d.then = c.then
      /\ d.ran = c.ran /\ d.code = c.code /\ d.marks = c.marks /\ Streams(c, d)
  BY <1>1 DEF ConType, Streams, Waiting
<1> HIDE DEF s, d
<1>8. /\ text \in Command \ Called(r) /\ CalledFor(s) = {text} /\ Called(s) \subseteq Command
      /\ Called(r) \cup {text} \subseteq Called(s)
  BY <1>4, <1>6 DEF Called, CalledFor, Command
<1>9. /\ s.pc \notin Local /\ s.pc # "start"
      /\ (s.pc = "status" => r.pc = "ran" /\ job[x].plugin = "shell")
      /\ (r.pc = "sum" => s.pc = "ran") /\ (r.pc = "ran" => s.pc = "status")
  BY <1>4, <1>6 DEF Local
<1>10. Ok(d, s, job[x], Content(x))
  BY <1>1, <1>4, <1>6, <1>7, <1>8, <1>9, CallOk
<1> QED BY <1>2, <1>3, <1>6, <1>7, <1>10, OneMoves

\* A plugin that goes on without a command.
LEMMA NextMoves ==
  ASSUME ShellInv, NEW x \in Executors, NEW to \in Local, run' = To(x, to),
         UNCHANGED <<job, con, files>>,
         con[x].at = "ready", run[x].result = None, run[x].pc \in Local \cup {"start", "home"},
         to \in {"fetch", "get"} => job[x].plugin = "fetch"
  PROVE  ShellInv'
<1> DEFINE r == run[x]  s == [r EXCEPT !.pc = to]
<1>1. IsRun(r) /\ r.result = None
  BY OfOne
<1>2. Turns(x, s)
  BY DEF Turns, To
<1> HIDE DEF r
<1>3. IsRun(s) /\ s.result = None /\ s.pc = to /\ s.code = r.code /\ s.exit = r.exit
  BY <1>1 DEF IsRun, Pc
<1> HIDE DEF s
<1> QED BY <1>1, <1>2, <1>3, ToMoves DEF r

\* A plugin that does not wait for a command finds the connection idle.
LEMMA IdleAt ==
  ASSUME ShellInv, NEW x \in Executors, NEW to \in Local, At(x, to)
  PROVE  con[x].at = "ready" /\ run[x].result = None /\ run[x].pc \in Local
BY OfOne DEF At, Ok, Idles

LEMMA BeginMoves ==
  ASSUME ShellInv, NEW x \in Executors, Begin(x)
  PROVE  ShellInv'
<1>1. /\ con[x].at = "ready" /\ run[x].result = None /\ run[x].pc = "start"
      /\ UNCHANGED <<job, files>>
  BY DEF Begin, Answered, At
<1>2. CASE job[x].plugin \in {"shell", "retry"} /\ run' = To(x, "ran")
           /\ Calls(x, "run", IF job[x].plugin = "retry" THEN "retry" ELSE "cmd")
  BY <1>1, <1>2, CallMoves DEF Command
<1>3. CASE job[x].plugin = "copy" /\ Calls(x, "home", "cmd") /\ run' = To(x, "home")
  BY <1>1, <1>3, CallMoves DEF Command
<1>4. CASE job[x].plugin = "copy" /\ run' = To(x, "source") /\ UNCHANGED con
  BY <1>1, <1>4, NextMoves DEF Local
<1>5. CASE job[x].plugin \in {"script", "fetch"} /\ run' = To(x, job[x].plugin) /\ UNCHANGED con
  BY <1>1, <1>5, NextMoves DEF Local
<1> QED BY <1>2, <1>3, <1>4, <1>5 DEF Begin

LEMMA RaisedMoves ==
  ASSUME ShellInv, NEW x \in Executors, Raised(x)
  PROVE  ShellInv'
BY ResultMoves DEF Raised

LEMMA RanMoves ==
  ASSUME ShellInv, NEW x \in Executors, Ran(x)
  PROVE  ShellInv'
BY CallMoves DEF Ran, Asks, Answered, At, Command

\* Of a reply that is whole, the last number is what the command printed.
LEMMA LastNumberOf ==
  ASSUME NEW s, Len(s) = 2, DOMAIN s = 1..2, s[2] = Prompt, LastNumber(s) = 0
  PROVE  s[1][2] = 0
<1> DEFINE numbers == {i \in DOMAIN s : s[i][2] \in {0, 1}}
<1>1. s[2][2] = None
  BY DEF Prompt
<1>2. numbers \subseteq {1}
  BY <1>1, NoneAssumption
<1>3. numbers # {} /\ LastNumber(s) = s[CHOOSE i \in numbers : \A k \in numbers : k <= i][2]
  BY NoneAssumption DEF LastNumber
<1>4. numbers = {1}
  BY <1>2, <1>3
<1>5. \A i, k \in numbers : k <= i
  BY <1>4
<1> HIDE DEF numbers
<1>6. (CHOOSE i \in numbers : \A k \in numbers : k <= i) \in numbers
  BY <1>3, <1>5
<1>7. (CHOOSE i \in numbers : \A k \in numbers : k <= i) = 1
  BY <1>4, <1>6
<1> QED BY <1>3, <1>7

LEMMA StatusMoves ==
  ASSUME ShellInv, NEW x \in Executors, Status(x)
  PROVE  ShellInv'
<1> DEFINE c == con[x]  r == run[x]  e == LastNumber(c.reply) = 0  d == [c EXCEPT !.sftp = FALSE]
<1>1. c \in ConType /\ IsRun(r) /\ Ok(c, r, job[x], Content(x))
  BY OfOne
<1>2. c.at = "ready" /\ r.pc = "status" /\ r.result = None /\ UNCHANGED <<job, files>>
      /\ Becomes(x, d)
  BY DEF Status, Answered, At
<1>3. PICK result \in {"SUCCESS", "FAILED"} : Turns(x, [r EXCEPT !.exit = e, !.result = result])
  BY DEF Status
<1> DEFINE s == [r EXCEPT !.exit = e, !.result = result]
<1>4. ContentOf(files[r.place]) = Content(x)
  BY DEF Content
<1>5. ASSUME e, job[x].plugin = "shell", c.marks = {} PROVE r.code = 0
  <2>1. IsReply(c, c.reply)
    BY <1>1, <1>2, <1>5, NoneAssumption DEF Ok, Dialogue, Clean, Asked, CalledFor, Command
  <2>2. c.reply \in Seq(Item)
    BY <1>1 DEF ConType
  <2>3. Len(c.reply) = 2 /\ DOMAIN c.reply = 1..2 /\ c.reply[2] = Prompt
    BY <2>1, <2>2 DEF IsReply
  <2>4. c.reply[1][2] = 0
    BY <1>5, <2>3, LastNumberOf
  <2>5. c.reply[1][2] = r.code
    BY <1>1, <1>2, <1>5 DEF Ok, Verdict
  <2> QED BY <2>4, <2>5
<1>6. job[x].plugin = "shell"
  BY <1>1, <1>2 DEF Ok, Plain
<1>7. e \in BOOLEAN
  OBVIOUS
<1> HIDE DEF c, r, e
<1>8. /\ IsRun(s) /\ s.result = result /\ s.pc = r.pc /\ s.code = r.code /\ s.exit = e
      /\ s.touched = r.touched /\ s.place = r.place
  BY <1>1, <1>3, <1>7 DEF IsRun
<1>9. d \in ConType /\ d.at = c.at /\ d.then = c.then /\ Keeps(c, d) /\ Streams(c, d)
      /\ d.marks = c.marks
  BY <1>1, SftpFields
<1>10. Turns(x, s)
  BY <1>3
<1> HIDE DEF s, d
<1>11. s.result # None
  BY <1>8, ResultAssumption
<1>12. Ok(d, s, job[x], Content(x))
  BY <1>1, <1>2, <1>5, <1>6, <1>8, <1>9, <1>11, ResultOk
<1> QED BY <1>2, <1>4, <1>8, <1>9, <1>10, <1>12, OneMoves

LEMMA HomeMoves ==
  ASSUME ShellInv, NEW x \in Executors, Home(x)
  PROVE  ShellInv'
<1> DEFINE r == run[x]
<1>1. IsRun(r) /\ con[x].at = "ready" /\ r.pc = "home" /\ r.result = None
      /\ UNCHANGED <<job, con, files>>
  BY OfOne DEF Home, Answered, At
<1>2. PICK p \in {r.place, Elsewhere} : Turns(x, [r EXCEPT !.pc = "source", !.place = p])
  BY DEF Home
<1> DEFINE s == [r EXCEPT !.pc = "source", !.place = p]
<1> HIDE DEF r
<1>3. p \in Place
  BY <1>1 DEF IsRun, Place
<1>4. IsRun(s) /\ s.result = None /\ s.pc = "source" /\ s.code = r.code /\ s.exit = r.exit
  BY <1>1, <1>3 DEF IsRun, Pc, Local
<1>5. Turns(x, s)
  BY <1>2
<1> HIDE DEF s
<1> QED BY <1>1, <1>4, <1>5, ToMoves DEF r, Local

LEMMA LocalFileMoves ==
  ASSUME ShellInv, NEW x \in Executors, LocalFile(x)
  PROVE  ShellInv'
<1>1. con[x].at = "ready" /\ run[x].result = None /\ run[x].pc \in Local /\ UNCHANGED <<job, files>>
  BY IdleAt DEF LocalFile, Local
<1>2. CASE run' = To(x, "folder") /\ UNCHANGED con
  BY <1>1, <1>2, NextMoves DEF Local
<1>3. CASE Result(x, "ERROR")
  BY <1>1, <1>3, ResultMoves
<1> QED BY <1>2, <1>3 DEF LocalFile

LEMMA FolderMoves ==
  ASSUME ShellInv, NEW x \in Executors, Folder(x)
  PROVE  ShellInv'
<1>1. con[x].at = "ready" /\ run[x].result = None /\ run[x].pc \in Local /\ UNCHANGED <<job, files>>
  BY IdleAt DEF Folder, Local
<1>2. CASE run' = To(x, "remove") /\ UNCHANGED con
  BY <1>1, <1>2, NextMoves DEF Local
<1>3. CASE Result(x, "FAILED")
  BY <1>1, <1>3, ResultMoves
<1> QED BY <1>2, <1>3 DEF Folder

LEMMA CheckFileMoves ==
  ASSUME ShellInv, NEW x \in Executors, CheckFile(x)
  PROVE  ShellInv'
<1>1. con[x].at = "ready" /\ run[x].result = None /\ run[x].pc = "check" /\ UNCHANGED <<job, files>>
  BY IdleAt DEF CheckFile, At, Local
<1>2. CASE Calls(x, "sum", "cmd") /\ run' = To(x, "sum")
  BY <1>1, <1>2, CallMoves DEF Command
<1>3. CASE Result(x, "ERROR")
  BY <1>1, <1>3, ResultMoves
<1> QED BY <1>2, <1>3 DEF CheckFile

\* What the plugin takes for the digest is one.
LEMMA SameMeans ==
  ASSUME ShellInv, NEW x \in Executors, Same(x), job[x].plugin \in {"copy", "script"}
  PROVE  Digest(con[x], run[x], Content(x), job[x].src)
<1> DEFINE s == con[x].reply
<1>1. s \in Seq(Item) /\ Ok(con[x], run[x], job[x], Content(x))
  BY OfOne DEF ConType
<1>2. ASSUME NEW i \in DOMAIN s, s[i] = <<"sum", job[x].src>>
      PROVE  Digest(con[x], run[x], Content(x), job[x].src)
  BY <1>1, <1>2 DEF Ok, Digests
<1>3. Lines(x) \in {s, Tail(s)} /\ (Lines(x) = Tail(s) => s # <<>>) /\ Lines(x) # <<>>
      /\ Lines(x)[1] = <<"sum", job[x].src>>
  BY DEF Lines, Same
<1> HIDE DEF s
<1>4. \E i \in DOMAIN s : s[i] = Lines(x)[1]
  <2>1. CASE Lines(x) = s
    <3>1. 1 \in DOMAIN s
      BY <1>1, <1>3, <2>1
    <3> QED BY <2>1, <3>1
  <2>2. CASE Lines(x) = Tail(s)
    <3>1. s # <<>> /\ Tail(s) # <<>>
      BY <1>3, <2>2
    <3>2. 2 \in DOMAIN s /\ Tail(s)[1] = s[2]
      BY <1>1, <3>1
    <3> QED BY <2>2, <3>2
  <2> QED BY <1>3, <2>1, <2>2
<1> QED BY <1>2, <1>3, <1>4

LEMMA CompareMoves ==
  ASSUME ShellInv, NEW x \in Executors, Compare(x)
  PROVE  ShellInv'
<1>1. con[x].at = "ready" /\ run[x].result = None /\ run[x].pc = "sum" /\ UNCHANGED <<job, files>>
  BY DEF Compare, Answered, At
<1>2. CASE Result(x, "ERROR")
  BY <1>1, <1>2, ResultMoves
<1>3. CASE Same(x) /\ job[x].plugin = "copy" /\ Result(x, "SUCCESS")
  BY <1>1, <1>3, SameMeans, ResultMoves
<1>4. CASE Same(x) /\ job[x].plugin = "script" /\ Calls(x, "run", "cmd") /\ run' = To(x, "ran")
  BY <1>1, <1>4, SameMeans, CallMoves DEF Command
<1> QED BY <1>2, <1>3, <1>4 DEF Compare

LEMMA ScriptMoves ==
  ASSUME ShellInv, NEW x \in Executors, Script(x)
  PROVE  ShellInv'
<1>1. con[x].at = "ready" /\ run[x].result = None /\ run[x].pc = "script"
      /\ UNCHANGED <<job, files>>
  BY IdleAt DEF Script, At, Local
<1>2. CASE Turns(x, [run[x] EXCEPT !.pc = "put", !.place = x]) /\ UNCHANGED con
  <2> DEFINE r == run[x]  s == [r EXCEPT !.pc = "put", !.place = x]
  <2>1. IsRun(r) /\ r.result = None /\ r.pc = "script" /\ x \in Place /\ Turns(x, s)
    BY <1>1, <1>2, OfOne, JobOf
  <2> HIDE DEF r
  <2>2. IsRun(s) /\ s.result = None /\ s.pc = "put" /\ s.code = r.code /\ s.exit = r.exit
    BY <2>1 DEF IsRun, Pc, Local
  <2> HIDE DEF s
  <2> QED BY <1>1, <1>2, <2>1, <2>2, ToMoves DEF r, Local
<1>3. CASE Result(x, "ERROR")
  BY <1>1, <1>3, ResultMoves
<1> QED BY <1>2, <1>3 DEF Script

LEMMA ScriptRanMoves ==
  ASSUME ShellInv, NEW x \in Executors, ScriptRan(x)
  PROVE  ShellInv'
<1>1. /\ run[x].result = None /\ run[x].pc = "ran" /\ Result(x, "SUCCESS")
      /\ UNCHANGED <<job, files>>
  BY DEF ScriptRan, Answered, At
<1>2. job[x].plugin \in {"copy", "script"} => Digest(con[x], run[x], Content(x), job[x].src)
  BY <1>1, OfOne DEF Ok, Digests
<1> QED BY <1>1, <1>2, ResultMoves

LEMMA FetchMoves ==
  ASSUME ShellInv, NEW x \in Executors, Fetch(x)
  PROVE  ShellInv'
<1>1. con[x].at = "ready" /\ run[x].result = None /\ run[x].pc = "fetch" /\ UNCHANGED <<job, files>>
  BY IdleAt DEF Fetch, At, Local
<1>2. CASE Turns(x, [run[x] EXCEPT !.pc = "get", !.got = LocalName(job[x].overwrite)])
           /\ UNCHANGED con
  <2> DEFINE r == run[x]  n == LocalName(job[x].overwrite)  s == [r EXCEPT !.pc = "get", !.got = n]
  <2>1. IsRun(r) /\ r.result = None /\ r.pc = "fetch" /\ Turns(x, s) /\ job[x].plugin = "fetch"
    BY <1>1, <1>2, OfOne DEF Ok, Plain
  <2> HIDE DEF r, n
  <2>2. IsRun(s) /\ s.result = None /\ s.pc = "get" /\ s.code = r.code /\ s.exit = r.exit
    BY <2>1 DEF IsRun, Pc, Local
  <2> HIDE DEF s
  <2> QED BY <1>1, <1>2, <2>1, <2>2, ToMoves DEF r, Local
<1>3. CASE Result(x, "ERROR")
  BY <1>1, <1>3, ResultMoves
<1> QED BY <1>2, <1>3 DEF Fetch

LEMMA FetchedMoves ==
  ASSUME ShellInv, NEW x \in Executors, Fetched(x)
  PROVE  ShellInv'
<1>1. run[x].result = None /\ run[x].pc = "get" /\ Result(x, "SUCCESS") /\ UNCHANGED <<job, files>>
  BY DEF Fetched, At
<1>2. job[x].plugin = "fetch"
  BY <1>1, OfOne DEF Ok, Plain
<1> QED BY <1>1, <1>2, ResultMoves

LEMMA RemoveMoves ==
  ASSUME ShellInv, NEW x \in Executors, Remove(x)
  PROVE  ShellInv'
<1>1. /\ con[x].at = "ready" /\ run[x].result = None /\ run[x].pc \in Local
      /\ UNCHANGED <<job, con>>
      /\ IsRun(run[x]) /\ run[x].place \in Place
  BY IdleAt, OfOne DEF Remove, Local, IsRun
<1>2. CASE /\ files' = [files EXCEPT ![run[x].place] = None]
           /\ Changes(x, run[x].place, [run[x] EXCEPT !.pc = "put"])
  <2> DEFINE r == run[x]  s == [r EXCEPT !.pc = "put"]
  <2>1. con[x] \in ConType /\ Ok(con[x], r, job[x], Content(x)) /\ Changes(x, r.place, s)
    BY <1>2, OfOne
  <2>2. IsRun(r) /\ r.result = None /\ r.pc \in Local
    BY <1>1
  <2> HIDE DEF r
  <2>3. IsRun(s) /\ s.result = None /\ s.pc = "put" /\ s.code = r.code /\ s.exit = r.exit
        /\ s.place = r.place
    BY <2>2 DEF IsRun, Pc, Local
  <2> HIDE DEF s
  <2>4. Ok(con[x], s, job[x], ContentOf(None))
    BY <1>1, <2>1, <2>2, <2>3, GoesOnOk DEF Local
  <2> QED BY <1>1, <1>2, <2>1, <2>3, <2>4, FileMoves DEF r
<1>3. CASE run' = To(x, "put") /\ UNCHANGED files
  BY <1>1, <1>3, NextMoves DEF Local
<1> QED BY <1>2, <1>3 DEF Remove

LEMMA PutOpenMoves ==
  ASSUME ShellInv, NEW x \in Executors, PutOpen(x)
  PROVE  ShellInv'
<1>1. /\ con[x].at = "ready" /\ run[x].result = None /\ run[x].pc \in Local
      /\ UNCHANGED <<job, con>>
      /\ IsRun(run[x]) /\ run[x].place \in Place
  BY IdleAt, OfOne DEF PutOpen, Local, IsRun
<1>2. ASSUME NEW node,
             files' = [files EXCEPT ![run[x].place] = [node |-> node, by |-> x, whole |-> FALSE,
                                                       others |-> {}]],
             Changes(x, run[x].place, [run[x] EXCEPT !.pc = "write", !.node = node])
      PROVE  ShellInv'
  <2> DEFINE r == run[x]  s == [r EXCEPT !.pc = "write", !.node = node]
             g == [node |-> node, by |-> x, whole |-> FALSE, others |-> {}]
  <2>1. con[x] \in ConType /\ Ok(con[x], r, job[x], Content(x)) /\ Changes(x, r.place, s)
    BY <1>2, OfOne
  <2>2. IsRun(r) /\ r.result = None /\ r.pc \in Local
    BY <1>1
  <2> HIDE DEF r
  <2>3. IsRun(s) /\ s.result = None /\ s.pc = "write" /\ s.code = r.code /\ s.exit = r.exit
        /\ s.place = r.place
    BY <2>2 DEF IsRun, Pc, Local
  <2>4. IsFile(g)
    BY DEF IsFile
  <2>5. files' = [files EXCEPT ![run[x].place] = g]
    BY <1>2
  <2> HIDE DEF s, g
  <2>6. Ok(con[x], s, job[x], ContentOf(g))
    BY <1>1, <2>1, <2>2, <2>3, GoesOnOk DEF Local
  <2> QED BY <1>1, <2>1, <2>3, <2>4, <2>5, <2>6, FileMoves DEF r
<1>3. CASE run' = To(x, "check") /\ UNCHANGED files
  BY <1>1, <1>3, NextMoves DEF Local
<1> QED BY <1>2, <1>3 DEF PutOpen

LEMMA PutEndMoves ==
  ASSUME ShellInv, NEW x \in Executors, PutEnd(x)
  PROVE  ShellInv'
<1> DEFINE p == run[x].place  f == files[p]
<1>1. /\ con[x].at = "ready" /\ run[x].result = None /\ run[x].pc \in Local
      /\ UNCHANGED <<job, con>>
      /\ IsRun(run[x]) /\ p \in Place
  BY IdleAt, OfOne DEF PutEnd, Local, IsRun
<1>2. CASE run' = To(x, "check") /\ UNCHANGED files
  BY <1>1, <1>2, NextMoves DEF Local
<1>3. ASSUME NEW g, g # None => IsFile(g), files' = [files EXCEPT ![p] = g],
             Changes(x, p, [run[x] EXCEPT !.pc = "check"])
      PROVE  ShellInv'
  <2> DEFINE r == run[x]  s == [r EXCEPT !.pc = "check"]
  <2>1. con[x] \in ConType /\ Ok(con[x], r, job[x], Content(x)) /\ Changes(x, p, s)
    BY <1>3, OfOne
  <2>2. IsRun(r) /\ r.result = None /\ r.pc \in Local /\ r.place = p
    BY <1>1
  <2> HIDE DEF r, p, f
  <2>3. IsRun(s) /\ s.result = None /\ s.pc = "check" /\ s.code = r.code /\ s.exit = r.exit
        /\ s.place = r.place
    BY <2>2 DEF IsRun, Pc, Local
  <2> HIDE DEF s
  <2>4. Ok(con[x], s, job[x], ContentOf(g))
    BY <1>1, <2>1, <2>2, <2>3, GoesOnOk DEF Local
  <2> QED BY <1>1, <1>3, <2>1, <2>2, <2>3, <2>4, FileMoves
<1>4. ASSUME f # None, NEW g \in IF f.by = x THEN {f, [f EXCEPT !.whole = TRUE]}
                                  ELSE {f, [f EXCEPT !.others = @ \cup {job[x].src}]}
      PROVE  IsFile(g)
  <2>1. IsFile(f)
    BY <1>1, <1>4 DEF ShellInv, ShellShape
  <2> HIDE DEF f
  <2>2. CASE g = f
    BY <2>1, <2>2
  <2>3. CASE f.by = x /\ g = [f EXCEPT !.whole = TRUE]
    BY <2>1, <2>3 DEF IsFile
  <2>4. CASE g = [f EXCEPT !.others = @ \cup {job[x].src}]
    BY <2>1, <2>4 DEF IsFile
  <2> QED BY <1>4, <2>2, <2>3, <2>4
<1>5. CASE f # None /\ f.node = run[x].node
  <2>1. PICK g \in IF f.by = x THEN {f, [f EXCEPT !.whole = TRUE]}
                   ELSE {f, [f EXCEPT !.others = @ \cup {job[x].src}]} :
          /\ files' = [files EXCEPT ![p] = g]
          /\ IF g = f THEN run' = To(x, "check") ELSE Changes(x, p, [run[x] EXCEPT !.pc = "check"])
    BY <1>5 DEF PutEnd
  <2>2. CASE g = f
    <3>1. UNCHANGED files
      BY <1>1, <2>1, <2>2 DEF ShellInv, ShellShape
    <3> QED BY <1>2, <2>1, <2>2, <3>1
  <2>3. CASE g # f
    BY <1>3, <1>4, <1>5, <2>1, <2>3
  <2> QED BY <2>2, <2>3
<1>6. CASE ~(f # None /\ f.node = run[x].node)
  BY <1>2, <1>6 DEF PutEnd
<1> QED BY <1>5, <1>6

\* What a file holds is a source, or of no interest.
LEMMA ContentIs ==
  ASSUME ShellInv, NEW x \in Executors
  PROVE  Content(x) \in Source \cup {None}
<1>1. run[x].place \in Place
  BY OfOne DEF IsRun
<1>2. files[run[x].place] # None => IsFile(files[run[x].place])
  BY <1>1 DEF ShellInv, ShellShape
<1>3. \A y \in Executors : job[y].src \in Source
  BY JobOf DEF Job
<1> QED BY <1>2, <1>3 DEF Content, ContentOf, IsFile

\* A command's output is that of the file and the code as they are.
LEMMA AnswerMoves ==
  ASSUME ShellInv, NEW x \in Executors, Answer(x)
  PROVE  ShellInv'
<1> DEFINE c == con[x]  r == run[x]  h == Head(c.coming)  t == h[1]
<1>1. c \in ConType /\ IsRun(r) /\ Ok(c, r, job[x], Content(x)) /\ c.coming # <<>>
      /\ UNCHANGED <<job, files>>
  BY OfOne DEF Answer
<1>2. PICK prints \in Prints(x, t), code \in IF t = "run" THEN {0, 1} ELSE {0} :
        /\ Arrive(x, prints, code)
        /\ Turns(x, [r EXCEPT !.code = IF t = "run" THEN code ELSE @, !.touched = @ /\ t # "sum"])
  BY DEF Answer
<1>3. /\ prints \in Source \cup {None, 0, 1} /\ code \in {0, 1}
      /\ (t = "sum" => prints = Content(x)) /\ (t = "status" => prints = c.code)
  <2>1. Content(x) \in Source \cup {None} /\ c.code \in {0, 1}
    BY <1>1, ContentIs DEF ConType
  <2> QED BY <1>2, <2>1 DEF Prints, Content
<1> DEFINE w == IF t \in Command THEN <<t, prints>> ELSE h  q == Tail(c.coming)
           u == Append(c.screen, w)
           k == IF t \in Command THEN code ELSE c.code
           n == IF t \in Command THEN [c.ran EXCEPT ![t] = @ + 1] ELSE c.ran
           d == [c EXCEPT !.coming = q, !.screen = u, !.code = k, !.ran = n]
           sc == IF t = "run" THEN code ELSE r.code  st == r.touched /\ t # "sum"
           s == [r EXCEPT !.code = sc, !.touched = st]
<1>4. Becomes(x, d) /\ Turns(x, s)
  <2>1. Becomes(x, d)
    <3>1. CASE t \in Command
      BY <1>2, <3>1 DEF Arrive
    <3>2. CASE t \notin Command
      BY <1>2, <3>2 DEF Arrive
    <3> QED BY <3>1, <3>2
  <2>2. Turns(x, s)
    BY <1>2
  <2> QED BY <2>1, <2>2
<1>5. ContentOf(files[r.place]) = Content(x)
  BY DEF Content
<1> HIDE DEF c, r
<1>6. h \in Item /\ q \in Seq(Item)
  <2>1. c.coming \in Seq(Item)
    BY <1>1 DEF ConType
  <2> QED BY <1>1, <2>1
<1>7. w \in Item
  BY <1>3, <1>6 DEF Item
<1> HIDE DEF h, w
<1>8. u \in Seq(Item)
  <2>1. c.screen \in Seq(Item)
    BY <1>1 DEF ConType
  <2> QED BY <1>7, <2>1
<1>9. k \in {0, 1} /\ n \in [Command -> Nat] /\ sc \in {None, 0, 1} /\ st \in BOOLEAN
  BY <1>1, <1>3 DEF ConType, IsRun
<1>10. \A v \in Command : n[v] = IF v = t THEN c.ran[v] + 1 ELSE c.ran[v]
  BY <1>1 DEF ConType
<1> HIDE DEF q, u, k, n, sc, st
<1>11. /\ d \in ConType /\ d.at = c.at /\ d.then = c.then /\ d.cmd = c.cmd /\ d.how = c.how
       /\ d.reply = c.reply /\ d.marks = c.marks /\ d.coming = q /\ d.screen = u /\ d.code = k
       /\ d.ran = n
  BY <1>1, <1>6, <1>8, <1>9 DEF ConType
<1>12. /\ IsRun(s) /\ s.pc = r.pc /\ s.exit = r.exit /\ s.result = r.result /\ s.place = r.place
       /\ s.code = sc /\ s.touched = st
  BY <1>1, <1>9 DEF IsRun
<1> HIDE DEF d, s
<1>13. Ok(d, s, job[x], Content(x))
  <2>1. /\ d.coming = Tail(c.coming)
        /\ d.screen = Append(c.screen, IF t \in Command THEN <<t, prints>> ELSE Head(c.coming))
        /\ d.code = IF t \in Command THEN code ELSE c.code
        /\ \A v \in Command : d.ran[v] = IF v = t THEN c.ran[v] + 1 ELSE c.ran[v]
        /\ s.code = IF t = "run" THEN code ELSE r.code
        /\ s.touched <=> r.touched /\ t # "sum"
    BY <1>10, <1>11, <1>12 DEF q, u, k, w, h, sc, st
  <2>2. t = Head(c.coming)[1]
    BY DEF h
  <2> HIDE DEF t
  <2> QED BY <1>1, <1>3, <1>11, <1>12, <2>1, <2>2, AnswerOk
<1> QED BY <1>1, <1>4, <1>5, <1>11, <1>12, <1>13, OneMoves DEF c, r

-----------------------------------------------------------------------------
\* The invariant.

\* Executors begin with nothing asked and nothing run.
LEMMA ShellInitInv == ShellInit => ShellInv
<1> SUFFICES ASSUME ShellInit PROVE ShellInv
  OBVIOUS
<1>1. /\ job \in Mixes /\ files = [p \in Place |-> files[p]]
      /\ \A p \in Place : files[p] # None => IsFile(files[p])
  <2>1. PICK older \in BOOLEAN :
          files = [p \in Place |-> IF older /\ p \in Dest
                                   THEN [node |-> "older", by |-> None, whole |-> FALSE,
                                         others |-> {}]
                                   ELSE None]
    BY DEF ShellInit
  <2>2. IsFile([node |-> "older", by |-> None, whole |-> FALSE, others |-> {}])
    BY DEF IsFile
  <2>3. job \in Mixes
    BY DEF ShellInit
  <2> QED BY <2>1, <2>2, <2>3
<1>2. ASSUME NEW x \in Executors
      PROVE  job[x] \in Job /\ job[x].dest \in Place /\ job[x].breaks \in Nat
             /\ job[x].at \in {"new", "ready"}
  BY <1>1, MixesAssumption DEF Executors, Job, Place
<1>3. ASSUME NEW x \in Executors
      PROVE  con[x] = [NewConnection(job[x].breaks) EXCEPT !.at = job[x].at,
                                                           !.up = job[x].at = "ready",
                                                           !.sftp = job[x].at = "ready"]
  BY <1>3 DEF ShellInit
<1>4. ASSUME NEW x \in Executors
      PROVE  IsRun(run[x]) /\ run[x].pc = "start" /\ ~run[x].exit /\ run[x].result = None
  <2> DEFINE place == job[x].dest
             r == [pc |-> "start", place |-> place, node |-> None, exit |-> FALSE,
                   got |-> None, result |-> None, code |-> None, touched |-> FALSE]
  <2>1. place \in Place
    BY <1>2
  <2>2. run[x] = r
    BY DEF ShellInit
  <2> HIDE DEF place
  <2>3. IsRun(r) /\ r.pc = "start" /\ ~r.exit /\ r.result = None
    BY <2>1 DEF IsRun, Pc
  <2> HIDE DEF r
  <2> QED BY <2>2, <2>3
<1>5. ASSUME NEW x \in Executors
      PROVE  /\ con[x] \in ConType /\ con[x].at = job[x].at /\ con[x].coming = <<>>
             /\ con[x].screen = <<>>
             /\ con[x].reply = <<>> /\ con[x].cmd = None /\ con[x].how = "cmd" /\ con[x].marks = {}
             /\ \A t \in Command : con[x].ran[t] = 0
  <2> DEFINE e == <<>>  n == [t \in Command |-> 0]
             b == job[x].breaks  a == job[x].at  i == (a = "ready")
  <2>1. e \in Seq(Item) /\ n \in [Command -> Nat] /\ b \in Nat /\ a \in {"new", "ready"}
        /\ i \in BOOLEAN
        /\ \A t \in Command : n[t] = 0
    BY <1>2
  <2> DEFINE new == NewConnection(b)
  <2>2. con[x] = [new EXCEPT !.at = a, !.up = i, !.sftp = i]
    BY <1>3
  <2>3. new = [at |-> "new", then |-> "ready", tried |-> 0, sftp |-> FALSE, up |-> FALSE,
               breaks |-> b, coming |-> e, screen |-> e, cmd |-> None, how |-> "cmd", reply |-> e,
               code |-> 0, ran |-> n, marks |-> {}]
    BY DEF NewConnection
  <2> HIDE DEF new, e, n, b, a, i
  <2>4. /\ new \in ConType /\ new.coming = e /\ new.screen = e /\ new.reply = e
        /\ new.cmd = None /\ new.how = "cmd" /\ new.marks = {} /\ new.ran = n
    BY <2>1, <2>3 DEF ConType, Waiting
  <2> HIDE DEF new
  <2>5. /\ con[x] \in ConType /\ con[x].at = a /\ con[x].coming = e /\ con[x].screen = e
        /\ con[x].reply = e /\ con[x].cmd = None /\ con[x].how = "cmd" /\ con[x].marks = {}
        /\ con[x].ran = n
    <3> DEFINE d == [new EXCEPT !.at = a, !.up = i, !.sftp = i]
    <3>1. /\ d \in ConType /\ d.at = a /\ d.coming = new.coming /\ d.screen = new.screen
          /\ d.reply = new.reply /\ d.cmd = new.cmd /\ d.how = new.how /\ d.marks = new.marks
          /\ d.ran = new.ran
      BY <2>1, <2>4 DEF ConType, Waiting
    <3> HIDE DEF d
    <3>2. con[x] = d
      BY <2>2 DEF d
    <3> QED BY <2>4, <3>1, <3>2
  <2> QED BY <2>1, <2>5 DEF e, a
<1>6. ShellShape
  <2>1. con = [x \in Executors |-> con[x]] /\ run = [x \in Executors |-> run[x]]
    BY DEF ShellInit
  <2> QED BY <1>1, <1>4, <1>5, <2>1 DEF ShellShape
<1>7. ASSUME NEW x \in Executors PROVE Ok(con[x], run[x], job[x], Content(x))
  <2> DEFINE c == con[x]  r == run[x]  j == job[x]
  <2>1. /\ c.at \in {"new", "ready"} /\ c.coming = <<>> /\ c.screen = <<>> /\ c.reply = <<>>
        /\ c.cmd = None /\ c.how = "cmd" /\ c.marks = {} /\ \A t \in Command : c.ran[t] = 0
    BY <1>2, <1>5
  <2>2. r.pc = "start" /\ ~r.exit /\ r.result = None
    BY <1>4
  <2> HIDE DEF c, r, j
  <2>3. \A t : ~Coming(c, t)
    BY <2>1 DEF Coming
  <2>4. RunsOnce(c, r)
    <3>1. \A t \in Command : c.ran[t] <= 1
      BY <2>1
    <3>2. \A i \in DOMAIN c.coming : FALSE
      BY <2>1
    <3> QED BY <2>1, <2>3, <3>1, <3>2 DEF RunsOnce
  <2>5. Marked(c) /\ Asked(c, r) /\ NoneSent(c) /\ Idles(c, r)
    BY <2>1, <2>2, <2>3 DEF Marked, Asked, NoneSent, Idles, LoginFor, Login, CalledFor, Local
  <2>6. Dialogue(c) /\ Verdict(c, r, j) /\ Plain(c, r, j)
    BY <2>1, <2>2 DEF Dialogue, Verdict, Plain, Quiet
  <2>7. Digests(c, r, j, Content(x))
    <3>1. \A i \in DOMAIN c.screen : FALSE
      BY <2>1
    <3>2. \A i \in DOMAIN c.reply : FALSE
      BY <2>1
    <3>3. r.pc # "ran" /\ r.result # "SUCCESS"
      BY <2>2, ResultAssumption
    <3> QED BY <3>1, <3>2, <3>3 DEF Digests
  <2>8. Ok(c, r, j, Content(x))
    BY <2>4, <2>5, <2>6, <2>7 DEF Ok
  <2> QED BY <2>8 DEF c, r, j
<1> QED BY <1>6, <1>7 DEF ShellInv

\* Every step keeps it.
LEMMA ShellNextInv == ShellInv /\ [ShellNext]_shell_vars => ShellInv'
<1> SUFFICES ASSUME ShellInv, [ShellNext]_shell_vars PROVE ShellInv'
  OBVIOUS
<1>1. ASSUME NEW x \in Executors, Plugin(x) PROVE ShellInv'
  BY <1>1, BeginMoves, RaisedMoves, RanMoves, StatusMoves, HomeMoves, LocalFileMoves, FolderMoves,
     RemoveMoves, PutOpenMoves, PutEndMoves, CheckFileMoves, CompareMoves, ScriptMoves,
     ScriptRanMoves, FetchMoves, FetchedMoves DEF Plugin
<1>2. ASSUME NEW x \in Executors, Connection(x) PROVE ShellInv'
  BY <1>2, ConnectionStays, StaysMoves DEF Connection
<1>3. ASSUME NEW x \in Executors, Answer(x) PROVE ShellInv'
  BY <1>3, AnswerMoves
<1>4. ASSUME NEW x \in Executors, SessionEnds(x) PROVE ShellInv'
  BY <1>4, BreakStays, StaysMoves DEF SessionEnds
<1>5. CASE UNCHANGED shell_vars
  BY <1>5 DEF shell_vars, ShellInv, ShellShape, IsFile, IsRun, Content, ContentOf, Executors
<1>6. CASE ShellNext
  BY <1>1, <1>2, <1>3, <1>4, <1>6 DEF ShellNext, Step
<1> QED BY <1>5, <1>6

\* Type correctness of connections, runs and files, with what relates them: the
\* inductive invariant of the remote shell.
THEOREM ShellInductive == ShellSpec => []ShellInv
<1>1. ShellInit => ShellInv
  BY ShellInitInv
<1>2. ShellInv /\ [ShellNext]_shell_vars => ShellInv'
  BY ShellNextInv
<1> QED BY <1>1, <1>2, PTL DEF ShellSpec

\* The reply of a command is its own and whole, whatever sessions ended and were begun
\* anew, unless a login left something unread or a reply was late; and the code a shell
\* calls 0 is that of its command, which ran once.
THEOREM RepliesOwn == ShellSpec => []ReplyIsOwn
<1>1. ShellInv => ReplyIsOwn
  <2> SUFFICES ASSUME ShellInv PROVE ReplyIsOwn
    OBVIOUS
  <2>1. ASSUME NEW x \in Executors
        PROVE  Dialogue(con[x]) /\ Verdict(con[x], run[x], job[x])
    BY OfOne DEF Ok
  <2> QED BY <2>1 DEF ReplyIsOwn, Dialogue, Clean, IsReply, Verdict
<1> QED BY <1>1, ShellInductive, PTL

\* Without cmd_with_backoff_retry no command runs twice, although relogin sends again
\* what was not sent.
THEOREM CommandsOnce == ShellSpec => []RunAtMostOnce
<1>1. ShellInv => RunAtMostOnce
  BY OfOne DEF Ok, RunsOnce, RunAtMostOnce
<1> QED BY <1>1, ShellInductive, PTL

\* What copy and script report as done is the source on the host, whatever other
\* executors did to the file, until they do it after the digest was taken.
THEOREM CopiesHold == ShellSpec => []CopyHolds
<1>1. ShellInv => CopyHolds
  BY OfOne DEF Ok, Digests, Digest, Content, CopyHolds
<1> QED BY <1>1, ShellInductive, PTL

=============================================================================
