--------------------------- MODULE WorkflowProofs ---------------------------
(***************************************************************************)
(* Safety of Workflow for every set of nodes, every plan, every setting of *)
(* the flags and every pool size.  The inductive invariant IInv adds to    *)
(* the properties of Workflow what ties them together: the accounts count  *)
(* unfinished predecessors, a node is on its way exactly when its account  *)
(* is zero, and _get_jobs_number counts the nodes that left the queue.     *)
(* That a plan is acyclic is not used: it matters for termination only.    *)
(***************************************************************************)
EXTENDS Workflow, FiniteSetTheorems, TLAPS

Pending(n) == {p \in Predecessors(n) : ~Finished(p)}

\* Nodes that start() has taken off the waiting queue.
Taken == Elements(pool) \cup dispatched \cup {n \in Node : Finished(n)}

\* The steps that were run, failed and do not ignore their result.
FailedSteps ==
  {r \in Step : result[r] \in {"FAILED", "PARTIAL_PASSED"} /\ ~IgnoresResult(r)}

AccountsCountPending ==
  \A n \in Node : dependency_account[n] = Cardinality(Pending(n))

PlacedMeansFree == \A n \in Node : Placed(n) <=> dependency_account[n] = 0

StatusFollowsResult ==
  \A n \in Node : /\ Finished(n) <=> status[n] # "waiting"
                  /\ result[n] = "PRE_DEPENDENCY_ERROR" => status[n] = "failed"

ReasonsAreFailedSteps ==
  \A n \in Node :
    status[n] = "failed" \/ (pre_status[n] = -1 /\ ~Finished(n))
      => status_reason[n] \in FailedSteps

WorkflowStatusTellsFailure ==
  wf_status = "NORMAL" <=> \A n \in Node : status[n] # "failed"

PlanHasSuccessors == StepsHaveSuccessors(next_nodes)

GotCountsTaken ==
  /\ got = Cardinality(Taken)
  /\ pc \in {"wait", "done"} => got = Cardinality(Node)
  /\ pc = "done" => AllCompleted

IInv ==
  /\ TypeOK
  /\ NeverQueuedTwice
  /\ AccountsCountPending
  /\ PlacedMeansFree
  /\ StatusFollowsResult
  /\ PreStatusIsPredecessorFailure
  /\ ReasonsAreFailedSteps
  /\ WorkflowStatusTellsFailure
  /\ GotCountsTaken
  /\ PlanHasSuccessors

-----------------------------------------------------------------------------
(* Queues as sequences without repetition.                                 *)

\* Taking the oldest element leaves the others, each still once.
LEMMA TailFacts ==
  ASSUME NEW S, NEW s \in Seq(S), s # << >>
  PROVE  /\ Head(s) \in S /\ Tail(s) \in Seq(S)
         /\ Elements(s) = {Head(s)} \cup Elements(Tail(s))
         /\ Distinct(s) => Distinct(Tail(s)) /\ Head(s) \notin Elements(Tail(s))
<1>1. Head(s) \in S /\ Tail(s) \in Seq(S) /\ Head(s) = s[1] /\ Len(s) \in Nat \ {0}
  OBVIOUS
<1>2. /\ Len(Tail(s)) = Len(s) - 1
      /\ \A i \in 1..(Len(s) - 1) : Tail(s)[i] = s[i + 1]
      /\ DOMAIN Tail(s) = 1..(Len(s) - 1) /\ DOMAIN s = 1..Len(s)
  OBVIOUS
<1>3. Elements(s) \subseteq {Head(s)} \cup Elements(Tail(s))
  <2> SUFFICES ASSUME NEW i \in 1..Len(s), i # 1
               PROVE  s[i] \in Elements(Tail(s))
    BY <1>1, <1>2 DEF Elements
  <2>1. i - 1 \in 1..(Len(s) - 1) /\ (i - 1) + 1 = i
    BY <1>1
  <2> QED BY <1>2, <2>1 DEF Elements
<1>4. \A i \in 1..(Len(s) - 1) : i + 1 \in 1..Len(s) /\ i + 1 # 1
  BY <1>1
<1>5. {Head(s)} \cup Elements(Tail(s)) \subseteq Elements(s)
  BY <1>1, <1>2, <1>4 DEF Elements
<1>6. ASSUME Distinct(s)
      PROVE  Distinct(Tail(s)) /\ Head(s) \notin Elements(Tail(s))
  <2>1. \A i, j \in 1..(Len(s) - 1) : s[i + 1] = s[j + 1] => i = j
    BY <1>1, <1>2, <1>4, <1>6 DEF Distinct
  <2>2. \A i \in 1..(Len(s) - 1) : s[i + 1] # s[1]
    BY <1>1, <1>2, <1>4, <1>6 DEF Distinct
  <2> QED BY <1>1, <1>2, <2>1, <2>2 DEF Distinct, Elements
<1> QED BY <1>1, <1>3, <1>5, <1>6

\* Appending something new keeps the elements distinct.
LEMMA AppendFacts ==
  ASSUME NEW S, NEW s \in Seq(S), NEW x \in S
  PROVE  /\ Append(s, x) \in Seq(S)
         /\ Elements(Append(s, x)) = Elements(s) \cup {x}
         /\ Distinct(s) /\ x \notin Elements(s) => Distinct(Append(s, x))
<1>1. /\ Append(s, x) \in Seq(S) /\ DOMAIN s = 1..Len(s) /\ Len(s) \in Nat
      /\ DOMAIN Append(s, x) = 1..(Len(s) + 1)
      /\ \A i \in 1..Len(s) : Append(s, x)[i] = s[i]
      /\ Append(s, x)[Len(s) + 1] = x
  OBVIOUS
<1>2. \A i \in 1..(Len(s) + 1) : i \in 1..Len(s) \/ i = Len(s) + 1
  BY <1>1
<1>3. Len(s) + 1 \in 1..(Len(s) + 1) /\ \A i \in 1..Len(s) : i \in 1..(Len(s) + 1)
  BY <1>1
<1> QED BY <1>1, <1>2, <1>3 DEF Elements, Distinct

LEMMA RangeType ==
  ASSUME NEW S, NEW s \in Seq(S)
  PROVE  Elements(s) \subseteq S
BY DEF Elements

\* Two disjoint queues, one behind the other.
LEMMA ConcatFacts ==
  ASSUME NEW S, NEW s \in Seq(S), NEW t \in Seq(S)
  PROVE  /\ s \o t \in Seq(S)
         /\ Elements(s \o t) = Elements(s) \cup Elements(t)
         /\ Distinct(s) /\ Distinct(t) /\ Elements(s) \cap Elements(t) = {} => Distinct(s \o t)
<1>1. /\ s \o t \in Seq(S) /\ DOMAIN s = 1..Len(s) /\ DOMAIN t = 1..Len(t)
      /\ Len(s) \in Nat /\ Len(t) \in Nat
      /\ DOMAIN (s \o t) = 1..(Len(s) + Len(t))
      /\ \A i \in 1..(Len(s) + Len(t)) :
           (s \o t)[i] = IF i <= Len(s) THEN s[i] ELSE t[i - Len(s)]
  OBVIOUS
<1>2. /\ \A i \in 1..Len(s) : i \in 1..(Len(s) + Len(t)) /\ (s \o t)[i] = s[i]
      /\ \A i \in 1..Len(t) : /\ i + Len(s) \in 1..(Len(s) + Len(t))
                              /\ (s \o t)[i + Len(s)] = t[i]
  BY <1>1
<1>3. \A i \in 1..(Len(s) + Len(t)) :
        i \in 1..Len(s) \/ \E k \in 1..Len(t) : i = k + Len(s)
  <2> SUFFICES ASSUME NEW i \in 1..(Len(s) + Len(t)), i \notin 1..Len(s)
               PROVE  i - Len(s) \in 1..Len(t) /\ i = (i - Len(s)) + Len(s)
    OBVIOUS
  <2> QED BY <1>1
<1>4. Elements(s \o t) \subseteq Elements(s) \cup Elements(t)
  <2> SUFFICES ASSUME NEW i \in 1..(Len(s) + Len(t))
               PROVE  (s \o t)[i] \in Elements(s) \cup Elements(t)
    BY <1>1 DEF Elements
  <2>1. CASE i \in 1..Len(s)
    BY <1>1, <1>2, <2>1 DEF Elements
  <2>2. CASE \E k \in 1..Len(t) : i = k + Len(s)
    BY <1>1, <1>2, <2>2 DEF Elements
  <2> QED BY <1>3, <2>1, <2>2
<1>5. Elements(s) \subseteq Elements(s \o t)
  BY <1>1, <1>2 DEF Elements
<1>6. Elements(t) \subseteq Elements(s \o t)
  <2> SUFFICES ASSUME NEW k \in 1..Len(t)
               PROVE  t[k] \in Elements(s \o t)
    BY <1>1 DEF Elements
  <2> QED BY <1>1, <1>2 DEF Elements
<1>7. ASSUME Distinct(s), Distinct(t), Elements(s) \cap Elements(t) = {}
      PROVE  Distinct(s \o t)
  <2> SUFFICES ASSUME NEW i \in 1..(Len(s) + Len(t)), NEW j \in 1..(Len(s) + Len(t)),
                      (s \o t)[i] = (s \o t)[j]
               PROVE  i = j
    BY <1>1 DEF Distinct
  <2>1. CASE i \in 1..Len(s) /\ j \in 1..Len(s)
    BY <1>1, <1>2, <1>7, <2>1 DEF Distinct
  <2>2. CASE \E k, l \in 1..Len(t) : i = k + Len(s) /\ j = l + Len(s)
    <3> PICK k \in 1..Len(t), l \in 1..Len(t) : i = k + Len(s) /\ j = l + Len(s)
      BY <2>2
    <3>1. t[k] = t[l]
      BY <1>2
    <3>2. k = l
      BY <1>1, <1>7, <3>1 DEF Distinct
    <3> QED BY <3>2
  <2>3. \A k \in 1..Len(s), l \in 1..Len(t) : s[k] # t[l]
    BY <1>1, <1>7 DEF Elements
  <2>4. CASE \E k \in 1..Len(t) : j = k + Len(s) /\ i \in 1..Len(s)
    BY <1>2, <2>3, <2>4
  <2>5. CASE \E k \in 1..Len(t) : i = k + Len(s) /\ j \in 1..Len(s)
    BY <1>2, <2>3, <2>5
  <2> QED BY <1>3, <2>1, <2>2, <2>4, <2>5
<1> QED BY <1>1, <1>4, <1>5, <1>6, <1>7

\* An ordering of a finite set lists each of its elements once.
LEMMA OrderingFacts ==
  ASSUME NEW S, IsFiniteSet(S), NEW s \in Orderings(S)
  PROVE  s \in Seq(S) /\ Elements(s) = S /\ Distinct(s)
<1>1. Cardinality(S) \in Nat
  BY FS_CardinalityType
<1>2. s \in [1..Cardinality(S) -> S]
  BY DEF Orderings
<1>3. s \in Seq(S) /\ Distinct(s)
  BY <1>1, <1>2 DEF Orderings, Distinct
<1>4. s \in Injection(1..Cardinality(S), S)
  BY <1>2 DEF Orderings, Injection, IsInjective
<1>5. Cardinality(1..Cardinality(S)) = Cardinality(S)
  BY <1>1, FS_Interval
<1>6. s \in Surjection(1..Cardinality(S), S)
  BY <1>4, <1>5, FS_Injection
<1>7. Elements(s) = S
  BY <1>2, <1>6 DEF Surjection, Elements
<1> QED BY <1>3, <1>7

-----------------------------------------------------------------------------
(* The initial state.                                                      *)

LEMMA PredecessorsFinite ==
  ASSUME NEW n
  PROVE  IsFiniteSet(Predecessors(n)) /\ IsFiniteSet(Pending(n))
BY NodeAssumption, FS_Subset DEF Predecessors, Pending

LEMMA InitIInv == Init => IInv
<1> SUFFICES ASSUME Init PROVE IInv
  OBVIOUS
<1> DEFINE Free == {n \in Node : dependency_account[n] = 0}
<1>1. waiting_queue \in Seq(Free) /\ Elements(waiting_queue) = Free /\ Distinct(waiting_queue)
  <2>1. IsFiniteSet(Free)
    BY NodeAssumption, FS_Subset
  <2> QED BY <2>1, OrderingFacts DEF Init
<1>2. \A n \in Node : ~Finished(n)
  BY DEF Init, Finished
<1>3. Elements(pool) = {} /\ dispatched = {} /\ pool \in Seq(Node) /\ Distinct(pool)
  <2>1. pool = << >> /\ dispatched = {}
    BY DEF Init
  <2> QED BY <2>1 DEF Elements, Distinct
<1>4. \A n \in Node : Cardinality(Predecessors(n)) \in Nat /\ Pending(n) = Predecessors(n)
  BY <1>2, PredecessorsFinite, FS_CardinalityType DEF Pending, Predecessors
<1>5. TypeOK
  <2>1. waiting_queue \in Seq(Node)
    BY <1>1
  <2>2. next_nodes \in [Node -> SUBSET Node]
    BY PlansAssumption DEF Init
  <2>3. setting \in [Step -> StepSetting]
    BY SettingsAssumption DEF Init
  <2>4. dependency_account \in [Node -> Int]
    <3>1. dependency_account = [n \in Node |-> Cardinality(Predecessors(n))]
      BY DEF Init
    <3> QED BY <1>4, <3>1
  <2> QED
    BY <1>3, <2>1, <2>2, <2>3, <2>4 DEF Init, TypeOK
<1>6. NeverQueuedTwice
  BY <1>1, <1>2, <1>3 DEF NeverQueuedTwice
<1>7. AccountsCountPending
  BY <1>4 DEF Init, AccountsCountPending
<1>8. PlacedMeansFree
  BY <1>1, <1>2, <1>3 DEF PlacedMeansFree, Placed
<1>9. StatusFollowsResult
  BY <1>2 DEF Init, StatusFollowsResult
<1>10. PreStatusIsPredecessorFailure /\ ReasonsAreFailedSteps /\ WorkflowStatusTellsFailure
  <2>1. \A n \in Node : status[n] # "failed" /\ pre_status[n] # -1
    <3>1. status = [n \in Node |-> "waiting"] /\ pre_status = [n \in Node |-> 0]
      BY DEF Init
    <3> QED BY <3>1
  <2> QED
    BY <2>1 DEF Init, PreStatusIsPredecessorFailure, ReasonsAreFailedSteps,
                WorkflowStatusTellsFailure, Predecessors
<1>11. GotCountsTaken
  <2>1. Taken = {}
    BY <1>2, <1>3 DEF Taken
  <2> QED BY <2>1, FS_EmptySet DEF Init, GotCountsTaken
<1>12. PlanHasSuccessors
  BY PlansAssumption DEF Init, PlanHasSuccessors
<1> QED BY <1>5, <1>6, <1>7, <1>8, <1>9, <1>10, <1>11, <1>12 DEF IInv

-----------------------------------------------------------------------------
(* The callback.                                                           *)

\* What every use of the callback has in common: node n was on its way (taken,
\* not finished), leaves the pool or its worker with this result, and the
\* result fits what work() found.
Ends(n, code) ==
  /\ n \in Elements(pool) \cup dispatched
  /\ n \in dispatched => HasHosts(n)
  /\ code = "PRE_DEPENDENCY_ERROR" => Skips(n)
  /\ code \in {"FAILED", "PARTIAL_PASSED"} => n \in Step
  /\ pool' \in Seq(Node) /\ Distinct(pool') /\ dispatched' \subseteq Step
  /\ Elements(pool') \cap dispatched' = {}
  /\ Elements(pool') \cup dispatched' = (Elements(pool) \cup dispatched) \ {n}
  /\ HandleResult(n, code)

\* A node on its way waits for nothing, so no successor of an unfinished node
\* has been queued.
LEMMA SuccessorsNotPlaced ==
  ASSUME IInv, NEW n \in Node, ~Finished(n), NEW m \in next_nodes[n]
  PROVE  m \in Node /\ n \in Pending(m) /\ dependency_account[m] \in Nat \ {0} /\ ~Placed(m)
<1>1. m \in Node /\ n \in Pending(m)
  BY DEF IInv, TypeOK, Pending, Predecessors
<1>2. dependency_account[m] = Cardinality(Pending(m))
  BY <1>1 DEF IInv, AccountsCountPending
<1>3. Cardinality(Pending(m)) \in Nat /\ Cardinality(Pending(m)) # 0
  BY <1>1, PredecessorsFinite, FS_CardinalityType, FS_EmptySet
<1> QED BY <1>1, <1>2, <1>3 DEF IInv, PlacedMeansFree

\* The callback types its variables and leaves the plan alone.
LEMMA EndsTypes ==
  ASSUME IInv, NEW n \in Node, NEW code \in Code, Ends(n, code)
  PROVE  /\ TypeOK'
         /\ UNCHANGED plan
         /\ result' = [result EXCEPT ![n] = code]
         /\ \A m \in Node : Finished(m)' <=> Finished(m) \/ m = n
<1>1. UNCHANGED <<plan, got, pc>> /\ result' = [result EXCEPT ![n] = code]
  BY DEF Ends, HandleResult
<1>2. result' \in [Node -> Code \cup {"none"}] /\ code # "none"
  BY <1>1 DEF IInv, TypeOK, Code, StepCode
<1>3. /\ pre_status' \in [Node -> {0, -1}]
      /\ status' \in [Node -> {"waiting", "success", "failed"}]
      /\ status_reason' \in [Node -> Node \cup {"", "ok"}]
      /\ wf_status' \in {"NORMAL", "ERR_WORKFLOW_EXECUTE"}
  <2>1. CASE MarkSkipped(n)
    BY <2>1 DEF IInv, TypeOK, MarkSkipped
  <2>2. CASE MarkSuccess(n)
    BY <2>2 DEF IInv, TypeOK, MarkSuccess
  <2>3. CASE MarkFailed(n)
    BY <2>3 DEF IInv, TypeOK, MarkFailed
  <2> QED BY <2>1, <2>2, <2>3 DEF Ends, HandleResult
<1>4. dependency_account' \in [Node -> Int]
  <2>1. dependency_account \in [Node -> Int]
    BY DEF IInv, TypeOK
  <2> QED BY <2>1 DEF Ends, HandleResult, ReleaseNext
<1>5. waiting_queue' \in Seq(Node)
  <2> DEFINE F == {m \in next_nodes[n] : dependency_account'[m] = 0}
  <2>1. F \subseteq Node /\ IsFiniteSet(F)
    BY NodeAssumption, FS_Subset DEF IInv, TypeOK
  <2>2. PICK free \in Orderings(F) : waiting_queue' = waiting_queue \o free
    BY DEF Ends, HandleResult, ReleaseNext
  <2>3. free \in Seq(Node)
    <3>1. free \in Seq(F)
      BY <2>1, OrderingFacts
    <3> QED BY <2>1, <3>1
  <2> QED BY <2>2, <2>3, ConcatFacts DEF IInv, TypeOK
<1>6. TypeOK'
  BY <1>1, <1>2, <1>3, <1>4, <1>5 DEF TypeOK, Ends, IInv, plan
<1>7. \A m \in Node : Finished(m)' <=> Finished(m) \/ m = n
  BY <1>1, <1>2 DEF Finished, IInv, TypeOK
<1> QED BY <1>1, <1>6, <1>7

\* The nodes the callback of n frees.
FreedBy(n) == {m \in next_nodes[n] : dependency_account'[m] = 0}

\* The freed nodes go behind the waiting queue, and are new there.
LEMMA EndsQueue ==
  ASSUME IInv, NEW n \in Node, NEW code \in Code, Ends(n, code)
  PROVE  /\ Elements(waiting_queue') = Elements(waiting_queue) \cup FreedBy(n)
         /\ Distinct(waiting_queue')
         /\ \A m \in FreedBy(n) : m \in Node /\ ~Placed(m)
<1>1. ~Finished(n)
  BY DEF Ends, IInv, NeverQueuedTwice
<1>2. \A m \in FreedBy(n) : m \in Node /\ ~Placed(m)
  BY <1>1, SuccessorsNotPlaced DEF FreedBy
<1>3. IsFiniteSet(FreedBy(n)) /\ FreedBy(n) \subseteq Node
  BY <1>2, NodeAssumption, FS_Subset
<1>4. PICK free \in Orderings(FreedBy(n)) : waiting_queue' = waiting_queue \o free
  BY DEF Ends, HandleResult, ReleaseNext, FreedBy
<1>5. free \in Seq(Node) /\ Elements(free) = FreedBy(n) /\ Distinct(free)
  <2>1. free \in Seq(FreedBy(n)) /\ Elements(free) = FreedBy(n) /\ Distinct(free)
    BY <1>3, OrderingFacts
  <2> QED BY <1>3, <2>1
<1>6. Elements(waiting_queue) \cap Elements(free) = {}
  BY <1>2, <1>5 DEF Placed
<1>7. waiting_queue \in Seq(Node) /\ Distinct(waiting_queue)
  BY DEF IInv, TypeOK, NeverQueuedTwice
<1> QED BY <1>2, <1>4, <1>5, <1>6, <1>7, ConcatFacts

LEMMA EndsNeverQueuedTwice ==
  ASSUME IInv, NEW n \in Node, NEW code \in Code, Ends(n, code)
  PROVE  NeverQueuedTwice'
<1>1. /\ Elements(waiting_queue') = Elements(waiting_queue) \cup FreedBy(n)
      /\ Distinct(waiting_queue')
      /\ \A m \in FreedBy(n) : m \in Node /\ ~Placed(m)
  BY EndsQueue
<1>2. \A m \in Node : Finished(m)' <=> Finished(m) \/ m = n
  BY EndsTypes
<1>3. /\ n \in Elements(pool) \cup dispatched
      /\ Distinct(pool') /\ Elements(pool') \cap dispatched' = {}
      /\ Elements(pool') \cup dispatched' = (Elements(pool) \cup dispatched) \ {n}
  BY DEF Ends
<1>4. /\ Elements(waiting_queue) \cap Elements(pool) = {}
      /\ (Elements(waiting_queue) \cup Elements(pool)) \cap dispatched = {}
      /\ \A m \in Elements(waiting_queue) \cup Elements(pool) \cup dispatched : ~Finished(m)
  BY DEF IInv, NeverQueuedTwice
<1>5. Elements(waiting_queue) \cup Elements(pool) \cup dispatched \subseteq Node
  BY NodeAssumption, RangeType DEF IInv, TypeOK
<1>6. Elements(waiting_queue') \cap (Elements(pool') \cup dispatched') = {}
  BY <1>1, <1>3, <1>4 DEF Placed
<1>7. \A m \in Elements(waiting_queue') \cup Elements(pool') \cup dispatched' : ~Finished(m)'
  <2>1. n \notin Elements(waiting_queue) /\ n \notin FreedBy(n)
    BY <1>1, <1>3, <1>4 DEF Placed
  <2> QED BY <1>1, <1>2, <1>3, <1>4, <1>5, <2>1 DEF Placed
<1>8. (\A m \in Elements(waiting_queue) \cup Elements(pool) \cup dispatched : ~Finished(m))'
  BY <1>7 DEF Elements
<1> QED BY <1>1, <1>3, <1>6, <1>8 DEF NeverQueuedTwice, Elements, Distinct

LEMMA EndsAccounts ==
  ASSUME IInv, NEW n \in Node, NEW code \in Code, Ends(n, code)
  PROVE  AccountsCountPending' /\ PlacedMeansFree'
<1>1. ~Finished(n)
  BY DEF Ends, IInv, NeverQueuedTwice
<1>2. /\ next_nodes' = next_nodes
      /\ \A m \in Node : Finished(m)' <=> Finished(m) \/ m = n
  BY EndsTypes DEF plan
<1>3. /\ Elements(waiting_queue') = Elements(waiting_queue) \cup FreedBy(n)
      /\ \A m \in FreedBy(n) : m \in Node /\ ~Placed(m)
  BY EndsQueue
<1>4. \A m \in Node : /\ m \in next_nodes[n] => dependency_account'[m] = dependency_account[m] - 1
                      /\ m \notin next_nodes[n] => dependency_account'[m] = dependency_account[m]
  BY DEF Ends, HandleResult, ReleaseNext
<1>5. \A m \in Node : Predecessors(m)' = Predecessors(m) /\ Pending(m)' = Pending(m) \ {n}
  BY <1>2 DEF Predecessors, Pending
<1>6. \A m \in Node : dependency_account[m] = Cardinality(Pending(m))
  BY DEF IInv, AccountsCountPending
<1>7. ASSUME NEW m \in Node
      PROVE  dependency_account'[m] = Cardinality(Pending(m)')
  <2>1. CASE m \in next_nodes[n]
    <3>1. n \in Pending(m)
      BY <1>1, <2>1 DEF Pending, Predecessors
    <3> QED BY <1>4, <1>5, <1>6, <2>1, <3>1, PredecessorsFinite, FS_RemoveElement
  <2>2. CASE m \notin next_nodes[n]
    <3>1. Pending(m) \ {n} = Pending(m)
      BY <2>2 DEF Pending, Predecessors
    <3> QED BY <1>4, <1>5, <1>6, <2>2, <3>1
  <2> QED BY <2>1, <2>2
<1>8. ASSUME NEW m \in Node
      PROVE  Placed(m)' <=> Placed(m) \/ m \in FreedBy(n)
  <2>1. Elements(pool') \cup dispatched' = (Elements(pool) \cup dispatched) \ {n}
    BY DEF Ends
  <2>2. Placed(n)
    BY DEF Ends, Placed
  <2>3. Placed(m)' <=> \/ m \in Elements(waiting_queue') \cup Elements(pool') \cup dispatched'
                       \/ Finished(m)'
    BY DEF Placed, Elements
  <2> QED BY <1>2, <1>3, <2>1, <2>2, <2>3 DEF Placed
<1>9. ASSUME NEW m \in Node
      PROVE  Placed(m)' <=> dependency_account'[m] = 0
  <2>1. Placed(m) <=> dependency_account[m] = 0
    BY DEF IInv, PlacedMeansFree
  <2>2. CASE m \in next_nodes[n]
    <3>1. ~Placed(m)
      BY <1>1, <2>2, SuccessorsNotPlaced
    <3> QED BY <1>8, <2>2, <3>1 DEF FreedBy
  <2>3. CASE m \notin next_nodes[n]
    <3>1. m \notin FreedBy(n)
      BY <2>3 DEF FreedBy
    <3> QED BY <1>4, <1>8, <2>1, <2>3, <3>1
  <2> QED BY <2>2, <2>3
<1> QED BY <1>7, <1>9 DEF AccountsCountPending, PlacedMeansFree

\* The branch of _handle_result that is taken.
LEMMA EndsBranch ==
  ASSUME IInv, NEW n \in Node, NEW code \in Code, Ends(n, code)
  PROVE  \/ code = "PRE_DEPENDENCY_ERROR" /\ MarkSkipped(n)
         \/ code # "PRE_DEPENDENCY_ERROR" /\ MarkSuccess(n)
         \/ /\ code \in {"FAILED", "PARTIAL_PASSED"} /\ ~IgnoresResult(n)
            /\ MarkFailed(n)
BY DEF Ends, HandleResult, Code, StepCode

LEMMA EndsMarks ==
  ASSUME IInv, NEW n \in Node, NEW code \in Code, Ends(n, code)
  PROVE  /\ StatusFollowsResult'
         /\ PreStatusIsPredecessorFailure'
         /\ WorkflowStatusTellsFailure'
<1>1. /\ TypeOK' /\ next_nodes' = next_nodes /\ result' = [result EXCEPT ![n] = code]
      /\ \A m \in Node : Finished(m)' <=> Finished(m) \/ m = n
  BY EndsTypes DEF plan
<1>2. ~Finished(n) /\ status[n] = "waiting"
  <2>1. ~Finished(n)
    BY DEF Ends, IInv, NeverQueuedTwice
  <2> QED BY <2>1 DEF IInv, StatusFollowsResult
<1>3. \A m \in Node : Predecessors(m)' = Predecessors(m)
  BY <1>1 DEF Predecessors
<1>4. \A m \in Node : n \in Predecessors(m) <=> m \in next_nodes[n]
  BY DEF Predecessors
<1>5. status \in [Node -> {"waiting", "success", "failed"}] /\ pre_status \in [Node -> {0, -1}]
      /\ result \in [Node -> Code \cup {"none"}]
  BY DEF IInv, TypeOK
<1>6. \/ code = "PRE_DEPENDENCY_ERROR" /\ MarkSkipped(n)
      \/ code # "PRE_DEPENDENCY_ERROR" /\ MarkSuccess(n)
      \/ code \in {"FAILED", "PARTIAL_PASSED"} /\ MarkFailed(n)
  BY EndsBranch
<1>7. status'[n] # "waiting" /\ (code = "PRE_DEPENDENCY_ERROR" => status'[n] = "failed")
  BY <1>5, <1>6 DEF MarkSkipped, MarkSuccess, MarkFailed
<1>8. \A m \in Node \ {n} : status'[m] = status[m] /\ result'[m] = result[m]
  BY <1>1, <1>5, <1>6 DEF MarkSkipped, MarkSuccess, MarkFailed
<1>9. StatusFollowsResult'
  <2>1. \A m \in Node : /\ Finished(m) <=> status[m] # "waiting"
                        /\ result[m] = "PRE_DEPENDENCY_ERROR" => status[m] = "failed"
    BY DEF IInv, StatusFollowsResult
  <2>2. result'[n] = code
    BY <1>1, <1>5
  <2>3. \A m \in Node : /\ Finished(m)' <=> status'[m] # "waiting"
                        /\ result'[m] = "PRE_DEPENDENCY_ERROR" => status'[m] = "failed"
    BY <1>1, <1>7, <1>8, <2>1, <2>2
  <2> QED BY <2>3 DEF StatusFollowsResult
<1>10. PreStatusIsPredecessorFailure'
  <2>1. \A m \in Node : pre_status[m] = -1 <=> \E p \in Predecessors(m) : status[p] = "failed"
    BY DEF IInv, PreStatusIsPredecessorFailure
  <2>2. ASSUME NEW m \in Node
        PROVE  pre_status'[m] = -1 <=>
                 pre_status[m] = -1 \/ (m \in next_nodes[n] /\ status'[n] = "failed")
    BY <1>5, <1>6 DEF MarkSkipped, MarkSuccess, MarkFailed
  <2>3. ASSUME NEW m \in Node
        PROVE  pre_status'[m] = -1 <=> \E p \in Predecessors(m) : status'[p] = "failed"
    <3>1. \A p \in Predecessors(m) : p \in Node
      BY DEF Predecessors
    <3> QED BY <1>2, <1>4, <1>8, <2>1, <2>2, <3>1
  <2> QED BY <1>3, <2>3 DEF PreStatusIsPredecessorFailure
<1>11. WorkflowStatusTellsFailure'
  <2>1. wf_status = "NORMAL" <=> \A m \in Node : status[m] # "failed"
    BY DEF IInv, WorkflowStatusTellsFailure
  <2>2. CASE code = "PRE_DEPENDENCY_ERROR" /\ MarkSkipped(n)
    <3>1. pre_status[n] = -1
      BY <2>2 DEF Ends, Skips
    <3>2. PICK p \in Predecessors(n) : status[p] = "failed"
      BY <3>1 DEF IInv, PreStatusIsPredecessorFailure
    <3>3. p \in Node /\ wf_status # "NORMAL"
      BY <2>1, <3>2 DEF Predecessors
    <3>4. wf_status' = wf_status /\ status'[p] = "failed"
      BY <1>5, <2>2, <3>2, <3>3 DEF MarkSkipped
    <3> QED BY <3>3, <3>4 DEF WorkflowStatusTellsFailure
  <2>3. CASE MarkSuccess(n)
    <3>1. wf_status' = wf_status /\ status'[n] = "success"
      BY <1>5, <2>3 DEF MarkSuccess
    <3> QED BY <1>2, <1>8, <2>1, <3>1 DEF WorkflowStatusTellsFailure
  <2>4. CASE MarkFailed(n)
    <3>1. wf_status' # "NORMAL" /\ status'[n] = "failed"
      BY <1>5, <2>4 DEF MarkFailed
    <3> QED BY <3>1 DEF WorkflowStatusTellsFailure
  <2> QED BY <1>6, <2>2, <2>3, <2>4
<1> QED BY <1>9, <1>10, <1>11

LEMMA EndsReasons ==
  ASSUME IInv, NEW n \in Node, NEW code \in Code, Ends(n, code)
  PROVE  ReasonsAreFailedSteps'
<1>1. /\ TypeOK' /\ UNCHANGED <<next_nodes, setting>>
      /\ result' = [result EXCEPT ![n] = code]
      /\ \A m \in Node : Finished(m)' <=> Finished(m) \/ m = n
  BY EndsTypes DEF plan
<1>2. /\ status \in [Node -> {"waiting", "success", "failed"}] /\ pre_status \in [Node -> {0, -1}]
      /\ status_reason \in [Node -> Node \cup {"", "ok"}]
      /\ result \in [Node -> Code \cup {"none"}]
      /\ next_nodes \in [Node -> SUBSET Node]
  BY DEF IInv, TypeOK
<1>3. ~Finished(n)
  BY DEF Ends, IInv, NeverQueuedTwice
<1>4. \A m \in Node : status[m] = "failed" \/ (pre_status[m] = -1 /\ ~Finished(m))
                        => status_reason[m] \in FailedSteps
  BY DEF IInv, ReasonsAreFailedSteps
<1>5. FailedSteps \subseteq FailedSteps'
  BY <1>1, <1>2, <1>3, NodeAssumption DEF FailedSteps, IgnoresResult, Finished
<1>6. SUFFICES ASSUME NEW m \in Node,
                      status'[m] = "failed" \/ (pre_status'[m] = -1 /\ ~Finished(m)')
               PROVE  status_reason'[m] \in FailedSteps'
  BY DEF ReasonsAreFailedSteps
<1>7. CASE code = "PRE_DEPENDENCY_ERROR" /\ MarkSkipped(n)
  <2>1. pre_status[n] = -1 /\ status_reason[n] \in FailedSteps'
    BY <1>3, <1>4, <1>5, <1>7 DEF Ends, Skips
  <2>2. CASE m \in next_nodes[n] \/ m = n
    <3>1. status_reason'[m] = status_reason[n]
      BY <1>2, <1>7, <2>2 DEF MarkSkipped
    <3> QED BY <2>1, <3>1
  <2>3. CASE m \notin next_nodes[n] /\ m # n
    <3>1. /\ status_reason'[m] = status_reason[m] /\ status'[m] = status[m]
          /\ pre_status'[m] = pre_status[m]
      BY <1>2, <1>7, <2>3 DEF MarkSkipped
    <3>2. status_reason[m] \in FailedSteps'
      BY <1>1, <1>4, <1>5, <1>6, <2>3, <3>1
    <3> QED BY <3>1, <3>2
  <2> QED BY <2>2, <2>3
<1>8. CASE MarkSuccess(n)
  <2>1. m # n
    BY <1>1, <1>2, <1>6, <1>8 DEF MarkSuccess
  <2>2. /\ status_reason'[m] = status_reason[m] /\ status'[m] = status[m]
        /\ pre_status'[m] = pre_status[m]
    BY <1>2, <1>8, <2>1 DEF MarkSuccess
  <2>3. status_reason[m] \in FailedSteps'
    BY <1>1, <1>4, <1>5, <1>6, <2>1, <2>2
  <2> QED BY <2>2, <2>3
<1>9. CASE code \in {"FAILED", "PARTIAL_PASSED"} /\ ~IgnoresResult(n) /\ MarkFailed(n)
  <2>1. n \in FailedSteps'
    BY <1>1, <1>2, <1>9 DEF FailedSteps, IgnoresResult, Ends
  <2>2. CASE m \in next_nodes[n] \cup {n}
    <3>1. status_reason'[m] = n
      BY <1>2, <1>9, <2>2 DEF MarkFailed
    <3> QED BY <2>1, <3>1
  <2>3. CASE m \notin next_nodes[n] \cup {n}
    <3>1. /\ status_reason'[m] = status_reason[m] /\ status'[m] = status[m]
          /\ pre_status'[m] = pre_status[m]
      BY <1>2, <1>9, <2>3 DEF MarkFailed
    <3>2. status_reason[m] \in FailedSteps'
      BY <1>1, <1>4, <1>5, <1>6, <2>3, <3>1
    <3> QED BY <3>1, <3>2
  <2> QED BY <2>2, <2>3
<1> QED BY <1>7, <1>8, <1>9, EndsBranch

LEMMA EndsGot ==
  ASSUME IInv, NEW n \in Node, NEW code \in Code, Ends(n, code)
  PROVE  GotCountsTaken'
<1>1. got' = got /\ pc' = pc
  BY DEF Ends, HandleResult
<1>2. \A m \in Node : Finished(m)' <=> Finished(m) \/ m = n
  BY EndsTypes
<1>3. Taken' = Taken
  <2>1. Taken' = Elements(pool') \cup dispatched' \cup {m \in Node : Finished(m)'}
    BY DEF Taken, Elements
  <2>2. Elements(pool') \cup dispatched' = (Elements(pool) \cup dispatched) \ {n}
    BY DEF Ends
  <2>3. n \in Taken
    BY DEF Ends, Taken
  <2> QED BY <1>2, <2>1, <2>2, <2>3 DEF Taken
<1>4. pc # "done"
  BY DEF IInv, GotCountsTaken, AllCompleted, Working, Ends, Elements
<1> QED BY <1>1, <1>3, <1>4 DEF IInv, GotCountsTaken

\* The callback preserves the invariant, whoever makes it.
LEMMA EndsIInv ==
  ASSUME IInv, NEW n \in Node, NEW code \in Code, Ends(n, code)
  PROVE  IInv'
<1>1. PlanHasSuccessors'
  BY EndsTypes DEF IInv, PlanHasSuccessors, StepsHaveSuccessors, plan
<1> QED BY <1>1, EndsTypes, EndsNeverQueuedTwice, EndsAccounts, EndsMarks, EndsReasons, EndsGot
    DEF IInv

-----------------------------------------------------------------------------
(* The steps of start() and of the workers.                                *)

\* What a step does not touch when it leaves all marks and results alone.
LEMMA SameMarks ==
  ASSUME IInv, UNCHANGED <<plan, marks, result>>,
         \A n \in Node : Placed(n)' <=> Placed(n)
  PROVE  /\ AccountsCountPending' /\ PlacedMeansFree' /\ StatusFollowsResult'
         /\ PreStatusIsPredecessorFailure' /\ ReasonsAreFailedSteps'
         /\ WorkflowStatusTellsFailure' /\ PlanHasSuccessors'
<1>1. /\ next_nodes' = next_nodes /\ setting' = setting /\ result' = result
      /\ dependency_account' = dependency_account /\ pre_status' = pre_status
      /\ status' = status /\ status_reason' = status_reason /\ wf_status' = wf_status
  BY DEF plan, marks
<1>2. \A n \in Node : Predecessors(n)' = Predecessors(n) /\ Pending(n)' = Pending(n)
  BY <1>1 DEF Predecessors, Pending, Finished
<1>3. FailedSteps' = FailedSteps
  BY <1>1 DEF FailedSteps, IgnoresResult
<1>4. AccountsCountPending' /\ PlacedMeansFree'
  BY <1>1, <1>2 DEF IInv, AccountsCountPending, PlacedMeansFree
<1>5. StatusFollowsResult' /\ WorkflowStatusTellsFailure'
  BY <1>1 DEF IInv, StatusFollowsResult, WorkflowStatusTellsFailure, Finished
<1>6. PreStatusIsPredecessorFailure'
  BY <1>1, <1>2 DEF IInv, PreStatusIsPredecessorFailure
<1>7. ReasonsAreFailedSteps'
  BY <1>1, <1>3 DEF IInv, ReasonsAreFailedSteps, Finished
<1>8. PlanHasSuccessors'
  BY <1>1 DEF IInv, PlanHasSuccessors, StepsHaveSuccessors
<1> QED BY <1>4, <1>5, <1>6, <1>7, <1>8

\* What a step does not touch that changes pc at most.
LEMMA SameQueues ==
  ASSUME IInv, UNCHANGED <<plan, marks, waiting_queue, got, pool, dispatched, result>>,
         pc' \in {"loop", "wait", "done", "raised"}
  PROVE  /\ TypeOK' /\ NeverQueuedTwice' /\ Taken' = Taken
         /\ \A n \in Node : Placed(n)' <=> Placed(n)
<1>1. /\ next_nodes' = next_nodes /\ setting' = setting /\ result' = result
      /\ dependency_account' = dependency_account /\ pre_status' = pre_status
      /\ status' = status /\ status_reason' = status_reason /\ wf_status' = wf_status
      /\ waiting_queue' = waiting_queue /\ pool' = pool /\ dispatched' = dispatched /\ got' = got
  BY DEF plan, marks
<1>2. TypeOK'
  BY <1>1 DEF IInv, TypeOK
<1>3. NeverQueuedTwice'
  BY <1>1 DEF IInv, NeverQueuedTwice, Distinct, Elements, Finished
<1>4. Taken' = Taken /\ \A n \in Node : Placed(n)' <=> Placed(n)
  BY <1>1 DEF Taken, Placed, Elements, Finished
<1> QED BY <1>2, <1>3, <1>4

LEMMA GetAndSubmitIInv == IInv /\ GetAndSubmit => IInv'
<1> SUFFICES ASSUME IInv, GetAndSubmit PROVE IInv'
  OBVIOUS
<1> DEFINE n == Head(waiting_queue)
<1>1. /\ UNCHANGED <<plan, marks, dispatched, result>> /\ pc = "loop" /\ got' = got + 1
      /\ waiting_queue' = Tail(waiting_queue) /\ pool' = Append(pool, n)
      /\ waiting_queue # << >>
      /\ pc' = IF got' = Cardinality(Node) THEN "wait" ELSE "loop"
  BY DEF GetAndSubmit
<1>2. waiting_queue \in Seq(Node) /\ pool \in Seq(Node) /\ dispatched \subseteq Step /\ got \in Nat
  BY DEF IInv, TypeOK
<1>3. /\ n \in Node /\ waiting_queue' \in Seq(Node)
      /\ Elements(waiting_queue) = {n} \cup Elements(waiting_queue')
      /\ Distinct(waiting_queue') /\ n \notin Elements(waiting_queue')
  BY <1>1, <1>2, TailFacts DEF IInv, NeverQueuedTwice
<1>4. /\ Distinct(pool)
      /\ Elements(waiting_queue) \cap Elements(pool) = {}
      /\ (Elements(waiting_queue) \cup Elements(pool)) \cap dispatched = {}
      /\ \A m \in Elements(waiting_queue) \cup Elements(pool) \cup dispatched : ~Finished(m)
  BY DEF IInv, NeverQueuedTwice
<1>5. pool' \in Seq(Node) /\ Elements(pool') = Elements(pool) \cup {n} /\ Distinct(pool')
  BY <1>1, <1>2, <1>3, <1>4, AppendFacts
<1>6. TypeOK'
  <2>1. got' \in Nat /\ pc' \in {"loop", "wait", "done", "raised"}
    BY <1>1, <1>2
  <2>2. /\ next_nodes' = next_nodes /\ setting' = setting /\ result' = result
        /\ dependency_account' = dependency_account /\ pre_status' = pre_status
        /\ status' = status /\ status_reason' = status_reason /\ wf_status' = wf_status
        /\ dispatched' = dispatched
    BY <1>1 DEF plan, marks
  <2> QED BY <1>3, <1>5, <2>1, <2>2 DEF IInv, TypeOK
<1>7. dispatched' = dispatched /\ \A m : Finished(m)' <=> Finished(m)
  BY <1>1 DEF Finished
<1>8. NeverQueuedTwice'
  <2>1. /\ Elements(waiting_queue') \cap Elements(pool') = {}
        /\ (Elements(waiting_queue') \cup Elements(pool')) \cap dispatched' = {}
        /\ \A m \in Elements(waiting_queue') \cup Elements(pool') \cup dispatched' : ~Finished(m)'
    BY <1>3, <1>4, <1>5, <1>7
  <2>2. (\A m \in Elements(waiting_queue) \cup Elements(pool) \cup dispatched : ~Finished(m))'
    BY <2>1 DEF Elements
  <2> QED BY <1>3, <1>5, <2>1, <2>2 DEF NeverQueuedTwice, Elements, Distinct
<1>9. \A m \in Node : Placed(m)' <=> Placed(m)
  <2>1. \A m \in Node : Placed(m)' <=>
          m \in Elements(waiting_queue') \cup Elements(pool') \cup dispatched' \/ Finished(m)'
    BY DEF Placed, Elements
  <2> QED BY <1>3, <1>5, <1>7, <2>1 DEF Placed
<1>10. GotCountsTaken'
  <2>1. Taken' = Taken \cup {n}
    <3>1. Taken' = Elements(pool') \cup dispatched' \cup {m \in Node : Finished(m)'}
      BY DEF Taken, Elements
    <3> QED BY <1>5, <1>7, <3>1 DEF Taken
  <2>2. n \notin Taken
    BY <1>3, <1>4 DEF Taken
  <2>3. IsFiniteSet(Taken)
    <3>1. Taken \subseteq Node
      BY <1>2, RangeType, NodeAssumption DEF Taken
    <3> QED BY <3>1, NodeAssumption, FS_Subset
  <2>4. Cardinality(Taken') = got + 1
    BY <2>1, <2>2, <2>3, FS_AddElement DEF IInv, GotCountsTaken
  <2>5. pc' \in {"wait", "loop"} /\ (pc' = "wait" => got' = Cardinality(Node))
    BY <1>1
  <2>6. got' = Cardinality(Taken') /\ pc' # "done"
    BY <1>1, <2>4, <2>5
  <2> QED BY <2>5, <2>6 DEF GotCountsTaken, Taken, Elements
<1> QED BY <1>1, <1>6, <1>8, <1>9, <1>10, SameMarks DEF IInv

\* The steps of start() that only change pc.
LEMMA EndOfStartIInv == IInv /\ (Timeout \/ Finish) => IInv'
<1> SUFFICES ASSUME IInv, Timeout \/ Finish PROVE IInv'
  OBVIOUS
<1>1. /\ UNCHANGED <<plan, marks, waiting_queue, got, pool, dispatched, result>>
      /\ pc' = "raised" \/ (pc' = "done" /\ pc = "wait" /\ AllCompleted)
  BY DEF Timeout, Finish
<1>2. /\ TypeOK' /\ NeverQueuedTwice' /\ Taken' = Taken
      /\ \A n \in Node : Placed(n)' <=> Placed(n)
  <2>1. pc' \in {"loop", "wait", "done", "raised"}
    BY <1>1
  <2> QED BY <1>1, <2>1, SameQueues
<1>3. AllCompleted' <=> AllCompleted
  BY <1>1 DEF AllCompleted, Working, HasHosts, plan
<1>4. GotCountsTaken'
  BY <1>1, <1>2, <1>3 DEF IInv, GotCountsTaken, AllCompleted
<1> QED BY <1>1, <1>2, <1>4, SameMarks DEF IInv

\* What a worker sees when it takes the oldest submitted node.
LEMMA TakeFacts ==
  ASSUME IInv, pool # << >>, pool' = Tail(pool)
  PROVE  /\ Head(pool) \in Node /\ Head(pool) \in Elements(pool)
         /\ pool' \in Seq(Node) /\ Distinct(pool')
         /\ Head(pool) \notin Elements(pool') \cup dispatched
         /\ Elements(pool) = {Head(pool)} \cup Elements(pool')
<1>1. /\ pool \in Seq(Node) /\ dispatched \subseteq Step /\ Distinct(pool)
      /\ Elements(pool) \cap dispatched = {}
  <2>1. /\ pool \in Seq(Node) /\ dispatched \subseteq Step
    BY DEF IInv, TypeOK
  <2>2. Distinct(pool) /\ (Elements(waiting_queue) \cup Elements(pool)) \cap dispatched = {}
    BY DEF IInv, NeverQueuedTwice
  <2> QED BY <2>1, <2>2
<1>2. /\ Head(pool) \in Node /\ Tail(pool) \in Seq(Node)
      /\ Elements(pool) = {Head(pool)} \cup Elements(Tail(pool))
      /\ Distinct(Tail(pool)) /\ Head(pool) \notin Elements(Tail(pool))
  BY <1>1, TailFacts
<1> QED BY <1>1, <1>2

LEMMA StartStepIInv == IInv /\ StartStep => IInv'
<1> SUFFICES ASSUME IInv, StartStep PROVE IInv'
  OBVIOUS
<1> DEFINE n == Head(pool)
<1>1. /\ UNCHANGED <<plan, marks, waiting_queue, got, result, pc>>
      /\ pool # << >> /\ pool' = Tail(pool) /\ dispatched' = dispatched \cup {n} /\ n \in Step
  BY DEF StartStep
<1>2. /\ n \in Node /\ pool' \in Seq(Node) /\ Distinct(pool')
      /\ n \notin Elements(pool') \cup dispatched /\ Elements(pool) = {n} \cup Elements(pool')
  BY <1>1, TakeFacts
<1>3. TypeOK'
  BY <1>1, <1>2 DEF IInv, TypeOK, plan, marks
<1>4. /\ Distinct(waiting_queue)
      /\ Elements(waiting_queue) \cap Elements(pool) = {}
      /\ (Elements(waiting_queue) \cup Elements(pool)) \cap dispatched = {}
      /\ \A m \in Elements(waiting_queue) \cup Elements(pool) \cup dispatched : ~Finished(m)
  BY DEF IInv, NeverQueuedTwice
<1>5. waiting_queue' = waiting_queue /\ \A m : Finished(m)' <=> Finished(m)
  BY <1>1 DEF Finished
<1>6. NeverQueuedTwice'
  <2>1. /\ Elements(waiting_queue) \cap Elements(pool') = {}
        /\ (Elements(waiting_queue) \cup Elements(pool')) \cap dispatched' = {}
        /\ \A m \in Elements(waiting_queue) \cup Elements(pool') \cup dispatched' : ~Finished(m)'
    BY <1>1, <1>2, <1>4, <1>5
  <2>2. (\A m \in Elements(waiting_queue) \cup Elements(pool) \cup dispatched : ~Finished(m))'
    BY <1>5, <2>1 DEF Elements
  <2> QED BY <1>2, <1>4, <1>5, <2>1, <2>2 DEF NeverQueuedTwice, Elements, Distinct
<1>7. Elements(pool') \cup dispatched' = Elements(pool) \cup dispatched
  BY <1>1, <1>2
<1>8. \A m \in Node : Placed(m)' <=> Placed(m)
  <2>1. \A m \in Node : Placed(m)' <=>
          m \in Elements(waiting_queue) \cup Elements(pool') \cup dispatched' \/ Finished(m)'
    BY <1>5 DEF Placed, Elements
  <2> QED BY <1>5, <1>7, <2>1 DEF Placed
<1>9. GotCountsTaken'
  <2>1. Taken' = Elements(pool') \cup dispatched' \cup {m \in Node : Finished(m)'}
    BY DEF Taken, Elements
  <2>2. Taken' = Taken
    BY <1>5, <1>7, <2>1 DEF Taken
  <2>3. got' = got /\ pc' = pc /\ pc # "done"
    BY <1>1 DEF IInv, GotCountsTaken, AllCompleted
  <2> QED BY <2>2, <2>3 DEF IInv, GotCountsTaken
<1> QED BY <1>1, <1>3, <1>6, <1>8, <1>9, SameMarks DEF IInv

\* The three steps that make the callback are Ends steps.
LEMMA CallbackEnds ==
  ASSUME IInv, StartSkipped \/ StartMarker \/ \E n \in Node, code \in StepCode : FinishStep(n, code)
  PROVE  \E n \in Node, code \in Code : Ends(n, code)
<1>1. ASSUME StartSkipped PROVE Ends(Head(pool), "PRE_DEPENDENCY_ERROR") /\ Head(pool) \in Node
  <2>1. /\ pool # << >> /\ pool' = Tail(pool) /\ Skips(Head(pool)) /\ dispatched' = dispatched
        /\ HandleResult(Head(pool), "PRE_DEPENDENCY_ERROR")
    BY <1>1 DEF StartSkipped
  <2>2. dispatched \subseteq Step /\ Elements(pool) \cap dispatched = {}
    BY DEF IInv, TypeOK, NeverQueuedTwice
  <2> QED BY <2>1, <2>2, TakeFacts DEF Ends
<1>2. ASSUME StartMarker PROVE Ends(Head(pool), "SUCCESS") /\ Head(pool) \in Node
  <2>1. /\ pool # << >> /\ pool' = Tail(pool) /\ dispatched' = dispatched
        /\ HandleResult(Head(pool), "SUCCESS")
    BY <1>2 DEF StartMarker
  <2>2. dispatched \subseteq Step /\ Elements(pool) \cap dispatched = {}
    BY DEF IInv, TypeOK, NeverQueuedTwice
  <2> QED BY <2>1, <2>2, TakeFacts DEF Ends
<1>3. ASSUME NEW n \in Node, NEW code \in StepCode, FinishStep(n, code) PROVE Ends(n, code)
  <2>1. /\ n \in dispatched /\ HasHosts(n) /\ dispatched' = dispatched \ {n}
        /\ pool' = pool /\ HandleResult(n, code)
    BY <1>3 DEF FinishStep, Working
  <2>2. /\ dispatched \subseteq Step /\ Elements(pool) \cap dispatched = {}
        /\ pool \in Seq(Node) /\ Distinct(pool)
    BY DEF IInv, TypeOK, NeverQueuedTwice
  <2> QED BY <2>1, <2>2 DEF Ends, StepCode
<1> QED BY <1>1, <1>2, <1>3 DEF Code, StepCode

LEMMA NextIInv == IInv /\ [Next]_vars => IInv'
<1> SUFFICES ASSUME IInv, [Next]_vars PROVE IInv'
  OBVIOUS
<1>1. CASE GetAndSubmit
  BY <1>1, GetAndSubmitIInv
<1>2. CASE Timeout \/ Finish
  BY <1>2, EndOfStartIInv
<1>3. CASE StartStep
  BY <1>3, StartStepIInv
<1>4. CASE StartSkipped \/ StartMarker \/ \E n \in Node, code \in StepCode : FinishStep(n, code)
  BY <1>4, CallbackEnds, EndsIInv
<1>5. CASE UNCHANGED vars
  <2>1. /\ UNCHANGED <<plan, marks, result>> /\ UNCHANGED <<waiting_queue, got, pool, dispatched, pc>>
    BY <1>5 DEF vars
  <2>2. /\ TypeOK' /\ NeverQueuedTwice' /\ Taken' = Taken
        /\ \A n \in Node : Placed(n)' <=> Placed(n)
    <3>1. pc' \in {"loop", "wait", "done", "raised"}
      BY <2>1 DEF IInv, TypeOK
    <3> QED BY <2>1, <3>1, SameQueues
  <2>3. AllCompleted' <=> AllCompleted
    BY <2>1 DEF AllCompleted, Working, HasHosts, plan
  <2>4. GotCountsTaken'
    BY <2>1, <2>2, <2>3 DEF IInv, GotCountsTaken
  <2> QED BY <2>1, <2>2, <2>4, SameMarks DEF IInv
<1> QED BY <1>1, <1>2, <1>3, <1>4, <1>5 DEF Next

-----------------------------------------------------------------------------
(* The theorems.                                                           *)

\* IInv is an invariant of the specification.
THEOREM InductiveInvariant == Spec => []IInv
BY InitIInv, NextIInv, PTL DEF Spec

\* The variables of a dispatched workflow keep their types: in particular no
\* callback fails on a node it does not know.
THEOREM TypeCorrect == Spec => []TypeOK
<1>1. IInv => TypeOK
  BY DEF IInv
<1> QED BY <1>1, InductiveInvariant, PTL

\* WorkFlow.start() and the workers never dispatch a node twice.
THEOREM QueuedOnce == Spec => []NeverQueuedTwice
<1>1. IInv => NeverQueuedTwice
  BY DEF IInv
<1> QED BY <1>1, InductiveInvariant, PTL

\* get_next_free_nodes releases a node only when every predecessor called back.
THEOREM PredecessorsFirst == Spec => []StartsAfterPredecessors
<1>1. IInv => StartsAfterPredecessors
  <2> SUFFICES ASSUME IInv, NEW n \in Node, Placed(n), NEW p \in Predecessors(n)
               PROVE  Finished(p)
    BY DEF StartsAfterPredecessors
  <2>1. Cardinality(Pending(n)) = 0
    BY DEF IInv, PlacedMeansFree, AccountsCountPending
  <2>2. IsFiniteSet(Pending(n))
    <3>1. Pending(n) \subseteq Node
      BY DEF Pending, Predecessors
    <3> QED BY <3>1, NodeAssumption, FS_Subset
  <2>3. Pending(n) = {}
    BY <2>1, <2>2, FS_EmptySet
  <2> QED BY <2>3 DEF Pending
<1> QED BY <1>1, InductiveInvariant, PTL

\* _handle_result marks the successors of failed and skipped nodes, no others.
THEOREM FailureReachesSuccessors == Spec => []PreStatusIsPredecessorFailure
<1>1. IInv => PreStatusIsPredecessorFailure
  BY DEF IInv
<1> QED BY <1>1, InductiveInvariant, PTL

\* The reason _handle_result hands on through skipped nodes is a failed step.
THEOREM SkipReasons == Spec => []SkipReasonIsFailedStep
<1>1. IInv => SkipReasonIsFailedStep
  <2> SUFFICES ASSUME IInv, NEW n \in Node, result[n] = "PRE_DEPENDENCY_ERROR"
               PROVE  status_reason[n] \in FailedSteps
    BY DEF SkipReasonIsFailedStep, FailedSteps
  <2>1. status[n] = "failed"
    BY DEF IInv, StatusFollowsResult
  <2> QED BY <2>1 DEF IInv, ReasonsAreFailedSteps
<1> QED BY <1>1, InductiveInvariant, PTL

\* start() returns only with every node finished, and then WorkFlow.status is
\* NORMAL exactly if all of them succeeded: BaseTask.run writes the right one of
\* SUCCESS and FAIL.
THEOREM NormalReturn == Spec => []NormalMeansAllSucceeded
<1>1. IInv => NormalMeansAllSucceeded
  <2> SUFFICES ASSUME IInv, pc = "done"
               PROVE  /\ \A n \in Node : Finished(n)
                      /\ wf_status = "NORMAL" <=> \A n \in Node : status[n] = "success"
    BY DEF NormalMeansAllSucceeded
  <2>1. Cardinality(Taken) = Cardinality(Node) /\ pool = << >>
    BY DEF IInv, GotCountsTaken, AllCompleted
  <2>2. Taken = dispatched \cup {n \in Node : Finished(n)} /\ dispatched \subseteq Node
    <3>1. Elements(pool) = {}
      BY <2>1 DEF Elements
    <3>2. dispatched \subseteq Node
      BY NodeAssumption DEF IInv, TypeOK
    <3> QED BY <3>1, <3>2 DEF Taken
  <2>3. Taken = Node
    <3>1. Taken \subseteq Node
      BY <2>2
    <3> QED BY <2>1, <3>1, NodeAssumption, FS_Subset
  \* Whatever is still dispatched has a successor that was never taken.
  <2>4. \A n \in Node : Finished(n)
    <3> SUFFICES ASSUME NEW n \in Node, ~Finished(n) PROVE FALSE
      OBVIOUS
    <3>1. n \in dispatched /\ n \in Step
      BY <2>2, <2>3 DEF IInv, TypeOK
    <3>2. PICK m \in next_nodes[n] : TRUE
      BY <3>1 DEF IInv, PlanHasSuccessors, StepsHaveSuccessors
    <3>3. m \in Node /\ ~Placed(m)
      BY <3>2, SuccessorsNotPlaced
    <3> QED BY <2>2, <2>3, <3>3 DEF Placed
  <2>5. \A n \in Node : status[n] \in {"success", "failed"}
    BY <2>4 DEF IInv, TypeOK, StatusFollowsResult
  <2> QED BY <2>4, <2>5 DEF IInv, WorkflowStatusTellsFailure
<1> QED BY <1>1, InductiveInvariant, PTL

\* A callback writes its own node, which has not finished, and nodes that still
\* wait for it: what a finished node reported stays.
THEOREM ResultsAreFinal == Spec => FinishedIsFinal
<1> DEFINE Keeps == \A n \in Node : Finished(n) =>
                      /\ result'[n] = result[n]
                      /\ status'[n] = status[n]
                      /\ status_reason'[n] = status_reason[n]
<1>1. ASSUME IInv, NEW m \in Node, NEW code \in Code, Ends(m, code) PROVE Keeps
  <2> SUFFICES ASSUME NEW n \in Node, Finished(n)
               PROVE  /\ result'[n] = result[n]
                      /\ status'[n] = status[n]
                      /\ status_reason'[n] = status_reason[n]
    OBVIOUS
  <2>1. n # m /\ n \notin next_nodes[m]
    <3>1. ~Finished(m)
      BY <1>1 DEF Ends, IInv, NeverQueuedTwice
    <3>2. ~Placed(n) \/ n \notin next_nodes[m]
      BY <1>1, <3>1, SuccessorsNotPlaced
    <3> QED BY <3>1, <3>2 DEF Placed
  <2>2. /\ status \in [Node -> {"waiting", "success", "failed"}]
        /\ status_reason \in [Node -> Node \cup {"", "ok"}]
        /\ result \in [Node -> Code \cup {"none"}]
    BY <1>1 DEF IInv, TypeOK
  <2>3. result' = [result EXCEPT ![m] = code]
    BY <1>1 DEF Ends, HandleResult
  <2>4. MarkSkipped(m) \/ MarkSuccess(m) \/ MarkFailed(m)
    BY <1>1, EndsBranch
  <2>5. status'[n] = status[n] /\ status_reason'[n] = status_reason[n]
    BY <2>1, <2>2, <2>4 DEF MarkSkipped, MarkSuccess, MarkFailed
  <2> QED BY <2>1, <2>2, <2>3, <2>5
<1>2. ASSUME UNCHANGED <<marks, result>> PROVE Keeps
  BY <1>2 DEF marks
<1>3. IInv /\ [Next]_vars => [Keeps]_vars
  <2> SUFFICES ASSUME IInv, Next PROVE Keeps
    OBVIOUS
  <2>1. CASE StartSkipped \/ StartMarker \/ \E n \in Node, code \in StepCode : FinishStep(n, code)
    BY <2>1, <1>1, CallbackEnds
  <2>2. CASE GetAndSubmit \/ Timeout \/ Finish \/ StartStep
    <3>1. UNCHANGED <<marks, result>>
      BY <2>2 DEF GetAndSubmit, Timeout, Finish, StartStep
    <3> QED BY <3>1, <1>2
  <2> QED BY <2>1, <2>2 DEF Next
<1> QED BY <1>3, InductiveInvariant, PTL DEF Spec, FinishedIsFinal

=============================================================================
