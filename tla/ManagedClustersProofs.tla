------------------------ MODULE ManagedClustersProofs ------------------------
(***************************************************************************)
(* Proofs about registering, synchronising and deleting managed clusters,  *)
(* for any clusters, celery processes and numbers of requests.             *)
(***************************************************************************)
EXTENDS ManagedClusters, TLAPS

-----------------------------------------------------------------------------
(* The tasks: none appears twice that was there once, and none is gone     *)
(* without its result being applied or lost.                               *)

WorkPc == {"idle", "properties", "write_properties", "application", "write_application", "last"}

Message == [task : Task, state : {"succeed", "fail"}]

CanalType ==
  /\ queue \in Seq(Task) /\ channel \in Seq(Message)
  /\ work \in [Worker -> [task : SUBSET Task, pc : WorkPc, read : SUBSET Cluster]]
  /\ destinations \subseteq Cluster /\ adapters \subseteq Cluster
  /\ \A w \in Worker : /\ work[w].pc = "idle" <=> work[w].task = {}
                       /\ \A t, u \in work[w].task : t = u

Queued(t) == \E i \in DOMAIN queue : queue[i] = t
Taken(t) == \E w \in Worker : t \in work[w].task
Told(t) == \E i \in DOMAIN channel : channel[i].task = t

\* The task t is in one place at most.
Once(t) ==
  /\ \A i, j \in DOMAIN queue : queue[i] = t /\ queue[j] = t => i = j
  /\ \A v, w \in Worker : t \in work[v].task /\ t \in work[w].task => v = w
  /\ \A i, j \in DOMAIN channel : channel[i].task = t /\ channel[j].task = t => i = j
  /\ ~(Queued(t) /\ Taken(t)) /\ ~(Queued(t) /\ Told(t)) /\ ~(Taken(t) /\ Told(t))

Owned(t) == Pending(t) \/ t \in lost

LEMMA Places == \A t : Pending(t) <=> Queued(t) \/ Taken(t) \/ Told(t)
BY DEF Pending, Queued, Taken, Told

LEMMA Enqueues ==
  ASSUME CanalType, NEW t \in Task, Enqueue(t)
  PROVE  /\ CanalType' /\ Pending(t)'
         /\ \A u : Pending(u) => Pending(u)'
         /\ \A u : u # t => /\ Pending(u)' => Pending(u)
                            /\ u \in lost' <=> u \in lost
                            /\ Once(u) => Once(u)'
         /\ ~Pending(t) => Once(t)'
<1>1. /\ queue' = Append(queue, t) /\ UNCHANGED <<work, channel, destinations, adapters>>
      /\ lost' = lost \ {t}
  BY DEF Enqueue
<1>2. /\ queue' \in Seq(Task) /\ Len(queue') = Len(queue) + 1 /\ Len(queue) \in Nat
      /\ \A i \in 1..Len(queue) : queue'[i] = queue[i]
      /\ queue'[Len(queue) + 1] = t
      /\ DOMAIN queue = 1..Len(queue) /\ DOMAIN queue' = 1..(Len(queue) + 1)
  BY <1>1 DEF CanalType
<1>3. CanalType'
  BY <1>1, <1>2 DEF CanalType
<1>4. \A u : Queued(u)' <=> Queued(u) \/ u = t
  BY <1>2 DEF Queued
<1>5. \A u : (Taken(u)' <=> Taken(u)) /\ (Told(u)' <=> Told(u))
  BY <1>1 DEF Taken, Told
<1>6. ASSUME NEW u, u # t, Once(u) PROVE Once(u)'
  <2>1. \A i, j \in DOMAIN queue' : queue'[i] = u /\ queue'[j] = u => i = j
    BY <1>2, <1>6 DEF Once
  <2> QED BY <1>1, <1>4, <1>5, <1>6, <2>1 DEF Once
<1>7. ASSUME ~Pending(t) PROVE Once(t)'
  <2>1. ~Queued(t) /\ ~Taken(t) /\ ~Told(t)
    BY <1>7, Places
  <2>2. \A i, j \in DOMAIN queue' : queue'[i] = t /\ queue'[j] = t => i = j
    BY <1>2, <2>1 DEF Queued
  <2> QED BY <1>1, <1>5, <2>1, <2>2 DEF Once, Taken, Told
<1>8. \A u : Pending(u)' <=> Queued(u)' \/ Taken(u)' \/ Told(u)'
  BY DEF Pending, Queued, Taken, Told
<1> QED BY <1>1, <1>3, <1>4, <1>5, <1>6, <1>7, <1>8, Places

\* A worker without its task.
LEMMA WorkerFree ==
  ASSUME CanalType, NEW w \in Worker, work' = [work EXCEPT ![w] = Idle], UNCHANGED queue
  PROVE  /\ work' \in [Worker -> [task : SUBSET Task, pc : WorkPc, read : SUBSET Cluster]]
         /\ \A v \in Worker : /\ work'[v].pc = "idle" <=> work'[v].task = {}
                              /\ \A t, u \in work'[v].task : t = u
         /\ \A v \in Worker : work'[v].task = IF v = w THEN {} ELSE work[v].task
         /\ \A u : Queued(u)' <=> Queued(u)
         /\ \A u : Taken(u)' => Taken(u)
         /\ \A u : Taken(u) => Taken(u)' \/ u \in work[w].task
BY DEF CanalType, Idle, WorkPc, Queued, Taken

LEMMA CanalSteps ==
  ASSUME CanalType, NEW w \in Worker, RunTask(w) \/ WorkerDies(w)
  PROVE  /\ CanalType' /\ lost \subseteq lost'
         /\ \A u : Pending(u) => Owned(u)'
         /\ \A u : Pending(u)' => Pending(u)
         /\ \A u : Once(u) => Once(u)'
<1> USE DEF CanalType
<1>0. \A u : Pending(u)' <=> Queued(u)' \/ Taken(u)' \/ Told(u)'
  BY DEF Pending, Queued, Taken, Told
<1>1. CASE Take(w)
  <2>1. /\ work[w].task = {} /\ queue # << >> /\ queue' = Tail(queue)
        /\ work' = [work EXCEPT ![w] = [task |-> {Head(queue)}, pc |-> "properties", read |-> {}]]
        /\ UNCHANGED <<destinations, adapters, channel, lost>>
    BY <1>1 DEF Take
  <2>2. /\ Len(queue) \in Nat /\ Len(queue) > 0 /\ Head(queue) = queue[1] /\ Head(queue) \in Task
        /\ queue' \in Seq(Task)
        /\ DOMAIN queue = 1..Len(queue) /\ DOMAIN queue' = 1..(Len(queue) - 1)
        /\ \A i \in 1..(Len(queue) - 1) : queue'[i] = queue[i + 1]
    BY <2>1
  <2>3. /\ \A v \in Worker : work'[v].task = IF v = w THEN {Head(queue)} ELSE work[v].task
        /\ work' \in [Worker -> [task : SUBSET Task, pc : WorkPc, read : SUBSET Cluster]]
        /\ \A v \in Worker : /\ work'[v].pc = "idle" <=> work'[v].task = {}
                             /\ \A x, y \in work'[v].task : x = y
    <3>1. /\ work'[w].task = {Head(queue)} /\ work'[w].pc = "properties"
          /\ \A v \in Worker \ {w} : work'[v] = work[v]
      BY <2>1
    <3>2. work' \in [Worker -> [task : SUBSET Task, pc : WorkPc, read : SUBSET Cluster]]
      BY <2>1, <2>2 DEF WorkPc
    <3>3. ASSUME NEW v \in Worker
          PROVE  /\ work'[v].pc = "idle" <=> work'[v].task = {}
                 /\ \A x, y \in work'[v].task : x = y
                 /\ work'[v].task = IF v = w THEN {Head(queue)} ELSE work[v].task
      <4>1. CASE v = w
        BY <3>1, <4>1
      <4>2. CASE v # w
        BY <3>1, <4>2
      <4> QED BY <4>1, <4>2
    <3> QED BY <3>2, <3>3
  <2>4. CanalType'
    BY <2>1, <2>2, <2>3
  <2>5. \A u : Queued(u)' => Queued(u)
    <3> SUFFICES ASSUME NEW u, NEW i \in DOMAIN queue', queue'[i] = u PROVE Queued(u)
      BY DEF Queued
    <3>1. i + 1 \in DOMAIN queue /\ queue[i + 1] = u
      BY <2>2
    <3> QED BY <3>1 DEF Queued
  <2>6. \A u : Queued(u) => Queued(u)' \/ u = Head(queue)
    <3> SUFFICES ASSUME NEW u, NEW i \in DOMAIN queue, queue[i] = u, u # Head(queue)
                 PROVE  Queued(u)'
      BY DEF Queued
    <3>1. i - 1 \in DOMAIN queue' /\ queue'[i - 1] = u
      BY <2>2
    <3> QED BY <3>1 DEF Queued
  <2>7. \A u : Taken(u)' <=> Taken(u) \/ u = Head(queue)
    BY <2>1, <2>3 DEF Taken
  <2>8. \A u : Told(u)' <=> Told(u)
    BY <2>1 DEF Told
  <2>9. Queued(Head(queue))
    BY <2>2 DEF Queued
  <2>10. \A u : Once(u) => Once(u)'
    <3> SUFFICES ASSUME NEW u, Once(u) PROVE Once(u)'
      OBVIOUS
    <3>1. \A i, j \in DOMAIN queue' : queue'[i] = u /\ queue'[j] = u => i = j
      <4> SUFFICES ASSUME NEW i \in DOMAIN queue', NEW j \in DOMAIN queue',
                          queue'[i] = u, queue'[j] = u
                   PROVE  i = j
        OBVIOUS
      <4>1. queue[i + 1] = u /\ queue[j + 1] = u /\ i + 1 \in DOMAIN queue /\ j + 1 \in DOMAIN queue
        BY <2>2
      <4>2. i + 1 = j + 1
        BY <4>1 DEF Once
      <4> QED BY <2>2, <4>2
    <3>2. u = Head(queue) => ~Queued(u)' /\ ~Taken(u) /\ ~Told(u)
      <4> SUFFICES ASSUME u = Head(queue) PROVE ~Queued(u)' /\ ~Taken(u) /\ ~Told(u)
        OBVIOUS
      <4>1. \A i \in DOMAIN queue' : queue'[i] # u
        <5> SUFFICES ASSUME NEW i \in DOMAIN queue', queue'[i] = u PROVE FALSE
          OBVIOUS
        <5>1. i + 1 \in DOMAIN queue /\ 1 \in DOMAIN queue /\ queue[i + 1] = u /\ queue[1] = u
          BY <2>2
        <5>2. i + 1 = 1
          BY <5>1 DEF Once
        <5> QED BY <2>2, <5>2
      <4> QED BY <2>9, <4>1 DEF Once, Queued
    <3>3. \A v, x \in Worker : u \in work'[v].task /\ u \in work'[x].task => v = x
      BY <2>3, <3>2 DEF Once, Taken
    <3> QED BY <2>1, <2>5, <2>7, <2>8, <3>1, <3>2, <3>3 DEF Once
  <2> QED BY <1>0, <2>1, <2>4, <2>5, <2>6, <2>7, <2>8, <2>9, <2>10, Places DEF Owned
<1>2. CASE ReadProperties(w) \/ WriteProperties(w) \/ ReadApplication(w) \/ WriteApplication(w)
  <2>1. PICK from \in WorkPc \ {"idle"}, to \in WorkPc \ {"idle"}, read \in SUBSET Cluster :
          Goes(w, from, to, read)
    BY <1>2 DEF ReadProperties, WriteProperties, ReadApplication, WriteApplication, WorkPc
  <2>2. /\ work[w].pc = from
        /\ work' = [work EXCEPT ![w] = [task |-> work[w].task, pc |-> to, read |-> read]]
    BY <2>1 DEF Goes
  <2>3. /\ work' \in [Worker -> [task : SUBSET Task, pc : WorkPc, read : SUBSET Cluster]]
        /\ \A v \in Worker : /\ work'[v].task = work[v].task
                             /\ work'[v].pc = "idle" <=> work[v].pc = "idle"
    BY <2>2
  <2>4. UNCHANGED <<queue, channel, lost>>
    BY <1>2 DEF ReadProperties, WriteProperties, ReadApplication, WriteApplication
  <2>5. Changed(w) \subseteq Cluster
    <3>1. PICK t \in work[w].task : t = CHOOSE u \in work[w].task : TRUE
      BY <2>2
    <3>2. t.cluster \in Cluster /\ work[w].read \subseteq Cluster
      BY DEF Task
    <3> QED BY <3>1, <3>2 DEF Changed
  <2>6. CanalType'
    BY <1>2, <2>3, <2>4, <2>5 DEF ReadProperties, WriteProperties, ReadApplication, WriteApplication
  <2> QED BY <2>3, <2>4, <2>6 DEF Pending, Owned, Once, Queued, Taken, Told
<1>3. CASE TaskSucceeds(w) \/ TaskFails(w)
  <2>1. PICK t \in work[w].task, s \in {"succeed", "fail"} :
          Publish(t, s) \/ (lost' = lost \cup {t} /\ UNCHANGED channel)
    BY <1>3 DEF TaskSucceeds, TaskFails
  <2>2. /\ work' = [work EXCEPT ![w] = Idle] /\ UNCHANGED <<queue, destinations, adapters>>
    BY <1>3 DEF TaskSucceeds, TaskFails
  <2>3. /\ work' \in [Worker -> [task : SUBSET Task, pc : WorkPc, read : SUBSET Cluster]]
        /\ \A v \in Worker : /\ work'[v].pc = "idle" <=> work'[v].task = {}
                             /\ \A x, y \in work'[v].task : x = y
        /\ \A v \in Worker : work'[v].task = IF v = w THEN {} ELSE work[v].task
        /\ \A u : Queued(u)' <=> Queued(u)
        /\ \A u : Taken(u)' => Taken(u)
        /\ \A u : Taken(u) => Taken(u)' \/ u \in work[w].task
    BY <2>2, WorkerFree
  <2>4. work[w].task = {t} /\ t \in Task /\ Taken(t)
    BY DEF Taken
  <2>5. CASE lost' = lost \cup {t} /\ UNCHANGED channel
    <3>1. \A u : Told(u)' <=> Told(u)
      BY <2>5 DEF Told
    <3>2. \A u : Once(u) => Once(u)'
      BY <2>2, <2>3, <2>5, <3>1 DEF Once
    <3> QED BY <1>0, <2>2, <2>3, <2>4, <2>5, <3>1, <3>2, Places DEF Owned
  <2>6. CASE channel' = Append(channel, [task |-> t, state |-> s]) /\ UNCHANGED lost
    <3> DEFINE m == [task |-> t, state |-> s]
    <3>1. /\ m \in Message /\ m.task = t
      BY <2>4 DEF Message
    <3>2. /\ channel' \in Seq(Message) /\ Len(channel) \in Nat
          /\ DOMAIN channel = 1..Len(channel) /\ DOMAIN channel' = 1..(Len(channel) + 1)
          /\ \A i \in 1..Len(channel) : channel'[i] = channel[i]
          /\ channel'[Len(channel) + 1].task = t
      BY <2>6, <3>1
    <3>3. \A u : Told(u)' <=> Told(u) \/ u = t
      <4>1. ASSUME NEW u, NEW i \in DOMAIN channel', channel'[i].task = u PROVE Told(u) \/ u = t
        BY <3>2, <4>1 DEF Told
      <4>2. ASSUME NEW u, NEW i \in DOMAIN channel, channel[i].task = u PROVE Told(u)'
        <5>1. i \in DOMAIN channel' /\ channel'[i].task = u
          BY <3>2, <4>2
        <5> QED BY <5>1 DEF Told
      <4>3. Told(t)'
        <5>1. Len(channel) + 1 \in DOMAIN channel' /\ channel'[Len(channel) + 1].task = t
          BY <3>2
        <5> QED BY <5>1 DEF Told
      <4> QED BY <4>1, <4>2, <4>3 DEF Told
    <3>4. ~Taken(t)' \/ ~Once(t)
      BY <2>3, <2>4 DEF Taken, Once
    <3>5. \A u : Once(u) => Once(u)'
      <4> SUFFICES ASSUME NEW u, Once(u) PROVE Once(u)'
        OBVIOUS
      <4>1. \A i, j \in DOMAIN channel' : channel'[i].task = u /\ channel'[j].task = u => i = j
        <5>1. CASE u = t
          <6>1. ~Told(t)
            BY <2>4, <5>1 DEF Once
          <6> QED BY <3>2, <5>1, <6>1 DEF Told
        <5>2. CASE u # t
          BY <3>2, <5>2 DEF Once
        <5> QED BY <5>1, <5>2
      <4>2. u = t => ~Queued(u) /\ ~Told(u) /\ ~Taken(u)'
        BY <2>4, <3>4 DEF Once
      <4>3. \A v, x \in Worker : u \in work'[v].task /\ u \in work'[x].task => v = x
        BY <2>3 DEF Once
      <4> QED BY <2>2, <2>3, <3>3, <4>1, <4>2, <4>3 DEF Once
    <3>6. CanalType'
      BY <2>2, <2>3, <3>2
    <3> QED BY <1>0, <2>3, <2>4, <2>6, <3>3, <3>5, <3>6, Places DEF Owned
  <2> QED BY <2>1, <2>5, <2>6 DEF Publish
<1>4. CASE WorkerDies(w)
  <2>1. /\ work' = [work EXCEPT ![w] = Idle] /\ UNCHANGED <<queue, channel, destinations, adapters>>
        /\ lost' = lost \cup work[w].task
    BY <1>4 DEF WorkerDies
  <2>2. /\ work' \in [Worker -> [task : SUBSET Task, pc : WorkPc, read : SUBSET Cluster]]
        /\ \A v \in Worker : /\ work'[v].pc = "idle" <=> work'[v].task = {}
                             /\ \A x, y \in work'[v].task : x = y
        /\ \A v \in Worker : work'[v].task = IF v = w THEN {} ELSE work[v].task
        /\ \A u : Queued(u)' <=> Queued(u)
        /\ \A u : Taken(u)' => Taken(u)
        /\ \A u : Taken(u) => Taken(u)' \/ u \in work[w].task
    BY <2>1, WorkerFree
  <2>3. \A u : Told(u)' <=> Told(u)
    BY <2>1 DEF Told
  <2>4. \A u : Once(u) => Once(u)'
    BY <2>1, <2>2, <2>3 DEF Once
  <2> QED BY <1>0, <2>1, <2>2, <2>3, <2>4, Places DEF Owned
<1> QED BY <1>1, <1>2, <1>3, <1>4 DEF RunTask

\* A result is taken from the channel.
LEMMA ResultTaken ==
  ASSUME CanalType, channel # << >>, channel' = Tail(channel), UNCHANGED <<queue, work>>,
         UNCHANGED <<destinations, adapters>>
  PROVE  /\ CanalType' /\ Head(channel) \in Message
         /\ \A u : Pending(u) => Pending(u)' \/ u = Head(channel).task
         /\ \A u : Pending(u)' => Pending(u)
         /\ \A u : Once(u) => Once(u)'
         /\ \A u : Once(u) /\ u = Head(channel).task => ~Pending(u)'
<1>1. /\ Len(channel) \in Nat /\ Len(channel) > 0 /\ Head(channel) = channel[1]
      /\ Head(channel) \in Message /\ channel' \in Seq(Message)
      /\ DOMAIN channel = 1..Len(channel) /\ DOMAIN channel' = 1..(Len(channel) - 1)
      /\ \A i \in 1..(Len(channel) - 1) : channel'[i] = channel[i + 1]
  BY DEF CanalType
<1>2. CanalType'
  BY <1>1 DEF CanalType
<1>3. \A u : (Queued(u)' <=> Queued(u)) /\ (Taken(u)' <=> Taken(u))
  BY DEF Queued, Taken
<1>4. \A u : Told(u)' => Told(u)
  <2> SUFFICES ASSUME NEW u, NEW i \in DOMAIN channel', channel'[i].task = u PROVE Told(u)
    BY DEF Told
  <2>1. i + 1 \in DOMAIN channel /\ channel[i + 1].task = u
    BY <1>1
  <2> QED BY <2>1 DEF Told
<1>5. \A u : Told(u) => Told(u)' \/ u = Head(channel).task
  <2> SUFFICES ASSUME NEW u, NEW i \in DOMAIN channel, channel[i].task = u, u # Head(channel).task
               PROVE  Told(u)'
    BY DEF Told
  <2>1. i - 1 \in DOMAIN channel' /\ channel'[i - 1].task = u
    BY <1>1
  <2> QED BY <2>1 DEF Told
<1>6. ASSUME NEW u, Once(u) PROVE Once(u)'
  <2>1. \A i, j \in DOMAIN channel' : channel'[i].task = u /\ channel'[j].task = u => i = j
    <3> SUFFICES ASSUME NEW i \in DOMAIN channel', NEW j \in DOMAIN channel',
                        channel'[i].task = u, channel'[j].task = u
                 PROVE  i = j
      OBVIOUS
    <3>1. /\ channel[i + 1].task = u /\ channel[j + 1].task = u
          /\ i + 1 \in DOMAIN channel /\ j + 1 \in DOMAIN channel
      BY <1>1
    <3>2. i + 1 = j + 1
      BY <1>6, <3>1 DEF Once
    <3> QED BY <1>1, <3>2
  <2> QED BY <1>3, <1>4, <1>6, <2>1 DEF Once
<1>7. ASSUME NEW u, Once(u), u = Head(channel).task PROVE ~Pending(u)'
  <2>1. Told(u)
    BY <1>1, <1>7 DEF Told
  <2>2. ~Queued(u) /\ ~Taken(u)
    BY <1>7, <2>1 DEF Once
  <2>3. ~Told(u)'
    <3> SUFFICES ASSUME NEW i \in DOMAIN channel', channel'[i].task = u PROVE FALSE
      BY DEF Told
    <3>1. /\ channel[i + 1].task = u /\ channel[1].task = u
          /\ i + 1 \in DOMAIN channel /\ 1 \in DOMAIN channel
      BY <1>1, <1>7
    <3>2. i + 1 = 1
      BY <1>7, <3>1 DEF Once
    <3> QED BY <1>1, <3>2
  <2> QED BY <1>3, <2>2, <2>3 DEF Pending, Queued, Taken, Told
<1>8. \A u : Pending(u)' <=> Queued(u)' \/ Taken(u)' \/ Told(u)'
  BY DEF Pending, Queued, Taken, Told
<1> QED BY <1>1, <1>2, <1>3, <1>4, <1>5, <1>6, <1>7, <1>8, Places

-----------------------------------------------------------------------------
(* The requests.  For each cluster: the key that a registration has bound  *)
(* is the one it will record; a state of running has its synchronisation,  *)
(* and a row that nobody manages its cancellation, except between a row's  *)
(* commit and the task it stands for; and there is one cancellation at     *)
(* most, while the cluster is being forgotten or is no more managed.       *)

ReqPc == {"idle", "bind", "add", "commit", "start", "invalidate", "unbind", "cancel", "forget",
          "update", "restart"}
Mark == {"bound", "added", "deleted", "misled"}

RequestType ==
  /\ req \in [Cluster -> [pc : ReqPc, key : Nat]]
  /\ assoc \in [Cluster -> Nat] /\ bound \in [Cluster -> Nat]
  /\ row \in [Cluster -> {"none", "running", "succeed", "fail"}]
  /\ left \in [Cluster -> Nat]
  /\ halfway \in [Cluster -> SUBSET Mark]

KeysOk(c) ==
  /\ req[c].pc \in {"add", "commit"} => bound[c] = req[c].key
  /\ req[c].pc \in {"bind", "add", "commit"} => req[c].key > 0
  /\ req[c].pc \in {"cancel", "forget"} => bound[c] = 0
  /\ req[c].pc \notin {"add", "commit"} =>
       assoc[c] = 0 \/ bound[c] = 0 \/ assoc[c] = bound[c] \/ "bound" \in halfway[c]

RunningOk(c) ==
  req[c].pc \notin {"commit", "start", "restart"} /\ row[c] = "running" => Owned(Sync(c))

OrphanOk(c) ==
  /\ req[c].pc # "commit" /\ assoc[c] = 0 /\ row[c] # "none" =>
       Owned(Cancel(c)) \/ "added" \in halfway[c]
  /\ req[c].pc = "forget" /\ row[c] # "none" => Owned(Cancel(c))

Clean(c) == halfway[c] \cap {"deleted", "misled"} = {}

KnownOk(c) ==
  Clean(c) =>
    /\ assoc[c] # 0 => row[c] # "none" \/ req[c].pc = "forget"
    /\ req[c].pc = "commit" => row[c] # "none"
    /\ req[c].pc \in {"unbind", "cancel"} => assoc[c] # 0
    /\ Once(Cancel(c))
    /\ Pending(Cancel(c)) =>
         /\ row[c] # "none"
         /\ req[c].pc = "forget"
              \/ (assoc[c] = 0 /\ req[c].pc \in {"idle", "invalidate", "bind", "add"})

ClusterOk(c) == KeysOk(c) /\ RunningOk(c) /\ OrphanOk(c) /\ KnownOk(c)

Inv == CanalType /\ RequestType /\ \A c \in Cluster : ClusterOk(c)

LEMMA InvStart == Init => Inv
<1> SUFFICES ASSUME Init PROVE Inv
  OBVIOUS
<1>1. PICK M \in SUBSET Cluster :
        /\ assoc = [c \in Cluster |-> IF c \in M THEN 1 ELSE 0] /\ bound = assoc
        /\ row = [c \in Cluster |-> IF c \in M THEN "succeed" ELSE "none"]
        /\ CanalInit(M)
  BY DEF Init
<1>2. /\ queue = << >> /\ channel = << >> /\ work = [w \in Worker |-> Idle]
      /\ destinations = M /\ adapters = M
  BY <1>1 DEF CanalInit
<1>3. CanalType
  BY <1>2 DEF CanalType, Idle, WorkPc
<1>4. left \in [Cluster -> Nat]
  BY BudgetsAssumption DEF Init
<1>5. RequestType
  BY <1>1, <1>4 DEF Init, RequestType, NoRequest, ReqPc
<1>6. \A t : ~Queued(t) /\ ~Taken(t) /\ ~Told(t)
  BY <1>2 DEF Queued, Taken, Told, Idle
<1>7. \A t : Once(t) /\ ~Pending(t)
  BY <1>2, <1>6, Places DEF Once, Taken
<1>8. ASSUME NEW c \in Cluster PROVE ClusterOk(c)
  <2>1. /\ req[c].pc = "idle" /\ bound[c] = assoc[c]
        /\ row[c] # "running" /\ (assoc[c] = 0 <=> row[c] = "none")
    BY <1>1 DEF Init, NoRequest
  <2> QED BY <1>7, <2>1 DEF ClusterOk, KeysOk, RunningOk, OrphanOk, KnownOk
<1> QED BY <1>3, <1>5, <1>8 DEF Inv

\* A cluster that a step leaves alone, whatever becomes of its tasks.
Frame(c) ==
  /\ req'[c] = req[c] /\ assoc'[c] = assoc[c] /\ bound'[c] = bound[c] /\ row'[c] = row[c]
  /\ halfway'[c] = halfway[c]

Carried(t) ==
  /\ Owned(t) => Owned(t)'
  /\ Pending(t)' => Pending(t)
  /\ Once(t) => Once(t)'

LEMMA ClusterStays ==
  ASSUME NEW c \in Cluster, ClusterOk(c), Frame(c), Carried(Sync(c)), Carried(Cancel(c))
  PROVE  ClusterOk(c)'
<1>1. Clean(c)' <=> Clean(c)
  BY DEF Frame, Clean
<1>2. (Owned(Sync(c)) => Owned(Sync(c))') /\ (Owned(Cancel(c)) => Owned(Cancel(c))')
  BY DEF Carried
<1>3. KeysOk(c)' /\ RunningOk(c)' /\ OrphanOk(c)'
  BY <1>2 DEF ClusterOk, KeysOk, RunningOk, OrphanOk, Frame
<1>4. KnownOk(c)'
  BY <1>1 DEF ClusterOk, KnownOk, Frame, Carried
<1> QED BY <1>3, <1>4 DEF ClusterOk

LEMMA TaskKinds ==
  \A c, d : /\ Sync(c) # Cancel(d) /\ (c # d => Sync(c) # Sync(d) /\ Cancel(c) # Cancel(d))
            /\ c \in Cluster => Sync(c) \in Task /\ Cancel(c) \in Task
BY DEF Sync, Cancel, Task

LEMMA CarriedAlong ==
  ASSUME UNCHANGED <<queue, work, channel>>, lost \subseteq lost'
  PROVE  /\ \A t : Carried(t)
         /\ \A t : t \in lost' => Owned(t)'
         /\ \A t : Pending(t)' <=> Pending(t)
BY DEF Carried, Owned, Pending, Once, Queued, Taken, Told

CanalSame == UNCHANGED canal_vars

CanalLoses(c) ==
  /\ UNCHANGED <<queue, work, channel, destinations, adapters>>
  /\ lost' = lost \cup {Sync(c)}

\* The requests, by what they do to the tasks.
Silent(c) ==
  \/ Register(c) \/ Bind(c) \/ BindFails(c) \/ AddCluster(c) \/ CommitRegistration(c)
  \/ Invalidate(c) \/ Delete(c) \/ Unbind(c) \/ UnbindFails(c) \/ StopSynchronizationFails(c)
  \/ CommitDeletion(c) \/ CommitDeletionFails(c) \/ Synchronize(c) \/ UpdateRunning(c)

Loses(c) ==
  \/ AddClusterFails(c) \/ CommitRegistrationFails(c) \/ StartSynchronizationFails(c)
  \/ RestartFails(c)

Sends(c) == StartSynchronization(c) \/ StopSynchronization(c) \/ Restart(c)

RequestStep(c) == Silent(c) \/ Loses(c) \/ Sends(c)

LEMMA CanalOfRequests ==
  ASSUME CanalType, NEW c \in Cluster, RequestStep(c)
  PROVE  /\ CanalType'
         /\ \A d \in Cluster \ {c} : Carried(Sync(d)) /\ Carried(Cancel(d))
         /\ Silent(c) => CanalSame
         /\ Loses(c) => CanalSame \/ CanalLoses(c)
<1>1. Silent(c) => CanalSame
  BY DEF Silent, CanalSame, Register, Bind, BindFails, AddCluster, CommitRegistration, Invalidate,
    Delete, Unbind, UnbindFails, StopSynchronizationFails, CommitDeletion, CommitDeletionFails,
    Synchronize, UpdateRunning
<1>2. Loses(c) => CanalSame \/ CanalLoses(c)
  <2>1. AddClusterFails(c) => CanalSame \/ CanalLoses(c)
    BY DEF AddClusterFails, CanalSame, CanalLoses, canal_vars
  <2>2. CommitRegistrationFails(c) \/ StartSynchronizationFails(c) => CanalLoses(c)
    BY DEF CommitRegistrationFails, StartSynchronizationFails, CanalLoses
  <2>3. RestartFails(c) => CanalSame \/ CanalLoses(c)
    BY DEF RestartFails, CanalSame, CanalLoses, canal_vars
  <2> QED BY <2>1, <2>2, <2>3 DEF Loses
<1>3. CASE CanalSame \/ CanalLoses(c)
  <2>1. /\ UNCHANGED <<queue, work, channel, destinations, adapters>> /\ lost \subseteq lost'
    BY <1>3 DEF CanalSame, CanalLoses, canal_vars
  <2>2. CanalType'
    BY <2>1 DEF CanalType
  <2> QED BY <1>1, <1>2, <2>1, <2>2, CarriedAlong
<1>4. CASE Sends(c)
  <2>1. PICK t \in {Sync(c), Cancel(c)} : Enqueue(t)
    BY <1>4 DEF Sends, StartSynchronization, StopSynchronization, Restart
  <2>2. t \in Task /\ \A d \in Cluster \ {c} : Sync(d) # t /\ Cancel(d) # t
    BY TaskKinds
  <2>3. CanalType' /\ \A u : u # t => Carried(u)
    BY <2>1, <2>2, Enqueues DEF Carried, Owned
  <2> QED BY <1>1, <1>2, <2>2, <2>3
<1> QED BY <1>1, <1>2, <1>3, <1>4 DEF RequestStep

\* Where a request goes.
LEMMA RequestMoves ==
  ASSUME RequestType, NEW c \in Cluster,
         \/ \E from, to \in ReqPc : Moves(c, from, to)
         \/ \E from \in ReqPc : Ends(c, from)
         \/ \E pc \in ReqPc, key \in Nat : req' = [req EXCEPT ![c] = [pc |-> pc, key |-> key]]
  PROVE  req' \in [Cluster -> [pc : ReqPc, key : Nat]] /\ \A d \in Cluster \ {c} : req'[d] = req[d]
<1>1. NoRequest \in [pc : ReqPc, key : Nat]
  BY DEF NoRequest, ReqPc
<1>2. CASE \E from, to \in ReqPc : Moves(c, from, to)
  BY <1>2 DEF RequestType, Moves
<1>3. CASE \E from \in ReqPc : Ends(c, from)
  BY <1>1, <1>3 DEF RequestType, Ends
<1>4. CASE \E pc \in ReqPc, key \in Nat : req' = [req EXCEPT ![c] = [pc |-> pc, key |-> key]]
  BY <1>4 DEF RequestType
<1> QED BY <1>2, <1>3, <1>4

LEMMA FrameOfRequests ==
  ASSUME RequestType, NEW c \in Cluster, RequestStep(c)
  PROVE  RequestType' /\ \A d \in Cluster \ {c} : Frame(d)
<1>1. req' \in [Cluster -> [pc : ReqPc, key : Nat]] /\ \A d \in Cluster \ {c} : req'[d] = req[d]
  <2>1. CASE Register(c) \/ Delete(c) \/ Synchronize(c)
    <3>1. left[c] + 1 \in Nat /\ 0 \in Nat
      BY DEF RequestType
    <3>2. \E pc \in ReqPc, key \in Nat : req' = [req EXCEPT ![c] = [pc |-> pc, key |-> key]]
      BY <2>1, <3>1 DEF Register, Delete, Synchronize, Begins, ReqPc
    <3> QED BY <3>2, RequestMoves
  <2>2. CASE \/ Bind(c) \/ AddCluster(c) \/ CommitRegistration(c) \/ StartSynchronization(c)
             \/ Unbind(c) \/ StopSynchronization(c) \/ CommitDeletion(c) \/ UpdateRunning(c)
    <3>1. \E from, to \in ReqPc : Moves(c, from, to)
      BY <2>2 DEF Bind, AddCluster, CommitRegistration, StartSynchronization, Unbind,
        StopSynchronization, CommitDeletion, UpdateRunning, ReqPc
    <3> QED BY <3>1, RequestMoves
  <2>3. CASE \/ BindFails(c) \/ AddClusterFails(c) \/ CommitRegistrationFails(c)
             \/ StartSynchronizationFails(c) \/ Invalidate(c) \/ UnbindFails(c)
             \/ StopSynchronizationFails(c) \/ CommitDeletionFails(c) \/ Restart(c)
             \/ RestartFails(c)
    <3>1. \E from \in ReqPc : Ends(c, from)
      BY <2>3 DEF BindFails, AddClusterFails, CommitRegistrationFails, StartSynchronizationFails,
        Invalidate, UnbindFails, StopSynchronizationFails, CommitDeletionFails, Restart,
        RestartFails, ReqPc
    <3> QED BY <3>1, RequestMoves
  <2> QED BY <2>1, <2>2, <2>3 DEF RequestStep, Silent, Loses, Sends
<1>2. \E k \in Nat : assoc' \in {assoc, [assoc EXCEPT ![c] = k]}
  <2>1. req[c].key \in Nat /\ 0 \in Nat
    BY DEF RequestType
  <2>2. CASE CommitRegistration(c)
    BY <2>1, <2>2 DEF CommitRegistration
  <2>3. CASE CommitDeletion(c)
    BY <2>1, <2>3 DEF CommitDeletion
  <2>4. CASE ~CommitRegistration(c) /\ ~CommitDeletion(c)
    <3>1. assoc' = assoc
      BY <2>4 DEF RequestStep, Silent, Loses, Sends, Register, Bind, BindFails, AddCluster,
        Invalidate, Delete, Unbind, UnbindFails, StopSynchronizationFails, CommitDeletionFails,
        Synchronize, UpdateRunning, AddClusterFails, CommitRegistrationFails,
        StartSynchronizationFails, RestartFails, StartSynchronization, StopSynchronization, Restart
    <3> QED BY <2>1, <3>1
  <2> QED BY <2>2, <2>3, <2>4
<1>3. \E k \in Nat : bound' \in {bound, [bound EXCEPT ![c] = k]}
  <2>1. req[c].key \in Nat /\ 0 \in Nat
    BY DEF RequestType
  <2>2. CASE Bind(c) \/ BindFails(c)
    BY <2>1, <2>2 DEF Bind, BindFails
  <2>3. CASE Unbind(c) \/ UnbindFails(c)
    BY <2>1, <2>3 DEF Unbind, UnbindFails
  <2>4. CASE ~(Bind(c) \/ BindFails(c)) /\ ~(Unbind(c) \/ UnbindFails(c))
    <3>1. bound' = bound
      BY <2>4 DEF RequestStep, Silent, Loses, Sends, Register, AddCluster, CommitRegistration,
        Invalidate, Delete, StopSynchronizationFails, CommitDeletion, CommitDeletionFails,
        Synchronize, UpdateRunning, AddClusterFails, CommitRegistrationFails,
        StartSynchronizationFails, RestartFails, StartSynchronization, StopSynchronization, Restart
    <3> QED BY <2>1, <3>1
  <2> QED BY <2>2, <2>3, <2>4
<1>4. \E s \in {"none", "running", "succeed", "fail"} : row' \in {row, [row EXCEPT ![c] = s]}
  <2>1. CASE AddCluster(c) \/ AddClusterFails(c)
    BY <2>1 DEF AddCluster, AddClusterFails
  <2>2. CASE UpdateRunning(c) \/ RestartFails(c)
    BY <2>2 DEF UpdateRunning, RestartFails, UpdateCluster, SetState
  <2>3. CASE ~(AddCluster(c) \/ AddClusterFails(c)) /\ ~(UpdateRunning(c) \/ RestartFails(c))
    <3>1. row' = row
      BY <2>3 DEF RequestStep, Silent, Loses, Sends, Register, Bind, BindFails, CommitRegistration,
        Invalidate, Delete, Unbind, UnbindFails, StopSynchronizationFails, CommitDeletion,
        CommitDeletionFails, Synchronize, CommitRegistrationFails, StartSynchronizationFails,
        StartSynchronization, StopSynchronization, Restart
    <3> QED BY <3>1
  <2> QED BY <2>1, <2>2, <2>3
<1>5. \E S \in SUBSET Mark : halfway' \in {halfway, [halfway EXCEPT ![c] = S]}
  <2>1. /\ halfway[c] \in SUBSET Mark /\ halfway[c] \ {"bound"} \in SUBSET Mark
        /\ \A x \in Mark : halfway[c] \cup {x} \in SUBSET Mark
        /\ halfway[c] \cup {"bound", "added"} \in SUBSET Mark
    BY DEF RequestType, Mark
  <2>2. CASE \/ BindFails(c) \/ AddClusterFails(c)
             \/ CommitRegistration(c) \/ CommitRegistrationFails(c)
    BY <2>1, <2>2 DEF BindFails, AddClusterFails, CommitRegistration, CommitRegistrationFails,
      Halfway, Mark
  <2>3. CASE Delete(c) \/ Synchronize(c) \/ CommitDeletion(c) \/ CommitDeletionFails(c)
    BY <2>1, <2>3 DEF Delete, Synchronize, CommitDeletion, CommitDeletionFails, Checked, Halfway,
      Mark
  <2>4. CASE /\ ~(BindFails(c) \/ AddClusterFails(c))
             /\ ~(CommitRegistration(c) \/ CommitRegistrationFails(c))
             /\ ~(Delete(c) \/ Synchronize(c) \/ CommitDeletion(c) \/ CommitDeletionFails(c))
    <3>1. halfway' = halfway
      BY <2>4 DEF RequestStep, Silent, Loses, Sends, Register, Bind, AddCluster, Invalidate, Unbind,
        UnbindFails, StopSynchronizationFails, UpdateRunning, StartSynchronizationFails,
        RestartFails, StartSynchronization, StopSynchronization, Restart
    <3> QED BY <2>1, <3>1
  <2> QED BY <2>2, <2>3, <2>4
<1>6. left' \in [Cluster -> Nat]
  <2>1. CASE Register(c) \/ Delete(c) \/ Synchronize(c)
    <3>1. left' = [left EXCEPT ![c] = @ - 1] /\ left[c] > 0
      BY <2>1 DEF Register, Delete, Synchronize, Begins
    <3> QED BY <3>1 DEF RequestType
  <2>2. CASE ~(Register(c) \/ Delete(c) \/ Synchronize(c))
    <3>1. left' = left
      BY <2>2 DEF RequestStep, Silent, Loses, Sends, Bind, BindFails, AddCluster,
        CommitRegistration, Invalidate, Unbind, UnbindFails, StopSynchronizationFails,
        CommitDeletion, CommitDeletionFails, UpdateRunning, AddClusterFails,
        CommitRegistrationFails, StartSynchronizationFails, RestartFails, StartSynchronization,
        StopSynchronization, Restart
    <3> QED BY <3>1 DEF RequestType
  <2> QED BY <2>1, <2>2
<1>7. /\ assoc' \in [Cluster -> Nat] /\ \A d \in Cluster \ {c} : assoc'[d] = assoc[d]
      /\ bound' \in [Cluster -> Nat] /\ \A d \in Cluster \ {c} : bound'[d] = bound[d]
  BY <1>2, <1>3 DEF RequestType
<1>8. /\ row' \in [Cluster -> {"none", "running", "succeed", "fail"}]
      /\ \A d \in Cluster \ {c} : row'[d] = row[d]
  BY <1>4 DEF RequestType
<1>9. halfway' \in [Cluster -> SUBSET Mark] /\ \A d \in Cluster \ {c} : halfway'[d] = halfway[d]
  BY <1>5 DEF RequestType
<1> QED BY <1>1, <1>6, <1>7, <1>8, <1>9 DEF RequestType, Frame

LEMMA SilentOk ==
  ASSUME RequestType, NEW c \in Cluster, ClusterOk(c), Silent(c), CanalSame
  PROVE  ClusterOk(c)'
<1>1. /\ \A t : Pending(t)' <=> Pending(t)
      /\ Owned(Sync(c))' <=> Owned(Sync(c))
      /\ Owned(Cancel(c))' <=> Owned(Cancel(c))
      /\ Once(Cancel(c))' <=> Once(Cancel(c))
  BY DEF CanalSame, canal_vars, Owned, Pending, Once, Queued, Taken, Told
<1> USE <1>1 DEF RequestType, ClusterOk, Moves, Begins, Ends, NoRequest, Halfway, Clean
<1>2. CASE Register(c)
  BY <1>2 DEF Register, KeysOk, RunningOk, OrphanOk, KnownOk
<1>3. CASE Bind(c)
  BY <1>3 DEF Bind, KeysOk, RunningOk, OrphanOk, KnownOk
<1>4. CASE BindFails(c)
  BY <1>4 DEF BindFails, KeysOk, RunningOk, OrphanOk, KnownOk
<1>5. CASE AddCluster(c)
  BY <1>5 DEF AddCluster, KeysOk, RunningOk, OrphanOk, KnownOk
<1>6. CASE CommitRegistration(c)
  BY <1>6 DEF CommitRegistration, KeysOk, RunningOk, OrphanOk, KnownOk
<1>7. CASE Invalidate(c)
  BY <1>7 DEF Invalidate, KeysOk, RunningOk, OrphanOk, KnownOk
<1>8. CASE Delete(c)
  <2>1. Clean(c)' => Clean(c) /\ Key(c) = assoc[c] /\ Known(c) = row[c]
    BY <1>8 DEF Delete, Checked
  <2>2. Key(c) # 0 /\ Known(c) \in {"succeed", "fail"}
    BY <1>8 DEF Delete
  <2>3. /\ req'[c].pc = "unbind" /\ req[c].pc = "idle"
        /\ assoc'[c] = assoc[c] /\ bound'[c] = bound[c] /\ row'[c] = row[c]
        /\ halfway[c] \subseteq halfway'[c]
        /\ "bound" \in halfway[c] => "bound" \in halfway'[c]
        /\ "added" \in halfway[c] => "added" \in halfway'[c]
    BY <1>8 DEF Delete, Checked
  <2>4. KeysOk(c)' /\ RunningOk(c)' /\ OrphanOk(c)'
    BY <2>3 DEF KeysOk, RunningOk, OrphanOk
  <2>5. KnownOk(c)'
    BY <2>1, <2>2, <2>3 DEF KnownOk
  <2> QED BY <2>4, <2>5
<1>15. CASE Synchronize(c)
  <2>1. Clean(c)' => Clean(c) /\ Key(c) = assoc[c] /\ Known(c) = row[c]
    BY <1>15 DEF Synchronize, Checked
  <2>2. Key(c) # 0 /\ Known(c) # "none"
    BY <1>15 DEF Synchronize
  <2>3. /\ req'[c].pc = "update" /\ req[c].pc = "idle"
        /\ assoc'[c] = assoc[c] /\ bound'[c] = bound[c] /\ row'[c] = row[c]
        /\ "bound" \in halfway[c] => "bound" \in halfway'[c]
        /\ "added" \in halfway[c] => "added" \in halfway'[c]
    BY <1>15 DEF Synchronize, Checked
  <2>4. KeysOk(c)' /\ RunningOk(c)' /\ OrphanOk(c)'
    BY <2>3 DEF KeysOk, RunningOk, OrphanOk
  <2>5. KnownOk(c)'
    BY <2>1, <2>2, <2>3 DEF KnownOk
  <2> QED BY <2>4, <2>5
<1>9. CASE Unbind(c)
  BY <1>9 DEF Unbind, KeysOk, RunningOk, OrphanOk, KnownOk
<1>10. CASE UnbindFails(c)
  BY <1>10 DEF UnbindFails, KeysOk, RunningOk, OrphanOk, KnownOk
<1>11. CASE StopSynchronizationFails(c)
  BY <1>11 DEF StopSynchronizationFails, KeysOk, RunningOk, OrphanOk, KnownOk
<1>12. CASE CommitDeletion(c)
  BY <1>12 DEF CommitDeletion, KeysOk, RunningOk, OrphanOk, KnownOk
<1>13. CASE CommitDeletionFails(c)
  BY <1>13 DEF CommitDeletionFails, KeysOk, RunningOk, OrphanOk, KnownOk
<1>14. CASE UpdateRunning(c)
  BY <1>14 DEF UpdateRunning, UpdateCluster, SetState, KeysOk, RunningOk, OrphanOk, KnownOk
<1> QED BY <1>2, <1>3, <1>4, <1>5, <1>6, <1>7, <1>8, <1>9, <1>10, <1>11, <1>12, <1>13,
          <1>14, <1>15 DEF Silent

LEMMA LosesOk ==
  ASSUME RequestType, NEW c \in Cluster, ClusterOk(c), Loses(c), CanalSame \/ CanalLoses(c)
  PROVE  ClusterOk(c)'
<1>1. /\ \A t : Pending(t)' <=> Pending(t)
      /\ Owned(Sync(c)) => Owned(Sync(c))'
      /\ Owned(Cancel(c)) => Owned(Cancel(c))'
      /\ Once(Cancel(c)) => Once(Cancel(c))'
      /\ CanalLoses(c) => Owned(Sync(c))'
  BY DEF CanalSame, CanalLoses, canal_vars, Owned, Pending, Once, Queued, Taken, Told
<1> USE <1>1 DEF RequestType, ClusterOk, Moves, Begins, Ends, NoRequest, Halfway, Clean
<1>2. CASE AddClusterFails(c)
  <2>1. row'[c] = row[c] \/ (row[c] = "none" /\ row'[c] = "running" /\ Owned(Sync(c))'
                              /\ "added" \in halfway'[c])
    BY <1>2 DEF AddClusterFails, Owned
  <2> QED BY <1>2, <2>1 DEF AddClusterFails, KeysOk, RunningOk, OrphanOk, KnownOk
<1>3. CASE CommitRegistrationFails(c)
  <2>1. Owned(Sync(c))'
    BY <1>3 DEF CommitRegistrationFails, Owned
  <2> QED BY <1>3, <2>1 DEF CommitRegistrationFails, KeysOk, RunningOk, OrphanOk, KnownOk
<1>4. CASE StartSynchronizationFails(c)
  <2>1. Owned(Sync(c))'
    BY <1>4 DEF StartSynchronizationFails, Owned
  <2> QED BY <1>4, <2>1 DEF StartSynchronizationFails, KeysOk, RunningOk, OrphanOk, KnownOk
<1>5. CASE RestartFails(c)
  <2>1. (row[c] # "none" /\ row'[c] = "fail") \/ (row'[c] = row[c] /\ Owned(Sync(c))')
    BY <1>5 DEF RestartFails, Owned, UpdateCluster, SetState
  <2> QED BY <1>5, <2>1 DEF RestartFails, KeysOk, RunningOk, OrphanOk, KnownOk
<1> QED BY <1>2, <1>3, <1>4, <1>5 DEF Loses

LEMMA SendsOk ==
  ASSUME CanalType, RequestType, NEW c \in Cluster, ClusterOk(c), Sends(c)
  PROVE  ClusterOk(c)'
<1> USE DEF RequestType, ClusterOk, Moves, Ends, NoRequest, Clean
<1>1. Sync(c) \in Task /\ Cancel(c) \in Task /\ Sync(c) # Cancel(c)
  BY TaskKinds
<1>2. CASE StartSynchronization(c) \/ Restart(c)
  <2>1. Enqueue(Sync(c))
    BY <1>2 DEF StartSynchronization, Restart
  <2>2. /\ Owned(Sync(c))' /\ (Owned(Cancel(c)) => Owned(Cancel(c))')
        /\ (Pending(Cancel(c))' => Pending(Cancel(c))) /\ (Once(Cancel(c)) => Once(Cancel(c))')
    BY <1>1, <2>1, Enqueues DEF Owned
  <2> QED BY <1>2, <2>2 DEF StartSynchronization, Restart, KeysOk, RunningOk, OrphanOk, KnownOk
<1>3. CASE StopSynchronization(c)
  <2>1. Enqueue(Cancel(c))
    BY <1>3 DEF StopSynchronization
  <2>2. /\ (Owned(Sync(c)) => Owned(Sync(c))') /\ Owned(Cancel(c))'
        /\ (~Pending(Cancel(c)) => Once(Cancel(c))')
    BY <1>1, <2>1, Enqueues DEF Owned
  <2> QED BY <1>3, <2>2 DEF StopSynchronization, KeysOk, RunningOk, OrphanOk, KnownOk
<1> QED BY <1>2, <1>3 DEF Sends

\* A result of task t with state s is applied.
LEMMA HandleOk ==
  ASSUME Inv, HandleResult
  PROVE  Inv'
<1>1. PICK d \in Cluster, t \in Task, s \in {"succeed", "fail"} :
        /\ t \in {Sync(d), Cancel(d)}
        /\ Head(channel) = [task |-> t, state |-> s]
  <2>1. Head(channel) \in Message
    BY DEF HandleResult, Inv, CanalType
  <2> QED BY <2>1 DEF Message, Task, Sync, Cancel
<1>2. /\ CanalType'
      /\ \A u : Pending(u) => Pending(u)' \/ u = t
      /\ \A u : Pending(u)' => Pending(u)
      /\ \A u : Once(u) => Once(u)'
      /\ Once(t) => ~Pending(t)'
      /\ UNCHANGED lost
  <2>1. /\ CanalType /\ channel # << >> /\ channel' = Tail(channel) /\ UNCHANGED <<queue, work>>
        /\ UNCHANGED <<destinations, adapters>> /\ UNCHANGED lost
    BY DEF HandleResult, Inv
  <2> QED BY <1>1, <2>1, ResultTaken
<1>3. /\ UNCHANGED <<req, assoc, bound, left, halfway>>
      /\ row' = [row EXCEPT ![d] = IF t = Sync(d) /\ row[d] # "none" THEN s ELSE "none"]
  BY <1>1 DEF HandleResult, Apply, SetState, Sync, Cancel
<1>4. /\ row \in [Cluster -> {"none", "running", "succeed", "fail"}]
      /\ row' \in [Cluster -> {"none", "running", "succeed", "fail"}]
  BY <1>3 DEF Inv, RequestType
<1>5. RequestType'
  BY <1>3, <1>4 DEF Inv, RequestType
<1>6. ASSUME NEW c \in Cluster, c # d PROVE ClusterOk(c)'
  <2>1. Sync(c) # t /\ Cancel(c) # t
    BY <1>1, <1>6, TaskKinds
  <2>2. Carried(Sync(c)) /\ Carried(Cancel(c))
    BY <1>2, <2>1 DEF Carried, Owned
  <2>3. Frame(c)
    BY <1>3, <1>4, <1>6 DEF Frame
  <2> QED BY <2>2, <2>3, ClusterStays DEF Inv
<1>7. ClusterOk(d)'
  <2>1. /\ ClusterOk(d) /\ row[d] \in {"none", "running", "succeed", "fail"}
        /\ req'[d] = req[d] /\ assoc'[d] = assoc[d] /\ bound'[d] = bound[d]
        /\ halfway'[d] = halfway[d]
        /\ row'[d] = IF t = Sync(d) /\ row[d] # "none" THEN s ELSE "none"
    BY <1>3, <1>4 DEF Inv
  <2>2. KeysOk(d)' /\ (Clean(d)' <=> Clean(d))
    BY <2>1 DEF KeysOk, ClusterOk, Clean
  <2>3. CASE t = Sync(d)
    <3>1. /\ Owned(Cancel(d)) => Owned(Cancel(d))'
          /\ Pending(Cancel(d))' => Pending(Cancel(d))
          /\ Once(Cancel(d)) => Once(Cancel(d))'
      BY <1>2, <2>3, TaskKinds DEF Owned
    <3>2. row'[d] # "running" /\ (row'[d] = "none" <=> row[d] = "none")
      BY <2>1, <2>3
    <3>3. RunningOk(d)' /\ OrphanOk(d)'
      BY <2>1, <3>1, <3>2 DEF RunningOk, OrphanOk, ClusterOk
    <3>4. KnownOk(d)'
      BY <2>1, <2>2, <3>1, <3>2 DEF KnownOk, ClusterOk
    <3> QED BY <2>2, <3>3, <3>4 DEF ClusterOk
  <2>4. CASE t = Cancel(d)
    <3>1. row'[d] = "none" /\ Pending(t)
      <4>1. row'[d] = "none"
        BY <2>1, <2>4, TaskKinds
      <4>2. Len(channel) \in Nat /\ Len(channel) > 0 /\ Head(channel) = channel[1]
            /\ DOMAIN channel = 1..Len(channel)
        BY DEF HandleResult, Inv, CanalType
      <4>3. 1 \in DOMAIN channel /\ channel[1].task = t
        BY <1>1, <4>2
      <4> QED BY <4>1, <4>3 DEF Pending
    <3>2. RunningOk(d)' /\ OrphanOk(d)'
      BY <3>1 DEF RunningOk, OrphanOk
    <3>3. KnownOk(d)'
      BY <1>2, <2>1, <2>2, <2>4, <3>1 DEF KnownOk, ClusterOk
    <3> QED BY <2>2, <3>2, <3>3 DEF ClusterOk
  <2> QED BY <1>1, <2>3, <2>4
<1> QED BY <1>2, <1>5, <1>6, <1>7 DEF Inv

\* The steps that leave all requests alone: the tasks of the workers, the
\* caches, a result that is dropped.
LEMMA AloneOk ==
  ASSUME Inv, RunTasks \/ (\E w \in Worker : WorkerDies(w) /\ UNCHANGED request_vars)
              \/ ResultDropped \/ FillRead \/ FillWrite \/ FillKeyringRead \/ FillKeyringWrite
  PROVE  Inv'
<1>1. UNCHANGED <<req, assoc, row, bound, left, halfway>>
  BY DEF RunTasks, ResultDropped, FillRead, FillWrite, FillKeyringRead, FillKeyringWrite, requests,
    request_vars
<1>2. RequestType' /\ \A c \in Cluster : Frame(c)
  BY <1>1 DEF Inv, RequestType, Frame
<1>3. CanalType' /\ \A c \in Cluster : Carried(Sync(c)) /\ Carried(Cancel(c))
  <2>1. CASE RunTasks \/ (\E w \in Worker : WorkerDies(w) /\ UNCHANGED request_vars)
    <3>1. PICK w \in Worker : RunTask(w) \/ WorkerDies(w)
      BY <2>1 DEF RunTasks
    <3> QED BY <3>1, CanalSteps DEF Inv, Carried, Owned
  <2>2. CASE ResultDropped
    <3>1. /\ CanalType /\ channel # << >> /\ channel' = Tail(channel) /\ UNCHANGED <<queue, work>>
          /\ UNCHANGED <<destinations, adapters>> /\ lost' = lost \cup {Head(channel).task}
      BY <2>2 DEF ResultDropped, Inv
    <3> QED BY <3>1, ResultTaken DEF Carried, Owned
  <2>3. CASE FillRead \/ FillWrite \/ FillKeyringRead \/ FillKeyringWrite
    <3>1. UNCHANGED <<queue, work, channel, destinations, adapters, lost>>
      BY <2>3 DEF FillRead, FillWrite, FillKeyringRead, FillKeyringWrite, canal_vars
    <3> QED BY <3>1, CarriedAlong DEF Inv, CanalType
  <2> QED BY <2>1, <2>2, <2>3
<1> QED BY <1>2, <1>3, ClusterStays DEF Inv

LEMMA RequestsOk ==
  ASSUME Inv, NEW c \in Cluster, RequestStep(c)
  PROVE  Inv'
<1>1. CanalType /\ RequestType /\ \A d \in Cluster : ClusterOk(d)
  BY DEF Inv
<1>2. /\ CanalType' /\ \A d \in Cluster \ {c} : Carried(Sync(d)) /\ Carried(Cancel(d))
      /\ Silent(c) => CanalSame
      /\ Loses(c) => CanalSame \/ CanalLoses(c)
  BY <1>1, CanalOfRequests
<1>3. RequestType' /\ \A d \in Cluster \ {c} : Frame(d)
  BY <1>1, FrameOfRequests
<1>4. \A d \in Cluster \ {c} : ClusterOk(d)'
  BY <1>1, <1>2, <1>3, ClusterStays
<1>5. ClusterOk(c)'
  BY <1>1, <1>2, SilentOk, LosesOk, SendsOk DEF RequestStep
<1> QED BY <1>2, <1>3, <1>4, <1>5 DEF Inv

LEMMA InvStep == Inv /\ [Next]_vars => Inv'
<1> SUFFICES ASSUME Inv, [Next]_vars PROVE Inv'
  OBVIOUS
<1>1. CASE \E c \in Cluster : Register(c) \/ Delete(c) \/ Synchronize(c) \/ Continue(c)
  <2>1. PICK c \in Cluster : RequestStep(c)
    BY <1>1 DEF Continue, RequestStep, Silent, Loses, Sends
  <2> QED BY <2>1, RequestsOk
<1>2. CASE RunTasks \/ (\E w \in Worker : WorkerDies(w) /\ UNCHANGED request_vars)
           \/ ResultDropped \/ FillRead \/ FillWrite \/ FillKeyringRead \/ FillKeyringWrite
  BY <1>2, AloneOk
<1>3. CASE HandleResult
  BY <1>3, HandleOk
<1>4. CASE UNCHANGED vars
  <2>1. /\ UNCHANGED <<queue, work, channel, destinations, adapters, lost>>
        /\ UNCHANGED <<req, assoc, row, bound, left, halfway>>
    BY <1>4 DEF vars, request_vars, canal_vars
  <2>2. CanalType' /\ RequestType' /\ \A c \in Cluster : Frame(c)
    BY <2>1 DEF Inv, CanalType, RequestType, Frame
  <2>3. \A t : Carried(t)
    BY <2>1, CarriedAlong
  <2> QED BY <2>2, <2>3, ClusterStays DEF Inv
<1> QED BY <1>1, <1>2, <1>3, <1>4 DEF Next

LEMMA InvHolds == Spec => []Inv
BY InvStart, InvStep, PTL DEF Spec

-----------------------------------------------------------------------------
\* Between the requests for a cluster, the private key the manager signs with
\* fits the public key the other cluster verifies with (account.py, proxy,
\* _register_cluster and _bind_managed_cluster), unless a registration failed
\* after the other cluster had bound its key.
THEOREM ManagerSigns == Spec => []KeysMatch
<1>1. Inv => KeysMatch
  <2> SUFFICES ASSUME Inv, NEW c \in Cluster, req[c].pc = "idle", assoc[c] # 0, bound[c] # 0
               PROVE  assoc[c] = bound[c] \/ "bound" \in halfway[c]
    BY DEF KeysMatch, Quiet
  <2> QED BY DEF Inv, ClusterOk, KeysOk
<1> QED BY <1>1, InvHolds, PTL

\* A cluster that its manager has an association with (user-access) has its row in
\* the manager's host-information service, unless a deletion of the cluster failed
\* to commit or a request about it was checked against an outdated cache.
THEOREM ManagedHasRow == Spec => []ManagedIsKnown
<1>1. Inv => ManagedIsKnown
  <2> SUFFICES ASSUME Inv, NEW c \in Cluster, req[c].pc = "idle", assoc[c] # 0,
                      halfway[c] \cap {"deleted", "misled"} = {}
               PROVE  row[c] # "none"
    BY DEF ManagedIsKnown, Quiet
  <2> QED BY DEF Inv, ClusterOk, KnownOk, Clean
<1> QED BY <1>1, InvHolds, PTL

\* A row whose state says that the cluster is being synchronised has a
\* synchronisation in the queue, with a process or with its result on the channel:
\* unless that task was never queued, its process died, or its result was lost.
THEOREM RunningRowHasTask == Spec => []RunningHasOwner
<1>1. Inv => RunningHasOwner
  <2> SUFFICES ASSUME Inv, NEW c \in Cluster, req[c].pc = "idle", row[c] = "running"
               PROVE  Owned(Sync(c))
    BY DEF RunningHasOwner, Quiet, Owned
  <2> QED BY DEF Inv, ClusterOk, RunningOk
<1> QED BY <1>1, InvHolds, PTL

\* A row that no association stands behind is about to be removed by a
\* cancellation: unless that failed, its process died or its result was lost, or
\* the registration that added the row failed before it committed.
THEOREM OrphanRowIsRemoved == Spec => []OrphanIsCancelled
<1>1. Inv => OrphanIsCancelled
  <2> SUFFICES ASSUME Inv, NEW c \in Cluster, req[c].pc = "idle", assoc[c] = 0, row[c] # "none"
               PROVE  Owned(Cancel(c)) \/ "added" \in halfway[c]
    BY DEF OrphanIsCancelled, Quiet, Owned
  <2> QED BY DEF Inv, ClusterOk, OrphanOk
<1> QED BY <1>1, InvHolds, PTL

-----------------------------------------------------------------------------
(* The files.  A cluster that is not marked as raced has tasks of one kind *)
(* at a time, and only they change whether a file lists it: so a task that *)
(* has written a file finds there what it wrote until its result is        *)
(* handled.                                                                *)

OneKind(c) == ~(Pending(Sync(c)) /\ Pending(Cancel(c)))

WorkOk(w, c) ==
  /\ Sync(c) \in work[w].task =>
       /\ work[w].pc \in {"application", "write_application", "last"} => c \in destinations
       /\ work[w].pc = "last" => c \in adapters
  /\ Cancel(c) \in work[w].task =>
       /\ work[w].pc \in {"application", "write_application", "last"} => c \notin destinations
       /\ work[w].pc = "last" => c \notin adapters

TellOk(i, c) ==
  /\ channel[i].task = Sync(c) /\ channel[i].state = "succeed" => c \in destinations /\ c \in adapters
  /\ channel[i].task = Cancel(c) => c \notin destinations /\ c \notin adapters

RowOk(c) ==
  /\ row[c] = "succeed" => (c \in destinations /\ c \in adapters) \/ Owned(Cancel(c))
  /\ Clean(c) =>
       /\ Pending(Sync(c)) => row[c] # "none"
       /\ row[c] = "none" => c \notin destinations /\ c \notin adapters

FilesOk(c) ==
  /\ Clean(c) /\ req[c].pc \in {"start", "update", "restart"} => assoc[c] # 0
  /\ c \notin raced =>
       /\ OneKind(c) /\ RowOk(c)
       /\ \A w \in Worker : WorkOk(w, c)
       /\ \A i \in DOMAIN channel : TellOk(i, c)

LEMMA PendingAtWork ==
  /\ \A w \in Worker : \A t \in work[w].task : Pending(t)
  /\ \A i \in DOMAIN channel : Pending(channel[i].task)
BY DEF Pending

\* What the step of a worker does to the file that lists F, for cluster c.
Member(w, c, F, G) ==
  \/ c \in G <=> c \in F
  \/ Sync(c) \in work[w].task /\ c \in G
  \/ Cancel(c) \in work[w].task /\ c \notin G

LEMMA ChangedMember ==
  ASSUME CanalType, NEW w \in Worker, work[w].task # {}, NEW c \in Cluster, NEW F,
         c \notin Differ(F, work[w].read)
  PROVE  /\ Member(w, c, F, Changed(w))
         /\ Sync(c) \in work[w].task => c \in Changed(w)
         /\ Cancel(c) \in work[w].task => c \notin Changed(w)
<1>1. PICK t \in work[w].task : t = CHOOSE u \in work[w].task : TRUE
  OBVIOUS
<1>2. t \in Task /\ \A u \in work[w].task : u = t
  BY DEF CanalType
<1>3. Changed(w) = IF t.kind = "sync" THEN work[w].read \cup {t.cluster} ELSE work[w].read \ {t.cluster}
  BY <1>1 DEF Changed
<1>4. c \in F <=> c \in work[w].read
  BY DEF Differ
<1>5. CASE t.kind = "sync"
  <2>1. t = Sync(t.cluster) /\ Changed(w) = work[w].read \cup {t.cluster}
    BY <1>2, <1>3, <1>5 DEF Task, Sync
  <2>2. Cancel(c) \notin work[w].task
    BY <1>2, <1>5 DEF Cancel
  <2>3. Sync(c) \in work[w].task => c = t.cluster
    BY <1>2 DEF Sync
  <2>4. c = t.cluster => Sync(c) \in work[w].task
    BY <2>1
  <2> QED BY <1>4, <2>1, <2>2, <2>3, <2>4 DEF Member
<1>6. CASE t.kind = "cancel"
  <2>1. t = Cancel(t.cluster) /\ Changed(w) = work[w].read \ {t.cluster}
    BY <1>2, <1>3, <1>6 DEF Task, Cancel
  <2>2. Sync(c) \notin work[w].task
    BY <1>2, <1>6 DEF Sync
  <2>3. Cancel(c) \in work[w].task => c = t.cluster
    BY <1>2 DEF Cancel
  <2>4. c = t.cluster => Cancel(c) \in work[w].task
    BY <2>1
  <2> QED BY <1>4, <2>1, <2>2, <2>3, <2>4 DEF Member
<1> QED BY <1>2, <1>5, <1>6 DEF Task

\* A worker's step, for a cluster that it does not mark.
LEMMA WorkMembers ==
  ASSUME CanalType, NEW w \in Worker, RunTask(w) \/ WorkerDies(w), NEW c \in Cluster, c \notin raced'
  PROVE  /\ c \notin raced
         /\ Member(w, c, destinations, destinations') /\ Member(w, c, adapters, adapters')
         /\ \A v \in Worker \ {w} : work'[v] = work[v]
<1>1. CASE WriteProperties(w)
  <2>1. /\ c \notin raced /\ c \notin Differ(destinations, work[w].read) /\ UNCHANGED adapters
        /\ destinations' = Changed(w) /\ \A v \in Worker \ {w} : work'[v] = work[v]
    BY <1>1 DEF WriteProperties, Goes, CanalType
  <2>2. work[w].task # {}
    BY <1>1 DEF WriteProperties, Goes, CanalType
  <2> QED BY <2>1, <2>2, ChangedMember DEF Member
<1>2. CASE WriteApplication(w)
  <2>1. /\ c \notin raced /\ c \notin Differ(adapters, work[w].read) /\ UNCHANGED destinations
        /\ adapters' = Changed(w) /\ \A v \in Worker \ {w} : work'[v] = work[v]
    BY <1>2 DEF WriteApplication, Goes, CanalType
  <2>2. work[w].task # {}
    BY <1>2 DEF WriteApplication, Goes, CanalType
  <2> QED BY <2>1, <2>2, ChangedMember DEF Member
<1>3. CASE \/ Take(w) \/ ReadProperties(w) \/ ReadApplication(w) \/ TaskSucceeds(w) \/ TaskFails(w)
           \/ WorkerDies(w)
  <2>1. UNCHANGED <<destinations, adapters, raced>>
    BY <1>3 DEF Take, ReadProperties, ReadApplication, TaskSucceeds, TaskFails, WorkerDies
  <2>2. \A v \in Worker \ {w} : work'[v] = work[v]
    BY <1>3 DEF Take, ReadProperties, ReadApplication, TaskSucceeds, TaskFails, WorkerDies, Goes,
      CanalType
  <2> QED BY <2>1, <2>2 DEF Member
<1> QED BY <1>1, <1>2, <1>3 DEF RunTask

\* The worker itself.
LEMMA WorkerOk ==
  ASSUME CanalType, NEW w \in Worker, RunTask(w) \/ WorkerDies(w), NEW c \in Cluster, c \notin raced',
         WorkOk(w, c)
  PROVE  WorkOk(w, c)'
<1> USE TaskKinds DEF WorkOk
<1>1. CASE Take(w)
  <2>1. work'[w].pc = "properties"
    BY <1>1 DEF Take, CanalType
  <2> QED BY <2>1
<1>2. CASE ReadProperties(w)
  <2>1. work'[w].pc = "write_properties"
    BY <1>2 DEF ReadProperties, Goes, CanalType
  <2> QED BY <2>1
<1>3. CASE WriteProperties(w)
  <2>1. /\ c \notin Differ(destinations, work[w].read) /\ work[w].task # {}
        /\ destinations' = Changed(w) /\ work'[w].task = work[w].task /\ work'[w].pc = "application"
    BY <1>3 DEF WriteProperties, Goes, CanalType
  <2>2. /\ Sync(c) \in work[w].task => c \in destinations'
        /\ Cancel(c) \in work[w].task => c \notin destinations'
    BY <2>1, ChangedMember
  <2> QED BY <2>1, <2>2
<1>4. CASE ReadApplication(w)
  <2>1. /\ work'[w].pc = "write_application" /\ work[w].pc = "application"
        /\ work'[w].task = work[w].task /\ UNCHANGED <<destinations, adapters>>
    BY <1>4 DEF ReadApplication, Goes, CanalType
  <2> QED BY <2>1
<1>5. CASE WriteApplication(w)
  <2>1. /\ c \notin Differ(adapters, work[w].read) /\ work[w].task # {} /\ UNCHANGED destinations
        /\ adapters' = Changed(w) /\ work'[w].task = work[w].task /\ work[w].pc = "write_application"
    BY <1>5 DEF WriteApplication, Goes, CanalType
  <2>2. /\ Sync(c) \in work[w].task => c \in adapters'
        /\ Cancel(c) \in work[w].task => c \notin adapters'
    BY <2>1, ChangedMember
  <2> QED BY <2>1, <2>2
<1>6. CASE TaskSucceeds(w) \/ TaskFails(w) \/ WorkerDies(w)
  <2>1. work'[w].task = {}
    BY <1>6 DEF TaskSucceeds, TaskFails, WorkerDies, Idle, CanalType
  <2> QED BY <2>1
<1> QED BY <1>1, <1>2, <1>3, <1>4, <1>5, <1>6 DEF RunTask

\* What the channel has after a worker's step.
LEMMA WorkerTells ==
  ASSUME CanalType, NEW w \in Worker, RunTask(w) \/ WorkerDies(w), NEW c \in Cluster,
         WorkOk(w, c), NEW i \in DOMAIN channel'
  PROVE  (\E j \in DOMAIN channel : channel'[i] = channel[j]) \/ TellOk(i, c)'
<1>1. CASE channel' = channel
  BY <1>1
<1>2. CASE TaskSucceeds(w) \/ TaskFails(w)
  <2>1. PICK t \in work[w].task, s \in {"succeed", "fail"} :
          \/ UNCHANGED channel
          \/ /\ Publish(t, s)
             /\ s = "succeed" => work[w].pc = "last"
             /\ s = "fail" => t.kind = "sync"
    <3>1. CASE TaskSucceeds(w)
      BY <3>1 DEF TaskSucceeds
    <3>2. CASE TaskFails(w)
      <4>1. PICK t \in work[w].task : IF t.kind = "sync" THEN Publish(t, "fail") ELSE UNCHANGED channel
        BY <3>2 DEF TaskFails
      <4>2. CASE t.kind = "sync"
        BY <4>1, <4>2
      <4>3. CASE t.kind # "sync"
        BY <4>1, <4>3
      <4> QED BY <4>1, <4>2, <4>3
    <3> QED BY <1>2, <3>1, <3>2
  <2> DEFINE m == [task |-> t, state |-> s]
  <2>2. channel' = channel \/ channel' = Append(channel, m)
    BY <2>1 DEF Publish
  <2>3. UNCHANGED <<destinations, adapters>>
    BY <1>2 DEF TaskSucceeds, TaskFails
  <2>4. channel' = channel \/ (work[w].pc = "last" /\ s = "succeed") \/ (s = "fail" /\ t # Cancel(c))
    BY <2>1 DEF Cancel
  <2>5. channel' = channel \/ (channel'[i] = m => TellOk(i, c)')
    BY <2>1, <2>3, <2>4 DEF TellOk, WorkOk
  <2>6. m \in Message
    BY DEF CanalType, Message
  <2> HIDE DEF m
  <2>7. CASE channel' = Append(channel, m)
    <3>1. /\ Len(channel) \in Nat /\ DOMAIN channel = 1..Len(channel)
          /\ DOMAIN channel' = 1..(Len(channel) + 1)
          /\ \A j \in 1..Len(channel) : channel'[j] = channel[j]
          /\ channel'[Len(channel) + 1] = m
      BY <2>6, <2>7 DEF CanalType
    <3>2. CASE i = Len(channel) + 1
      BY <1>1, <2>5, <3>1, <3>2
    <3>3. CASE i \in 1..Len(channel)
      BY <3>1, <3>3
    <3> QED BY <3>1, <3>2, <3>3
  <2> QED BY <1>1, <2>2, <2>7
<1>3. CASE ~(TaskSucceeds(w) \/ TaskFails(w))
  <2>1. channel' = channel
    BY <1>3 DEF RunTask, WorkerDies, Take, ReadProperties, WriteProperties, ReadApplication,
      WriteApplication
  <2> QED BY <1>1, <2>1
<1> QED BY <1>2, <1>3

LEMMA WorkFiles ==
  ASSUME CanalType, NEW w \in Worker, RunTask(w) \/ WorkerDies(w), NEW c \in Cluster, FilesOk(c),
         UNCHANGED <<req, assoc, row, halfway>>
  PROVE  FilesOk(c)'
<1> SUFFICES ASSUME c \notin raced'
             PROVE  /\ OneKind(c)' /\ RowOk(c)'
                    /\ \A v \in Worker : WorkOk(v, c)'
                    /\ \A i \in DOMAIN channel' : TellOk(i, c)'
  BY DEF FilesOk, Clean
<1>1. /\ c \notin raced
      /\ Member(w, c, destinations, destinations') /\ Member(w, c, adapters, adapters')
      /\ \A v \in Worker \ {w} : work'[v] = work[v]
  BY WorkMembers
<1>2. /\ OneKind(c) /\ RowOk(c) /\ \A v \in Worker : WorkOk(v, c)
      /\ \A i \in DOMAIN channel : TellOk(i, c)
  BY <1>1 DEF FilesOk
<1>3. /\ \A u : Pending(u) => Owned(u)'
      /\ \A u : Pending(u)' => Pending(u)
      /\ lost \subseteq lost'
  BY CanalSteps
<1>4. OneKind(c)'
  BY <1>2, <1>3 DEF OneKind
<1>5. /\ Sync(c) \in work[w].task => Pending(Sync(c))
      /\ Cancel(c) \in work[w].task => Pending(Cancel(c))
  BY PendingAtWork
\* While a task of one kind is pending, the files change its way only.
<1>6. /\ Pending(Sync(c)) => /\ c \in destinations => c \in destinations'
                             /\ c \in adapters => c \in adapters'
      /\ Pending(Cancel(c)) => /\ c \notin destinations => c \notin destinations'
                               /\ c \notin adapters => c \notin adapters'
  BY <1>1, <1>2, <1>5 DEF Member, OneKind
<1>7. ASSUME NEW v \in Worker PROVE WorkOk(v, c)'
  <2>1. CASE v = w
    BY <1>2, <2>1, WorkerOk
  <2>2. CASE v # w
    <3>1. /\ work'[v] = work[v] /\ WorkOk(v, c)
          /\ Sync(c) \in work[v].task => Pending(Sync(c))
          /\ Cancel(c) \in work[v].task => Pending(Cancel(c))
      BY <1>1, <1>2, <2>2, PendingAtWork
    <3> QED BY <1>6, <3>1 DEF WorkOk
  <2> QED BY <2>1, <2>2
<1>8. ASSUME NEW i \in DOMAIN channel' PROVE TellOk(i, c)'
  <2>1. CASE \E j \in DOMAIN channel : channel'[i] = channel[j]
    <3>1. PICK j \in DOMAIN channel : channel'[i] = channel[j]
      BY <2>1
    <3>2. TellOk(j, c) /\ Pending(channel[j].task)
      BY <1>2, PendingAtWork
    <3> QED BY <1>6, <3>1, <3>2 DEF TellOk
  <2> QED BY <1>2, <2>1, WorkerTells
<1>9. RowOk(c)'
  <2>1. Clean(c)' <=> Clean(c)
    BY DEF Clean
  <2>2. Owned(Cancel(c)) => Owned(Cancel(c))'
    BY <1>3 DEF Owned
  <2>3. row[c] = "succeed" => (c \in destinations' /\ c \in adapters') \/ Owned(Cancel(c))'
    BY <1>1, <1>2, <1>3, <1>5, <2>2 DEF RowOk, Member
  <2>4. Clean(c) /\ row[c] = "none" => c \notin destinations' /\ c \notin adapters'
    BY <1>1, <1>2, <1>5 DEF RowOk, Member
  <2>5. Clean(c) /\ Pending(Sync(c))' => row[c] # "none"
    BY <1>2, <1>3 DEF RowOk
  <2> QED BY <2>1, <2>3, <2>4, <2>5 DEF RowOk
<1> QED BY <1>4, <1>7, <1>8, <1>9

LEMMA RequestFiles ==
  ASSUME Inv, NEW c \in Cluster, RequestStep(c), \A d \in Cluster : FilesOk(d)
  PROVE  \A d \in Cluster : FilesOk(d)'
<1>1. CanalType /\ RequestType /\ ClusterOk(c) /\ FilesOk(c)
  BY DEF Inv
<1>2. /\ \A d \in Cluster \ {c} : Carried(Sync(d)) /\ Carried(Cancel(d))
      /\ Silent(c) => CanalSame
      /\ Loses(c) => CanalSame \/ CanalLoses(c)
      /\ \A d \in Cluster \ {c} : Frame(d)
  BY <1>1, CanalOfRequests, FrameOfRequests
<1>3. UNCHANGED <<work, channel, destinations, adapters>> /\ raced \subseteq raced'
  <2>1. CASE Sends(c)
    BY <2>1 DEF Sends, StartSynchronization, StopSynchronization, Restart, Enqueue
  <2>2. CASE Silent(c)
    BY <1>2, <2>2 DEF CanalSame, canal_vars
  <2>3. CASE Loses(c)
    BY <2>3 DEF Loses, AddClusterFails, CommitRegistrationFails, StartSynchronizationFails,
      RestartFails, canal_vars
  <2> QED BY <2>1, <2>2, <2>3 DEF RequestStep
<1>4. ASSUME NEW d \in Cluster \ {c} PROVE FilesOk(d)'
  <2>1. Frame(d) /\ Carried(Sync(d)) /\ Carried(Cancel(d)) /\ FilesOk(d)
    BY <1>2
  <2>2. Clean(d)' <=> Clean(d)
    BY <2>1 DEF Frame, Clean
  <2>3. RowOk(d) => RowOk(d)'
    BY <1>3, <2>1, <2>2 DEF RowOk, Frame, Carried
  <2>4. OneKind(d) => OneKind(d)'
    BY <2>1 DEF OneKind, Carried
  <2>5. /\ \A w \in Worker : WorkOk(w, d) => WorkOk(w, d)'
        /\ \A i : TellOk(i, d) => TellOk(i, d)'
    BY <1>3 DEF WorkOk, TellOk
  <2> QED BY <1>3, <2>1, <2>2, <2>3, <2>4, <2>5 DEF FilesOk, Frame
<1>5. Clean(c)' => Clean(c)
  BY <1>1 DEF RequestStep, Silent, Loses, Sends, Register, Bind, BindFails, AddCluster,
    CommitRegistration, Invalidate, Delete, Unbind, UnbindFails, StopSynchronizationFails,
    CommitDeletion, CommitDeletionFails, Synchronize, UpdateRunning, AddClusterFails,
    CommitRegistrationFails, StartSynchronizationFails, RestartFails, StartSynchronization,
    StopSynchronization, Restart, Checked, Halfway, RequestType, Clean
<1>6. /\ row'[c] = "succeed" => row[c] = "succeed"
      /\ row'[c] = "none" => row[c] = "none"
  BY <1>1 DEF RequestStep, Silent, Loses, Sends, Register, Bind, BindFails, AddCluster,
    CommitRegistration, Invalidate, Delete, Unbind, UnbindFails, StopSynchronizationFails,
    CommitDeletion, CommitDeletionFails, Synchronize, UpdateRunning, AddClusterFails,
    CommitRegistrationFails, StartSynchronizationFails, RestartFails, StartSynchronization,
    StopSynchronization, Restart, UpdateCluster, SetState, RequestType
<1>7. Clean(c)' /\ req'[c].pc \in {"start", "update", "restart"} => assoc'[c] # 0
  <2> SUFFICES ASSUME Clean(c)', req'[c].pc \in {"start", "update", "restart"} PROVE assoc'[c] # 0
    OBVIOUS
  <2>1. CommitRegistration(c) \/ Synchronize(c) \/ UpdateRunning(c)
    BY <1>1 DEF RequestStep, Silent, Loses, Sends, Register, Bind, BindFails, AddCluster, Invalidate,
      Delete, Unbind, UnbindFails, StopSynchronizationFails, CommitDeletion, CommitDeletionFails,
      AddClusterFails, CommitRegistrationFails, StartSynchronizationFails, RestartFails,
      StartSynchronization, StopSynchronization, Restart, Moves, Begins, Ends, NoRequest, RequestType
  <2>2. CASE CommitRegistration(c)
    BY <1>1, <2>2 DEF CommitRegistration, Moves, RequestType, ClusterOk, KeysOk
  <2>3. CASE Synchronize(c)
    <3>1. Key(c) # 0 /\ Key(c) = assoc[c] /\ UNCHANGED assoc
      BY <1>1, <2>3 DEF Synchronize, Checked, Clean, RequestType
    <3> QED BY <3>1
  <2>4. CASE UpdateRunning(c)
    BY <1>1, <1>5, <2>4 DEF UpdateRunning, Moves, FilesOk
  <2> QED BY <2>1, <2>2, <2>3, <2>4
<1>8. CASE Silent(c) \/ Loses(c)
  <2>1. /\ \A t : Pending(t)' <=> Pending(t)
        /\ Owned(Cancel(c))' <=> Owned(Cancel(c))
        /\ raced' = raced
    <3>1. UNCHANGED <<queue, work, channel>> /\ (lost' = lost \/ lost' = lost \cup {Sync(c)})
      BY <1>2, <1>8 DEF CanalSame, CanalLoses, canal_vars
    <3>2. raced' = raced
      BY <1>2, <1>8 DEF CanalSame, canal_vars, Loses, AddClusterFails, CommitRegistrationFails,
        StartSynchronizationFails, RestartFails
    <3> QED BY <3>1, <3>2, TaskKinds DEF Pending, Owned
  <2>2. RowOk(c) => RowOk(c)'
    BY <1>3, <1>5, <1>6, <2>1 DEF RowOk
  <2>3. OneKind(c) => OneKind(c)'
    BY <2>1 DEF OneKind
  <2>4. /\ \A w \in Worker : WorkOk(w, c) => WorkOk(w, c)'
        /\ \A i : TellOk(i, c) => TellOk(i, c)'
    BY <1>3 DEF WorkOk, TellOk
  <2>5. FilesOk(c)'
    BY <1>1, <1>3, <1>7, <2>1, <2>2, <2>3, <2>4 DEF FilesOk
  <2> QED BY <1>4, <2>5
<1>9. CASE Sends(c)
  <2>1. PICK t \in {Sync(c), Cancel(c)} :
          /\ Enqueue(t) /\ UNCHANGED <<row, assoc, halfway>>
          /\ t = Sync(c) => req[c].pc \in {"start", "restart"}
    BY <1>9 DEF Sends, StartSynchronization, StopSynchronization, Restart, Moves, Ends, Sync, Cancel
  <2>2. /\ t \in Task /\ t.cluster = c
    BY <2>1 DEF Task, Sync, Cancel
  <2>3. /\ Pending(t)'
        /\ \A u : u # t => (Pending(u)' => Pending(u)) /\ (Owned(u) => Owned(u)')
    BY <1>1, <2>1, <2>2, Enqueues DEF Owned
  <2>4. c \notin raced' => ~Pending(Sync(c)) \/ t = Sync(c)
    BY <2>1, <2>2 DEF Enqueue
  <2>5. c \notin raced' => ~Pending(Cancel(c)) \/ t = Cancel(c)
    BY <2>1, <2>2 DEF Enqueue
  <2>6. c \notin raced' => OneKind(c)'
    BY <2>3, <2>4, <2>5, TaskKinds DEF OneKind
  <2>7. t = Sync(c) /\ Clean(c) => row[c] # "none"
    BY <1>1, <2>1 DEF FilesOk, ClusterOk, KnownOk
  <2>8. Clean(c)' <=> Clean(c)
    BY <2>1 DEF Clean
  <2>9. RowOk(c) => RowOk(c)'
    <3>1. Owned(Cancel(c)) => Owned(Cancel(c))'
      BY <2>1, <2>3 DEF Owned
    <3>2. RowOk(c) /\ Clean(c) /\ Pending(Sync(c))' => row[c] # "none"
      BY <2>1, <2>3, <2>7, TaskKinds DEF RowOk
    <3> QED BY <1>3, <2>1, <2>8, <3>1, <3>2 DEF RowOk
  <2>10. /\ \A w \in Worker : WorkOk(w, c) => WorkOk(w, c)'
         /\ \A i : TellOk(i, c) => TellOk(i, c)'
    BY <1>3 DEF WorkOk, TellOk
  <2>11. FilesOk(c)'
    BY <1>1, <1>3, <1>7, <2>6, <2>9, <2>10 DEF FilesOk
  <2> QED BY <1>4, <2>11
<1> QED BY <1>8, <1>9 DEF RequestStep

\* A result is handled, or dropped.
LEMMA ResultFiles ==
  ASSUME Inv, HandleResult \/ ResultDropped, NEW c \in Cluster, FilesOk(c)
  PROVE  FilesOk(c)'
<1>1. /\ channel # << >> /\ channel' = Tail(channel)
      /\ UNCHANGED <<queue, work, destinations, adapters, raced, req, assoc, halfway>>
      /\ CanalType /\ RequestType
  BY DEF HandleResult, ResultDropped, request_vars, Inv
<1>2. /\ Head(channel) \in Message
      /\ \A u : Pending(u) => Pending(u)' \/ u = Head(channel).task
      /\ \A u : Pending(u)' => Pending(u)
  BY <1>1, ResultTaken
<1>3. /\ Len(channel) \in Nat /\ Len(channel) > 0 /\ Head(channel) = channel[1]
      /\ DOMAIN channel = 1..Len(channel) /\ DOMAIN channel' = 1..(Len(channel) - 1)
      /\ \A i \in 1..(Len(channel) - 1) : channel'[i] = channel[i + 1]
  BY <1>1 DEF CanalType
<1> DEFINE m == Head(channel)
<1>4. Pending(m.task) /\ (c \notin raced => TellOk(1, c) /\ channel[1] = m)
  <2>1. 1 \in DOMAIN channel /\ channel[1] = m
    BY <1>3
  <2> QED BY <2>1, PendingAtWork DEF FilesOk
<1>5. Clean(c)' <=> Clean(c)
  BY <1>1 DEF Clean
<1>6. OneKind(c) => OneKind(c)'
  BY <1>2 DEF OneKind
<1>7. \A w \in Worker : WorkOk(w, c) => WorkOk(w, c)'
  BY <1>1 DEF WorkOk
<1>8. ASSUME \A i \in DOMAIN channel : TellOk(i, c), NEW i \in DOMAIN channel'
      PROVE  TellOk(i, c)'
  <2>1. i + 1 \in DOMAIN channel /\ channel'[i] = channel[i + 1]
    BY <1>3
  <2> QED BY <1>1, <1>8, <2>1 DEF TellOk
<1>9. ASSUME c \notin raced, RowOk(c), OneKind(c) PROVE RowOk(c)'
  <2>1. TellOk(1, c) /\ channel[1] = m
    BY <1>4, <1>9
  <2>2. CASE row'[c] = row[c] /\ (Owned(Cancel(c)) => Owned(Cancel(c))')
    BY <1>1, <1>2, <1>5, <1>9, <2>2 DEF RowOk
  <2>3. CASE ResultDropped
    <3>1. row' = row /\ lost' = lost \cup {m.task}
      BY <2>3 DEF ResultDropped, request_vars
    <3> QED BY <1>2, <2>2, <3>1 DEF Owned
  <2>4. CASE HandleResult
    <3>1. UNCHANGED lost /\ Apply(m)
      BY <2>4 DEF HandleResult
    <3>2. CASE m.task = Sync(c)
      <4>1. row'[c] = IF row[c] = "none" THEN "none" ELSE m.state
        BY <1>1, <3>1, <3>2 DEF Apply, SetState, Sync, RequestType
      <4>2. Owned(Cancel(c)) => Owned(Cancel(c))'
        BY <1>2, <3>1, <3>2, TaskKinds DEF Owned
      <4>3. m.state \in {"succeed", "fail"}
        BY <1>2 DEF Message
      <4> HIDE DEF m
      <4> QED BY <1>1, <1>2, <1>5, <1>9, <2>1, <3>2, <4>1, <4>2, <4>3 DEF RowOk, TellOk
    <3>3. CASE m.task = Cancel(c)
      <4>1. row'[c] = "none"
        BY <1>1, <3>1, <3>3 DEF Apply, Cancel, RequestType
      <4>2. ~Pending(Sync(c))'
        BY <1>2, <1>4, <1>9, <3>3 DEF OneKind
      <4> HIDE DEF m
      <4> QED BY <1>1, <2>1, <3>3, <4>1, <4>2 DEF RowOk, TellOk
    <3>4. CASE m.task \notin {Sync(c), Cancel(c)}
      <4>1. m.task.cluster # c
        BY <1>2, <3>4 DEF Message, Task, Sync, Cancel
      <4>2. row'[c] = row[c]
        BY <1>1, <3>1, <4>1 DEF Apply, SetState, RequestType
      <4>3. Owned(Cancel(c)) => Owned(Cancel(c))'
        BY <1>2, <3>1, <3>4 DEF Owned
      <4> QED BY <2>2, <4>2, <4>3
    <3> QED BY <3>2, <3>3, <3>4
  <2> QED BY <2>3, <2>4
<1> QED BY <1>1, <1>5, <1>6, <1>7, <1>8, <1>9 DEF FilesOk

LEMMA FilesStart == Init => \A c \in Cluster : FilesOk(c)
<1> SUFFICES ASSUME Init, NEW c \in Cluster PROVE FilesOk(c)
  OBVIOUS
<1>1. PICK M \in SUBSET Cluster :
        /\ row = [d \in Cluster |-> IF d \in M THEN "succeed" ELSE "none"] /\ CanalInit(M)
  BY DEF Init
<1>2. /\ queue = << >> /\ channel = << >> /\ work = [w \in Worker |-> Idle]
      /\ destinations = M /\ adapters = M /\ req[c].pc = "idle"
  BY <1>1 DEF CanalInit, Init, NoRequest
<1>3. \A t : ~Pending(t)
  BY <1>2 DEF Pending, Idle
<1>4. \A w \in Worker : WorkOk(w, c)
  BY <1>2 DEF WorkOk, Idle
<1>5. DOMAIN channel = {}
  BY <1>2
<1> QED BY <1>1, <1>2, <1>3, <1>4, <1>5 DEF FilesOk, OneKind, RowOk

LEMMA FilesStep == Inv /\ (\A c \in Cluster : FilesOk(c)) /\ [Next]_vars => (\A c \in Cluster : FilesOk(c))'
<1> SUFFICES ASSUME Inv, \A c \in Cluster : FilesOk(c), [Next]_vars PROVE \A c \in Cluster : FilesOk(c)'
  OBVIOUS
<1>1. CASE \E c \in Cluster : Register(c) \/ Delete(c) \/ Synchronize(c) \/ Continue(c)
  <2>1. PICK c \in Cluster : RequestStep(c)
    BY <1>1 DEF Continue, RequestStep, Silent, Loses, Sends
  <2> QED BY <2>1, RequestFiles
<1>2. CASE RunTasks \/ (\E w \in Worker : WorkerDies(w) /\ UNCHANGED request_vars)
  <2>1. PICK w \in Worker : (RunTask(w) \/ WorkerDies(w)) /\ UNCHANGED request_vars
    BY <1>2 DEF RunTasks
  <2>2. CanalType /\ UNCHANGED <<req, assoc, row, halfway>>
    BY <2>1 DEF Inv, request_vars
  <2> QED BY <2>1, <2>2, WorkFiles
<1>3. CASE HandleResult \/ ResultDropped
  BY <1>3, ResultFiles
<1>4. CASE FillRead \/ FillWrite \/ FillKeyringRead \/ FillKeyringWrite \/ UNCHANGED vars
  <2>1. UNCHANGED <<req, assoc, row, halfway>> /\ UNCHANGED canal_vars
    BY <1>4 DEF FillRead, FillWrite, FillKeyringRead, FillKeyringWrite, requests, vars, request_vars
  <2>2. UNCHANGED <<queue, work, channel, destinations, adapters, lost, raced>>
    BY <2>1 DEF canal_vars
  <2> QED BY <2>1, <2>2 DEF FilesOk, OneKind, RowOk, WorkOk, TellOk, Owned, Pending, Clean
<1> QED BY <1>1, <1>2, <1>3, <1>4 DEF Next

\* When no request and no task of a cluster is left, what is noted as synchronised is in
\* both files, unless the task that would take it out was lost, and a cluster without a
\* row is in none, unless a write of outdated data, or tasks of both kinds at the same
\* time, or a request that ended half-way have touched it.
THEOREM FilesFollowRow == Spec => []CanalFollowsRow
<1>1. (\A c \in Cluster : FilesOk(c)) => CanalFollowsRow
  <2> SUFFICES ASSUME NEW c \in Cluster, c \notin raced, FilesOk(c), ~Pending(Cancel(c)), Clean(c)
               PROVE  /\ row[c] = "succeed" => c \in destinations \cap adapters \/ Cancel(c) \in lost
                      /\ row[c] = "none" => c \notin destinations \cup adapters
    BY DEF CanalFollowsRow, Clean
  <2> QED BY DEF FilesOk, RowOk, Owned
<1> QED BY <1>1, FilesStart, FilesStep, InvHolds, PTL DEF Spec

=============================================================================
