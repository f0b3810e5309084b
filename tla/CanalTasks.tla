----------------------------- MODULE CanalTasks -----------------------------
(***************************************************************************)
(* The celery tasks that start and cancel the synchronisation of a managed *)
(* cluster (async-task, tasks/cluster_synchronize_task.py and              *)
(* cluster_synchronize_cancel_task.py).  Worker processes take tasks from  *)
(* the broker's queue in order and run at the same time.  Each task reads, *)
(* changes and writes two files that all clusters share: the destinations  *)
(* in canal.properties and the data sources and adapters in                *)
(* application.yml.  Nothing locks the files, so every read and every      *)
(* write is a step.  A result is published on a Redis channel, which       *)
(* delivers it at most once.                                               *)
(***************************************************************************)
EXTENDS Sequences, FiniteSets

CONSTANTS Cluster,  \* clusters that can be managed
          Worker    \* processes of the celery worker

VARIABLES
  queue,         \* the broker's queue of tasks
  work,          \* of each worker: its task, where it is, the set it read
  destinations,  \* clusters listed in canal.destinations
  adapters,      \* clusters with a data source and adapter in application.yml
  channel,       \* results published and not yet handled
  lost,          \* history: tasks whose result will not be handled
  raced          \* history: clusters that a write of outdated data has put
                 \* into a file again or taken out of it, or whose start and
                 \* cancellation were under way at the same time

canal_vars == <<queue, work, destinations, adapters, channel, lost, raced>>

Task == [kind : {"sync", "cancel"}, cluster : Cluster]
Sync(c)   == [kind |-> "sync", cluster |-> c]
Cancel(c) == [kind |-> "cancel", cluster |-> c]

\* A worker without a task.
Idle == [task |-> {}, pc |-> "idle", read |-> {}]

\* The clusters in M are synchronised, all else is at rest.
CanalInit(M) ==
  /\ queue = << >>
  /\ work = [w \in Worker |-> Idle]
  /\ destinations = M /\ adapters = M
  /\ channel = << >>
  /\ lost = {} /\ raced = {}

\* Task t is queued, under way, or its result is on the channel.
Pending(t) ==
  \/ \E i \in DOMAIN queue : queue[i] = t
  \/ \E w \in Worker : t \in work[w].task
  \/ \E i \in DOMAIN channel : channel[i].task = t

\* apply_async() of task t.
Enqueue(t) ==
  /\ queue' = Append(queue, t)
  /\ lost' = lost \ {t}
  /\ raced' = raced \cup {c \in {t.cluster} : \E u \in {Sync(c), Cancel(c)} \ {t} : Pending(u)}
  /\ UNCHANGED <<work, destinations, adapters, channel>>

Take(w) ==
  /\ work[w].pc = "idle" /\ queue # << >>
  /\ queue' = Tail(queue)
  /\ work' = [work EXCEPT ![w] = [task |-> {Head(queue)}, pc |-> "properties", read |-> {}]]
  /\ UNCHANGED <<destinations, adapters, channel, lost, raced>>

Goes(w, from, to, read) ==
  /\ work[w].pc = from
  /\ work' = [work EXCEPT ![w] = [task |-> @.task, pc |-> to, read |-> read]]

ReadProperties(w) ==
  /\ \A t \in work[w].task : t.kind = "cancel" => t.cluster \in destinations
  /\ Goes(w, "properties", "write_properties", destinations)
  /\ UNCHANGED <<queue, destinations, adapters, channel, lost, raced>>

Differ(S, T) == (S \ T) \cup (T \ S)

\* Seeded defect: the last cluster is not taken out.
Changed_KeepsLast(w) ==
  LET t == CHOOSE t \in work[w].task : TRUE
  IN  IF t.kind = "sync" THEN work[w].read \cup {t.cluster}
      ELSE IF work[w].read = {t.cluster} THEN work[w].read ELSE work[w].read \ {t.cluster}

\* The set a task writes for the set it has read.
Changed(w) ==
  LET t == CHOOSE t \in work[w].task : TRUE
  IN  IF t.kind = "sync" THEN work[w].read \cup {t.cluster} ELSE work[w].read \ {t.cluster}

WriteProperties(w) ==
  /\ Goes(w, "write_properties", "application", {})
  /\ destinations' = Changed(w)
  /\ raced' = raced \cup Differ(destinations, work[w].read)
  /\ UNCHANGED <<queue, adapters, channel, lost>>

ReadApplication(w) ==
  /\ \A t \in work[w].task : t.kind = "cancel" => adapters # {}
  /\ Goes(w, "application", "write_application", adapters)
  /\ UNCHANGED <<queue, destinations, adapters, channel, lost, raced>>

WriteApplication(w) ==
  /\ Goes(w, "write_application", "last", {})
  /\ adapters' = Changed(w)
  /\ raced' = raced \cup Differ(adapters, work[w].read)
  /\ UNCHANGED <<queue, destinations, channel, lost>>

\* send_notification() of result state for task t; a RedisError is logged.
Publish(t, state) ==
  \/ channel' = Append(channel, [task |-> t, state |-> state]) /\ UNCHANGED lost
  \/ lost' = lost \cup {t} /\ UNCHANGED channel

\* The data are copied (or the adapter's tables are removed): on_success.
TaskSucceeds(w) ==
  /\ work[w].pc = "last"
  /\ \E t \in work[w].task : Publish(t, "succeed")
  /\ work' = [work EXCEPT ![w] = Idle]
  /\ UNCHANGED <<queue, destinations, adapters, raced>>

\* Seeded defect: a failure of the synchronisation is logged and not reported.
TaskFails_Silent(w) ==
  /\ work[w].pc \in {"properties", "application", "last"}
  /\ UNCHANGED <<channel, lost, raced>>
  /\ work' = [work EXCEPT ![w] = Idle]
  /\ UNCHANGED <<queue, destinations, adapters, raced>>

\* A file is missing or empty at the moment, the cluster is not in
\* destinations, there is no data source, the copy fails: on_failure, which
\* reports the failure of a synchronisation only.
TaskFails(w) ==
  /\ work[w].pc \in {"properties", "application", "last"}
  /\ \E t \in work[w].task :
       IF t.kind = "sync" THEN Publish(t, "fail")
       ELSE lost' = lost \cup {t} /\ UNCHANGED channel
  /\ work' = [work EXCEPT ![w] = Idle]
  /\ UNCHANGED <<queue, destinations, adapters, raced>>

\* A worker process dies; its task was acknowledged when it began.
WorkerDies(w) ==
  /\ work[w].pc # "idle"
  /\ lost' = lost \cup work[w].task
  /\ work' = [work EXCEPT ![w] = Idle]
  /\ UNCHANGED <<queue, destinations, adapters, channel, raced>>

RunTask(w) ==
  \/ Take(w)
  \/ ReadProperties(w)
  \/ WriteProperties(w)
  \/ ReadApplication(w)
  \/ WriteApplication(w)
  \/ TaskSucceeds(w)
  \/ TaskFails(w)

CanalTypeOK ==
  /\ queue \in Seq(Task)
  /\ work \in [Worker -> [task : SUBSET Task,
                          pc : {"idle", "properties", "write_properties", "application",
                                "write_application", "last"},
                          read : SUBSET Cluster]]
  /\ \A w \in Worker : Cardinality(work[w].task) = IF work[w].pc = "idle" THEN 0 ELSE 1
  /\ destinations \in SUBSET Cluster /\ adapters \in SUBSET Cluster
  /\ channel \in Seq([task : Task, state : {"succeed", "fail"}])
  /\ lost \in SUBSET Task /\ raced \in SUBSET Cluster

=============================================================================
