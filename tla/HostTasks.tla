------------------------------- MODULE HostTasks -------------------------------
(***************************************************************************)
(* The asynchronous tasks on hosts: setting a repository, scanning, fixing *)
(* and rolling back vulnerabilities, removing hot patches.  A process of   *)
(* the celery worker runs the agent on the host and publishes the result,  *)
(* to which the vulnerability service and every process of the host        *)
(* information service subscribe.  A chain is a task that asks the         *)
(* vulnerability service for one task after the other, each when the one   *)
(* before is over; it occupies its process all the time.                   *)
(***************************************************************************)
EXTENDS Naturals, Sequences, FiniteSets, SequencesExt

CONSTANTS
  Host,
  Task,        \* what the vulnerability service has to do on hosts
  Process,     \* the processes of the celery worker
  Subscriber,  \* the processes of the host information service
  None,
  Mixes        \* bound: the tasks there are, who asks for them, how much goes wrong

ASSUME HostAssumption == IsFiniteSet(Host) /\ IsFiniteSet(Task)
ASSUME NoneAssumption == None \notin Host \cup Task

Kind == {"repo_set_task", "cve_scan_task", "cve_fix_task", "cve_rollback_task",
         "hotpatch_remove_task"}

\* Tasks in no chain are asked for at the start.
Mix == [task : UNION {[T -> [kind : Kind, hosts : SUBSET Host]] : T \in SUBSET Task},
        chains : Seq(Seq(Task)), troubles : Nat]

\* A chain has a task, and a task is in one place of one chain at most: it was made
\* for the one who asks for it.
WellFormed(m) ==
  /\ m \in Mix
  /\ \A c \in DOMAIN m.chains : m.chains[c] # <<>> /\ ToSet(m.chains[c]) \subseteq DOMAIN m.task
  /\ \A c, d \in DOMAIN m.chains : \A j \in DOMAIN m.chains[c], k \in DOMAIN m.chains[d] :
       m.chains[c][j] = m.chains[d][k] => c = d /\ j = k

ASSUME MixesAssumption == \A m \in Mixes : WellFormed(m)

VARIABLES
  mix,       \* the tasks, the chains, and how much may still go wrong
  queue,     \* what celery has not begun
  work,      \* what each process is at
  awaited,   \* the hosts whose result the vulnerability service awaits, by task
  expired,   \* the token that the chains use has expired
  on,        \* the task that set a host's repository last, or scanned it
  row,       \* what the host's row says of that
  sub,       \* the subscribers' messages and what they do
  locks,     \* the messages that are locked in Redis
  marks      \* history: what went wrong, with which task, or kind of task on a host

vars == <<mix, queue, work, awaited, expired, on, row, sub, locks, marks>>

Tasks == DOMAIN mix.task
KindOf(i) == mix.task[i].kind
Chained == UNION {ToSet(mix.chains[c]) : c \in DOMAIN mix.chains}

\* The host's row has a column for two of the kinds; these are subscribed to.
Column == {"repo_set_task", "cve_scan_task"}

Single(i, h) == [chain |-> <<>>, id |-> i, host |-> h]
SinglesOf(ids) == UNION {{Single(i, h) : h \in mix.task[i].hosts} : i \in ids}
Singles(ids) == SetToSeq(SinglesOf(ids))
Chain(ids) == [chain |-> ids, id |-> None, host |-> None]
IsChain(t) == t.chain # <<>>

Idle == [pc |-> "idle"]

Init ==
  /\ mix \in Mixes
  /\ LET chains == [c \in DOMAIN mix.chains |-> Chain(mix.chains[c])]
         singles == Singles(Tasks \ Chained) IN
     queue \in {chains \o singles, singles \o chains}
  /\ work = [w \in Process |-> Idle]
  /\ awaited = [i \in Tasks |-> IF i \in Chained THEN {} ELSE mix.task[i].hosts]
  /\ expired = FALSE
  /\ on = [h \in Host |-> [k \in Column |-> None]]
  /\ row = [h \in Host |-> [k \in Column |-> None]]
  /\ sub = [s \in Subscriber |-> [at |-> "listening", inbox |-> <<>>]]
  /\ locks = {}
  /\ marks = {}

Working(w, pc) == work[w].pc = pc
Becomes(w, x) == work' = [work EXCEPT ![w] = x]
Trouble == mix.troubles > 0 /\ mix' = [mix EXCEPT !.troubles = @ - 1]

AtWork == {work[w].t : w \in {v \in Process : work[v] # Idle}}
UnderWay == ToSet(queue) \cup AtWork

\* The marks: of a task on a host, or the message about it, and of a task.
Crossed(x) == <<"crossed", KindOf(x.id), x.host>>
Missed(x) == <<"missed", KindOf(x.id), x.host>>
Lost(i) == <<"lost", i>>
Blind(i) == <<"blind", i>>

-----------------------------------------------------------------------------
\* The celery worker.

\* Two tasks of a kind cross on a host if one begins before the result of the
\* other has reached every row it will reach.
Crosses(t) ==
  ~IsChain(t) /\ \/ \E u \in AtWork : u.host = t.host /\ KindOf(u.id) = KindOf(t.id)
                 \/ \E s \in Subscriber : \E n \in DOMAIN sub[s].inbox :
                      LET m == sub[s].inbox[n] IN m.host = t.host /\ KindOf(m.id) = KindOf(t.id)

Take(w) ==
  /\ work[w] = Idle /\ queue # <<>>
  /\ Becomes(w, [t |-> Head(queue), pc |-> IF IsChain(Head(queue)) THEN "execute" ELSE "run",
                 at |-> 1, out |-> None])
  /\ queue' = Tail(queue)
  /\ marks' = IF Crosses(Head(queue)) THEN marks \cup {Crossed(Head(queue))} ELSE marks
  /\ UNCHANGED <<mix, awaited, expired, on, row, sub, locks>>

\* A process dies; what it was at was acknowledged before it began.
WorkerDies(w) ==
  /\ work[w] # Idle /\ Trouble
  /\ Becomes(w, Idle)
  /\ LET t == work[w].t IN
     marks' = IF IsChain(t) THEN marks ELSE marks \cup {Lost(t.id), Missed(t)}
  /\ UNCHANGED <<queue, awaited, expired, on, row, sub, locks>>

\* How the agent's run ends, if it does, and whether it did its work: exec_command
\* and recv_exit_status have no time limit.  Only what paramiko itself
\* raises is caught and taken for a failed command; a command that failed, or whose
\* connection was lost, may have done its work.
Outcome == [out : {"ok", "garbled"}, done : {TRUE}] \cup [out : {"failed", "raised"}, done : BOOLEAN]

Run(w) ==
  LET t == work[w].t  kind == KindOf(work[w].t.id) IN
  /\ Working(w, "run")
  /\ \E o \in Outcome :
       LET missed == o.done /\ o.out # "ok"
           lost == o.out = "garbled" \/ (o.out = "raised" /\ kind # "cve_scan_task") IN
       /\ Becomes(w, [work[w] EXCEPT !.pc = "report", !.out = o.out])
       /\ on' = IF o.done /\ kind \in Column THEN [on EXCEPT ![t.host][kind] = t.id] ELSE on
       /\ marks' = marks \cup (IF missed THEN {Missed(t)} ELSE {})
                         \cup (IF lost THEN {Lost(t.id)} ELSE {})
  /\ UNCHANGED <<mix, queue, awaited, expired, row, sub, locks>>

\* on_success fails for an output that is no JSON.
OnSuccess(out) == out \in {"ok", "failed"}

\* Seeded defect: the failure handler of a scan reports the exception itself.
OnFailure_Einfo(kind, out) == FALSE

\* on_failure fails for einfo, which json.dumps refuses, or already for kwargs, which
\* has no task_info; except in a scan.
OnFailure(kind, out) == out = "raised" /\ kind = "cve_scan_task"

Reports(kind, out) == OnSuccess(out) \/ OnFailure(kind, out)

\* The status in the result.
Succeeds(out) == out = "ok"

\* The result is published; who does not listen at that moment does not get it.
Report(w) ==
  LET t == work[w].t  kind == KindOf(work[w].t.id)
      m == [id |-> t.id, host |-> t.host, ok |-> Succeeds(work[w].out)]
      hear == {s \in Subscriber : kind \in Column /\ sub[s].at # "away"} IN
  /\ Working(w, "report") /\ Reports(kind, work[w].out) /\ Becomes(w, Idle)
  /\ sub' = [s \in Subscriber |->
               IF s \in hear THEN [sub[s] EXCEPT !.inbox = Append(@, m)] ELSE sub[s]]
  /\ LET missed == IF hear = {} THEN {Missed(t)} ELSE {} IN
     \/ /\ awaited' = [awaited EXCEPT ![t.id] = @ \ {t.host}]
        /\ marks' = marks \cup missed /\ UNCHANGED mix
     \/ /\ Trouble /\ marks' = marks \cup missed \cup {Lost(t.id)} /\ UNCHANGED awaited
  /\ UNCHANGED <<queue, expired, on, row, locks>>

\* send_notification: an error of Redis is logged and not raised, so not retried.
ReportLost(w) ==
  LET t == work[w].t IN
  /\ Working(w, "report") /\ Reports(KindOf(t.id), work[w].out) /\ Becomes(w, Idle)
  /\ Trouble /\ marks' = marks \cup {Lost(t.id), Missed(t)}
  /\ UNCHANGED <<queue, awaited, expired, on, row, sub, locks>>

ReportFails(w) ==
  /\ Working(w, "report") /\ ~Reports(KindOf(work[w].t.id), work[w].out) /\ Becomes(w, Idle)
  /\ UNCHANGED <<mix, queue, awaited, expired, on, row, sub, locks, marks>>

-----------------------------------------------------------------------------
\* The chain.

Onward(w) ==
  Becomes(w, IF work[w].at < Len(work[w].t.chain)
             THEN [work[w] EXCEPT !.at = @ + 1, !.pc = "execute"] ELSE Idle)
Current(w) == work[w].t.chain[work[w].at]

\* The vulnerability service begins with a task unless it has begun with it.
Execute(w) ==
  LET i == Current(w) IN
  /\ Working(w, "execute") /\ ~expired /\ awaited[i] = {}
  /\ awaited' = [awaited EXCEPT ![i] = mix.task[i].hosts] /\ queue' = queue \o Singles({i})
  /\ \/ Becomes(w, [work[w] EXCEPT !.pc = "check"]) /\ UNCHANGED <<mix, marks>>
     \/ Trouble /\ Onward(w) /\ marks' = marks \cup {Blind(i)}   \* the answer is lost
  /\ UNCHANGED <<expired, on, row, sub, locks>>

\* Refused, or not understood: the next task's turn.
ExecuteFails(w) ==
  /\ Working(w, "execute") /\ Onward(w)
  /\ \/ (expired \/ awaited[Current(w)] # {}) /\ UNCHANGED mix
     \/ Trouble
  /\ UNCHANGED <<queue, awaited, expired, on, row, sub, locks, marks>>

\* Seeded defects: a task is taken for running when the question is not answered;
\* it is asked about once only.
CheckTaskStatus_Pessimistic(running, answered) == running \/ ~answered
CheckTaskStatus_Once(running, answered) == FALSE

\* A question that is not answered is taken for the end of the task.
CheckTaskStatus(running, answered) == running /\ answered

Check(w) ==
  LET i == Current(w)  running == awaited[Current(w)] # {} IN
  /\ Working(w, "check")
  /\ \E answered \in BOOLEAN :
       /\ ~CheckTaskStatus(running, answered) /\ Onward(w)
       /\ \/ answered = ~expired /\ UNCHANGED mix
          \/ ~answered /\ ~expired /\ Trouble
       /\ marks' = IF running /\ ~answered THEN marks \cup {Blind(i)} ELSE marks
  /\ UNCHANGED <<queue, awaited, expired, on, row, sub, locks>>

TokenExpires ==
  /\ ~expired /\ expired' = TRUE
  /\ \E t \in UnderWay : IsChain(t)
  /\ UNCHANGED <<mix, queue, work, awaited, on, row, sub, locks, marks>>

\* The timed message that makes the vulnerability service give up overdue tasks.
CorrectData(i) ==
  /\ awaited[i] # {} /\ awaited' = [awaited EXCEPT ![i] = {}]
  /\ marks' = marks \cup {Blind(i)}
  /\ UNCHANGED <<mix, queue, work, expired, on, row, sub, locks>>

-----------------------------------------------------------------------------
\* The subscribers.

Message(s) == Head(sub[s].inbox)
Listening(s) == sub[s].at = "listening" /\ sub[s].inbox # <<>>
Pops(s) == sub' = [sub EXCEPT ![s].at = "listening", ![s].inbox = Tail(@)]

\* Seeded defect: the status of a result is not looked at.
Handled_Any(m) == TRUE

\* The callback drops what is no success and what another process has locked.
Handled(m) == m.ok

Drop(s) ==
  /\ Listening(s) /\ (~Handled(Message(s)) \/ Message(s) \in locks)
  /\ Pops(s)
  /\ UNCHANGED <<mix, queue, work, awaited, expired, on, row, locks, marks>>

Lock(s) ==
  /\ Listening(s) /\ Handled(Message(s)) /\ Message(s) \notin locks
  /\ locks' = locks \cup {Message(s)} /\ sub' = [sub EXCEPT ![s].at = "writing"]
  /\ UNCHANGED <<mix, queue, work, awaited, expired, on, row, marks>>

\* update_host_association_information, or a database that does not answer.
Update(s) ==
  LET m == Message(s) IN
  /\ sub[s].at = "writing" /\ Pops(s)
  /\ \/ row' = [row EXCEPT ![m.host][KindOf(m.id)] = m.id] /\ UNCHANGED <<mix, marks>>
     \/ Trouble /\ marks' = marks \cup {Missed(m)} /\ UNCHANGED row
  /\ UNCHANGED <<queue, work, awaited, expired, on, locks>>

\* After 30 seconds; of consequence while a process has the message still to handle.
LockExpires(m) ==
  /\ m \in locks /\ locks' = locks \ {m}
  /\ \E s \in Subscriber : m \in ToSet(sub[s].inbox)
  /\ UNCHANGED <<mix, queue, work, awaited, expired, on, row, sub, marks>>

\* The connection fails; a second later it is made anew.  What it had brought is lost.
SubscriptionEnds(s) ==
  /\ sub[s].at = "listening" /\ Trouble
  /\ sub' = [sub EXCEPT ![s] = [at |-> "away", inbox |-> <<>>]]
  /\ marks' = marks \cup {Missed(m) : m \in ToSet(sub[s].inbox)}
  /\ UNCHANGED <<queue, work, awaited, expired, on, row, locks>>

Subscribe(s) ==
  /\ sub[s].at = "away" /\ sub' = [sub EXCEPT ![s].at = "listening"]
  /\ UNCHANGED <<mix, queue, work, awaited, expired, on, row, locks, marks>>

-----------------------------------------------------------------------------
Work(w) == \/ Take(w) \/ Run(w) \/ Report(w) \/ ReportLost(w) \/ ReportFails(w)
           \/ Execute(w) \/ ExecuteFails(w) \/ Check(w)

Callback(s) == Drop(s) \/ Lock(s) \/ Update(s) \/ Subscribe(s)

Steps ==
  \/ \E w \in Process : Work(w) \/ WorkerDies(w)
  \/ \E s \in Subscriber : Callback(s) \/ SubscriptionEnds(s)
  \/ \E m \in locks : LockExpires(m)
  \/ \E i \in Tasks : CorrectData(i)
  \/ TokenExpires

\* Processes and subscribers go on, and the timed message comes again and again;
\* only a run on a host need not end, and holds its process then.
Spec ==
  /\ Init /\ [][Steps]_vars
  /\ \A w \in Process : WF_vars(~Working(w, "run") /\ Work(w))
  /\ \A s \in Subscriber : WF_vars(Callback(s))
  /\ \A i \in Task : WF_vars(i \in Tasks /\ CorrectData(i))

-----------------------------------------------------------------------------
On(t, kind, h) == ~IsChain(t) /\ t.host = h /\ KindOf(t.id) = kind

\* Nothing about a kind is under way for a host.
Quiet(kind, h) ==
  /\ \A t \in AtWork : ~On(t, kind, h)
  /\ \A s \in Subscriber : \A m \in ToSet(sub[s].inbox) : ~(m.host = h /\ KindOf(m.id) = kind)

\* A host's row names the task that last set its repository, or scanned it, once all
\* is handled: unless tasks of the kind crossed on it, a message was missed, or a
\* command that was reported as failed had done its work.  Locks that expire, and two subscribers
\* that are not at the same message, do not matter.
RowFollowsHost ==
  \A h \in Host, kind \in Column :
    Quiet(kind, h) /\ <<"crossed", kind, h>> \notin marks /\ <<"missed", kind, h>> \notin marks =>
      row[h][kind] = on[h][kind]

\* A host that is awaited has its task queued or at work, unless a result was lost:
\* by Redis, by a process that died, or by a handler that cannot report it.
AwaitedHasOwner ==
  \A i \in Tasks : \A h \in awaited[i] :
    Single(i, h) \in UnderWay \/ Lost(i) \in marks

\* Two tasks of a chain are not on hosts at the same time: unless the answer about
\* the first was missing, or the vulnerability service had given it up.
OneAfterTheOther ==
  \A c \in DOMAIN mix.chains : \A j, k \in DOMAIN mix.chains[c] :
    LET first == mix.chains[c][j]  second == mix.chains[c][k] IN
    /\ j < k
    /\ \E t \in UnderWay : t.id = first
    /\ \E t \in UnderWay : t.id = second
    => Blind(first) \in marks

\* Every chain is begun and ends, also when chains occupy all processes and none is
\* left for what they wait for, when the tasks they wait for hang on their hosts,
\* when results are lost and when the token expires: unless in the end every
\* process is held by a run that hangs.
ChainsEnd ==
  \/ <>(\A t \in UnderWay : ~IsChain(t))
  \/ <>[](\A w \in Process : Working(w, "run"))

=============================================================================
