# Verification of aops-zeus

TLA+ models of the services of aops-zeus, TLC configurations that check them on
small instances, and proofs, checked by TLAPS, of what holds for instances of
any size. Paths below are relative to `src/`; `OS` stands for
`operation-service/zeus/operation_service/app/core/framework`.

## The system

aops-zeus is a set of Flask services, a celery worker and a deployment tool.

| component | state it keeps | operations | interacts with |
|---|---|---|---|
| workflow construction (`OS/workflow`) | jobs, hosts, `worknode_map`, dependency accounts, waiting queue | `init()`: parse, link, fill the queue, validate | hands the graph to the execution |
| workflow execution (`OS/workflow`) | accounts, `pre_status`, reasons, waiting queue, pool, results | `start()`, `work()`, `_handle_result()` | dispatches steps, is called back; run by a task |
| step dispatcher (`OS/task_dispatcher.py`, `OS/process`) | hosts to do, futures, statistics | `run()`, `handle_result()` | SSH to the hosts, callback to the workflow |
| task pool (`OS/task/task_pool.py`) | the singleton's registration, queue, executor, `running_tasks` | `submit_task()`, `start()` | runs tasks for the task manager |
| task life cycle (`core/task_manager.py`, `proxy/task.py`, `OS/task/task_factory`) | the task's row, its directory under `WORK_DIR` | start, retry, cancel, delete; a run | the pool, the database, the scheduler |
| scheduled tasks (`proxy/task.py`) | APScheduler's job store | add, modify, delete a trigger | starts tasks |
| catalogue (`proxy/script.py`, `operate.py`, `command.py`) | scripts, operations, commands and their associations | create, update, delete | tasks are built from it |
| remote shell (`OS/tools/ssh.py`, `sftp.py`, `OS/plugins`) | connections, channels | connect with back-off, command, copy | managed hosts |
| hosts and groups (`host-information-service`) | hosts, groups, Redis caches | add, update, delete | publishes deletions |
| clusters (`host-information-service`, `user-access-service`) | cluster rows, managed clusters, synchronous state | register, delete, synchronise, cancel | other clusters over HTTP, celery, Redis messages |
| accounts, permissions (`user-access-service`) | users, tokens, roles, group permissions, Redis caches | log in, refresh, log out, set permissions | other clusters through the distribution; every service reads the caches |
| async tasks (`async-task`) | canal's configuration files, celery's queue | synchronise, cancel; repository, CVE and hot-patch tasks, and chains of them | the agent over SSH, Redis messages with the results |
| distribution (`distribute-service`) | none | fan a request out, merge the answers | every service of every cluster |
| deployment (`zeus/cli`) | files, systemd units, database schema | deploy, start, stop | sequential |

The services run under gevent's monkey patching (`aops-zeus.spec` requires
python3-gevent and `zeus/cli/service.py` starts uwsgi with
`gevent-monkey-patch`). Threads are greenlets: code between two blocking calls
(database, HTTP, SSH, a queue or lock that has to be waited for, the start of a
thread) is atomic, and everything else interleaves. The models have exactly
these steps.

### What is hard, and what makes each part correct

- **workflow**: callbacks of several predecessors decrement one account; a
  failure travels through skipped nodes; the time budget may end at any point.
  Correct: each node runs at most once, after all its predecessors; the failure
  and its reason arrive exactly where they should; a normal return tells the
  truth; without a timeout the execution ends.
- **construction**: validation consumes the accounts that the execution uses,
  and the end of a job is linked by a depth-first search with shared marks.
  Correct: exactly the acyclic files are accepted, with intact accounts, and
  jobs enclose their steps.
- **dispatcher**: connections fail, futures raise, the timeout strikes while
  results arrive. Correct: one report per step, a good one only for all hosts'
  results, and it comes whatever the hosts do.
- **task pool**: pools replace each other while their threads still run, and
  any of them may delete the registration of another. Correct: a task is run
  once at most, and only what waits in a pool that is full is not run.
- **task life cycle**: requests and runs of one task read, decide and write the
  same row and directory with other requests in between; the database fails
  between two of them, a full pool loses runs and a restart what is in memory.
  Correct: a status that says "under way" has somebody to end it, and the
  directory somebody to remove it, unless just that somebody was lost; retries
  alone never run a task twice.
- **managed clusters**: one request commits in two services and in another
  cluster, starts a task and is answered over Redis; every step may fail, the
  checks read caches that are filled while they are invalidated, and celery
  processes rewrite two shared files without a lock. Correct: what a request
  that stopped half-way leaves is known and bounded, keys match, a state of
  running ends, what is synchronised is configured and nothing else is.
- **hosts and groups**: a request checks a snapshot of the tables, spends
  seconds in SSH and then writes, while others do the same, and no index
  refuses what the check should have; an update changes row, key and status by
  different rules. Correct: what no other request has overtaken keeps addresses
  and names unique, groups in existence and keys valid; a deletion is announced.
- **permissions**: the database, the other clusters and the caches are changed
  one after the other, each request to another cluster may be repeated, lost or
  answered late, and readers fill the caches meanwhile. Correct: what another
  cluster allows is what was decided here, and a cache holds what the tables
  hold, but for what is known to be left half-way; expired groups disappear.
- **tokens**: three requests of a user commit to the database and then change
  Redis, in any order of the two. Correct: a token that Redis accepts is the one
  that can be refreshed and that a log out removes.
- **catalogue**: a name, or a script of a type, is looked for and then added by
  requests that do not see each other; directories are changed after the
  commit. Correct: one script per type of host, a directory per script.
- **scheduled tasks**: the scheduler's table is written at once, the task's row
  when the request commits, and the job may come due in between. Correct: a row
  and its job fit, and a start sends the scripts that were meant.
- **remote shell**: commands and replies share one stream; a prompt is all that
  separates them, sessions break and are begun anew. Correct: a reply is its
  command's own, no command is run twice, what is reported as copied is there,
  and a host holds an executor for ever only where
  the code waits without a time limit.
- **tasks on hosts**: results are published to subscribers that lock, write and
  lose messages, and a chain of tasks polls for the one before. Correct: the
  host's row names what was done last, an awaited result has somebody to bring
  it, the tasks of a chain do not overlap, and every chain ends unless runs that
  hang hold every process.

`PROJECT.json` lists the hazards one by one with their lines.

## Modules

| module | models | notes |
|---|---|---|
| `WorkflowInit` | `init()`: build the graph edge by edge, fill the queue, validate, roll back | |
| `Workflow` | `start()`, `work()`, `_handle_result()` | |
| `WorkflowProofs` | theorems about `Workflow` | |
| `StepExecution` | what the workflow relies on when it dispatches a step | abstract |
| `TaskDispatcher` | `TaskDispatcher` and `TaskExecutor` | implements `StepExecution` |
| `TaskPool` | `TaskPool` and its executors | |
| `TaskLifecycle` | requests and runs of one task | |
| `TaskProofs` | theorems about `TaskPool`, `TaskLifecycle` and `WorkflowInit` | |
| `CanalTasks` | the celery tasks that change the canal configuration, the broker and the Redis messages | |
| `ManagedClusters` | registration, deletion and synchronisation of managed clusters | extends `CanalTasks` |
| `HostInventory` | add, batch, update and delete of hosts, add and delete of groups, the keys on the hosts | |
| `HostInventoryProofs` | theorems about `HostInventory` | |
| `Distribution` | the fan-out of one request to other clusters, its attempts and answers | |
| `Permissions` | `set_permissions`, what it does at other clusters, the caches and who fills them | extends `Distribution` |
| `Sessions` | log in, refresh, log out and the exchange of tokens, in database and Redis | |
| `UserAccess` | `Permissions` and `Sessions` together, where a log in fills the caches and a log out clears them | composition |
| `UserAccessProofs` | theorems about `UserAccess` | |
| `Catalogue` | operations, scripts, commands, associations, directories | |
| `TaskSchedule` | tasks with their details and jobs, the scheduler, and what a start sends | extends `Catalogue` |
| `TaskScheduleProofs` | theorems about `TaskSchedule` | |
| `RemoteControl` | SSH connections: login, prompt, replies, login anew | |
| `RemoteShell` | the plugins shell, script, copy and fetch on them, and the host's files | extends `RemoteControl` |
| `ExecutorProofs` | theorems about `TaskDispatcher`, the refinement among them, and about `RemoteShell` | |
| `HostTasks` | celery's tasks on hosts, chains, results and their subscribers | |
| `HostTasksProofs` | theorems about `HostTasks` | |
| `ManagedClustersProofs` | theorems about `ManagedClusters` | |
| `MC*` | instances for TLC | |

Correspondence:

- **WorkflowInit** follows the loops of `init_workflow`, one dependency at a
  time (`GenerateJobsDependency`, `GenerateStepDependency`,
  `GenerateStartDependency`), and the recursion of
  `_generate_job_end_dependency`: `search` is its stack of calls, each with its
  node, its place in that node's live list of successors and
  `have_self_task_step`; `VisitSuccessor` is a turn of its loop,
  `ReturnFromNode` its end. `InitQueue` also makes the copy validation starts
  from; `CheckNode`, `CheckSuccessor` and `NodeChecked` are validation's two
  loops on the live accounts, `RejectUnreached` and `Accept` its ends, and
  `RollbackDependencyCount` puts one decrement back. A description is a
  sequence of jobs with steps and dependency lists; a reference is already
  split at its colon. `WellFormed` leaves out what does not parse, a job
  without steps and names that do not exist (a `KeyError`), for which `init()`
  raises before it changes anything, and one odd name: a bare reference `end`,
  which the code would take for the end of the job itself.
- **Workflow** begins where `init()` ended. `GetAndSubmit` is one turn of
  `start()`'s loop, `Timeout` any of its three ways to give up, `Finish` the
  end of the final wait. `StartSkipped`, `StartMarker` and `StartStep` are the
  three ways a pool worker leaves `work()`; `FinishStep` is the dispatcher's
  callback. `HandleResult` is the whole of `_handle_result`, which blocks
  nowhere. `status_reason` is the node whose failure the text names.
  An edge that is listed twice is counted once, in account and decrement.
- **TaskDispatcher** has a step for each blocking call: a connection
  (`Connect`, then `Submit` or `ConnectFails`), a result (`HandleResult`,
  `ResultRaises`), the `Timeout`; `StartExecutor` and `EndExecutor` are the
  pool's workers. Its refinement mapping reads a host's outcome off its future.
- **TaskPool** numbers the pools. `instance` is the class attribute that makes
  a singleton; `closing` is a submitter that waits for the executor's lock,
  which the consumer holds while it starts a thread. Tasks that the full pool's
  consumer cannot submit are lost: the first is consumed (`ConsumerFails`), the
  others stay on a queue nobody reads. `LostByFullPool` names them in
  `SubmittedIsRun`, which is about every task that is submitted.
  `handle_exception()` changes nothing: `Task` is an SQLAlchemy model and has
  no `objects`, and the exception is caught inside the loop.
- **TaskLifecycle** gives every request a place (`req`) and, once it is
  submitted, a run (`run`); every database access is a step of its own, and each
  may fail. In the request nothing catches that between the directory and the
  pool (`RequestRaises`, `task_manager.py:73-75`). In `run()` `_handle_exception`
  comes next (`RunRaises`), and if its own write fails, too, the finally clause
  still removes the directory (`OutcomeUnwritten`). `Dropped` is the pool that
  fills before the run was handed on; that it may happen to any run that waits
  is what `TaskPool` says in detail. `writer` (whose request or run wrote the
  status), `unwritten` and `orderly` are history: no guard reads them. `writer`
  lets the properties say that this very request or run must be on its way, and
  `Abandoned` and `unwritten` which ones no longer are. A write that reports an
  error and took effect all the same is not modelled.
  `orderly` is a history variable that records whether only deletions, and
  retries one at a time, have come. `_handle_error_result` is never called by
  the code, so the status FAILED does not occur.
- **CanalTasks** keeps the clusters that each of the two shared files lists
  (`destinations`; `adapters` for the data sources and adapters, which are
  written together). A task reads and writes each file in separate steps, may
  fail at each of them (also because it finds a file truncated by another
  one), and publishes its result, or not. Two writes that mix in one file are
  left out; so are the instance directory and rdb files of a cluster, which
  only its own tasks touch, and the copy itself.
- **ManagedClusters** has a step for every call that leaves the service or
  commits: `Bind` and `Unbind` happen in the other cluster, `AddCluster` and
  `UpdateRunning` in host-information, `CommitRegistration` and
  `CommitDeletion` in user-access, `Restart` and the like at the broker;
  `HandleResult` is the subscription in host-information. Each has its failure,
  and a call whose answer is lost has happened. Keys are numbered, so that the
  keys of different registrations differ. `keyring` stands for the two hashes
  per user that hold the managed clusters and the keys, which are deleted
  together. The lock of 30 seconds in the subscription is one of the reasons
  for `ResultDropped`. Requests for one cluster come one at a time. `lost`,
  `raced` and `halfway` are history variables: no guard reads them, and the
  invariants name with them exactly what an unfinished request, a lost message
  or an unlocked write leaves behind.
- **HostInventory** gives every request a place (`req`) and has one step for
  its checks, one for each outcome of SSH, and one for its commit. The session
  reads one snapshot (InnoDB's repeatable read), taken by the first query: for
  an update that is before SSH, and the checks it makes afterwards are
  evaluated when it begins; an added host is checked after SSH. A row or key is
  named by the request that made it and its address. `behind` holds the
  requests that another one's commit has overtaken; `raced` the rows they
  wrote, `partial` the hosts that an update with only an address or only a port
  wrote, `gone` the hosts that were deleted. No guard reads these four. A
  request gives a password, a key or nothing, and the requests of a batch share
  it and the group. There is one cluster. The Redis caches are deleted after
  the commit and count only as a success or a failure: `DEL` without keys
  raises. Left out are queries, users, `ext_props`, the columns that
  subscriptions write, a `status` sent by the client (the schema takes it, the
  documentation does not have it), and two views that fail before they change
  anything: `SingleHostStatusAPI.put`, whose `host_group_id` nobody sends, and
  the deletion of a batch of hosts, which raises a `TypeError`.
- **Distribution** keeps where the part of a request for each cluster is.
  `Again` follows from whatever `stop_max_attempt_number` repeats; a part that
  was carried out and whose answer was lost is repeated as well. `RefuseAll`,
  `Unsigned` and `Unknown` are the answers without a request: they depend on the
  keys and clusters that the administrator has, which are not modelled further.
  The upload of files is left out: its retry deletes a header a second time and
  fails.
- **Permissions** is `set_permissions` from its first query to the clearing of
  the cache: deletion at the other clusters, binding anew there, the commit and
  `Clear`. What a remote cluster does (`RunDelete`, `CommitDelete`, `RunBind`,
  `FinishBind`, `HandlerDies`) is the same code run there. Rows that a repeated
  binding duplicates, and associations it orphans, are a set: `First` or the
  newest is what a lookup finds. `CommitFails` covers a missing host group list
  and a missing role, too. `FillRead` and `FillWrite` are
  `cache_user_permissions`, whose groups expire after a minute (`Expire`).
  `astray`, `raced` and `outdated` are history. Of late HTTP requests those that
  arrive after they were given up are left out.
- **Sessions** has a step for each commit and one for each change of Redis
  after it. Names of users matter in one way: log out deletes the keys of
  `token-<user>-*` and, as the pattern has no end of the name, of users whose
  names begin with it (`Begins`). Tokens are named by the request that made
  them. `mixed` is history: users whose two stores were changed out of step.
- **UserAccess** puts both together: `LoginFills` and `LogoutClears` are the
  end of a log in and of a log out, on the caches of `Permissions`.
- **Catalogue** gives every request a place (`req`), what it has read (`seen`)
  and the rows of a batch it has still to do (`asked.ids`). `stale` holds the
  requests whose snapshot a commit overtook, `unchecked` the operations that got
  a script without a current check, `leftover` the scripts whose directory
  nothing removes: no guard reads them. `get_script_info`, a query that joins
  without a condition, is not modelled.
- **TaskSchedule** keeps the rows of `operation_task`, APScheduler's table, and
  what the last start of each task was to send. A request has steps for its
  check, the task's detail, the scheduler's job and the commit; to modify or
  delete, it finds the job, removes what it found, and adds. The scheduler runs
  from the first request on tasks until the service ends, and jobs that are
  late are skipped (`UseJob`). A start that fails leaves `sent` as it was.
  `outdated`, `used` and `loose` are history.
- **RemoteControl** takes the terminal's stream as a sequence of what is still
  to arrive (`coming`) and of what arrived and was not read (`screen`): the
  login's dialogue, the echo that holds the prompt it sets, replies and prompts.
  `recv` returns some of it; reads end at the prompt or when the time is up.
  A session that is begun anew has no SFTP channel, although the comment at
  `ssh.py:57-60` names both, so `copy` ends with an error then (a
  `RecursionError`, result FAILED); a private key is passed as the password.
  `relogin` returns also when all its attempts failed: the channel is then the
  closed one, on which sending raises at once (`Closed`). That is what keeps a
  reply from being an earlier session's.
  Unused functions (`su`, `auto_save_key`, `cmd1`) are left out.
- **RemoteShell** has the plugins' own steps, and the host's files by place.
  Errors of delete, put, chmod and chown are swallowed, so that only the digest
  shows them. `shell` reports SUCCESS whatever the exit code; `fetch` reports
  SUCCESS though `GetBinFile` failed. The login dialogue that is repeated inside
  a command waits up to the 3600 seconds of the channel. `retry` stands for a
  caller of `cmd_with_backoff_retry`, which no plugin is. Of two executors, as
  they meet on the files only, the sessions have begun. `ping`, `file` and
  `collect` are not modelled.
- **HostTasks** has celery's queue, its processes (`work`), the subscribers with
  their messages and locks, and the vulnerability service as the hosts whose
  result it awaits. `Run` is the agent's command, which has no time limit
  (`async_task/ssh.py:88`), so it need not end; `OnFailure` is where the
  handlers differ: for repository, roll-back and hot-patch tasks it puts the
  exception into `json.dumps` and raises TypeError, for `cve_fix_task` it asks
  for a key that is not there, so nobody is told. Output that is no JSON ends
  `on_success` silently, and `send_notification` swallows the error that its
  `@retry` waits for. A chain occupies its process while it polls
  (`CheckTaskStatus`): a query that fails, or a token that has expired, counts
  as the end of the task. `CorrectData` is the timed message that tells the
  vulnerability service to give up on tasks. A lock expires (30 seconds) only
  while a process has its message still to handle. That a hot-patch task has
  vulnerabilities to remove is assumed. `on` and `marks` are history.

## Runs

| run | instance | question |
|---|---|---|
| workflow_init | 3456 files: a job of three steps with every pair of dependency lists over its own steps (reordered and repeated names included), a job of one step, references across jobs and to markers, jobs that depend on each other | does validation accept exactly the acyclic graphs and restore the accounts; do markers enclose the steps |
| workflow | all orders of three steps of one job, each step with the template's flags, a failure that counts, "must run", or no hosts; two workers; any timeout | ordering, failure propagation, truth of the result, termination |
| workflow_template (violation) | as above, template flags only | does a failed predecessor stop a step, as `work_node.py:31` says |
| dispatcher | none to three hosts, batches of two | refinement of `StepExecution`, and that the report comes |
| task_pool | three tasks, two workers per pool, full with two tasks | is a task run once at most, and is every submitted one run but for those that wait in a full pool |
| task_lifecycle | three requests of any kinds at the same time, their runs; any database access may fail, any waiting run be lost; one restart | do status and directory keep their owner unless it was abandoned; is there one run for orderly retries; does the row settle |
| managed_clusters | two clusters, managed already or not, two celery processes; three requests for one cluster, or one for each | are keys, rows, states and configuration consistent but for what is recorded as left half-way |
| host_inventory | any two requests, or one of four mixes of three, on two addresses and one group name | are addresses and names unique, groups present and keys valid but for outdated snapshots and partial updates; is a deletion announced |
| user_access | a user, two other clusters, two attempts per request: permissions set once or twice while readers fill the caches; two or three requests about the sessions of two users, one's name beginning with the other's; or one of each | do clusters, tables, caches and Redis agree but for what is recorded; do groups that are withdrawn disappear |
| catalogue | two rows at first; pairs and triples of requests on operations, scripts, commands and tasks with any schedules; a restart and due jobs at any time | one script per type, directories with owners, rows with their jobs, starts with the right scripts |
| remote_shell | one executor with a session that breaks once at any point, for each plugin, or a shell whose sessions break twice; two that copy to or fetch the same file | whose a reply is, that nothing runs twice, what a success promises, that executors end or wait where there is no time limit |
| host_tasks | two tasks of a kind on one or two hosts, or a chain of two with another chain, or a task on two hosts that is in no chain, beside it; two processes, two subscribers, runs that hang, one thing that goes wrong | do rows and awaited results have their owner, do the tasks of a chain exclude each other, do chains end |

**Bounds.** Three steps give every order relation that distinguishes the rules
(chains, forks, joins, independent steps), and two workers with a queue every
overlap of callbacks; deeper graphs repeat them, and the theorems hold for all.
Three hosts with batches of two have a host that waits, one that runs and one
that is done. Three tasks fill a pool and begin another, which the first one
may de-register. Three requests are a start, a second start or retry, and a
cancellation or deletion, with their runs. Three requests for one cluster are
enough to register, delete and register again, or to let an outdated cache
admit a second deletion; one request for each of two clusters makes two tasks
race on the shared files (`Budgets`). Two requests on hosts and groups make
every race between a check and a write; the third one of a mix (`MCMixes`)
follows up on what such a race, or a sequence, has left. Two attempts at a
request (three in the code, `MaxTries`) are a first and a repeated one; two
other clusters are one that answers and one that does not (`MCPlans`). Two
requests on the catalogue race, a third one adds the task, or the second script,
that meets the outcome. One break of a session, and two attempts to connect or
repeat (`Tries`), are every place a session can end in, with the session after
it; with two breaks the session that was begun anew ends as well, before the
shell asks for the code or while it does. Two processes and two subscribers are the fewest that meet; one trouble
(`troubles`) loses a message, a process or a write. Nothing else is bounded.
Where the theorems cover a property, it holds for any number of all these.

**Deadlock** is not checked: every one of these components stops when its work
is done (a workflow has run, all requests were handled). Where it must go on,
a liveness property says so.

**Fairness.** Threads and greenlets that can run do run (weak fairness per
thread), but for the waits without a limit named below. The dispatcher's and the
idle pool's timeouts do strike, as they are arguments of blocking calls. A
command on a host need not end. A step that was dispatched does end for the
workflow because `StepIsReported` shows it does, which assumes of a host that
lets itself be connected that it opens the shell and the file channel or breaks
off: the dispatcher waits for these itself, without a limit (`ssh.py:77`). A run
of a task that is begun ends because of the workflow's time budget, and one that
waits in the pool is begun or lost (`SubmittedIsRun`): both count as a step that
comes. The database and Redis are assumed to answer or fail. No request has to
come, no task has to be submitted, and the workflow's own timeout need not
strike. In `UserAccess` a fill of a cache that has read goes on to write, and
Redis drops what has expired. In `RemoteShell` an executor's thread goes on
where connections, logins and reads have a time limit. Operations on files and
the opening of a shell or file channel have none: there nothing is assumed
(`Unlimited`), so a server that hangs under a live connection holds the
executor, and `EveryExecutorEnds` says that only this does. In `HostTasks`
processes and subscribers go on, except that a run on a host need not end:
fairness leaves `Run` out, and `ChainsEnd` says that chains end unless every
process is held by a run that hangs. The timed message comes again and again, as
a scheduler of its own sends it and not celery; that a chain ends rests on it,
as chains on all processes leave none for what they wait for. The requests of a
chain to the vulnerability service are assumed to be answered or to fail.

**Violations.** `workflow_template` shows the code doing something else than a
comment says: a YAML flag that is not given defaults to the string `"False"`
(`step.py:11-12`). For `essential` that works, as it is compared with that
string; `ignore_result` is tested for truth, so a failed step counts as a
success and its successors run.

Two more comments do not describe the code, and the models say so by what they
contain: a full pool is not waited for (`task_pool.py:48` says it is): its
executor is shut down at once, and tasks that wait for the consumer are lost
with their rows WAITING, which is the exception `LostByFullPool` in
`SubmittedIsRun`; and two runs of a task can both find it not running and set it
RUNNING (`base_task.py:35` says it is set once), so `OneRunAtATime` is about
orderly retries only.

Further limits that the properties state as they are: a step without hosts
never calls back, so the workflow runs into its timeout (`Terminates` assumes
hosts, `SilentOnlyWithoutHosts` says why); rows stay RUNNABLE, WAITING or
RUNNING for ever after a restart, after a database error between the writes of a
start or while a failure is noted, and where a full pool lost the run, and a
retry of a WAITING or RUNNING one is refused. `InFlightStatusHasOwner` and
`Settles` say that nothing else leaves them so (`Abandoned`, `unwritten`), and
`WorkDirHasOwner` the same of directories.

What `managed_clusters` states as exceptions is what the code leaves behind:

- a registration that is refused, or fails, after the other cluster has bound
  the manager leaves a new public key there and the old private key here: the
  cluster cannot be deleted any more (`"bound"` in `KeysMatch`);
- a registration that fails between the two commits leaves a row that no
  request can delete (`"added"` in `OrphanIsCancelled`);
- a deletion that fails to commit after it has queued the cancellation leaves
  an association without a row, and with it `cache_user_permissions` fails for
  its users (`"deleted"` in `ManagedIsKnown`);
- an outdated cache admits a second deletion, whose cancellation may remove
  a cluster registered in the meantime (`"misled"`);
- a lost result, a process that dies, a full lock or a broker that cannot be
  reached after the commit leaves the state running, and such a cluster can be synchronised again
  but not deleted (`lost` in `RunningHasOwner`); a cancellation that fails is
  not reported, and the row of a cluster nobody manages stays;
- a task that writes what it read before another one wrote undoes the other's
  change (`raced` in `CanalFollowsRow`).

What `host_inventory` states as exceptions:

- a request whose snapshot was overtaken may write a second host with an
  address, a second group with a name, a host whose group is gone, or a status
  ONLINE beside a key for another address (`raced`);
- an update that gives an address without a port, or a port without an
  address, compares the other one with NULL and so finds no host that has the
  address already (`partial`);
- a deletion that fails after its commit (the caches have no keys to delete)
  is reported as a failure and not announced (`DeletedIsAnnounced`).

What the other runs state as exceptions:

- a request to another cluster that was carried out and never answered, or one
  that fails here after its parts were carried out, leaves the other cluster
  with its own keys and groups (`astray` in `AccessAgrees`), as two
  administrators at once may (`raced`); a view that was read before a commit
  and cached after the clearing stays, and one whose clearing failed or was lost
  with its handler (`outdated` in `FreshCache`), its groups
  for a minute (`StaleGroupsExpire`);
- of two requests of a user between commit and Redis, the accepted token may be
  the one that cannot be refreshed (`mixed` in `TokensMatchRows`);
- two requests that both find no script of a type add two, and a script that is
  changed is not checked at all (`unchecked` in `OneScriptPerType`); an upload
  for a script that is being deleted, or a failure after the commit, leaves a
  directory (`leftover`);
- a request that fails, or is overtaken, between row and job leaves a job
  without a task, or a task without its job (`loose` in `JobsMatchTasks`); an
  operation that gets other scripts does not change its tasks (`outdated` in
  `SentFits`);
- a reply that was not awaited to its end is read as the reply to the next
  command, for the rest of the session (`"late"` in `ReplyIsOwn`), as is an
  echo the login left (`"unread"`); a session that is begun anew between a
  command and `echo $?` answers with the new shell's 0 (`"anew"`);
- a host's row may keep an older task's name when two tasks cross on it, or a
  message was missed (`RowFollowsHost`); a chain starts the next task while the
  one before runs when it was "blind" (`OneAfterTheOther`).

## Proofs

The eight `*Proofs` modules prove, for every value of the constants (any
workflow description, plan, settings and number of workers; any hosts and batch size; any tasks, clusters,
celery processes, users and sessions; any set of requests, mixes, addresses and
names; any executors, files, and number of sessions that end; any hosts, tasks,
chains and subscribers):

| theorem | property |
|---|---|
| `WorkflowProofs!TypeCorrect` | `TypeOK` |
| `WorkflowProofs!QueuedOnce` | `NeverQueuedTwice` |
| `WorkflowProofs!PredecessorsFirst` | `StartsAfterPredecessors` |
| `WorkflowProofs!FailureReachesSuccessors` | `PreStatusIsPredecessorFailure` |
| `WorkflowProofs!SkipReasons` | `SkipReasonIsFailedStep` |
| `WorkflowProofs!NormalReturn` | `NormalMeansAllSucceeded` |
| `WorkflowProofs!ResultsAreFinal` | `FinishedIsFinal` |
| `ExecutorProofs!TypeCorrect` | `TypeOK` |
| `ExecutorProofs!HostsOnce` | `EveryHostOnce` |
| `ExecutorProofs!VerdictSound` | `VerdictCountsAllHosts` |
| `ExecutorProofs!Silent` | `SilentOnlyWithoutHosts` |
| `ExecutorProofs!Implements` | `ImplementsStepExecution` |
| `TaskProofs!RunAtMostOnce` | `EveryTaskOnce` |
| `TaskProofs!TypeCorrect` | `TypeOK` |
| `TaskProofs!StatusHasOwner` | `InFlightStatusHasOwner` |
| `TaskProofs!DirHasOwner` | `WorkDirHasOwner` |
| `TaskProofs!OneRun` | `OneRunAtATime` |
| `TaskProofs!InitAcceptsExactlyAcyclic` | `AcceptsExactlyAcyclic` |
| `TaskProofs!InitRestoresAccounts` | `AccountsRestored` |
| `TaskProofs!JobsBracketTheirSteps` | `JobBracketsSteps` |
| `HostInventoryProofs!TypeCorrect` | `TypeOK` |
| `HostInventoryProofs!NothingIsTwice` | `NothingTwice` |
| `HostInventoryProofs!HostsHaveGroups` | `HostHasGroup` |
| `HostInventoryProofs!OnlineKeysOpen` | `OnlineKeyOpens` |
| `HostInventoryProofs!DeletionsAnnounced` | `DeletedIsAnnounced` |
| `ManagedClustersProofs!ManagerSigns` | `KeysMatch` |
| `ManagedClustersProofs!ManagedHasRow` | `ManagedIsKnown` |
| `ManagedClustersProofs!RunningRowHasTask` | `RunningHasOwner` |
| `ManagedClustersProofs!OrphanRowIsRemoved` | `OrphanIsCancelled` |
| `ManagedClustersProofs!FilesFollowRow` | `CanalFollowsRow` |
| `UserAccessProofs!TokensAreRows` | `TokensMatchRows` |
| `UserAccessProofs!CachesAreFresh` | `FreshCache` |
| `UserAccessProofs!ClustersAgree` | `AccessAgrees` |
| `TaskScheduleProofs!OneForType` | `OneScriptPerType` |
| `TaskScheduleProofs!DirectoryIsOwned` | `DirectoryHasScript` |
| `TaskScheduleProofs!JobsFitRows` | `JobsMatchTasks` |
| `TaskScheduleProofs!StartsFit` | `SentFits` |
| `ExecutorProofs!RepliesOwn` | `ReplyIsOwn` |
| `ExecutorProofs!CommandsOnce` | `RunAtMostOnce` |
| `ExecutorProofs!CopiesHold` | `CopyHolds` |
| `HostTasksProofs!RowsFollow` | `RowFollowsHost` |
| `HostTasksProofs!AwaitedOwned` | `AwaitedHasOwner` |
| `HostTasksProofs!ChainsInOrder` | `OneAfterTheOther` |

Some of them (`TypeOK`, `NeverQueuedTwice`, `EveryHostOnce` and others) are
steps on the way to the rest and are proved without a run of their own.

**Initialisation.** The assumption is that descriptions are well formed. The
invariant `GraphInv` has one part for each of the things `init()` relies on from
one loop to the next. `AccountsCountEdges`: while the graph is built a node's
account is the number of edges into it, each place of a successor list being an
edge; while it is validated, the number of those edges validation has not gone
through (`EdgesLeft`), and account and decrements to be undone (`Places`) are
together all of them, which is `AccountsRestored` once none are left.
`QueueHasFree`: the local queue and the checked nodes are exactly the nodes with
nothing left to wait for, so that a node is checked after all its predecessors;
`CheckedHasNoCycle` says it as an order: any set of checked nodes has one that
leads to none of them, which for all nodes is acyclicity. A rejection leaves a
set in which every node waits for another of the set: the nodes not checked when
the queue is empty. (The code's other test for cycles, a successor that was
checked before, never finds one: such a successor has nothing left to wait for.)
In a finite graph such a set has a cycle (`PredecessorsCycle`). For the markers, `StepsLinked` says that every step has a
predecessor in its own job other than the end, and `SearchesDone` and
`SearchGoesOn` that a node the searches found has a successor in its job that
was found, or the edge to the end. In an accepted graph the first step that did
not come after the start, and the last node that did not lead to the end, would
contradict these two.

**Workflow.** The assumptions are that the nodes are finitely many, a plan is a
relation on them in which every step has a successor, settings are the YAML's,
and there is a worker. The properties are not inductive alone. The heart of
`IInv` is that a node's account is the number of its predecessors that have no
result: then the callback of one predecessor brings it to zero exactly when the
others have finished, which gives both that a node is queued once and that it
is queued late enough. With it go: a node with an open account is nowhere, an
unfinished node with none is in exactly one place; `pre_status` and reasons
follow the predecessors' results; `got` counts what left the queue. Acyclicity
is not needed for safety: a cycle would only keep nodes from being queued.

**Dispatcher.** The assumptions are finitely many hosts and a batch of at least
one. The invariant says where the hosts are, that the statistics are results of
the hosts counted, and, what the rest needs, that nothing is reported while a
result is missing (`Verdicts`); comparing the number of results with the number
of hosts then compares the sets (`SameSize`). The same invariant gives the
refinement: the last `HandleResult` is the abstract `Report`, the three ways to
give up are `GiveUp`, `EndExecutor` is `HostEnds`, and all else stutters.

**Task pool.** The assumptions are finitely many tasks and limits of at least
one. `NoneTwice` says that no queue holds a task twice, and `OnePlace` that a
task is in one queue of one pool at most, and then neither executing nor done,
and not done while it executes. That every submitted task is run, but for those
a full pool lost, is liveness and only model-checked. A consumer that takes the
head of its queue moves it to the next place; pools that were de-registered keep
theirs.

**Task life cycle.** The assumptions are finiteness of the requests and that
their kinds are known. The properties are inductive with one more fact: a request
has no run before it submits one, so that submitting replaces none. Each says of
one request, the writer of the status or the maker of the directory, where it or
its run is; a step of that request takes it from one of these places to the next
or among the abandoned (`OwnersKept`), a write by another one makes that one the
writer, and a restart abandons all.
For `OneRunAtATime` the strengthening `StatusFollows` says, for each place of
the one request or run there is, which status the row has.

**Hosts and groups.** The assumptions are that `Nobody` is not a request,
`None` is neither ONLINE nor the outcome of an exception, and a mix gives each
request a kind or none. The tables alone say nothing of
the next write; `Checked` says for each request that has checked, and that no
commit has overtaken, that what it found is still so: its address and name are
free, its group exists, its group to delete has no hosts. `Fresh` (a row that
is to be made is not there yet), `Complete` (a request has the data its kind
needs), `OneTarget` and `KeysFollow` (keys are on the hosts that requests and
rows say) carry the argument through SSH. A commit puts every other request
that is on its way into `behind`, so `Checked` has to hold only for those that
begin anew.

**Managed clusters.** The assumption is that budgets are numbers. The invariant
is one conjunct per property and cluster: `KeysOk` says which keys there are at
each step of a request, `RunningOk` and `OrphanOk` that a row with a state has
a task in the queue, with a process or in the channel, and `KnownOk`, for
clusters whose requests ended in order, that there is one cancellation at most
and that it is the one of the request in hand (`Once`). Steps of one cluster
leave the facts of the others (`Frame`, `ClusterStays`). For the files a second
invariant (`FilesOk`) uses the first: a cluster that is not marked as raced has
tasks of one kind at a time (`OneKind`), a write by another cluster's task
leaves it in or out of a file (`Member`), and so what its task wrote is there
(`WorkOk`) until the result on the channel (`TellOk`) reaches the row (`RowOk`).

**Accounts and permissions.** The assumptions are that this cluster is not
among the others, that requests, users and sessions are told apart from the
values that stand for none, and that a name begins with itself. For tokens the
strengthening is `LastCommit`: of the sessions of a user that have committed
and not told Redis yet, there is one, and the row is its. For caches
it is that a reader's copy that is not marked holds what the tables hold
(`CacheOf`). For the agreement of the clusters it is what each step of a request
has reached at each cluster (`RemovingAt`, `BindingAt`), relative to what the
request read when it began (`Snapshot`), as long as no two requests overlap
(`Alone`).

**Catalogue and tasks.** The assumptions are that rows made at first and
requests are different, that `None` is neither of them nor a type, a name or a
row, and that mixes ask for what the interface offers. `AddOk` says that an
addition that has checked, and was not overtaken, still finds its type free, and
`DeleteOk` that a deletion that is about to write has seen all associations of
the script, but for those of operations that are not checked.
`JobInv` follows row and job through the requests that change them: a task that
is being added has no row and at most its own job (`AddTaskOk`), a request that
was not overtaken finds row and job as it left them (`DealOk`), and outside of
them they fit (`Matches`). `SentInv` says that the detail of a row, or of a
request that will make one, serves the types that its operation has scripts for,
until the operation's scripts change, and that what was sent was made of it.

**Remote shell.** The assumptions are that `None` is not a command, a prompt, an
exit code or a result, that there is an attempt at least, and that mixes give
executors jobs; nothing is assumed of the contents of files. `ShellInv` says the
same of each executor (`Ok`), as executors meet on the files only. For replies
it is `Dialogue`: as long as nothing was left unread, the stream is empty when
no command is under way (`Quiet`), and during one it holds the command's output
and the prompt, in this order, in one of three splits between what came and what
comes (`Exchange`). For commands it is `RunsOnce`: one that is under way has not
run, and one the plugin has not called, or has not sent in any session
(`Unsent`), neither runs nor is under way. A login anew sends a command again
only from there. `Verdict` takes the exit code from the command to the plugin:
it is the shell's (`code`), then what `echo $?` printed, then what was read, as
long as no session was begun anew. `Digests` says that a digest, whether it is on
the screen or read, is that of the file until somebody touches it; what another
executor does to the file marks it (`TouchedOk`).

**Tasks on hosts.** The assumptions are finitely many hosts and tasks, that
`None` is neither, and that a mix is well formed: no chain is empty, and a task
is in one place of one chain at most, as whoever asks makes it for that. The argument rests on two
parts: nothing is queued or at work twice (`Once`), and what was reported is not
under way any more, while a chain has touched nothing that is still before it
(`Fresh`). Then a message that is sent cannot be locked yet, which is why
`LockedHandled` may say that a message that finds its lock taken does no harm.
`RowInv`, for a host and a kind of which no tasks crossed and no message was
missed, follows what the host has (`on`) through the process (`KnownAfter`), the
inbox (`Newest`) and the lock to the row: they agree, or what the row lacks is on
its way (`OnItsWay`). For chains it is that a task that is out is awaited
(`AwaitedWhileOut`), that what a chain has behind it is over (`BehindOver`), and
so that of two tasks that are out the first was given up (`InTurn`).

What the proofs corrected in the models: that a failed login anew leaves a
channel on which sending raises. Before, the model let the command be sent there
silently, and `ReplyIsOwn` failed with a second break, which the run did not
have; `RemoteControl` now follows the code and the run has two breaks.

**Only model-checked**: liveness (`Terminates`, `StepIsReported`,
`SubmittedIsRun`, `Settles`, `StaleGroupsExpire`, `EveryExecutorEnds`,
`ChainsEnd`). The prover has neither fairness nor ENABLED. Every safety property
that a run checks and expects to hold has a theorem.

## Not modelled

- Parsing and rendering of YAML, log and result files, and the columns and
  queries that nothing else depends on.
- The SSH and signature libraries: a connection opens or fails, a signature is
  right or refused.
- The agent, a sequential script on the managed host.
- The deployment command line, a sequential installer.
- What a command does on a host; the plugins ping, file and collect, key
  generation, and `su`, which nothing uses.
- A task's progress and the directories of its results.
- An administrator's change of a cluster's name and address, registration of
  users, a status that a client sends for a host.
- Upload of files to other clusters, and timed downloads and scans.

## Plan

All parts of the plan are done: workflows, the dispatcher, the pool, the task
life cycle, hosts and groups, managed clusters, permissions and tokens, the
catalogue with its tasks, the remote shell and the tasks on hosts, with the
theorems above. What a continuation could add is what is listed as not
modelled, where it has state of its own: a task's progress with the directories
of its results, and the registration of users.
