--------------------------- MODULE ManagedClusters ---------------------------
(***************************************************************************)
(* A manager cluster registers other clusters, synchronises their data and *)
(* deletes them again.  One request goes through two services of the       *)
(* manager (user-access with the administrator's association and keys,     *)
(* host-information with the row of the cluster), the user-access service  *)
(* of the other cluster, and the celery tasks; each commits on its own.    *)
(* The results of the tasks come back over Redis, with a lock of 30        *)
(* seconds against repeated handling.  Requests are checked against Redis  *)
(* caches that other requests fill while they are invalidated.             *)
(*                                                                         *)
(* The administrator makes one request at a time for a cluster; requests   *)
(* for different clusters overlap.                                         *)
(***************************************************************************)
EXTENDS CanalTasks, Naturals

CONSTANT Budgets  \* bounds on the requests for each cluster, one chosen at first

ASSUME BudgetsAssumption == Budgets \subseteq [Cluster -> Nat]

VARIABLES
  req,       \* of each cluster: the request under way and its key pair
  assoc,     \* user_cluster_association: the private key, 0 without a row
  row,       \* table cluster: synchronous_state, "none" without a row
  bound,     \* user_map of the other cluster: the public key, 0 without a row
  clusters,  \* Redis "clusters": {} or {rows}
  keyring,   \* Redis "<user>_clusters" and "<user>_rsa_key": {} or {assoc}
  filling,   \* rows read for "clusters" and not yet written there
  refilling, \* associations read for the keyring and not yet written there
  left,      \* requests that may still be made; numbers the key pairs
  halfway    \* history: where requests ended without an undo

request_vars == <<req, assoc, row, bound, clusters, keyring, filling, refilling, left,
                  halfway>>
vars == <<request_vars, canal_vars>>

NoRequest == [pc |-> "idle", key |-> 0]

\* Some clusters have been registered and synchronised before.
Init ==
  /\ req = [c \in Cluster |-> NoRequest]
  /\ \E M \in SUBSET Cluster :
       /\ assoc = [c \in Cluster |-> IF c \in M THEN 1 ELSE 0]
       /\ bound = assoc
       /\ row = [c \in Cluster |-> IF c \in M THEN "succeed" ELSE "none"]
       /\ CanalInit(M)
  /\ clusters = {} /\ keyring = {} /\ filling = {} /\ refilling = {}
  /\ left \in Budgets
  /\ halfway = [c \in Cluster |-> {}]

-----------------------------------------------------------------------------
\* The caches.  A reader that finds none reads the database.

Known(c) == IF clusters = {} THEN row[c] ELSE (CHOOSE f \in clusters : TRUE)[c]

\* cache_user_permissions fails for everyone when a managed cluster is unknown.
KeyringFills == \A c \in Cluster : assoc[c] # 0 => Known(c) # "none"

Key(c) ==
  IF keyring # {} THEN (CHOOSE f \in keyring : TRUE)[c]
  ELSE IF KeyringFills THEN assoc[c] ELSE 0

requests == <<req, assoc, row, bound, left, halfway>>

FillRead ==
  /\ clusters = {} /\ filling = {}
  /\ filling' = {row}
  /\ UNCHANGED <<requests, clusters, keyring, refilling, canal_vars>>

FillWrite ==
  /\ filling # {}
  /\ clusters' = filling /\ filling' = {}
  /\ UNCHANGED <<requests, keyring, refilling, canal_vars>>

FillKeyringRead ==
  /\ keyring = {} /\ refilling = {} /\ KeyringFills
  /\ refilling' = {assoc}
  /\ UNCHANGED <<requests, clusters, keyring, filling, canal_vars>>

FillKeyringWrite ==
  /\ refilling # {}
  /\ keyring' = refilling /\ refilling' = {}
  /\ UNCHANGED <<requests, clusters, filling, canal_vars>>

DeleteCaches == clusters' = {} /\ keyring' = {}

-----------------------------------------------------------------------------
\* A request for cluster c begins, goes on, ends.
Begins(c, pc, key) ==
  /\ req[c].pc = "idle" /\ left[c] > 0
  /\ left' = [left EXCEPT ![c] = @ - 1]
  /\ req' = [req EXCEPT ![c] = [pc |-> pc, key |-> key]]

Moves(c, from, to) ==
  /\ req[c].pc = from
  /\ req' = [req EXCEPT ![c].pc = to]

Ends(c, from) ==
  /\ req[c].pc = from
  /\ req' = [req EXCEPT ![c] = NoRequest]

\* The request ends where others have committed and it has not.
Halfway(c, what) == halfway' = [halfway EXCEPT ![c] = @ \cup {what}]

\* A request passes its checks on what the caches hold.
Checked(c) ==
  halfway' = [halfway EXCEPT ![c] = IF Key(c) = assoc[c] /\ Known(c) = row[c]
                                    THEN @ ELSE @ \cup {"misled"}]

rest == <<filling, refilling>>

\* register_cluster: the address and the name are new as far as the cache
\* knows; the same cluster may have another address.
Register(c) ==
  /\ Begins(c, "bind", left[c] + 1)
  /\ UNCHANGED <<assoc, row, bound, clusters, keyring, halfway, rest, canal_vars>>

\* The other cluster binds the manager, replacing an earlier key.
Bind(c) ==
  /\ Moves(c, "bind", "add")
  /\ bound' = [bound EXCEPT ![c] = req[c].key]
  /\ UNCHANGED <<assoc, row, clusters, keyring, left, halfway, rest, canal_vars>>

\* It refuses, or it binds and its answer is an error or lost.
BindFails(c) ==
  /\ Ends(c, "bind")
  /\ \/ UNCHANGED <<bound, halfway>>
     \/ bound' = [bound EXCEPT ![c] = req[c].key] /\ Halfway(c, "bound")
  /\ UNCHANGED <<assoc, row, clusters, keyring, left, rest, canal_vars>>

\* add_cluster deletes no cache.
AddCluster(c) ==
  /\ row[c] = "none"
  /\ Moves(c, "add", "commit")
  /\ row' = [row EXCEPT ![c] = "running"]
  /\ UNCHANGED <<assoc, bound, clusters, keyring, left, halfway, rest, canal_vars>>

\* The host-information service refuses a cluster, a name or an address it
\* has, or adds the cluster and its answer is lost.
AddClusterFails(c) ==
  /\ Ends(c, "add")
  /\ \/ Halfway(c, "bound") /\ UNCHANGED <<row, lost>>
     \/ /\ row[c] = "none"
        /\ row' = [row EXCEPT ![c] = "running"]
        /\ lost' = lost \cup {Sync(c)}
        /\ halfway' = [halfway EXCEPT ![c] = @ \cup {"bound", "added"}]
  /\ UNCHANGED <<assoc, bound, clusters, keyring, left, rest, queue, work,
                 destinations, adapters, channel, raced>>

\* Seeded defect: the key of an association that exists is kept.
CommitRegistration_KeepsKey(c) ==
  /\ Moves(c, "commit", "start")
  /\ assoc' = [assoc EXCEPT ![c] = IF @ = 0 THEN req[c].key ELSE @]
  /\ halfway' = [halfway EXCEPT ![c] = @ \ {"bound"}]
  /\ UNCHANGED <<row, bound, clusters, keyring, left, rest, canal_vars>>

CommitRegistration(c) ==
  /\ Moves(c, "commit", "start")
  /\ assoc' = [assoc EXCEPT ![c] = req[c].key]
  /\ halfway' = [halfway EXCEPT ![c] = @ \ {"bound"}]
  /\ UNCHANGED <<row, bound, clusters, keyring, left, rest, canal_vars>>

CommitRegistrationFails(c) ==
  /\ Ends(c, "commit")
  /\ lost' = lost \cup {Sync(c)}
  /\ halfway' = [halfway EXCEPT ![c] = @ \cup {"bound", "added"}]
  /\ UNCHANGED <<assoc, row, bound, clusters, keyring, left, rest, queue, work,
                 destinations, adapters, channel, raced>>

StartSynchronization(c) ==
  /\ Moves(c, "start", "invalidate")
  /\ Enqueue(Sync(c))
  /\ UNCHANGED <<assoc, row, bound, clusters, keyring, left, halfway, rest>>

\* The broker cannot be reached; there is nothing left to roll back.
StartSynchronizationFails(c) ==
  /\ Ends(c, "start")
  /\ lost' = lost \cup {Sync(c)}
  /\ UNCHANGED <<assoc, row, bound, clusters, keyring, left, halfway, rest, queue, work,
                 destinations, adapters, channel, raced>>

\* The end of a registration or deletion: the caches are deleted.
Invalidate(c) ==
  /\ Ends(c, "invalidate")
  /\ DeleteCaches
  /\ UNCHANGED <<assoc, row, bound, left, halfway, rest, canal_vars>>

-----------------------------------------------------------------------------
\* delete_managed_cluster: the cluster is managed and not being synchronised,
\* as far as the caches know.
Delete(c) ==
  /\ Key(c) # 0 /\ Known(c) \in {"succeed", "fail"}
  /\ Begins(c, "unbind", 0)
  /\ Checked(c)
  /\ UNCHANGED <<assoc, row, bound, clusters, keyring, rest, canal_vars>>

\* The other cluster verifies the signature and forgets the manager, or has
\* no data about it.
Unbind(c) ==
  /\ Key(c) # 0 /\ Known(c) # "none" /\ bound[c] \in {Key(c), 0}
  /\ Moves(c, "unbind", "cancel")
  /\ bound' = [bound EXCEPT ![c] = 0]
  /\ UNCHANGED <<assoc, row, clusters, keyring, left, halfway, rest, canal_vars>>

\* It refuses the signature, cannot be reached, or its answer is lost.
UnbindFails(c) ==
  /\ Ends(c, "unbind")
  /\ bound' \in {bound} \cup {[bound EXCEPT ![c] = 0] : k \in {bound[c]} \cap {Key(c)}}
  /\ UNCHANGED <<assoc, row, clusters, keyring, left, halfway, rest, canal_vars>>

\* Seeded defect: nothing is cancelled when no synchronisation succeeded.
StopSynchronization_IfSucceeded(c) ==
  /\ Moves(c, "cancel", "forget")
  /\ IF row[c] = "succeed" THEN Enqueue(Cancel(c)) ELSE UNCHANGED canal_vars
  /\ UNCHANGED <<assoc, row, bound, clusters, keyring, left, halfway, rest>>

\* The cancellation is queued before the deletion is committed.
StopSynchronization(c) ==
  /\ Moves(c, "cancel", "forget")
  /\ Enqueue(Cancel(c))
  /\ UNCHANGED <<assoc, row, bound, clusters, keyring, left, halfway, rest>>

\* Rolled back.
StopSynchronizationFails(c) ==
  /\ Ends(c, "cancel")
  /\ UNCHANGED <<assoc, row, bound, clusters, keyring, left, halfway, rest, canal_vars>>

CommitDeletion(c) ==
  /\ Moves(c, "forget", "invalidate")
  /\ assoc' = [assoc EXCEPT ![c] = 0]
  /\ halfway' = [halfway EXCEPT ![c] = @ \ {"bound"}]
  /\ UNCHANGED <<row, bound, clusters, keyring, left, rest, canal_vars>>

CommitDeletionFails(c) ==
  /\ Ends(c, "forget")
  /\ Halfway(c, "deleted")
  /\ UNCHANGED <<assoc, row, bound, clusters, keyring, left, rest, canal_vars>>

-----------------------------------------------------------------------------
\* cluster_synchronize; what the update of the row answers is not looked at.
Synchronize(c) ==
  /\ Key(c) # 0 /\ Known(c) # "none"
  /\ Begins(c, "update", 0)
  /\ Checked(c)
  /\ UNCHANGED <<assoc, row, bound, clusters, keyring, rest, canal_vars>>

SetState(c, s) ==
  row' = [row EXCEPT ![c] = IF @ = "none" THEN @ ELSE s]

\* update_cluster: there is a row, and the caches are deleted after the commit.
UpdateCluster(c, s) == row[c] # "none" /\ SetState(c, s) /\ DeleteCaches

UpdateRunning(c) ==
  /\ Moves(c, "update", "restart")
  /\ \/ UpdateCluster(c, "running")
     \/ UNCHANGED <<row, clusters, keyring>>
  /\ UNCHANGED <<assoc, bound, left, halfway, rest, canal_vars>>

Restart(c) ==
  /\ Ends(c, "restart")
  /\ Enqueue(Sync(c))
  /\ UNCHANGED <<assoc, row, bound, clusters, keyring, left, halfway, rest>>

RestartFails(c) ==
  /\ Ends(c, "restart")
  /\ \/ UpdateCluster(c, "fail") /\ UNCHANGED lost
     \/ lost' = lost \cup {Sync(c)} /\ UNCHANGED <<row, clusters, keyring>>
  /\ UNCHANGED <<assoc, bound, left, halfway, rest, queue, work, destinations, adapters,
                 channel, raced>>

-----------------------------------------------------------------------------
\* The subscription: results are handled one after the other.

\* Seeded defect: the row of a cluster that could not be cancelled goes, too,
\* as the result of a synchronisation is taken for one of a cancellation.
Apply_AnyResult(m) == row' = [row EXCEPT ![m.task.cluster] = "none"]

Apply(m) ==
  IF m.task.kind = "sync" THEN SetState(m.task.cluster, m.state)
  ELSE row' = [row EXCEPT ![m.task.cluster] = "none"]

HandleResult ==
  /\ channel # << >>
  /\ Apply(Head(channel))
  /\ DeleteCaches
  /\ channel' = Tail(channel)
  /\ UNCHANGED <<req, assoc, bound, rest, left, halfway, queue, work, destinations,
                 adapters, lost, raced>>

\* Another result for the cluster took the lock less than 30 seconds ago, the
\* database fails, or the subscription is interrupted.
ResultDropped ==
  /\ channel # << >>
  /\ lost' = lost \cup {Head(channel).task}
  /\ channel' = Tail(channel)
  /\ UNCHANGED <<request_vars, queue, work, destinations, adapters, raced>>

-----------------------------------------------------------------------------
Continue(c) ==
  \/ Bind(c) \/ BindFails(c)
  \/ AddCluster(c) \/ AddClusterFails(c)
  \/ CommitRegistration(c) \/ CommitRegistrationFails(c)
  \/ StartSynchronization(c) \/ StartSynchronizationFails(c)
  \/ Invalidate(c)
  \/ Unbind(c) \/ UnbindFails(c)
  \/ StopSynchronization(c) \/ StopSynchronizationFails(c)
  \/ CommitDeletion(c) \/ CommitDeletionFails(c)
  \/ UpdateRunning(c) \/ Restart(c) \/ RestartFails(c)

RunTasks == \E w \in Worker : RunTask(w) /\ UNCHANGED request_vars

Next ==
  \/ \E c \in Cluster : Register(c) \/ Delete(c) \/ Synchronize(c)
  \/ \E c \in Cluster : Continue(c)
  \/ RunTasks
  \/ \E w \in Worker : WorkerDies(w) /\ UNCHANGED request_vars
  \/ HandleResult \/ ResultDropped
  \/ FillRead \/ FillWrite \/ FillKeyringRead \/ FillKeyringWrite

Spec == Init /\ [][Next]_vars

-----------------------------------------------------------------------------
TypeOK ==
  /\ CanalTypeOK
  /\ req \in [Cluster -> [pc : {"idle", "bind", "add", "commit", "start", "invalidate",
                                "unbind", "cancel", "forget", "update", "restart"},
                          key : Nat]]
  /\ assoc \in [Cluster -> Nat]
  /\ bound \in [Cluster -> Nat]
  /\ row \in [Cluster -> {"none", "running", "succeed", "fail"}]
  /\ left \in [Cluster -> Nat]

Quiet(c) == req[c].pc = "idle"

\* The private key with which the manager signs fits the public key the other
\* cluster verifies with, unless a registration ended after it had bound it.
KeysMatch ==
  \A c \in Cluster : Quiet(c) /\ assoc[c] # 0 /\ bound[c] # 0 =>
    assoc[c] = bound[c] \/ "bound" \in halfway[c]

\* A cluster that its manager has an association with has a row at the manager;
\* without one nobody's permissions can be cached.  Unless a deletion failed to
\* commit after it had queued the cancellation, or a request passed its checks on an
\* outdated cache.
ManagedIsKnown ==
  \A c \in Cluster : Quiet(c) /\ assoc[c] # 0 =>
    row[c] # "none" \/ halfway[c] \cap {"deleted", "misled"} # {}

\* A state of running has a synchronisation that will change it: it is queued, with
\* a process, or its result is on the channel.  Unless that was lost: the process
\* died, the result was not published or not handled, or the request failed before
\* the task was queued.
RunningHasOwner ==
  \A c \in Cluster : Quiet(c) /\ row[c] = "running" => Pending(Sync(c)) \/ Sync(c) \in lost

\* A row without an association is about to be removed by a cancellation: unless the
\* cancellation was lost (it failed, its process died, its result was dropped) or a
\* registration added the row and failed to commit.
OrphanIsCancelled ==
  \A c \in Cluster : Quiet(c) /\ assoc[c] = 0 /\ row[c] # "none" =>
    Pending(Cancel(c)) \/ Cancel(c) \in lost \/ "added" \in halfway[c]

\* What is synchronised is configured, and nothing else is.
CanalFollowsRow ==
  \A c \in Cluster \ raced :
    /\ Quiet(c) /\ ~Pending(Sync(c)) /\ ~Pending(Cancel(c))
    /\ halfway[c] \cap {"deleted", "misled"} = {}
    => /\ row[c] = "succeed" => c \in destinations \cap adapters \/ Cancel(c) \in lost
       /\ row[c] = "none" => c \notin destinations \cup adapters

=============================================================================
