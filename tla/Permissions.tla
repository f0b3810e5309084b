----------------------------- MODULE Permissions -----------------------------
(***************************************************************************)
(* The clusters and host groups that a user may work with.  An administra- *)
(* tor replaces them by one request, which first deletes what the user has *)
(* in other clusters, then binds the user there anew, each time through    *)
(* the distribution service, and at last commits its own tables and clears *)
(* the user's cache.  Every cluster keeps a cache per user in Redis, which *)
(* readers fill from the database while this goes on.                      *)
(***************************************************************************)
EXTENDS Distribution, FiniteSets

CONSTANTS
  Here,    \* the cluster of this service
  Group    \* host groups, of any cluster

ASSUME HereAssumption == Here \notin Remote

Cluster == Remote \cup {Here}

\* What a request grants: sets of groups for some clusters.
Grant == UNION {[C -> SUBSET Group] : C \in SUBSET Cluster}

None == "none"
First == "first"   \* the key from registration

ASSUME RequestAssumption == Request \cap {None, First} = {}

VARIABLES
  registered, \* the user's rows in user_info, user_role_association and role
  assoc,      \* user_cluster_association: whose key, None without a row
  perm,       \* the permissions of the user's role
  binding,    \* in other clusters: the user that stands for this one, its key and groups
  cached,     \* the views of users in each cluster's Redis
  filling,    \* in each cluster: a view that is read and not yet in Redis
  set,        \* the requests that set permissions
  astray,     \* history: clusters left as no request meant it
  raced,      \* history: two requests have overlapped
  outdated    \* history: clusters whose cache a commit overtook

permission_vars == <<registered, assoc, perm, binding, cached, filling, set, astray, raced,
                     outdated, distribution_vars>>

\* The requests of R are to come; `before' has been granted and bound already.
PermissionsInit(R, before) ==
  /\ registered = (before # <<>>)
  /\ assoc = [c \in Cluster |-> IF c \in DOMAIN before THEN First ELSE None]
  /\ perm = {p \in Cluster \X Group : p[1] \in DOMAIN before /\ p[2] \in before[p[1]]}
  /\ binding = [c \in Remote |-> IF c \in DOMAIN before
                  THEN {[user |-> First, key |-> First, groups |-> before[c]]} ELSE {}]
  /\ cached = [c \in Cluster |-> {}] /\ filling = [c \in Cluster |-> {}]
  /\ set = [r \in Request |->
       [pc |-> IF r \in DOMAIN R THEN "new" ELSE "done",
        grant |-> IF r \in DOMAIN R THEN R[r] ELSE <<>>, had |-> FALSE, asked |-> {}]]
  /\ astray = {} /\ raced = FALSE /\ outdated = {}
  /\ DistributionInit

tables == <<registered, assoc, perm, binding>>
caches == <<cached, filling>>
history == <<astray, raced, outdated>>

-----------------------------------------------------------------------------
\* The cache of cluster c.

\* What the database of c says of the user: {} or {view}.
View(c) ==
  IF c = Here
  THEN IF registered /\ \A p \in perm : assoc[p[1]] # None
       THEN {[user |-> Here, key |-> assoc, groups |-> perm]} ELSE {}
  ELSE binding[c]

FillRead(c) ==
  /\ filling[c] = {} /\ View(c) # {}
  /\ filling' = [filling EXCEPT ![c] = View(c)]
  /\ UNCHANGED cached

Cleared(c, users) == {v \in cached[c] : v.user \notin users}

FillWrite(c) ==
  /\ filling[c] # {}
  /\ cached' = [cached EXCEPT ![c] = filling[c] \cup Cleared(c, {v.user : v \in filling[c]})]
  /\ filling' = [filling EXCEPT ![c] = {}]

\* Seeded defect: groups that are no longer granted do not expire.
Expire_Current(c) ==
  /\ \E v \in cached[c] : v.groups # {} /\ v \in View(c)
  /\ cached' = [cached EXCEPT ![c] = {[v EXCEPT !.groups = {}] : v \in @}]
  /\ UNCHANGED filling

\* The groups are kept for 60 seconds, the rest for good.
Expire(c) ==
  /\ \E v \in cached[c] : v.groups # {}
  /\ cached' = [cached EXCEPT ![c] = {[v EXCEPT !.groups = {}] : v \in @}]
  /\ UNCHANGED filling

\* _delete_user_cache
DeleteUserCache(c, users) ==
  /\ cached' = [cached EXCEPT ![c] = Cleared(c, users)]
  /\ UNCHANGED filling

-----------------------------------------------------------------------------
\* Registration, when the oauth2 server has a new user.
Register ==
  /\ ~registered /\ registered' = TRUE
  /\ assoc' = [assoc EXCEPT ![Here] = First]
  /\ outdated' = outdated \cup {c \in {Here} : filling[c] # {}}
  /\ UNCHANGED <<perm, binding, caches, set, astray, raced, distribution_vars>>

-----------------------------------------------------------------------------
\* set_permissions of request r.

Moves(r, from, to) ==
  /\ set[r].pc = from
  /\ set' = [set EXCEPT ![r].pc = to]

UnderWay(r) == set[r].pc \in {"remove", "bind", "clear"}

\* The snapshot of the transaction is taken by its first query.
SetStart(r) ==
  LET asked == {c \in Remote : assoc[c] # None} IN
  /\ set[r].pc = "new"
  /\ set' = [set EXCEPT ![r] = [pc |-> "remove", grant |-> @.grant, had |-> perm # {}, asked |-> asked]]
  /\ Distribute(r, asked)
  /\ raced' = (raced \/ \E q \in Request : UnderWay(q))
  /\ UNCHANGED <<tables, caches, astray, outdated>>

Parts(r, place) == {c \in Remote : call[r][c] = place}

\* Every other cluster that answered has deleted what the user had.
RemoveDone(r) ==
  /\ Answered(r) /\ Parts(r, "refused") = {}
  /\ Moves(r, "remove", "bind")
  /\ Distribute(r, DOMAIN set[r].grant \cap Remote)
  /\ astray' = (astray \ Parts(r, "ok")) \cup (set[r].asked \ Parts(r, "ok"))
  /\ UNCHANGED <<tables, caches, raced, outdated>>

RemoveFails(r) ==
  /\ Answered(r) /\ Parts(r, "refused") # {}
  /\ Moves(r, "remove", "done")
  /\ astray' = astray \cup Parts(r, "ok")
  /\ UNCHANGED <<tables, caches, raced, outdated, distribution_vars>>

\* Seeded defect: every part counts as done, whatever its label.
Granted_AnyLabel(r) == DOMAIN set[r].grant

\* The tables as a granted request leaves them: its own rows, and those that
\* were not in its snapshot.
Granted(r) == Parts(r, "ok") \cup (DOMAIN set[r].grant \cap {Here})

GrantedGroups(r) == {p \in Cluster \X Group : p[1] \in Granted(r) /\ p[2] \in set[r].grant[p[1]]}

Commit(r) ==
  /\ Answered(r) /\ registered
  /\ Moves(r, "bind", "clear")
  /\ assoc' = [c \in Cluster |-> IF c \in Granted(r) THEN r ELSE None]
  /\ perm' = (IF set[r].had THEN {} ELSE perm) \cup GrantedGroups(r)
  /\ outdated' = outdated \cup {c \in {Here} : filling[c] # {}}
  /\ UNCHANGED <<registered, binding, caches, astray, raced, distribution_vars>>

\* The user is not registered, a list of groups is missing, the database or
\* the service fails.
CommitFails(r) ==
  /\ Answered(r)
  /\ Moves(r, "bind", "done")
  /\ astray' = astray \cup set[r].asked \cup Parts(r, "ok")
  /\ UNCHANGED <<tables, caches, raced, outdated, distribution_vars>>

\* Seeded defect: the cache is left to expire.
Clear_Never(r) ==
  /\ Moves(r, "clear", "done")
  /\ UNCHANGED <<tables, caches, history, distribution_vars>>

Clear(r) ==
  /\ Moves(r, "clear", "done")
  /\ DeleteUserCache(Here, {Here})
  /\ UNCHANGED <<tables, history, distribution_vars>>

ClearFails(r) ==
  /\ Moves(r, "clear", "done")
  /\ outdated' = outdated \cup {Here}
  /\ UNCHANGED <<tables, caches, astray, raced, distribution_vars>>

-----------------------------------------------------------------------------
\* A part of request r on its way to cluster c and there.

\* No answer comes any more from where the part was.
Lost(r, c, from) ==
  /\ Again(r, c, from) \/ GiveUp(r, c, from)
  /\ astray' = IF call'[r][c] = "refused" THEN astray \cup {c} ELSE astray

Answers(r, c, from) ==
  \/ Succeeds(r, c, from) /\ UNCHANGED astray
  \/ Lost(r, c, from)

NotDelivered(r, c) ==
  /\ UNCHANGED <<tables, caches, set, raced, outdated>>
  /\ \/ Fails(r, c) /\ astray' = astray \cup {d \in {c} : tries[r][d] > 1}
     \/ Unsigned(r, c) /\ UNCHANGED astray
     \/ Unknown(r, c) /\ UNCHANGED astray
     \/ RefuseAll(r) /\ UNCHANGED astray
     \/ Lost(r, c, "sent")

Users(c) == {v.user : v \in binding[c]}

\* _delete_permissions: nothing to do, or the cache, ...
RunDelete(r, c) ==
  /\ set[r].pc = "remove" /\ UNCHANGED <<tables, filling, set, raced, outdated>>
  /\ \/ binding[c] = {} /\ Answers(r, c, "sent") /\ UNCHANGED cached
     \/ /\ binding[c] # {} /\ Arrives(r, c)
        /\ cached' = [cached EXCEPT ![c] = Cleared(c, Users(c))]
        /\ UNCHANGED astray

\* ... then the commit.
CommitDelete(r, c) ==
  /\ set[r].pc = "remove" /\ call[r][c] = "run"
  /\ Answers(r, c, "run")
  /\ binding' = [binding EXCEPT ![c] = {}]
  /\ outdated' = IF filling[c] # {} \/ cached[c] # {} THEN outdated \cup {c} ELSE outdated
  /\ UNCHANGED <<registered, assoc, perm, caches, set, raced>>

\* _bind_permission: the user that is there gets the new key and the groups on
\* top of its own, or a new user is made; commit, ...
RunBind(r, c) ==
  /\ set[r].pc = "bind" /\ Arrives(r, c)
  /\ binding' = [binding EXCEPT ![c] =
       IF @ = {} THEN {[user |-> r, key |-> r, groups |-> set[r].grant[c]]}
       ELSE {[user |-> v.user, key |-> r, groups |-> v.groups \cup set[r].grant[c]] : v \in @}]
  /\ outdated' = outdated \cup {d \in {c} : filling[d] # {}}
  /\ UNCHANGED <<registered, assoc, perm, caches, set, astray, raced>>

\* ... then the cache.
FinishBind(r, c) ==
  /\ set[r].pc = "bind" /\ call[r][c] = "run"
  /\ Answers(r, c, "run")
  /\ DeleteUserCache(c, Users(c))
  /\ UNCHANGED <<tables, set, raced, outdated>>

\* The other cluster dies between the two.
HandlerDies(r, c) ==
  /\ set[r].pc \in {"remove", "bind"} /\ call[r][c] = "run"
  /\ Lost(r, c, "run")
  /\ outdated' = IF set[r].pc = "bind" THEN outdated \cup {c} ELSE outdated
  /\ UNCHANGED <<tables, caches, set, raced>>

Handler(r, c) ==
  \/ RunDelete(r, c) \/ CommitDelete(r, c) \/ RunBind(r, c) \/ FinishBind(r, c)
  \/ HandlerDies(r, c)

-----------------------------------------------------------------------------
others == <<tables, set, history, distribution_vars>>

CacheStep(c) == (FillRead(c) \/ FillWrite(c) \/ Expire(c)) /\ UNCHANGED others

PermissionsNext ==
  \/ Register
  \/ \E r \in Request :
       \/ SetStart(r) \/ RemoveDone(r) \/ RemoveFails(r) \/ Commit(r) \/ CommitFails(r)
       \/ Clear(r) \/ ClearFails(r)
       \/ \E c \in Remote : NotDelivered(r, c) \/ Handler(r, c)
  \/ \E c \in Cluster : CacheStep(c)

-----------------------------------------------------------------------------
\* Settled: no request to set permissions is under way.
Settled == \A r \in Request : ~UnderWay(r)

\* When no request is under way and none have overlapped, the key kept for
\* another cluster is the one that cluster verifies, and the groups granted
\* there are the ones permitted here; a cluster without a key has nothing bound.
\* Except where an answer was lost and no later one told, the part was left out
\* of one, or the request failed after the other cluster had done its part.
AccessAgrees ==
  Settled /\ ~raced =>
    \A c \in Remote \ astray :
      IF assoc[c] = None THEN binding[c] = {}
      ELSE \E v \in binding[c] : v.key = assoc[c] /\ v.groups = {g \in Group : <<c, g>> \in perm}

\* A cached view is the database's, up to expired groups: unless the clearing of
\* the cache is still to come, failed, or was lost with the other cluster's handler,
\* or a view was read before a commit and cached, or still to be cached, after the
\* clearing.
Clearing(c) ==
  \E r \in Request : IF c = Here THEN set[r].pc = "clear"
                     ELSE set[r].pc = "bind" /\ call[r][c] = "run"

FreshCache ==
  \A c \in Cluster \ outdated : ~Clearing(c) =>
    \A v \in cached[c] : \E w \in View(c) :
      v.user = w.user /\ v.key = w.key /\ v.groups \in {{}, w.groups}

=============================================================================
