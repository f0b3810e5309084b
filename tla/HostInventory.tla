--------------------------- MODULE HostInventory ---------------------------
(***************************************************************************)
(* Hosts and host groups of the host-information service: views/host.py,   *)
(* views/host_group.py and their proxies.  Requests check the tables,      *)
(* reach hosts over SSH and write the tables in separate steps, and other  *)
(* requests come in between.  A transaction reads the snapshot of its      *)
(* first query (InnoDB, repeatable read) and writes the current rows.      *)
(* There is one cluster.                                                   *)
(***************************************************************************)
EXTENDS FiniteSets

CONSTANTS Request,      \* the requests that come; each is made once
          Ip, Port,     \* of managed hosts
          Name,         \* names of groups
          Group0,       \* the id of a group that may exist at the start
          Nobody,       \* added what exists at the start
          Given,        \* a private key that a user gives
          None,
          Mixes         \* bound: the kinds of the requests, one mix chosen at first

Kind == {"add", "batch", "update", "delete", "addGroup", "deleteGroup"}

ASSUME NobodyAssumption == Nobody \notin Request
ASSUME NoneAssumption == None # "ONLINE" /\ None # [key |-> None, status |-> "dead"]
ASSUME MixesAssumption == Mixes \subseteq [Request -> Kind \cup {None}]

Address == Ip \X Port

\* What a request makes for an address is new (a uuid, a key pair): it is
\* known by the two.  The id of a group is the request that adds it.
Mark == [by : Request \cup {Nobody}, at : Address]
HostId == Mark
GroupId == Request \cup {Group0}
Key == Mark \cup {Given, None}
Status == {"ONLINE", "OFFLINE", "UNESTABLISHED", None}
Row == [addr : Address, group : GroupId, key : Key, status : Status]

\* What comes of a host that was reached, or not; Dead: an exception.
Dead == [key |-> None, status |-> "dead"]
Outcome == [key : Key, status : Status] \cup {Dead}

Job == [pc : {"idle", "ssh", "check", "write", "announce", "succeeded", "failed"},
        kind : Kind \cup {None},
        ids : SUBSET HostId,
        places : SUBSET Address,
        got : [Address -> Outcome \cup {None}],
        group : GroupId \cup {None},
        name : Name \cup {None},
        cred : {"password", "key", None},
        ip : Ip \cup {None},
        port : Port \cup {None},
        ok : BOOLEAN]

Idle == [pc |-> "idle", kind |-> None, ids |-> {}, places |-> {},
         got |-> [a \in Address |-> None], group |-> None, name |-> None,
         cred |-> None, ip |-> None, port |-> None, ok |-> FALSE]

VARIABLES
  hosts,        \* the rows of host, or None
  groups,       \* the names of the rows of host_group, or None
  authorized,   \* the private keys that open an address
  req,          \* the requests
  announced,    \* the hosts whose deletion was published
  \* History variables, which no action reads:
  behind,       \* requests with a snapshot older than the last commit
  raced,        \* hosts and groups that such a request wrote or deleted
  partial,      \* hosts whose update gave one of address and port
  gone          \* hosts that were deleted

vars == <<hosts, groups, authorized, req, announced, behind, raced, partial, gone>>
history == <<behind, raced, partial, gone>>

Listed == {i \in HostId : hosts[i] # None}
Exists(g) == g \in GroupId /\ groups[g] # None
InUse(a) == \E i \in Listed : hosts[i].addr = a

Init ==
  /\ groups \in [GroupId -> Name \cup {None}]
  /\ \A g \in Request : groups[g] = None
  /\ \E S \in SUBSET Address :
       /\ S # {} => groups[Group0] # None
       /\ hosts = [i \in HostId |->
            IF i.by = Nobody /\ i.at \in S
            THEN [addr |-> i.at, group |-> Group0, key |-> i, status |-> "ONLINE"]
            ELSE None]
       /\ \E T \in SUBSET Address :
            authorized = [a \in Address |->
              (IF a \in S THEN {[by |-> Nobody, at |-> a]} ELSE {})
                \cup (IF a \in T THEN {Given} ELSE {})]
  /\ \E mix \in Mixes : req = [r \in Request |-> [Idle EXCEPT !.kind = mix[r]]]
  /\ announced = {} /\ behind = {} /\ raced = {} /\ partial = {} /\ gone = {}

-----------------------------------------------------------------------------
\* What is left of a request that was answered.
Ended(r, how) == [Idle EXCEPT !.pc = how, !.kind = req[r].kind, !.ids = req[r].ids]
Answer(r, how) == req' = [req EXCEPT ![r] = Ended(r, how)]

HasSnapshot(r) ==
  \/ req[r].pc = "write"
  \/ req[r].pc = "ssh" /\ req[r].kind \in {"batch", "update"}

\* r commits: what the others have read is no longer what is there.
Overtake(r) == behind' = behind \cup {q \in Request \ {r} : HasSnapshot(q)}
Race(r, written) == raced' = raced \cup (IF r \in behind THEN written ELSE {})

Fail(r) ==
  /\ Answer(r, "failed")
  /\ UNCHANGED <<hosts, groups, authorized, announced, history>>

Take(r, job) ==
  /\ req[r].pc = "idle"
  /\ req[r].kind = job.kind
  /\ req' = [req EXCEPT ![r] = job]
  /\ UNCHANGED <<hosts, groups, authorized, announced, history>>

-----------------------------------------------------------------------------
(* The requests up to their first blocking step.  *)

\* HostManageAPI.post: SSH comes before the checks.
Add(r, a, g, cred) ==
  Take(r, [Idle EXCEPT !.pc = "ssh", !.kind = "add", !.places = {a},
                       !.group = g, !.cred = cred])

\* BatchAddHostAPI.post up to _validate_host_info: the checks come first.
\* Hosts of one batch have different addresses; here they also share the
\* group and the way to authenticate.
AddBatch(r, S, g, cred) ==
  /\ S # {}
  /\ Exists(g)
  /\ \A a \in S : ~InUse(a)
  /\ Take(r, [Idle EXCEPT !.pc = "ssh", !.kind = "batch", !.places = S,
                          !.group = g, !.cred = cred])

\* A batch that is refused changes nothing.
RefuseBatch(r, S, name) ==
  /\ S # {}
  /\ \/ \A g \in GroupId : groups[g] # name
     \/ \E a \in S : InUse(a)
  /\ Take(r, [Idle EXCEPT !.pc = "failed", !.kind = "batch"])

\* The address that an update leaves a host with.
Moved(addr, ip, port) ==
  <<IF ip = None THEN addr[1] ELSE ip, IF port = None THEN addr[2] ELSE port>>

\* Seeded defect: nobody looks for the address.
Permitted_Unchecked(i, g, ip, port) == Exists(g)

\* update_host_info up to its UPDATE reads the snapshot that get_host_info
\* began.  A field that is not given is compared with NULL: no row has that.
Permitted(i, g, ip, port) ==
  /\ \A j \in Listed \ {i} : hosts[j].addr # <<ip, port>>
  /\ Exists(g)

\* HostInfoManageAPI.put up to SSH.
Update(r, i, g, ip, port, cred) ==
  /\ i \in Listed
  /\ Take(r, [Idle EXCEPT !.pc = IF cred = None THEN "write" ELSE "ssh",
                          !.kind = "update", !.ids = {i}, !.group = g,
                          !.places = IF cred = None THEN {}
                                     ELSE {Moved(hosts[i].addr, ip, port)},
                          !.cred = cred, !.ip = ip, !.port = port,
                          !.ok = Permitted(i, g, ip, port)])

\* HostInfoManageAPI.delete up to the DELETE of delete_host.  The view that
\* deletes several hosts raises TypeError before it calls anything.
Delete(r, i) ==
  /\ i \in Listed
  /\ Take(r, [Idle EXCEPT !.pc = "write", !.kind = "delete", !.ids = {i}])

\* add_host_group and delete_host_group up to their commits.
AddGroup(r, name) ==
  Take(r, [Idle EXCEPT !.pc = "write", !.kind = "addGroup", !.name = name,
                       !.ok = \A g \in GroupId : groups[g] # name])

\* Seeded defect: only hosts that are online are counted.
DeleteGroup_IfOffline(r, g) ==
  /\ Exists(g)
  /\ Take(r, [Idle EXCEPT !.pc = "write", !.kind = "deleteGroup", !.group = g,
                          !.ok = \A i \in Listed : hosts[i].group = g => hosts[i].status # "ONLINE"])

DeleteGroup(r, g) ==
  /\ Exists(g)
  /\ Take(r, [Idle EXCEPT !.pc = "write", !.kind = "deleteGroup", !.group = g,
                          !.ok = \A i \in Listed : hosts[i].group # g])

-----------------------------------------------------------------------------
(* SSH; the greenlets of a batch interleave.  *)

\* The outcome for a, after which add_host checks and the others write.
Got(r, a, outcome) ==
  LET got == [req[r].got EXCEPT ![a] = outcome]
      all == \A b \in req[r].places : got[b] # None
      next == IF req[r].kind = "add" THEN "check" ELSE "write"
  IN  req' = [req EXCEPT ![r].got = got, ![r].pc = IF all THEN next ELSE @]

Waiting(r, a) ==
  /\ req[r].pc = "ssh"
  /\ a \in req[r].places
  /\ req[r].got[a] = None

NewKey(r, a) == [by |-> r, at |-> a]

\* _create_ssh_public_key; it may still fail once the key is installed.
Install(r, a) ==
  authorized' = [authorized EXCEPT ![a] = @ \cup {NewKey(r, a)}]

Connects(r, a) ==
  /\ Waiting(r, a)
  /\ \/ /\ req[r].cred = "password"
        /\ Install(r, a)
        /\ Got(r, a, [key |-> NewKey(r, a), status |-> "ONLINE"])
     \/ /\ req[r].cred = "key"
        /\ Given \in authorized[a]
        /\ Got(r, a, [key |-> Given, status |-> "ONLINE"])
        /\ UNCHANGED authorized
  /\ UNCHANGED <<hosts, groups, announced, history>>

MayInstall(r, a) ==
  \/ UNCHANGED authorized
  \/ req[r].cred = "password" /\ Install(r, a)

ConnectFails(r, a) ==
  /\ Waiting(r, a)
  /\ MayInstall(r, a)
  /\ Got(r, a, [key |-> IF req[r].cred = "key" THEN Given ELSE None,
                status |-> IF req[r].kind = "batch" THEN "OFFLINE" ELSE "UNESTABLISHED"])
  /\ UNCHANGED <<hosts, groups, announced, history>>

\* The command prints nothing: splitting its output raises ValueError.  In a
\* batch only the host's greenlet ends.
CommandFails(r, a) ==
  /\ Waiting(r, a)
  /\ MayInstall(r, a)
  /\ IF req[r].kind = "batch" THEN Got(r, a, Dead) ELSE Answer(r, "failed")
  /\ UNCHANGED <<hosts, groups, announced, history>>

-----------------------------------------------------------------------------
(* The tables.  *)

\* _add_host_handler
CheckAdd(r) ==
  /\ req[r].pc = "check"
  /\ Exists(req[r].group)
  /\ \A a \in req[r].places : ~InUse(a)
  /\ req' = [req EXCEPT ![r].pc = "write"]
  /\ UNCHANGED <<hosts, groups, authorized, announced, history>>

RefuseAdd(r) ==
  /\ req[r].pc = "check"
  /\ \/ ~Exists(req[r].group)
     \/ \E a \in req[r].places : InUse(a)
  /\ Fail(r)

\* The commits of add_host and add_host_batch; a dead greenlet spoils the list.
Insert(r) ==
  LET new == {NewKey(r, a) : a \in req[r].places}
  IN  /\ req[r].pc = "write"
      /\ req[r].kind \in {"add", "batch"}
      /\ \A a \in req[r].places : req[r].got[a] # Dead
      /\ hosts' = [i \in HostId |->
           IF i \in new
           THEN [addr |-> i.at, group |-> req[r].group,
                 key |-> req[r].got[i.at].key, status |-> req[r].got[i.at].status]
           ELSE hosts[i]]
      /\ Answer(r, "succeeded")
      /\ Overtake(r)
      /\ Race(r, new)
      /\ UNCHANGED <<groups, authorized, announced, partial, gone>>

\* Seeded defect: a status that is not given is left alone.
Updated_KeepsStatus(job, row) ==
  LET moved == [row EXCEPT !.addr = Moved(@, job.ip, job.port), !.group = job.group]
      out == job.got[CHOOSE a \in job.places : TRUE]
  IN  IF job.places = {} THEN moved
      ELSE [moved EXCEPT !.key = out.key, !.status = out.status]

\* The row after the UPDATE: status is written even if it is None, the key if
\* there were credentials.
Updated(job, row) ==
  LET moved == [row EXCEPT !.addr = Moved(@, job.ip, job.port), !.group = job.group]
      out == job.got[CHOOSE a \in job.places : TRUE]
  IN  IF job.places = {} THEN [moved EXCEPT !.status = None]
      ELSE [moved EXCEPT !.key = out.key, !.status = out.status]

\* update_host_info; an UPDATE that finds no row succeeds.
UpdateRow(r) ==
  LET found == req[r].ids \cap Listed
  IN  /\ req[r].pc = "write"
      /\ req[r].kind = "update"
      /\ req[r].ok
      /\ hosts' = [i \in HostId |-> IF i \in found THEN Updated(req[r], hosts[i]) ELSE hosts[i]]
      /\ Answer(r, "succeeded")
      /\ Overtake(r)
      /\ Race(r, found)
      /\ partial' = partial \cup
           (IF (req[r].ip = None) # (req[r].port = None) THEN found ELSE {})
      /\ UNCHANGED <<groups, authorized, announced, gone>>

\* The DELETE of delete_host.  That it does not find the row it saw is an
\* error (RefuseWrite).
DeleteRow(r) ==
  \E i \in req[r].ids \cap Listed :
    /\ req[r].pc = "write"
    /\ req[r].kind = "delete"
    /\ hosts' = [hosts EXCEPT ![i] = None]
    /\ gone' = gone \cup {i}
    /\ req' = [req EXCEPT ![r].pc = "announce"]
    /\ Overtake(r)
    /\ UNCHANGED <<groups, authorized, announced, raced, partial>>

\* delete_host once it has committed: caches, message, answer.
Announce(r) ==
  /\ req[r].pc = "announce"
  /\ req[r].kind = "delete"
  /\ announced' = announced \cup req[r].ids
  /\ Answer(r, "succeeded")
  /\ UNCHANGED <<hosts, groups, authorized, history>>

\* Seeded defect: the error is swallowed.
AnnounceFails_Quietly(r) ==
  /\ req[r].pc = "announce"
  /\ Answer(r, "succeeded")
  /\ UNCHANGED <<hosts, groups, authorized, announced, history>>

\* Redis fails, or has no key "*_group_hosts": DEL without keys is an error,
\* and not an SQLAlchemyError.  delete_host_group ends so as well.
AnnounceFails(r) ==
  /\ req[r].pc = "announce"
  /\ Fail(r)

InsertGroup(r) ==
  /\ req[r].pc = "write"
  /\ req[r].kind = "addGroup"
  /\ req[r].ok
  /\ groups' = [groups EXCEPT ![r] = req[r].name]
  /\ Answer(r, "succeeded")
  /\ Overtake(r)
  /\ Race(r, {r})
  /\ UNCHANGED <<hosts, authorized, announced, partial, gone>>

\* A row that is already deleted is a StaleDataError (RefuseWrite).
DeleteGroupRow(r) ==
  /\ req[r].pc = "write"
  /\ req[r].kind = "deleteGroup"
  /\ req[r].ok
  /\ Exists(req[r].group)
  /\ groups' = [groups EXCEPT ![req[r].group] = None]
  /\ req' = [req EXCEPT ![r].pc = "announce"]
  /\ Overtake(r)
  /\ Race(r, {req[r].group})
  /\ UNCHANGED <<hosts, authorized, announced, partial, gone>>

\* delete_host_group has deleted its caches.
EndDeleteGroup(r) ==
  /\ req[r].pc = "announce"
  /\ req[r].kind = "deleteGroup"
  /\ Answer(r, "succeeded")
  /\ UNCHANGED <<hosts, groups, authorized, announced, history>>

\* The checks, the greenlets or the database say no.
RefuseWrite(r) ==
  /\ req[r].pc = "write"
  /\ Fail(r)

-----------------------------------------------------------------------------
Begin(r) ==
  \/ \E g \in {h \in GroupId : Exists(h)}, cred \in {"password", "key"} :
       \/ \E a \in Address : Add(r, a, g, cred)
       \/ \E S \in SUBSET Address : AddBatch(r, S, g, cred)
  \/ \E S \in SUBSET Address, name \in Name : RefuseBatch(r, S, name)
  \/ \E i \in HostId, g \in {h \in GroupId : Exists(h)}, ip \in Ip \cup {None}, port \in Port \cup {None},
        cred \in {"password", "key", None} : Update(r, i, g, ip, port, cred)
  \/ \E i \in HostId : Delete(r, i)
  \/ \E name \in Name : AddGroup(r, name)
  \/ \E g \in GroupId : DeleteGroup(r, g)

Ssh(r) ==
  \E a \in Address : Connects(r, a) \/ ConnectFails(r, a) \/ CommandFails(r, a)

Write(r) ==
  \/ CheckAdd(r) \/ RefuseAdd(r)
  \/ Insert(r) \/ UpdateRow(r) \/ DeleteRow(r)
  \/ InsertGroup(r) \/ DeleteGroupRow(r) \/ RefuseWrite(r)
  \/ Announce(r) \/ AnnounceFails(r) \/ EndDeleteGroup(r)

Next == \E r \in Request : Begin(r) \/ Ssh(r) \/ Write(r)

Spec == Init /\ [][Next]_vars

-----------------------------------------------------------------------------
TypeOK ==
  /\ hosts \in [HostId -> Row \cup {None}]
  /\ groups \in [GroupId -> Name \cup {None}]
  /\ authorized \in [Address -> SUBSET Key]
  /\ req \in [Request -> Job]
  /\ announced \subseteq HostId
  /\ behind \subseteq Request
  /\ raced \subseteq HostId \cup GroupId
  /\ partial \subseteq HostId
  /\ gone \subseteq HostId

\* Two hosts have one address only if one of them was written on an outdated
\* snapshot, or by an update that gave only one of address and port, for which
\* update_host_info's check compares with NULL.
AddressOnce ==
  \A i, j \in Listed :
    i # j /\ hosts[i].addr = hosts[j].addr => {i, j} \cap (raced \cup partial) # {}

\* Two groups have one name only if one of them was added on an outdated
\* snapshot.
NamesOnce ==
  \A g, h \in GroupId :
    g # h /\ groups[g] # None /\ groups[g] = groups[h] => {g, h} \cap raced # {}

\* The checks of addresses and names keep both unique with no index to do so,
\* whatever the requests do between their checks and their writes.
NothingTwice == AddressOnce /\ NamesOnce

\* The group of a host exists, unless the host was written or the group was
\* deleted on an outdated snapshot.
HostHasGroup ==
  \A i \in Listed :
    Exists(hosts[i].group) \/ {i, hosts[i].group} \cap raced # {}

\* The key of a host that is online opens the address in its row, also after
\* updates that move it or fail half-way, unless an update wrote the row after
\* another request had changed it.
OnlineKeyOpens ==
  \A i \in Listed :
    hosts[i].status = "ONLINE" =>
      hosts[i].key \in authorized[hosts[i].addr] \/ i \in raced

\* A deleted host never comes back, not even by an update that read it before,
\* and others are told of it unless the deletion is reported as a failure.
DeletedIsAnnounced ==
  /\ gone \cap Listed = {}
  /\ gone \subseteq announced \cup
       UNION {req[r].ids : r \in {q \in Request : req[q].pc \in {"announce", "failed"}
                                               /\ req[q].kind = "delete"}}

=============================================================================
