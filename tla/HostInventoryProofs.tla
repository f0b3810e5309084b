------------------------ MODULE HostInventoryProofs ------------------------
(***************************************************************************)
(* What HostInventory promises for any number of requests, addresses and   *)
(* group names.  The invariants are about the tables; they are inductive   *)
(* once it is known what a request that nobody has overtaken may rely on   *)
(* (Checked): what it read when it took its snapshot is still true.        *)
(***************************************************************************)
EXTENDS HostInventory, TLAPS

\* What a request may add is new as long as it is not answered.
Fresh ==
  \A r \in Request :
    req[r].pc \in {"idle", "ssh", "check", "write"} =>
      /\ groups[r] = None
      /\ \A a \in Address : hosts[NewKey(r, a)] = None /\ NewKey(r, a) \notin gone

\* The outcomes that a request waited for are there, and it knows its group.
Complete ==
  \A r \in Request :
    /\ req[r].pc \in {"check", "write"} => \A a \in req[r].places : req[r].got[a] # None
    /\ req[r].kind # "batch" => \A a \in Address : req[r].got[a] # Dead
    /\ req[r].pc = "check" => req[r].kind = "add"
    /\ req[r].pc = "ssh" => req[r].kind \in {"add", "batch", "update"}
    /\ req[r].pc \in {"ssh", "check", "write"} /\ req[r].kind \in {"add", "batch", "update"} =>
         req[r].group \in GroupId

\* A key that is reported to work is authorized.
KeysFollow ==
  \A r \in Request, a \in Address :
    req[r].got[a] # None /\ req[r].got[a].status = "ONLINE" =>
      req[r].got[a].key \in authorized[a]

\* An update is about one host.
OneTarget ==
  \A r \in Request :
    req[r].pc \in {"ssh", "check", "write"} /\ req[r].kind = "update" => \E k : req[r].ids = {k}

AddChecked(r) ==
  req[r].kind \in {"add", "batch"} =>
    Exists(req[r].group) /\ \A a \in req[r].places : ~InUse(a)

UpdateChecked(r) ==
  req[r].kind = "update" =>
    \A i \in req[r].ids :
      /\ req[r].ok => Permitted(i, req[r].group, req[r].ip, req[r].port)
      /\ i \in Listed
      /\ req[r].places # {} =>
           req[r].places = {Moved(hosts[i].addr, req[r].ip, req[r].port)}

GroupChecked(r) ==
  /\ req[r].kind = "addGroup" /\ req[r].ok => \A g \in GroupId : groups[g] # req[r].name
  /\ req[r].kind = "deleteGroup" /\ req[r].ok => \A i \in Listed : hosts[i].group # req[r].group

\* What a request read is still so, or it is behind.
Checked ==
  \A r \in Request :
    HasSnapshot(r) /\ r \notin behind =>
      AddChecked(r) /\ UpdateChecked(r) /\ GroupChecked(r)

Tables == AddressOnce /\ NamesOnce /\ HostHasGroup /\ OnlineKeyOpens

IInv ==
  /\ TypeOK /\ Fresh /\ Complete /\ OneTarget /\ KeysFollow /\ Checked
  /\ Tables /\ DeletedIsAnnounced

-----------------------------------------------------------------------------
(* Types.  *)

LEMMA IdleJob ==
  /\ Idle \in Job
  /\ Idle.pc = "idle" /\ Idle.kind = None /\ Idle.places = {} /\ Idle.ids = {}
  /\ \A a \in Address : Idle.got[a] = None
BY DEF Idle, Job

LEMMA EndedJob ==
  ASSUME TypeOK, NEW r \in Request, NEW how \in {"succeeded", "failed"}
  PROVE  /\ Ended(r, how) \in Job
         /\ Ended(r, how).pc = how
         /\ Ended(r, how).kind = req[r].kind
         /\ Ended(r, how).ids = req[r].ids
         /\ Ended(r, how).places = {}
         /\ \A a \in Address : Ended(r, how).got[a] = None
<1>1. req[r] \in Job
  BY DEF TypeOK
<1> QED BY <1>1 DEF Ended, Idle, Job

LEMMA MovedAddress ==
  ASSUME NEW addr \in Address, NEW ip \in Ip \cup {None}, NEW port \in Port \cup {None}
  PROVE  Moved(addr, ip, port) \in Address
BY DEF Moved, Address

\* What a request begins with.
BeginsWith(r) ==
  \E job \in Job :
    /\ Take(r, job)
    /\ job.pc \in {"ssh", "write", "failed"}
    /\ job.pc = "write" => job.places = {}
    /\ job.pc = "ssh" => job.kind \in {"add", "batch", "update"}
    /\ job.pc # "failed" /\ job.kind \in {"add", "batch", "update"} => job.group \in GroupId
    /\ job.kind = "update" => \E k : job.ids = {k}
    /\ \A a \in Address : job.got[a] = None

LEMMA BeginJob ==
  ASSUME TypeOK, NEW r \in Request, Begin(r)
  PROVE  BeginsWith(r)
<1>1. ASSUME NEW g \in GroupId, NEW cred \in {"password", "key"}, NEW b \in Address, Add(r, b, g, cred)
      PROVE  BeginsWith(r)
  <2> DEFINE job == [Idle EXCEPT !.pc = "ssh", !.kind = "add", !.places = {b},
                                  !.group = g, !.cred = cred]
  <2>1. /\ job \in Job /\ job.pc \in {"ssh", "write", "failed"}
        /\ job.pc = "write" => job.places = {}
        /\ job.pc = "ssh" => job.kind \in {"add", "batch", "update"}
        /\ job.pc # "failed" /\ job.kind \in {"add", "batch", "update"} => job.group \in GroupId
        /\ job.kind # "update"
        /\ \A a \in Address : job.got[a] = None
    BY DEF Idle, Job, Kind
  <2>2. Take(r, job)
    BY <1>1 DEF Add
  <2> HIDE DEF job
  <2> QED BY <2>1, <2>2 DEF BeginsWith
<1>2. ASSUME NEW g \in GroupId, NEW cred \in {"password", "key"}, NEW S \in SUBSET Address, AddBatch(r, S, g, cred)
      PROVE  BeginsWith(r)
  <2> DEFINE job == [Idle EXCEPT !.pc = "ssh", !.kind = "batch", !.places = S,
                                  !.group = g, !.cred = cred]
  <2>1. /\ job \in Job /\ job.pc \in {"ssh", "write", "failed"}
        /\ job.pc = "write" => job.places = {}
        /\ job.pc = "ssh" => job.kind \in {"add", "batch", "update"}
        /\ job.pc # "failed" /\ job.kind \in {"add", "batch", "update"} => job.group \in GroupId
        /\ job.kind # "update"
        /\ \A a \in Address : job.got[a] = None
    BY DEF Idle, Job, Kind
  <2>2. Take(r, job)
    BY <1>2 DEF AddBatch
  <2> HIDE DEF job
  <2> QED BY <2>1, <2>2 DEF BeginsWith
<1>3. ASSUME NEW S \in SUBSET Address, NEW name \in Name, RefuseBatch(r, S, name)
      PROVE  BeginsWith(r)
  <2> DEFINE job == [Idle EXCEPT !.pc = "failed", !.kind = "batch"]
  <2>1. /\ job \in Job /\ job.pc \in {"ssh", "write", "failed"}
        /\ job.pc = "write" => job.places = {}
        /\ job.pc = "ssh" => job.kind \in {"add", "batch", "update"}
        /\ job.pc # "failed" /\ job.kind \in {"add", "batch", "update"} => job.group \in GroupId
        /\ job.kind # "update"
        /\ \A a \in Address : job.got[a] = None
    BY DEF Idle, Job, Kind
  <2>2. Take(r, job)
    BY <1>3 DEF RefuseBatch
  <2> HIDE DEF job
  <2> QED BY <2>1, <2>2 DEF BeginsWith
<1>4. ASSUME NEW i \in HostId, NEW g \in GroupId, NEW ip \in Ip \cup {None},
             NEW port \in Port \cup {None}, NEW cred \in {"password", "key", None},
             Update(r, i, g, ip, port, cred)
      PROVE  BeginsWith(r)
  <2> DEFINE places == IF cred = None THEN {} ELSE {Moved(hosts[i].addr, ip, port)}
             job == [Idle EXCEPT !.pc = IF cred = None THEN "write" ELSE "ssh",
                          !.kind = "update", !.ids = {i}, !.group = g,
                          !.places = places,
                          !.cred = cred, !.ip = ip, !.port = port,
                          !.ok = Permitted(i, g, ip, port)]
  <2>1. hosts[i].addr \in Address
    BY <1>4 DEF Update, Listed, TypeOK, Row
  <2>2. places \in SUBSET Address /\ (cred = None => places = {})
    BY <2>1, MovedAddress
  <2>3. Permitted(i, g, ip, port) \in BOOLEAN
    BY DEF Permitted, Exists
  <2>4. /\ job \in Job /\ job.pc \in {"ssh", "write"}
        /\ job.pc = "write" => places = {}
        /\ job.places = places /\ job.group = g /\ job.kind = "update" /\ job.ids = {i}
        /\ \A a \in Address : job.got[a] = None
    <3> HIDE DEF places
    <3> QED BY <2>2, <2>3 DEF Idle, Job, Kind
  <2>5. Take(r, job)
    BY <1>4 DEF Update
  <2> HIDE DEF job
  <2> QED BY <2>4, <2>5 DEF BeginsWith
<1>5. ASSUME NEW i \in HostId, Delete(r, i)
      PROVE  BeginsWith(r)
  <2> DEFINE job == [Idle EXCEPT !.pc = "write", !.kind = "delete", !.ids = {i}]
  <2>1. /\ job \in Job /\ job.pc \in {"ssh", "write", "failed"}
        /\ job.pc = "write" => job.places = {}
        /\ job.pc = "ssh" => job.kind \in {"add", "batch", "update"}
        /\ job.pc # "failed" /\ job.kind \in {"add", "batch", "update"} => job.group \in GroupId
        /\ job.kind # "update"
        /\ \A a \in Address : job.got[a] = None
    BY DEF Idle, Job, Kind
  <2>2. Take(r, job)
    BY <1>5 DEF Delete
  <2> HIDE DEF job
  <2> QED BY <2>1, <2>2 DEF BeginsWith
<1>6. ASSUME NEW name \in Name, AddGroup(r, name)
      PROVE  BeginsWith(r)
  <2> DEFINE job == [Idle EXCEPT !.pc = "write", !.kind = "addGroup", !.name = name,
                                  !.ok = \A g \in GroupId : groups[g] # name]
  <2>1. /\ job \in Job /\ job.pc \in {"ssh", "write", "failed"}
        /\ job.pc = "write" => job.places = {}
        /\ job.pc = "ssh" => job.kind \in {"add", "batch", "update"}
        /\ job.pc # "failed" /\ job.kind \in {"add", "batch", "update"} => job.group \in GroupId
        /\ job.kind # "update"
        /\ \A a \in Address : job.got[a] = None
    BY DEF Idle, Job, Kind
  <2>2. Take(r, job)
    BY <1>6 DEF AddGroup
  <2> HIDE DEF job
  <2> QED BY <2>1, <2>2 DEF BeginsWith
<1>7. ASSUME NEW g \in GroupId, DeleteGroup(r, g)
      PROVE  BeginsWith(r)
  <2> DEFINE job == [Idle EXCEPT !.pc = "write", !.kind = "deleteGroup", !.group = g,
                                  !.ok = \A i \in Listed : hosts[i].group # g]
  <2>1. /\ job \in Job /\ job.pc \in {"ssh", "write", "failed"}
        /\ job.pc = "write" => job.places = {}
        /\ job.pc = "ssh" => job.kind \in {"add", "batch", "update"}
        /\ job.pc # "failed" /\ job.kind \in {"add", "batch", "update"} => job.group \in GroupId
        /\ job.kind # "update"
        /\ \A a \in Address : job.got[a] = None
    BY DEF Idle, Job, Kind
  <2>2. Take(r, job)
    BY <1>7 DEF DeleteGroup
  <2> HIDE DEF job
  <2> QED BY <2>1, <2>2 DEF BeginsWith
<1> QED BY <1>1, <1>2, <1>3, <1>4, <1>5, <1>6, <1>7 DEF Begin

\* How SSH changes a request.
GotWith(r, a, outcome, job) ==
  /\ req' = [req EXCEPT ![r] = job]
  /\ job = [req[r] EXCEPT !.got = job.got, !.pc = job.pc]
  /\ job.got = [req[r].got EXCEPT ![a] = outcome]
  /\ job.pc \in {"ssh", IF req[r].kind = "add" THEN "check" ELSE "write"}
  /\ job.pc # "ssh" => \A b \in req[r].places : job.got[b] # None

LEMMA GotJob ==
  ASSUME TypeOK, NEW r \in Request, NEW a \in Address, NEW outcome \in Outcome,
         Waiting(r, a), Got(r, a, outcome)
  PROVE  \E job \in Job : GotWith(r, a, outcome, job)
<1> DEFINE got == [req[r].got EXCEPT ![a] = outcome]
           all == \A b \in req[r].places : got[b] # None
           job == [req[r] EXCEPT !.got = got,
                     !.pc = IF all THEN IF req[r].kind = "add" THEN "check" ELSE "write" ELSE @]
<1>1. req[r] \in Job /\ req[r].pc = "ssh"
  BY DEF TypeOK, Waiting
<1>2. got \in [Address -> Outcome \cup {None}]
  BY <1>1 DEF Job
<1>3. /\ job \in Job
      /\ job = [req[r] EXCEPT !.got = job.got, !.pc = job.pc]
      /\ job.got = got
      /\ job.pc \in {"ssh", IF req[r].kind = "add" THEN "check" ELSE "write"}
      /\ job.pc # "ssh" => all
  <2> HIDE DEF got, all
  <2> QED BY <1>1, <1>2 DEF Job
<1>4. req' = [req EXCEPT ![r] = job]
  BY DEF Got
<1> HIDE DEF job
<1> QED BY <1>3, <1>4 DEF GotWith

LEMMA InsertTypeOK ==
  ASSUME TypeOK, Complete, NEW r \in Request, Insert(r)
  PROVE  TypeOK'
<1>1. req[r] \in Job
  BY DEF TypeOK
<1>2. req' \in [Request -> Job]
  BY EndedJob DEF Insert, Answer, TypeOK
<1>3. hosts' \in [HostId -> Row \cup {None}]
  <2>1. ASSUME NEW i \in HostId, NEW a \in req[r].places, i = NewKey(r, a)
        PROVE  [addr |-> i.at, group |-> req[r].group,
                key |-> req[r].got[i.at].key, status |-> req[r].got[i.at].status] \in Row
    <3>1. i.at = a /\ a \in Address
      BY <2>1, <1>1 DEF NewKey, Job
    <3>2. req[r].got[a] \in Outcome /\ req[r].got[a] # Dead
      BY <1>1, <3>1 DEF Insert, Complete, Job
    <3>3. req[r].group \in GroupId
      BY DEF Insert, Complete
    <3> QED BY <3>1, <3>2, <3>3 DEF Row, Outcome
  <2> QED BY <2>1 DEF Insert, TypeOK
<1>4. {NewKey(r, a) : a \in req[r].places} \subseteq HostId
  BY <1>1 DEF HostId, Mark, NewKey, Job
<1> QED BY <1>2, <1>3, <1>4 DEF Insert, TypeOK, Overtake, Race

\* The row that an update writes.
LEMMA UpdatedRow ==
  ASSUME TypeOK, Complete, NEW r \in Request, req[r].pc = "write", req[r].kind = "update",
         NEW row \in Row
  PROVE  /\ Updated(req[r], row) \in Row
         /\ Updated(req[r], row).addr = Moved(row.addr, req[r].ip, req[r].port)
         /\ Updated(req[r], row).group = req[r].group
         /\ \/ Updated(req[r], row).status = None
            \/ \E a \in req[r].places :
                 /\ req[r].got[a] # None
                 /\ Updated(req[r], row).key = req[r].got[a].key
                 /\ Updated(req[r], row).status = req[r].got[a].status
<1> DEFINE job == req[r]
           out == job.got[CHOOSE a \in job.places : TRUE]
           moved == [row EXCEPT !.addr = Moved(@, job.ip, job.port), !.group = job.group]
<1>1. job \in Job /\ job.group \in GroupId
  BY DEF TypeOK, Complete
<1>2. Moved(row.addr, job.ip, job.port) \in Address
  BY <1>1, MovedAddress DEF Job, Row
<1>3. /\ moved \in Row
      /\ moved.addr = Moved(row.addr, job.ip, job.port)
      /\ moved.group = job.group
  BY <1>1, <1>2 DEF Row
<1>4. CASE job.places = {}
  <2>1. Updated(job, row) = [moved EXCEPT !.status = None]
    BY <1>4 DEF Updated
  <2> HIDE DEF moved
  <2> QED BY <1>3, <2>1 DEF Row, Status
<1>5. CASE job.places # {}
  <2>1. PICK a \in job.places : a = CHOOSE b \in job.places : TRUE
    BY <1>5
  <2>2. out = job.got[a]
    BY <2>1
  <2>3. a \in Address /\ out \in Outcome /\ out # Dead /\ out # None
    BY <1>1, <2>1, <2>2 DEF Job, Complete
  <2>4. out.key \in Key /\ out.status \in Status
    BY <2>3 DEF Outcome
  <2>5. Updated(job, row) = [moved EXCEPT !.key = out.key, !.status = out.status]
    BY <1>5 DEF Updated
  <2> HIDE DEF moved, out
  <2> QED BY <1>3, <2>1, <2>2, <2>3, <2>4, <2>5 DEF Row
<1> QED BY <1>4, <1>5

LEMMA UpdateTypeOK ==
  ASSUME TypeOK, Complete, NEW r \in Request, UpdateRow(r)
  PROVE  TypeOK'
<1>1. req[r] \in Job /\ req[r].ids \subseteq HostId
  BY DEF TypeOK, Job
<1>2. req' \in [Request -> Job]
  BY EndedJob DEF UpdateRow, Answer, TypeOK
<1>3. ASSUME NEW i \in req[r].ids \cap Listed PROVE Updated(req[r], hosts[i]) \in Row
  <2>1. hosts[i] \in Row
    BY DEF TypeOK, Listed
  <2> QED BY <2>1, UpdatedRow DEF UpdateRow
<1>4. hosts' \in [HostId -> Row \cup {None}]
  BY <1>3 DEF UpdateRow, TypeOK
<1> QED BY <1>1, <1>2, <1>4 DEF UpdateRow, TypeOK, Overtake, Race

LEMMA SshTypeOK ==
  ASSUME TypeOK, NEW r \in Request, Ssh(r)
  PROVE  TypeOK'
<1>1. PICK a \in Address : Connects(r, a) \/ ConnectFails(r, a) \/ CommandFails(r, a)
  BY DEF Ssh
<1>2. NewKey(r, a) \in Key /\ None \in Key /\ Given \in Key
  BY DEF Key, Mark, NewKey
<1>3. authorized' \in [Address -> SUBSET Key]
  BY <1>1, <1>2 DEF TypeOK, Connects, ConnectFails, CommandFails, MayInstall, Install
<1>4. req' \in [Request -> Job]
  <2>1. ASSUME NEW outcome \in Outcome, Waiting(r, a), Got(r, a, outcome)
        PROVE  req' \in [Request -> Job]
    <3>1. PICK job \in Job : GotWith(r, a, outcome, job)
      BY <2>1, GotJob
    <3> QED BY <3>1 DEF GotWith, TypeOK
  <2>2. CASE Connects(r, a)
    BY <1>2, <2>1, <2>2 DEF Connects, Outcome, Status
  <2>3. CASE ConnectFails(r, a)
    BY <1>2, <2>1, <2>3 DEF ConnectFails, Outcome, Status
  <2>4. CASE CommandFails(r, a) /\ req[r].kind = "batch"
    BY <2>1, <2>4 DEF CommandFails, Outcome
  <2>5. CASE CommandFails(r, a) /\ req[r].kind # "batch"
    BY <2>5, EndedJob DEF CommandFails, Answer, TypeOK
  <2> QED BY <1>1, <2>2, <2>3, <2>4, <2>5
<1> QED BY <1>1, <1>3, <1>4 DEF TypeOK, Connects, ConnectFails, CommandFails, history

LEMMA WriteTypeOK ==
  ASSUME TypeOK, Complete, NEW r \in Request, Write(r)
  PROVE  TypeOK'
<1>1. req[r] \in Job
  BY DEF TypeOK
<1>2. [req[r] EXCEPT !.pc = "write"] \in Job /\ [req[r] EXCEPT !.pc = "announce"] \in Job
  BY <1>1 DEF Job
<1>3. /\ [req EXCEPT ![r].pc = "write"] \in [Request -> Job]
      /\ [req EXCEPT ![r].pc = "announce"] \in [Request -> Job]
  BY <1>2 DEF TypeOK
<1>4. ASSUME NEW how \in {"succeeded", "failed"}, Answer(r, how) PROVE req' \in [Request -> Job]
  BY <1>4, EndedJob DEF Answer, TypeOK
<1>5. CASE CheckAdd(r)
  BY <1>3, <1>5 DEF CheckAdd, TypeOK, history
<1>6. CASE RefuseAdd(r) \/ RefuseWrite(r) \/ AnnounceFails(r)
  BY <1>4, <1>6 DEF RefuseAdd, RefuseWrite, AnnounceFails, Fail, TypeOK, history
<1>7. CASE DeleteRow(r)
  BY <1>3, <1>7 DEF DeleteRow, TypeOK, Overtake, Listed
<1>8. CASE InsertGroup(r)
  BY <1>1, <1>4, <1>8 DEF InsertGroup, TypeOK, Overtake, Race, GroupId, Job
<1>9. CASE DeleteGroupRow(r)
  BY <1>3, <1>9 DEF DeleteGroupRow, TypeOK, Overtake, Race, Exists
<1>10. CASE Announce(r)
  BY <1>1, <1>4, <1>10 DEF Announce, TypeOK, history, Job
<1>11. CASE EndDeleteGroup(r)
  BY <1>4, <1>11 DEF EndDeleteGroup, TypeOK, history
<1> QED BY InsertTypeOK, UpdateTypeOK, <1>5, <1>6, <1>7, <1>8, <1>9, <1>10, <1>11 DEF Write

LEMMA NextTypeOK ==
  ASSUME TypeOK, Complete, [Next]_vars
  PROVE  TypeOK'
<1>1. CASE UNCHANGED vars
  BY <1>1 DEF vars, TypeOK
<1>2. ASSUME NEW r \in Request, Begin(r) PROVE TypeOK'
  BY <1>2, BeginJob DEF BeginsWith, Take, TypeOK, history
<1> QED BY <1>1, <1>2, SshTypeOK, WriteTypeOK DEF Next

-----------------------------------------------------------------------------
(* What a request knows of itself.  *)

\* Writes that leave the hosts alone, after which r has nothing left to write.
EndsQuietly(r) ==
  /\ \E job \in Job : /\ req' = [req EXCEPT ![r] = job]
                       /\ job.pc \in {"announce", "succeeded", "failed"}
  /\ hosts' = hosts /\ gone' = gone
  /\ \A q \in Request \ {r} : groups'[q] \in {None, groups[q]}

LEMMA QuietEnds ==
  ASSUME TypeOK, NEW r \in Request, Write(r)
  PROVE  EndsQuietly(r) \/ Insert(r) \/ UpdateRow(r) \/ DeleteRow(r) \/ CheckAdd(r)
<1>1. ASSUME NEW how \in {"succeeded", "failed"}, Answer(r, how), hosts' = hosts, gone' = gone,
             \A q \in Request \ {r} : groups'[q] \in {None, groups[q]}
      PROVE  EndsQuietly(r)
  BY <1>1, EndedJob DEF EndsQuietly, Answer
<1>2. CASE RefuseAdd(r) \/ RefuseWrite(r) \/ AnnounceFails(r)
  BY <1>1, <1>2 DEF RefuseAdd, RefuseWrite, AnnounceFails, Fail, history
<1>3. CASE InsertGroup(r) \/ Announce(r) \/ EndDeleteGroup(r)
  BY <1>1, <1>3 DEF InsertGroup, Announce, EndDeleteGroup, history, TypeOK, GroupId
<1>4. CASE DeleteGroupRow(r)
  <2> DEFINE job == [req[r] EXCEPT !.pc = "announce"]
  <2>1. job \in Job /\ job.pc = "announce"
    BY DEF TypeOK, Job
  <2>2. req' = [req EXCEPT ![r] = job] /\ hosts' = hosts /\ gone' = gone
    BY <1>4 DEF DeleteGroupRow
  <2>3. \A q \in Request : groups'[q] \in {None, groups[q]}
    BY <1>4 DEF DeleteGroupRow, TypeOK, GroupId
  <2> HIDE DEF job
  <2> QED BY <2>1, <2>2, <2>3 DEF EndsQuietly
<1> QED BY <1>2, <1>3, <1>4 DEF Write

LEMMA NextFresh ==
  ASSUME TypeOK, Fresh, NEW r \in Request, Begin(r) \/ Ssh(r) \/ Write(r)
  PROVE  Fresh'
<1> DEFINE Open == {"idle", "ssh", "check", "write"}
           IsNew(q) ==
             /\ groups[q] = None
             /\ \A a \in Address : hosts[NewKey(q, a)] = None /\ NewKey(q, a) \notin gone
<1>1. \A q \in Request : req[q].pc \in Open => IsNew(q)
  BY DEF Fresh
<1>2. SUFFICES ASSUME NEW q \in Request, req'[q].pc \in Open
               PROVE  IsNew(q)'
  BY DEF Fresh
<1>3. \A a \in Address : NewKey(q, a) \in HostId
  BY DEF NewKey, HostId, Mark
<1>4. CASE Begin(r)
  <2>1. req[r].pc = "idle" /\ (q # r => req'[q] = req[q])
        /\ hosts' = hosts /\ gone' = gone /\ groups' = groups
    BY <1>4, BeginJob DEF BeginsWith, Take, TypeOK, history
  <2> QED BY <1>1, <1>2, <2>1
<1>5. CASE Ssh(r)
  <2>1. req[r].pc = "ssh" /\ (q # r => req'[q] = req[q])
        /\ hosts' = hosts /\ gone' = gone /\ groups' = groups
    BY <1>5 DEF Ssh, Connects, ConnectFails, CommandFails, Waiting, Got, Answer, TypeOK, history
  <2> QED BY <1>1, <1>2, <2>1
<1>6. CASE Insert(r)
  <2>1. q # r /\ req'[q] = req[q]
    BY <1>2, <1>6, EndedJob DEF Insert, Answer, TypeOK
  <2>2. \A a, b : NewKey(q, a) # NewKey(r, b)
    BY <2>1 DEF NewKey
  <2>3. \A a \in Address : hosts'[NewKey(q, a)] = hosts[NewKey(q, a)]
    BY <1>3, <1>6, <2>2 DEF Insert
  <2> QED BY <1>1, <1>2, <1>6, <2>1, <2>3 DEF Insert
<1>7. CASE UpdateRow(r)
  <2>1. q # r /\ req'[q] = req[q]
    BY <1>2, <1>7, EndedJob DEF UpdateRow, Answer, TypeOK
  <2>2. \A a \in Address : NewKey(q, a) \notin Listed
    BY <1>1, <1>2, <2>1 DEF Listed
  <2> QED BY <1>1, <1>2, <1>3, <1>7, <2>1, <2>2 DEF UpdateRow
<1>8. CASE DeleteRow(r)
  <2>1. q # r /\ req'[q] = req[q]
    BY <1>2, <1>8 DEF DeleteRow, TypeOK
  <2>2. \A a \in Address : NewKey(q, a) \notin Listed
    BY <1>1, <1>2, <2>1 DEF Listed
  <2> QED BY <1>1, <1>2, <1>3, <1>8, <2>1, <2>2 DEF DeleteRow, TypeOK
<1>9. CASE CheckAdd(r)
  BY <1>1, <1>2, <1>9 DEF CheckAdd, TypeOK, history
<1>10. CASE EndsQuietly(r)
  BY <1>1, <1>2, <1>10 DEF EndsQuietly, TypeOK
<1>11. EndsQuietly(r) \/ Insert(r) \/ UpdateRow(r) \/ DeleteRow(r) \/ CheckAdd(r) \/ ~Write(r)
  BY QuietEnds
<1> QED BY <1>4, <1>5, <1>6, <1>7, <1>8, <1>9, <1>10, <1>11

\* The outcomes of SSH.
LEMMA SshOutcome ==
  ASSUME TypeOK, NEW r \in Request, Ssh(r)
  PROVE  \E a \in Address :
           \/ \E outcome \in Outcome, job \in Job :
                /\ GotWith(r, a, outcome, job)
                /\ Waiting(r, a)
                /\ outcome.status = "ONLINE" => outcome.key \in authorized'[a]
                /\ outcome = Dead => req[r].kind = "batch"
           \/ Answer(r, "failed")
<1>1. PICK a \in Address : Connects(r, a) \/ ConnectFails(r, a) \/ CommandFails(r, a)
  BY DEF Ssh
<1>2. NewKey(r, a) \in Key /\ None \in Key /\ Given \in Key
  BY DEF Key, Mark, NewKey
<1>3. ASSUME NEW outcome \in Outcome, Waiting(r, a), Got(r, a, outcome),
             outcome.status = "ONLINE" => outcome.key \in authorized'[a],
             outcome = Dead => req[r].kind = "batch"
      PROVE  \E o \in Outcome, job \in Job :
                /\ GotWith(r, a, o, job)
                /\ Waiting(r, a)
                /\ o.status = "ONLINE" => o.key \in authorized'[a]
                /\ o = Dead => req[r].kind = "batch"
  BY <1>3, GotJob
<1>4. CASE Connects(r, a) /\ req[r].cred = "password"
  <2> DEFINE outcome == [key |-> NewKey(r, a), status |-> "ONLINE"]
  <2>1. outcome \in Outcome /\ outcome # Dead
    BY <1>2 DEF Outcome, Status, Dead
  <2>2. outcome.key \in authorized'[a]
    BY <1>4 DEF Connects, Install, TypeOK
  <2> QED BY <1>3, <1>4, <2>1, <2>2 DEF Connects
<1>5. CASE Connects(r, a) /\ req[r].cred # "password"
  <2> DEFINE outcome == [key |-> Given, status |-> "ONLINE"]
  <2>1. outcome \in Outcome /\ outcome # Dead
    BY <1>2 DEF Outcome, Status, Dead
  <2> QED BY <1>3, <1>5, <2>1 DEF Connects
<1>6. CASE ConnectFails(r, a)
  <2> DEFINE outcome == [key |-> IF req[r].cred = "key" THEN Given ELSE None,
                         status |-> IF req[r].kind = "batch" THEN "OFFLINE" ELSE "UNESTABLISHED"]
  <2>1. outcome \in Outcome /\ outcome # Dead /\ outcome.status # "ONLINE"
    BY <1>2 DEF Outcome, Status, Dead
  <2> QED BY <1>3, <1>6, <2>1 DEF ConnectFails
<1>7. CASE CommandFails(r, a) /\ req[r].kind = "batch"
  <2>1. Dead \in Outcome /\ Dead.status # "ONLINE"
    BY DEF Outcome, Dead
  <2> QED BY <1>3, <1>7, <2>1 DEF CommandFails
<1>8. CASE CommandFails(r, a) /\ req[r].kind # "batch"
  BY <1>8 DEF CommandFails
<1> QED BY <1>1, <1>4, <1>5, <1>6, <1>7, <1>8 DEF Connects

LEMMA SshKeys ==
  ASSUME TypeOK, NEW r \in Request, Ssh(r)
  PROVE  /\ \A a \in Address : authorized[a] \subseteq authorized'[a]
         /\ UNCHANGED <<hosts, groups, announced, behind, raced, partial, gone>>
         /\ req[r].pc = "ssh"
BY DEF Ssh, Connects, ConnectFails, CommandFails, MayInstall, Install, TypeOK, history, Waiting

\* After a write the request is over, or has only messages left.
Ends(r) ==
  \E job \in Job :
    /\ req' = [req EXCEPT ![r] = job]
    /\ job.pc \in {"announce", "succeeded", "failed"}
    /\ job.kind = req[r].kind
    /\ \A a \in Address : job.got[a] \in {None, req[r].got[a]}

LEMMA WriteEnds ==
  ASSUME TypeOK, NEW r \in Request, Write(r)
  PROVE  Ends(r) \/ CheckAdd(r)
<1>1. ASSUME NEW how \in {"succeeded", "failed"}, Answer(r, how) PROVE Ends(r)
  BY <1>1, EndedJob DEF Ends, Answer
<1>2. CASE RefuseAdd(r) \/ RefuseWrite(r) \/ AnnounceFails(r)
  BY <1>1, <1>2 DEF RefuseAdd, RefuseWrite, AnnounceFails, Fail
<1>3. CASE Insert(r) \/ UpdateRow(r) \/ InsertGroup(r) \/ Announce(r) \/ EndDeleteGroup(r)
  BY <1>1, <1>3 DEF Insert, UpdateRow, InsertGroup, Announce, EndDeleteGroup
<1>4. CASE DeleteRow(r) \/ DeleteGroupRow(r)
  <2> DEFINE job == [req[r] EXCEPT !.pc = "announce"]
  <2>1. /\ job \in Job /\ job.pc = "announce" /\ job.kind = req[r].kind
        /\ job.got = req[r].got
    BY DEF TypeOK, Job
  <2>2. req' = [req EXCEPT ![r] = job]
    BY <1>4 DEF DeleteRow, DeleteGroupRow
  <2> HIDE DEF job
  <2> QED BY <2>1, <2>2 DEF Ends
<1> QED BY <1>2, <1>3, <1>4 DEF Write

LEMMA NextComplete ==
  ASSUME TypeOK, Complete, NEW r \in Request, Begin(r) \/ Ssh(r) \/ Write(r)
  PROVE  Complete'
<1>1. CASE Begin(r)
  <2>1. PICK job \in Job :
          /\ req' = [req EXCEPT ![r] = job]
          /\ job.pc \in {"ssh", "write", "failed"}
          /\ job.pc = "write" => job.places = {}
          /\ job.pc = "ssh" => job.kind \in {"add", "batch", "update"}
          /\ job.pc # "failed" /\ job.kind \in {"add", "batch", "update"} => job.group \in GroupId
          /\ \A a \in Address : job.got[a] = None
    BY <1>1, BeginJob DEF BeginsWith, Take
  <2>2. None # Dead
    BY NoneAssumption DEF Dead
  <2> QED BY <2>1, <2>2 DEF Complete, TypeOK
<1>2. CASE Ssh(r)
  <2>1. PICK a \in Address :
           \/ \E outcome \in Outcome, job \in Job :
                /\ GotWith(r, a, outcome, job)
                /\ Waiting(r, a)
                /\ outcome = Dead => req[r].kind = "batch"
           \/ Answer(r, "failed")
    BY <1>2, SshOutcome
  <2>2. CASE Answer(r, "failed")
    <3>1. None # Dead
      BY NoneAssumption DEF Dead
    <3> QED BY <2>2, <3>1, EndedJob DEF Complete, TypeOK, Answer
  <2>3. ASSUME NEW outcome \in Outcome, NEW job \in Job, GotWith(r, a, outcome, job), Waiting(r, a),
               outcome = Dead => req[r].kind = "batch"
        PROVE  Complete'
    <3>1. /\ req' = [req EXCEPT ![r] = job]
          /\ job.kind = req[r].kind /\ job.group = req[r].group /\ job.places = req[r].places
          /\ req[r].pc = "ssh"
      BY <2>3 DEF GotWith, TypeOK, Job, Waiting
    <3>2. /\ job.pc \in {"ssh", IF req[r].kind = "add" THEN "check" ELSE "write"}
          /\ job.pc # "ssh" => \A b \in req[r].places : job.got[b] # None
          /\ \A b \in Address : job.got[b] = outcome \/ job.got[b] = req[r].got[b]
      BY <2>3 DEF GotWith, TypeOK, Job
    <3> QED BY <2>3, <3>1, <3>2 DEF Complete, TypeOK
  <2> QED BY <2>1, <2>2, <2>3
<1>3. CASE Ends(r)
  <2>1. None # Dead
    BY NoneAssumption DEF Dead
  <2> QED BY <1>3, <2>1 DEF Ends, Complete, TypeOK
<1>4. CASE CheckAdd(r)
  <2>1. /\ req' = [req EXCEPT ![r].pc = "write"]
        /\ req[r].pc = "check"
    BY <1>4 DEF CheckAdd
  <2> QED BY <2>1 DEF Complete, TypeOK, Job
<1> QED BY <1>1, <1>2, <1>3, <1>4, WriteEnds

LEMMA NextKeysFollow ==
  ASSUME TypeOK, KeysFollow, NEW r \in Request, Begin(r) \/ Ssh(r) \/ Write(r)
  PROVE  KeysFollow'
<1>1. CASE Begin(r)
  BY <1>1, BeginJob DEF BeginsWith, Take, KeysFollow, TypeOK
<1>2. CASE Ssh(r)
  <2>1. PICK a \in Address :
           \/ \E outcome \in Outcome, job \in Job :
                /\ GotWith(r, a, outcome, job)
                /\ outcome.status = "ONLINE" => outcome.key \in authorized'[a]
           \/ Answer(r, "failed")
    BY <1>2, SshOutcome
  <2>2. \A b \in Address : authorized[b] \subseteq authorized'[b]
    BY <1>2, SshKeys
  <2>3. CASE Answer(r, "failed")
    BY <2>2, <2>3, EndedJob DEF KeysFollow, TypeOK, Answer
  <2>4. ASSUME NEW outcome \in Outcome, NEW job \in Job, GotWith(r, a, outcome, job),
               outcome.status = "ONLINE" => outcome.key \in authorized'[a]
        PROVE  KeysFollow'
    <3>1. /\ req' = [req EXCEPT ![r] = job]
          /\ job.got[a] = outcome
          /\ \A b \in Address \ {a} : job.got[b] = req[r].got[b]
      BY <2>4 DEF GotWith, TypeOK, Job
    <3> QED BY <2>2, <2>4, <3>1 DEF KeysFollow, TypeOK
  <2> QED BY <2>1, <2>3, <2>4
<1>3. CASE Write(r)
  <2>1. authorized' = authorized
    BY <1>3 DEF Write, CheckAdd, RefuseAdd, Insert, UpdateRow, DeleteRow, InsertGroup,
                DeleteGroupRow, RefuseWrite, Announce, AnnounceFails, EndDeleteGroup, Fail
  <2>2. CASE Ends(r)
    BY <2>1, <2>2 DEF Ends, KeysFollow, TypeOK
  <2>3. CASE CheckAdd(r)
    BY <2>1, <2>3 DEF CheckAdd, KeysFollow, TypeOK, Job
  <2> QED BY <1>3, <2>2, <2>3, WriteEnds
<1> QED BY <1>1, <1>2, <1>3

-----------------------------------------------------------------------------
(* What requests may rely on.  *)

LEMMA SameChecks ==
  ASSUME NEW q \in Request, hosts' = hosts, groups' = groups,
         req'[q].kind = req[q].kind, req'[q].group = req[q].group,
         req'[q].places = req[q].places, req'[q].ids = req[q].ids, req'[q].ip = req[q].ip,
         req'[q].port = req[q].port, req'[q].ok = req[q].ok, req'[q].name = req[q].name,
         AddChecked(q) /\ UpdateChecked(q) /\ GroupChecked(q)
  PROVE  AddChecked(q)' /\ UpdateChecked(q)' /\ GroupChecked(q)'
<1>1. AddChecked(q)'
  BY DEF AddChecked, Exists, InUse, Listed
<1>2. UpdateChecked(q)'
  BY DEF UpdateChecked, Permitted, Exists, Listed, Moved
<1>3. GroupChecked(q)'
  BY DEF GroupChecked, Listed
<1> QED BY <1>1, <1>2, <1>3

\* The checks a request makes with its first query.
LEMMA BeginChecked ==
  ASSUME TypeOK, NEW r \in Request, Begin(r)
  PROVE  HasSnapshot(r)' => AddChecked(r)' /\ UpdateChecked(r)' /\ GroupChecked(r)'
<1> USE DEF Idle, HasSnapshot
<1>1. r \in DOMAIN req /\ hosts' = hosts /\ groups' = groups
  BY BeginJob DEF BeginsWith, Take, TypeOK
<1>2. CASE \E g \in GroupId, cred \in {"password", "key"}, a \in Address : Add(r, a, g, cred)
  BY <1>1, <1>2 DEF Add, Take
<1>3. CASE \E S \in SUBSET Address, name \in Name : RefuseBatch(r, S, name)
  BY <1>1, <1>3 DEF RefuseBatch, Take
<1>4. CASE \E i \in HostId : Delete(r, i)
  <2>1. req'[r].kind = "delete"
    BY <1>1, <1>4 DEF Delete, Take
  <2> QED BY <2>1 DEF AddChecked, UpdateChecked, GroupChecked
<1>5. ASSUME NEW g \in GroupId, NEW cred, NEW S \in SUBSET Address, AddBatch(r, S, g, cred)
      PROVE  AddChecked(r)' /\ UpdateChecked(r)' /\ GroupChecked(r)'
  <2>1. req'[r].kind = "batch" /\ req'[r].group = g /\ req'[r].places = S
    BY <1>1, <1>5 DEF AddBatch, Take
  <2>2. Exists(g) /\ \A a \in S : ~InUse(a)
    BY <1>5 DEF AddBatch
  <2> QED BY <1>1, <2>1, <2>2 DEF AddChecked, UpdateChecked, GroupChecked, Exists, InUse, Listed
<1>6. ASSUME NEW i \in HostId, NEW g \in GroupId, NEW ip, NEW port, NEW cred,
             Update(r, i, g, ip, port, cred)
      PROVE  AddChecked(r)' /\ UpdateChecked(r)' /\ GroupChecked(r)'
  <2>1. /\ req'[r].kind = "update" /\ req'[r].group = g /\ req'[r].ids = {i}
        /\ req'[r].ip = ip /\ req'[r].port = port
        /\ req'[r].ok = Permitted(i, g, ip, port)
        /\ req'[r].places \in {{}, {Moved(hosts[i].addr, ip, port)}}
    BY <1>1, <1>6 DEF Update, Take
  <2>2. i \in Listed
    BY <1>6 DEF Update
  <2>3. Permitted(i, g, ip, port)' <=> Permitted(i, g, ip, port)
    BY <1>1 DEF Permitted, Exists, Listed
  <2>4. UpdateChecked(r)'
    BY <1>1, <2>1, <2>2, <2>3 DEF UpdateChecked, Permitted, Exists, Listed, Moved
  <2> QED BY <2>1, <2>4 DEF AddChecked, GroupChecked
<1>7. ASSUME NEW name \in Name, AddGroup(r, name)
      PROVE  AddChecked(r)' /\ UpdateChecked(r)' /\ GroupChecked(r)'
  <2>1. /\ req'[r].kind = "addGroup" /\ req'[r].name = name
        /\ req'[r].ok = \A g \in GroupId : groups[g] # name
    BY <1>1, <1>7 DEF AddGroup, Take
  <2> QED BY <1>1, <2>1 DEF AddChecked, UpdateChecked, GroupChecked
<1>8. ASSUME NEW g \in GroupId, DeleteGroup(r, g)
      PROVE  AddChecked(r)' /\ UpdateChecked(r)' /\ GroupChecked(r)'
  <2>1. /\ req'[r].kind = "deleteGroup" /\ req'[r].group = g
        /\ req'[r].ok = \A i \in Listed : hosts[i].group # g
    BY <1>1, <1>8 DEF DeleteGroup, Take
  <2> QED BY <1>1, <2>1 DEF AddChecked, UpdateChecked, GroupChecked, Listed
<1> QED BY <1>2, <1>3, <1>4, <1>5, <1>6, <1>7, <1>8 DEF Begin

LEMMA NextChecked ==
  ASSUME TypeOK, Complete, Checked, NEW r \in Request, Begin(r) \/ Ssh(r) \/ Write(r)
  PROVE  Checked'
<1> DEFINE All(q) == AddChecked(q) /\ UpdateChecked(q) /\ GroupChecked(q)
<1>1. ASSUME NEW q \in Request, hosts' = hosts, groups' = groups, behind' = behind,
             req'[q] = req[q], HasSnapshot(q)', q \notin behind'
      PROVE  All(q)'
  <2>1. HasSnapshot(q) /\ q \notin behind
    BY <1>1 DEF HasSnapshot
  <2>2. AddChecked(q) /\ UpdateChecked(q) /\ GroupChecked(q)
    BY <2>1 DEF Checked
  <2> QED BY <1>1, <2>2, SameChecks
<1>2. CASE Begin(r)
  <2>1. /\ \A q \in Request \ {r} : req'[q] = req[q]
        /\ hosts' = hosts /\ groups' = groups /\ behind' = behind
    BY <1>2, BeginJob DEF BeginsWith, Take, TypeOK, history
  <2> QED BY <1>1, <1>2, <2>1, BeginChecked DEF Checked
<1>3. CASE Ssh(r)
  <2>1. hosts' = hosts /\ groups' = groups /\ behind' = behind /\ req[r].pc = "ssh"
    BY <1>3, SshKeys
  <2>2. PICK a \in Address :
           \/ \E outcome \in Outcome, job \in Job : GotWith(r, a, outcome, job)
           \/ Answer(r, "failed")
    BY <1>3, SshOutcome
  <2>3. \A q \in Request \ {r} : req'[q] = req[q]
    BY <2>2 DEF GotWith, Answer, TypeOK
  <2>4. CASE Answer(r, "failed")
    <3>1. ~HasSnapshot(r)'
      BY <2>4, EndedJob DEF HasSnapshot, Answer, TypeOK
    <3> QED BY <1>1, <2>1, <2>3, <3>1 DEF Checked
  <2>5. ASSUME NEW outcome \in Outcome, NEW job \in Job, GotWith(r, a, outcome, job),
               HasSnapshot(r)', r \notin behind'
        PROVE  All(r)'
    <3>1. /\ req'[r] = job /\ job = [req[r] EXCEPT !.got = job.got, !.pc = job.pc]
          /\ job.pc \in {"ssh", IF req[r].kind = "add" THEN "check" ELSE "write"}
      BY <2>5 DEF GotWith, TypeOK
    <3>2. /\ job.kind = req[r].kind /\ job.group = req[r].group /\ job.places = req[r].places
          /\ job.ids = req[r].ids /\ job.ip = req[r].ip /\ job.port = req[r].port
          /\ job.ok = req[r].ok /\ job.name = req[r].name
      BY <3>1 DEF TypeOK, Job
    <3>3. req[r].kind \in {"add", "batch", "update"}
      BY <2>1 DEF Complete
    <3>4. HasSnapshot(r) /\ r \notin behind
      BY <2>1, <2>5, <3>1, <3>2, <3>3 DEF HasSnapshot
    <3>5. AddChecked(r) /\ UpdateChecked(r) /\ GroupChecked(r)
      BY <3>4 DEF Checked
    <3> QED BY <2>1, <3>1, <3>2, <3>5, SameChecks
  <2> QED BY <1>1, <2>1, <2>2, <2>3, <2>4, <2>5 DEF Checked
<1>4. CASE CheckAdd(r)
  <2>1. /\ \A q \in Request \ {r} : req'[q] = req[q]
        /\ hosts' = hosts /\ groups' = groups /\ behind' = behind
    BY <1>4 DEF CheckAdd, TypeOK, history
  <2>2. /\ req'[r].kind = "add" /\ req'[r].group = req[r].group
        /\ req'[r].places = req[r].places
    BY <1>4 DEF CheckAdd, Complete, TypeOK, Job
  <2>3. AddChecked(r)'
    BY <1>4, <2>1, <2>2 DEF CheckAdd, AddChecked, Exists, InUse, Listed
  <2>4. UpdateChecked(r)' /\ GroupChecked(r)'
    BY <2>2 DEF UpdateChecked, GroupChecked
  <2> QED BY <1>1, <2>1, <2>3, <2>4 DEF Checked
<1>5. CASE Ends(r) /\ Write(r)
  <2>1. ~HasSnapshot(r)' /\ \A q \in Request \ {r} : req'[q] = req[q]
    BY <1>5 DEF Ends, HasSnapshot, TypeOK
  <2>2. CASE Overtake(r)
    <3>1. \A q \in Request \ {r} : HasSnapshot(q)' => q \in behind'
      BY <2>1, <2>2 DEF Overtake, HasSnapshot
    <3> QED BY <2>1, <3>1 DEF Checked
  <2>3. CASE ~Overtake(r) /\ ~CheckAdd(r)
    <3>1. hosts' = hosts /\ groups' = groups /\ behind' = behind
      BY <1>5, <2>3 DEF Write, RefuseAdd, Insert, UpdateRow, DeleteRow, InsertGroup,
               DeleteGroupRow, RefuseWrite, Announce, AnnounceFails, EndDeleteGroup, Fail, history
    <3> QED BY <1>1, <2>1, <3>1 DEF Checked
  <2> QED BY <1>4, <2>2, <2>3
<1> QED BY <1>2, <1>3, <1>4, <1>5, WriteEnds

-----------------------------------------------------------------------------
(* The tables.  *)

LEMMA InsertTables ==
  ASSUME IInv, NEW r \in Request, Insert(r)
  PROVE  Tables'
<1> DEFINE new == {NewKey(r, a) : a \in req[r].places}
<1>1. /\ req[r] \in Job /\ HasSnapshot(r) /\ req[r].kind \in {"add", "batch"}
      /\ groups' = groups /\ partial' = partial /\ authorized' = authorized
      /\ raced \subseteq raced'
  BY DEF IInv, TypeOK, Insert, HasSnapshot, Race
<1>2. \A i \in new : i \in HostId /\ i.at \in req[r].places /\ i = NewKey(r, i.at)
  BY <1>1 DEF NewKey, HostId, Mark, Job
<1>3. r \notin behind => Exists(req[r].group) /\ \A a \in req[r].places : ~InUse(a)
  BY <1>1 DEF IInv, Checked, AddChecked
<1>4. r \in behind => new \subseteq raced'
  BY DEF Insert, Race
<1>5. \A i \in Listed' : i \in new \/ (i \in Listed /\ hosts'[i] = hosts[i])
  BY DEF Insert, Listed
<1>6. \A i \in new : /\ hosts'[i].addr = i.at
                     /\ hosts'[i].group = req[r].group
                     /\ hosts'[i].key = req[r].got[i.at].key
                     /\ hosts'[i].status = req[r].got[i.at].status
  BY <1>2 DEF Insert
<1> HIDE DEF new
<1>7. AddressOnce'
  <2> SUFFICES ASSUME NEW i \in Listed', NEW j \in Listed', i # j,
                      hosts'[i].addr = hosts'[j].addr
               PROVE  {i, j} \cap (raced' \cup partial') # {}
    BY DEF AddressOnce
  <2>1. CASE r \notin behind /\ i \in new /\ j \notin new
    BY <1>2, <1>3, <1>5, <1>6, <2>1 DEF InUse
  <2>2. CASE r \notin behind /\ i \notin new /\ j \in new
    BY <1>2, <1>3, <1>5, <1>6, <2>2 DEF InUse
  <2>3. CASE i \in new /\ j \in new
    BY <1>2, <1>6, <2>3
  <2>4. CASE i \notin new /\ j \notin new
    BY <1>1, <1>5, <2>4 DEF IInv, Tables, AddressOnce
  <2> QED BY <1>4, <2>1, <2>2, <2>3, <2>4
<1>8. NamesOnce'
  BY <1>1 DEF IInv, Tables, NamesOnce
<1>9. HostHasGroup'
  BY <1>1, <1>3, <1>4, <1>5, <1>6 DEF IInv, Tables, HostHasGroup, Exists
<1>10. OnlineKeyOpens'
  <2>1. ASSUME NEW i \in new, hosts'[i].status = "ONLINE"
        PROVE  hosts'[i].key \in authorized'[hosts'[i].addr]
    <3>1. i.at \in req[r].places /\ i.at \in Address
      BY <1>1, <1>2 DEF Job
    <3>2. req[r].got[i.at] # None
      BY <3>1 DEF IInv, Complete, Insert
    <3> QED BY <1>1, <1>6, <2>1, <3>1, <3>2 DEF IInv, KeysFollow
  <2> QED BY <1>1, <1>5, <2>1 DEF IInv, Tables, OnlineKeyOpens
<1> QED BY <1>7, <1>8, <1>9, <1>10 DEF Tables

LEMMA UpdateTables ==
  ASSUME IInv, NEW r \in Request, UpdateRow(r)
  PROVE  Tables'
<1> DEFINE found == req[r].ids \cap Listed
<1>1. /\ req[r] \in Job /\ HasSnapshot(r) /\ req[r].kind = "update" /\ req[r].ok
      /\ req[r].pc = "write"
      /\ groups' = groups /\ authorized' = authorized
      /\ raced \subseteq raced' /\ partial \subseteq partial'
      /\ TypeOK /\ Complete
  BY DEF IInv, TypeOK, UpdateRow, HasSnapshot, Race
<1>2. r \notin behind => UpdateChecked(r)
  BY <1>1 DEF IInv, Checked
<1>3. r \in behind => found \subseteq raced'
  BY DEF UpdateRow, Race
<1>4. \A i \in Listed' : /\ i \in Listed
                         /\ hosts[i] \in Row
                         /\ i \notin found => hosts'[i] = hosts[i]
                         /\ i \in found => hosts'[i] = Updated(req[r], hosts[i])
  BY <1>1 DEF UpdateRow, Listed, TypeOK
<1>5. (req[r].ip = None) # (req[r].port = None) => found \subseteq partial'
  BY DEF UpdateRow
<1>6. ASSUME NEW i \in Listed', i \in found
      PROVE  /\ hosts'[i].addr = Moved(hosts[i].addr, req[r].ip, req[r].port)
             /\ hosts'[i].group = req[r].group
             /\ \/ hosts'[i].status = None
                \/ \E a \in req[r].places :
                     /\ req[r].got[a] # None
                     /\ hosts'[i].key = req[r].got[a].key
                     /\ hosts'[i].status = req[r].got[a].status
  BY <1>1, <1>4, <1>6, UpdatedRow
<1>7. ASSUME r \notin behind, NEW i \in found
      PROVE  /\ req[r].ids \subseteq HostId
             /\ Permitted(i, req[r].group, req[r].ip, req[r].port)
             /\ req[r].places # {} =>
                  req[r].places = {Moved(hosts[i].addr, req[r].ip, req[r].port)}
  BY <1>1, <1>2, <1>7 DEF UpdateChecked, Job
<1> HIDE DEF found
<1>8. AddressOnce'
  <2>1. ASSUME NEW i \in Listed', NEW j \in Listed', i # j, i \in found,
               hosts'[i].addr = hosts'[j].addr, j \notin found
        PROVE  {i, j} \cap (raced' \cup partial') # {}
    <3>1. hosts[i].addr \in Address /\ hosts[j].addr \in Address
      BY <1>4 DEF Row
    <3>2. hosts'[i].addr = Moved(hosts[i].addr, req[r].ip, req[r].port)
          /\ hosts'[j].addr = hosts[j].addr
      BY <1>4, <1>6, <2>1
    <3>3. CASE r \in behind \/ (req[r].ip = None) # (req[r].port = None)
      BY <1>3, <1>5, <2>1, <3>3
    <3>4. CASE req[r].ip = None /\ req[r].port = None
      <4>1. hosts'[i].addr = hosts[i].addr
        BY <3>1, <3>2, <3>4 DEF Moved, Address
      <4> QED BY <1>1, <1>4, <2>1, <3>2, <4>1 DEF IInv, Tables, AddressOnce
    <3>5. CASE r \notin behind /\ req[r].ip # None /\ req[r].port # None
      <4>1. hosts'[i].addr = <<req[r].ip, req[r].port>>
        BY <3>2, <3>5 DEF Moved
      <4>2. Permitted(i, req[r].group, req[r].ip, req[r].port)
        BY <1>7, <2>1, <3>5
      <4> QED BY <1>4, <2>1, <3>2, <4>1, <4>2 DEF Permitted
    <3> QED BY <3>3, <3>4, <3>5
  <2>2. ASSUME NEW i \in Listed', NEW j \in Listed', i # j, i \in found, j \in found
        PROVE  {i, j} \cap (raced' \cup partial') # {}
    <3>1. \E k : req[r].ids = {k}
      BY <1>1 DEF IInv, OneTarget
    <3> QED BY <2>2, <3>1 DEF found
  <2>3. ASSUME NEW i \in Listed', NEW j \in Listed', i # j, i \notin found, j \notin found,
               hosts'[i].addr = hosts'[j].addr
        PROVE  {i, j} \cap (raced' \cup partial') # {}
    BY <1>1, <1>4, <2>3 DEF IInv, Tables, AddressOnce
  <2> QED BY <2>1, <2>2, <2>3 DEF AddressOnce
<1>9. NamesOnce'
  BY <1>1 DEF IInv, Tables, NamesOnce
<1>10. HostHasGroup'
  <2>1. ASSUME NEW i \in Listed', i \in found, r \notin behind
        PROVE  hosts'[i].group \in GroupId /\ groups'[hosts'[i].group] # None
    BY <1>1, <1>6, <1>7, <2>1 DEF Permitted, Exists
  <2> QED BY <1>1, <1>3, <1>4, <2>1 DEF IInv, Tables, HostHasGroup, Exists
<1>11. OnlineKeyOpens'
  <2>1. ASSUME NEW i \in Listed', i \in found, r \notin behind, hosts'[i].status = "ONLINE"
        PROVE  hosts'[i].key \in authorized'[hosts'[i].addr]
    <3>1. PICK a \in req[r].places :
             /\ req[r].got[a] # None
             /\ hosts'[i].key = req[r].got[a].key
             /\ hosts'[i].status = req[r].got[a].status
      BY <1>6, <2>1, NoneAssumption
    <3>2. a = hosts'[i].addr /\ a \in Address
      BY <1>1, <1>6, <1>7, <2>1 DEF Job
    <3> QED BY <1>1, <2>1, <3>1, <3>2 DEF IInv, KeysFollow
  <2> QED BY <1>1, <1>3, <1>4, <2>1 DEF IInv, Tables, OnlineKeyOpens
<1> QED BY <1>8, <1>9, <1>10, <1>11 DEF Tables

LEMMA OtherTables ==
  ASSUME IInv, NEW r \in Request,
         DeleteRow(r) \/ InsertGroup(r) \/ DeleteGroupRow(r)
  PROVE  Tables'
<1>1. /\ req[r] \in Job /\ HasSnapshot(r) /\ authorized' = authorized
      /\ raced \subseteq raced' /\ partial' = partial
      /\ groups \in [GroupId -> Name \cup {None}]
  BY DEF IInv, TypeOK, DeleteRow, InsertGroup, DeleteGroupRow, HasSnapshot, Race
<1>2. r \notin behind => GroupChecked(r)
  BY <1>1 DEF IInv, Checked
<1>3. \A i \in Listed' : i \in Listed /\ hosts'[i] = hosts[i]
  BY DEF DeleteRow, InsertGroup, DeleteGroupRow, Listed, IInv, TypeOK
<1>4. AddressOnce'
  BY <1>1, <1>3 DEF IInv, Tables, AddressOnce
<1>5. OnlineKeyOpens'
  BY <1>1, <1>3 DEF IInv, Tables, OnlineKeyOpens
<1>6. CASE DeleteRow(r)
  BY <1>1, <1>3, <1>4, <1>5, <1>6
     DEF DeleteRow, IInv, Tables, NamesOnce, HostHasGroup, Exists
<1>7. CASE InsertGroup(r)
  <2>1. NamesOnce'
    BY <1>1, <1>2, <1>7 DEF InsertGroup, GroupChecked, Race, IInv, Tables, NamesOnce, GroupId
  <2>2. HostHasGroup'
    <3>1. \A g \in GroupId : groups[g] # None => groups'[g] # None
      BY <1>1, <1>7 DEF InsertGroup, IInv, Fresh
    <3> QED BY <1>1, <1>3, <3>1 DEF IInv, Tables, HostHasGroup, Exists
  <2> QED BY <1>4, <1>5, <2>1, <2>2 DEF Tables
<1>8. CASE DeleteGroupRow(r)
  <2>1. NamesOnce'
    BY <1>1, <1>8 DEF DeleteGroupRow, IInv, Tables, NamesOnce
  <2>2. HostHasGroup'
    <3>1. r \in behind => req[r].group \in raced'
      BY <1>8 DEF DeleteGroupRow, Race
    <3>2. r \notin behind => \A i \in Listed : hosts[i].group # req[r].group
      BY <1>2, <1>8 DEF DeleteGroupRow, GroupChecked
    <3>3. \A g \in GroupId : g # req[r].group => groups'[g] = groups[g]
      BY <1>1, <1>8 DEF DeleteGroupRow
    <3> QED BY <1>1, <1>3, <3>1, <3>2, <3>3 DEF IInv, Tables, HostHasGroup, Exists
  <2> QED BY <1>4, <1>5, <2>1, <2>2 DEF Tables
<1> QED BY <1>6, <1>7, <1>8

LEMMA NextTables ==
  ASSUME IInv, NEW r \in Request, Begin(r) \/ Ssh(r) \/ Write(r)
  PROVE  Tables'
<1>1. CASE /\ UNCHANGED <<hosts, groups, raced, partial>>
           /\ \A a \in Address : authorized[a] \subseteq authorized'[a]
  <2>1. \A i \in Listed : hosts[i] \in Row
    BY DEF IInv, TypeOK, Listed
  <2>2. OnlineKeyOpens'
    BY <1>1, <2>1 DEF IInv, Tables, OnlineKeyOpens, Listed, Row
  <2> QED BY <1>1, <2>2 DEF IInv, Tables, AddressOnce, NamesOnce, HostHasGroup, Exists, Listed
<1>2. CASE Begin(r)
  BY <1>1, <1>2, BeginJob DEF IInv, BeginsWith, Take, history
<1>3. CASE Ssh(r)
  BY <1>1, <1>3, SshKeys DEF IInv
<1>4. CASE CheckAdd(r) \/ RefuseAdd(r) \/ RefuseWrite(r) \/ Announce(r) \/ AnnounceFails(r)
           \/ EndDeleteGroup(r)
  BY <1>1, <1>4 DEF CheckAdd, RefuseAdd, RefuseWrite, Announce, AnnounceFails, EndDeleteGroup,
                    Fail, history
<1> QED BY <1>2, <1>3, <1>4, InsertTables, UpdateTables, OtherTables DEF Write

\* Request q accounts for the deletion of host i.
Accounts(q, i) ==
  /\ req[q].kind = "delete"
  /\ req[q].pc \in {"announce", "failed"}
  /\ i \in req[q].ids

LEMMA AccountsForGone ==
  DeletedIsAnnounced <=>
    /\ gone \cap Listed = {}
    /\ \A i \in gone : i \in announced \/ \E q \in Request : Accounts(q, i)
BY DEF DeletedIsAnnounced, Accounts

LEMMA AccountsForGonePrimed ==
  DeletedIsAnnounced' <=>
    /\ gone' \cap Listed' = {}
    /\ \A i \in gone' : i \in announced' \/ \E q \in Request : Accounts(q, i)'
BY DEF DeletedIsAnnounced, Accounts

LEMMA NextDeleted ==
  ASSUME IInv, NEW r \in Request, Begin(r) \/ Ssh(r) \/ Write(r)
  PROVE  DeletedIsAnnounced'
<1>1. /\ gone \cap Listed = {}
      /\ \A i \in gone : i \in announced \/ \E q \in Request : Accounts(q, i)
  BY AccountsForGone DEF IInv
<1>2. req \in [Request -> Job] /\ TypeOK
  BY DEF IInv, TypeOK
<1>3. \A q \in Request \ {r} : req'[q] = req[q]
  <2>1. CASE Begin(r)
    BY <1>2, <2>1, BeginJob DEF BeginsWith, Take
  <2>2. CASE Ssh(r)
    BY <1>2, <2>2, SshOutcome DEF GotWith, Answer
  <2>3. CASE Write(r)
    BY <1>2, <2>3, WriteEnds DEF Ends, CheckAdd
  <2> QED BY <2>1, <2>2, <2>3
<1>4. ASSUME req[r].pc \notin {"announce", "failed"}, announced' = announced, gone' = gone,
             gone \cap Listed' = {}
      PROVE  DeletedIsAnnounced'
  <2>1. \A q \in Request, i \in gone : Accounts(q, i) => Accounts(q, i)'
    BY <1>3, <1>4 DEF Accounts
  <2> QED BY <1>1, <1>4, <2>1, AccountsForGonePrimed
<1>5. CASE Begin(r)
  <2>1. req[r].pc = "idle" /\ UNCHANGED <<hosts, announced, gone>>
    BY <1>2, <1>5, BeginJob DEF BeginsWith, Take, history
  <2> QED BY <1>1, <1>4, <2>1 DEF Listed
<1>6. CASE Ssh(r)
  <2>1. req[r].pc = "ssh" /\ UNCHANGED <<hosts, announced, gone>>
    BY <1>2, <1>6, SshKeys
  <2> QED BY <1>1, <1>4, <2>1 DEF Listed
<1>7. CASE CheckAdd(r) \/ RefuseAdd(r) \/ RefuseWrite(r) \/ InsertGroup(r) \/ DeleteGroupRow(r)
  <2>1. req[r].pc \in {"check", "write"} /\ UNCHANGED <<hosts, announced, gone>>
    BY <1>7 DEF CheckAdd, RefuseAdd, RefuseWrite, Fail, InsertGroup, DeleteGroupRow, history
  <2> QED BY <1>1, <1>4, <2>1 DEF Listed
<1>8. CASE Insert(r)
  <2>1. /\ req[r].pc = "write" /\ UNCHANGED <<announced, gone>>
        /\ \A a \in Address : NewKey(r, a) \notin gone
    BY <1>8 DEF Insert, IInv, Fresh
  <2>2. req[r].places \subseteq Address
    BY <1>2 DEF Job
  <2>3. \A i \in gone : i \notin Listed'
    BY <1>1, <1>8, <2>1, <2>2 DEF Insert, Listed
  <2> QED BY <1>4, <2>1, <2>3
<1>9. CASE UpdateRow(r)
  <2>1. /\ req[r].pc = "write" /\ UNCHANGED <<announced, gone>> /\ Listed' \subseteq Listed
    BY <1>9 DEF UpdateRow, Listed
  <2> QED BY <1>1, <1>4, <2>1
<1>10. CASE DeleteRow(r)
  <2>1. PICK k \in req[r].ids \cap Listed :
          /\ hosts' = [hosts EXCEPT ![k] = None]
          /\ gone' = gone \cup {k}
    BY <1>10 DEF DeleteRow
  <2>2. /\ req[r].pc = "write" /\ req[r].kind = "delete" /\ announced' = announced
        /\ req' = [req EXCEPT ![r].pc = "announce"]
    BY <1>10 DEF DeleteRow
  <2>3. /\ req'[r].pc = "announce" /\ req'[r].kind = "delete" /\ req'[r].ids = req[r].ids
    BY <1>2, <2>2 DEF Job
  <2>4. Accounts(r, k)'
    BY <2>1, <2>3 DEF Accounts
  <2>5. \A q \in Request, i \in gone : Accounts(q, i) => Accounts(q, i)'
    BY <1>3, <2>2 DEF Accounts
  <2>6. Listed' = Listed \ {k}
    BY <1>2, <2>1 DEF TypeOK, Listed
  <2> QED BY <1>1, <2>1, <2>2, <2>4, <2>5, <2>6, AccountsForGonePrimed
<1>11. CASE Announce(r)
  <2>1. /\ announced' = announced \cup req[r].ids /\ gone' = gone /\ hosts' = hosts
    BY <1>11 DEF Announce, history
  <2>2. \A q \in Request, i \in gone : Accounts(q, i) => Accounts(q, i)' \/ i \in announced'
    BY <1>3, <2>1 DEF Accounts
  <2> QED BY <1>1, <2>1, <2>2, AccountsForGonePrimed DEF Listed
<1>12. CASE AnnounceFails(r) \/ EndDeleteGroup(r)
  <2>1. /\ announced' = announced /\ gone' = gone /\ hosts' = hosts
    BY <1>12 DEF AnnounceFails, EndDeleteGroup, Fail, history
  <2>2. CASE AnnounceFails(r)
    <3>1. req'[r].pc = "failed" /\ req'[r].kind = req[r].kind /\ req'[r].ids = req[r].ids
      BY <1>2, <2>2, EndedJob DEF AnnounceFails, Fail, Answer
    <3>2. \A q \in Request, i \in gone : Accounts(q, i) => Accounts(q, i)'
      BY <1>3, <3>1 DEF Accounts
    <3> QED BY <1>1, <2>1, <3>2, AccountsForGonePrimed DEF Listed
  <2>3. CASE EndDeleteGroup(r)
    <3>1. \A q \in Request, i \in gone : Accounts(q, i) => Accounts(q, i)'
      BY <1>3, <2>3 DEF Accounts, EndDeleteGroup
    <3> QED BY <1>1, <2>1, <3>1, AccountsForGonePrimed DEF Listed
  <2> QED BY <1>12, <2>2, <2>3
<1> QED BY <1>5, <1>6, <1>7, <1>8, <1>9, <1>10, <1>11, <1>12 DEF Write

-----------------------------------------------------------------------------
(* The invariant.  *)

LEMMA InitIInv == Init => IInv
<1> SUFFICES ASSUME Init PROVE IInv
  OBVIOUS
<1>1. PICK S \in SUBSET Address, T \in SUBSET Address :
        /\ S # {} => groups[Group0] # None
        /\ hosts = [i \in HostId |->
             IF i.by = Nobody /\ i.at \in S
             THEN [addr |-> i.at, group |-> Group0, key |-> i, status |-> "ONLINE"]
             ELSE None]
        /\ authorized = [a \in Address |->
             (IF a \in S THEN {[by |-> Nobody, at |-> a]} ELSE {})
               \cup (IF a \in T THEN {Given} ELSE {})]
  BY DEF Init
<1>2. PICK mix \in Mixes : req = [r \in Request |-> [Idle EXCEPT !.kind = mix[r]]]
  BY DEF Init
<1>3. ASSUME NEW r \in Request
      PROVE  /\ req[r] \in Job /\ req[r].pc = "idle"
             /\ \A a \in Address : req[r].got[a] = None
  <2>1. mix[r] \in Kind \cup {None}
    BY MixesAssumption
  <2> QED BY <1>2, <2>1 DEF Idle, Job
<1>4. TypeOK
  <2>1. \A a \in Address : [by |-> Nobody, at |-> a] \in Key /\ Given \in Key
    BY DEF Key, Mark
  <2>2. authorized \in [Address -> SUBSET Key]
    BY <1>1, <2>1
  <2>3. hosts \in [HostId -> Row \cup {None}]
    BY <1>1 DEF HostId, Mark, Row, Key, Status, GroupId
  <2>4. req \in [Request -> Job]
    BY <1>2, <1>3
  <2> QED BY <2>2, <2>3, <2>4 DEF Init, TypeOK
<1>5. Fresh
  <2>1. \A r \in Request, a \in Address : NewKey(r, a) \in HostId /\ NewKey(r, a).by # Nobody
    BY NobodyAssumption DEF NewKey, HostId, Mark
  <2> QED BY <1>1, <2>1 DEF Fresh, Init
<1>6. Complete /\ OneTarget
  <2>1. None # Dead
    BY NoneAssumption DEF Dead
  <2> QED BY <1>3, <2>1 DEF Complete, OneTarget
<1>7. KeysFollow /\ Checked
  BY <1>3 DEF KeysFollow, Checked, HasSnapshot
<1>8. \A i \in Listed : /\ i.by = Nobody /\ i.at \in S /\ i.at \in Address
                       /\ i = [by |-> Nobody, at |-> i.at]
                       /\ hosts[i].addr = i.at /\ hosts[i].group = Group0 /\ hosts[i].key = i
  <2> SUFFICES ASSUME NEW i \in Listed
               PROVE  /\ i.by = Nobody /\ i.at \in S /\ i.at \in Address
                      /\ i = [by |-> Nobody, at |-> i.at]
                      /\ hosts[i].addr = i.at /\ hosts[i].group = Group0 /\ hosts[i].key = i
    OBVIOUS
  <2>1. i \in Mark /\ hosts[i] # None
    BY DEF Listed, HostId
  <2>2. i.by = Nobody /\ i.at \in S
    BY <1>1, <2>1 DEF HostId
  <2>3. i = [by |-> Nobody, at |-> i.at]
    BY <2>1, <2>2 DEF Mark
  <2> QED BY <1>1, <2>1, <2>2, <2>3 DEF HostId
<1>9. AddressOnce
  <2> SUFFICES ASSUME NEW i \in Listed, NEW j \in Listed, hosts[i].addr = hosts[j].addr
               PROVE  i = j
    BY DEF AddressOnce
  <2>1. i.at = j.at
    BY <1>8
  <2> QED BY <1>8, <2>1
<1>10. NamesOnce
  BY DEF NamesOnce, Init, GroupId
<1>11. HostHasGroup
  <2>1. ASSUME NEW i \in Listed PROVE hosts[i].group = Group0 /\ groups[Group0] # None
    BY <1>1, <1>8
  <2> QED BY <2>1 DEF HostHasGroup, Exists, GroupId
<1>12. OnlineKeyOpens
  <2>1. ASSUME NEW i \in Listed PROVE hosts[i].key \in authorized[hosts[i].addr]
    <3>1. /\ i.at \in S /\ i.at \in Address /\ hosts[i].addr = i.at
          /\ hosts[i].key = [by |-> Nobody, at |-> i.at]
      BY <1>8
    <3>2. [by |-> Nobody, at |-> i.at] \in authorized[i.at]
      BY <1>1, <3>1
    <3> QED BY <3>1, <3>2
  <2> QED BY <2>1 DEF OnlineKeyOpens
<1>13. DeletedIsAnnounced
  BY DEF DeletedIsAnnounced, Init
<1> QED BY <1>4, <1>5, <1>6, <1>7, <1>9, <1>10, <1>11, <1>12, <1>13 DEF IInv, Tables

LEMMA NextOneTarget ==
  ASSUME TypeOK, OneTarget, NEW r \in Request, Begin(r) \/ Ssh(r) \/ Write(r)
  PROVE  OneTarget'
<1>1. CASE Begin(r)
  <2>1. PICK job \in Job : Take(r, job) /\ (job.kind = "update" => \E k : job.ids = {k})
    BY <1>1, BeginJob DEF BeginsWith
  <2> QED BY <2>1 DEF Take, OneTarget, TypeOK
<1>2. CASE Ssh(r)
  <2>1. PICK a \in Address :
           \/ \E outcome \in Outcome, job \in Job : GotWith(r, a, outcome, job)
           \/ Answer(r, "failed")
    BY <1>2, SshOutcome
  <2>2. CASE Answer(r, "failed")
    BY <2>2, EndedJob DEF Answer, OneTarget, TypeOK
  <2>3. ASSUME NEW outcome \in Outcome, NEW job \in Job, GotWith(r, a, outcome, job)
        PROVE  OneTarget'
    <3>1. /\ req' = [req EXCEPT ![r] = job]
          /\ job.kind = req[r].kind /\ job.ids = req[r].ids /\ req[r].pc = "ssh"
      BY <1>2, <2>3, SshKeys DEF GotWith, TypeOK, Job
    <3> QED BY <3>1 DEF OneTarget, TypeOK
  <2> QED BY <2>1, <2>2, <2>3
<1>3. CASE Ends(r)
  BY <1>3 DEF Ends, OneTarget, TypeOK
<1>4. CASE CheckAdd(r)
  BY <1>4 DEF CheckAdd, OneTarget, TypeOK, Job
<1> QED BY <1>1, <1>2, <1>3, <1>4, WriteEnds

LEMMA NextIInv == IInv /\ [Next]_vars => IInv'
<1> SUFFICES ASSUME IInv, [Next]_vars PROVE IInv'
  OBVIOUS
<1>1. CASE UNCHANGED vars
  <2> USE <1>1 DEF vars, IInv
  <2>1. TypeOK' /\ Fresh' /\ Complete' /\ OneTarget' /\ KeysFollow'
    BY DEF TypeOK, Fresh, Complete, OneTarget, KeysFollow
  <2>2. \A r \in Request : HasSnapshot(r)' <=> HasSnapshot(r)
    BY DEF HasSnapshot
  <2>3. Checked'
    BY <2>2, SameChecks DEF Checked
  <2>4. Tables'
    BY DEF Tables, AddressOnce, NamesOnce, HostHasGroup, OnlineKeyOpens, Exists, Listed
  <2>5. DeletedIsAnnounced'
    BY DEF DeletedIsAnnounced, Listed
  <2> QED BY <2>1, <2>3, <2>4, <2>5
<1>2. ASSUME NEW r \in Request, Begin(r) \/ Ssh(r) \/ Write(r) PROVE IInv'
  <2>1. TypeOK /\ Fresh /\ Complete /\ OneTarget /\ KeysFollow /\ Checked
    BY DEF IInv
  <2>2. TypeOK'
    BY <1>2, <2>1, NextTypeOK DEF Next
  <2> QED BY <1>2, <2>1, <2>2, NextFresh, NextComplete, NextOneTarget, NextKeysFollow,
             NextChecked, NextTables, NextDeleted DEF IInv
<1> QED BY <1>1, <1>2 DEF Next

-----------------------------------------------------------------------------
\* The tables, the keys on the hosts and the requests keep their types.
THEOREM TypeCorrect == Spec => []TypeOK
<1>1. IInv => TypeOK
  BY DEF IInv
<1> QED BY <1>1, InitIInv, NextIInv, PTL DEF Spec

\* However many requests come, add_host, add_host_batch and update_host_info
\* give two hosts one address, and add_host_group two groups one name, only
\* when their check was outdated or void.
THEOREM NothingIsTwice == Spec => []NothingTwice
<1>1. IInv => NothingTwice
  BY DEF IInv, Tables, NothingTwice
<1> QED BY <1>1, InitIInv, NextIInv, PTL DEF Spec

\* delete_host_group takes the group from a host only when one of the two
\* checked an outdated snapshot.
THEOREM HostsHaveGroups == Spec => []HostHasGroup
<1>1. IInv => HostHasGroup
  BY DEF IInv, Tables
<1> QED BY <1>1, InitIInv, NextIInv, PTL DEF Spec

\* The key of a host that HostManageAPI, BatchAddHostAPI or HostInfoManageAPI
\* call ONLINE opens the host, unless its update was overtaken.
THEOREM OnlineKeysOpen == Spec => []OnlineKeyOpens
<1>1. IInv => OnlineKeyOpens
  BY DEF IInv, Tables
<1> QED BY <1>1, InitIInv, NextIInv, PTL DEF Spec

\* A host that delete_host removed stays away, and is announced or reported
\* as a failure.
THEOREM DeletionsAnnounced == Spec => []DeletedIsAnnounced
<1>1. IInv => DeletedIsAnnounced
  BY DEF IInv
<1> QED BY <1>1, InitIInv, NextIInv, PTL DEF Spec

=============================================================================
