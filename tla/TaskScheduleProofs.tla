------------------------- MODULE TaskScheduleProofs -------------------------
(***************************************************************************)
(* Proofs about the catalogue, the tasks and their jobs, for any requests, *)
(* rows, types of hosts and mixes.                                         *)
(***************************************************************************)
EXTENDS TaskSchedule, TLAPS

-----------------------------------------------------------------------------
(* The requests: where each kind of them can be.                           *)

Pc == {"new", "write", "remove", "detail", "schedule", "commit", "update", "find", "unschedule",
       "renew", "erase", "done"}

\* What a request has seen: associations, jobs, or the detail of a task.
Seen == (SUBSET (Id \X (Id \cup When))) \cup Detail

Batch == {"delete commands", "delete operates", "delete scripts", "delete tasks"}

Kind(r) == req[r].asked.do

PcFits(r) ==
  /\ req[r].pc = "new" => req[r].on = None
  /\ req[r].pc \in {"write", "remove"} => Kind(r) \in Do
  /\ req[r].pc = "remove" => Kind(r) = "delete scripts" /\ req[r].on \in Id
  /\ req[r].pc \in {"detail", "schedule", "commit"} => Kind(r) = "add task"
  /\ req[r].pc \in {"schedule", "commit"} => req[r].seen \in Detail
  /\ req[r].pc \in {"update", "renew"} => Kind(r) = "modify scheduler" /\ req[r].on \in Id
  /\ req[r].pc = "renew" => req[r].asked.when # "never"
  /\ req[r].pc = "erase" => Kind(r) = "delete tasks" /\ req[r].on \in Id
  /\ req[r].pc \in {"find", "unschedule"} =>
       Kind(r) \in {"modify scheduler", "delete tasks"} /\ req[r].on \in Id
  /\ req[r].pc = "write" /\ req[r].on # None => Kind(r) \in Batch
  /\ req[r].pc = "write" /\ Kind(r) = "delete scripts" => req[r].on \in Id

ReqType ==
  /\ req \in [Request -> [asked : Asked \cup AskedTask, pc : Pc, on : Id \cup {None}, seen : Seen]]
  /\ \A r \in Request : PcFits(r)

\* A step of request r takes it to pc, with row i, of which it has seen this.
Moves(r, pc, i, seen) ==
  /\ req' \in [Request -> [asked : Asked \cup AskedTask, pc : Pc, on : Id \cup {None}, seen : Seen]]
  /\ \A q \in Request \ {r} : req'[q] = req[q]
  /\ req'[r].pc = pc /\ req'[r].on = i /\ req'[r].seen = seen

LEMMA GoesMoves ==
  ASSUME ReqType, NEW r \in Request, NEW pc \in Pc, Goes(r, pc)
  PROVE  Moves(r, pc, req[r].on, req[r].seen) /\ req'[r].asked = req[r].asked
BY DEF ReqType, Goes, Moves

LEMMA IdsChange ==
  ASSUME NEW a \in Asked \cup AskedTask, NEW ids \in SUBSET Id
  PROVE  /\ [a EXCEPT !.ids = ids] \in Asked \cup AskedTask
         /\ [a EXCEPT !.ids = ids].do = a.do
         /\ ids = a.ids => [a EXCEPT !.ids = ids] = a
<1>1. CASE a \in Asked
  BY <1>1 DEF Asked
<1>2. CASE a \in AskedTask
  BY <1>2 DEF AskedTask
<1> QED BY <1>1, <1>2

LEMMA TurnMoves ==
  ASSUME ReqType, NEW r \in Request, NEW ids \in SUBSET Id, NEW pc \in Pc,
         NEW i \in Id \cup {None}, NEW seen \in Seen, Turns(r, ids, pc, i, seen)
  PROVE  /\ Moves(r, pc, i, seen) /\ req'[r].asked.do = req[r].asked.do
         /\ ids = req[r].asked.ids => req'[r].asked = req[r].asked
<1> DEFINE a == [req[r].asked EXCEPT !.ids = ids]
<1>1. req[r].asked \in Asked \cup AskedTask
  BY DEF ReqType
<1>2. /\ a \in Asked \cup AskedTask /\ a.do = req[r].asked.do
      /\ ids = req[r].asked.ids => a = req[r].asked
  BY <1>1, IdsChange
<1>3. req' = [req EXCEPT ![r] = [asked |-> a, pc |-> pc, on |-> i, seen |-> seen]]
  BY DEF Turns
<1> HIDE DEF a
<1>4. req'[r] = [asked |-> a, pc |-> pc, on |-> i, seen |-> seen]
  BY <1>3 DEF ReqType
<1>5. req' \in [Request -> [asked : Asked \cup AskedTask, pc : Pc, on : Id \cup {None}, seen : Seen]]
  BY <1>2, <1>3 DEF ReqType
<1>6. \A q \in Request \ {r} : req'[q] = req[q]
  BY <1>3 DEF ReqType
<1> QED BY <1>2, <1>4, <1>5, <1>6 DEF Moves

LEMMA AskedKinds ==
  ASSUME ReqType, NEW r \in Request
  PROVE  /\ req[r].asked.ids \in SUBSET Id /\ Kind(r) \in Do \cup TaskDo
         /\ Kind(r) \in Do => req[r].asked \in Asked
         /\ Kind(r) \in TaskDo => req[r].asked \in AskedTask
<1>1. req[r].asked \in Asked \cup AskedTask
  BY DEF ReqType
<1>2. req[r].asked \in Asked => Kind(r) \in Do /\ req[r].asked.ids \in SUBSET Id
  BY DEF Asked, Kind
<1>3. req[r].asked \in AskedTask => Kind(r) \in TaskDo /\ req[r].asked.ids \in SUBSET Id
  BY DEF AskedTask, Kind
<1> QED BY <1>1, <1>2, <1>3 DEF Do, TaskDo

LEMMA NextIdMoves ==
  ASSUME ReqType, NEW r \in Request, NextId(r)
  PROVE  /\ \E pc \in {"new", "done"} : Moves(r, pc, None, {})
         /\ req'[r].asked.do = req[r].asked.do
<1>1. PICK pc \in {"new", "done"} : Turns(r, Rest(r), pc, None, {})
  BY DEF NextId
<1>2. Rest(r) \in SUBSET Id /\ {} \in Seen /\ pc \in Pc
  BY AskedKinds DEF Rest, Seen, Pc
<1> QED BY <1>1, <1>2, TurnMoves

LEMMA MissingMoves ==
  ASSUME ReqType, NEW r \in Request, NEW i \in Id, Missing(r, i)
  PROVE  /\ \E pc \in {req[r].pc, "done"} : Moves(r, pc, req[r].on, req[r].seen)
         /\ req'[r].asked.do = req[r].asked.do
<1> DEFINE ids == req[r].asked.ids \ {i}
<1>1. PICK pc \in {req[r].pc, "done"} : Turns(r, ids, pc, req[r].on, req[r].seen)
  BY DEF Missing
<1>2. ids \in SUBSET Id /\ pc \in Pc /\ req[r].on \in Id \cup {None} /\ req[r].seen \in Seen
  BY AskedKinds DEF ReqType, Pc
<1> HIDE DEF ids
<1> QED BY <1>1, <1>2, TurnMoves

LEMMA StandsMoves ==
  ASSUME ReqType, NEW r \in Request, NEW pc \in Pc, NEW i \in Id \cup {None}, NEW seen \in Seen,
         Turns(r, req[r].asked.ids, pc, i, seen)
  PROVE  Moves(r, pc, i, seen) /\ req'[r].asked = req[r].asked
BY AskedKinds, TurnMoves

-----------------------------------------------------------------------------
(* The tables.                                                             *)

Jobs == (Type \cup Id) \X Id

TableType ==
  /\ assoc \subseteq Id \X Id /\ scripts \in [Id -> Type \cup {None}] /\ dirs \subseteq Id
  /\ tasks \in [Id -> Row \cup {None}] /\ jobs \subseteq Id \X (When \ {"never"})
  /\ sent \in [Id -> (SUBSET Jobs) \cup {None}]

\* Where a request for the catalogue goes.
LEMMA CatalogueMoves ==
  ASSUME ReqType, TableType, NEW r \in Request, CatalogueNext(r)
  PROVE  /\ Kind(r) \in Do /\ req[r].pc \in {"new", "write", "remove"}
         /\ \E pc \in {"new", "write", "remove", "done"}, i \in Id \cup {None}, seen \in Seen :
              Moves(r, pc, i, seen)
         /\ req'[r].asked.do = req[r].asked.do
         /\ Kind(r) \notin Batch => req'[r].asked = req[r].asked /\ req'[r].on = req[r].on
         /\ ReqType'
<1> DEFINE Good == /\ \E pc \in {"new", "write", "remove", "done"}, i \in Id \cup {None}, seen \in Seen :
                        Moves(r, pc, i, seen)
                   /\ req'[r].asked.do = req[r].asked.do
                   /\ Kind(r) \notin Batch => req'[r].asked = req[r].asked /\ req'[r].on = req[r].on
           From == Kind(r) \in Do /\ req[r].pc \in {"new", "write", "remove"}
           Stays == PcFits(r)'
<1>1. /\ req[r].on \in Id \cup {None} /\ req[r].seen \in Seen /\ PcFits(r) /\ {} \in Seen
      /\ Kind(r) \in Do => req[r].asked \in Asked
      /\ None \notin Id
  BY AskedKinds, IdAssumption DEF ReqType, Seen, Id
<1>2. ASSUME NEW pc \in {"write", "remove", "done"}, Goes(r, pc), From,
             pc = "write" => req[r].pc = "new" /\ Kind(r) \notin Batch,
             pc = "remove" => Kind(r) = "delete scripts" /\ req[r].on \in Id
      PROVE  Good /\ Stays
  <2>1. Moves(r, pc, req[r].on, req[r].seen) /\ req'[r].asked = req[r].asked
    BY <1>2, GoesMoves DEF Pc
  <2>2. Good
    BY <1>1, <1>2, <2>1 DEF Moves
  <2>3. Stays
    BY <1>1, <1>2, <2>1 DEF PcFits, Kind, Moves, Batch
  <2> QED BY <2>2, <2>3
<1>3. ASSUME NextId(r), From, req[r].pc \in {"write", "remove"}, Kind(r) \in Batch
      PROVE  Good /\ Stays
  <2>1. PICK pc \in {"new", "done"} : Moves(r, pc, None, {})
    BY <1>3, NextIdMoves
  <2>2. req'[r].asked.do = req[r].asked.do
    BY <1>3, NextIdMoves
  <2>3. Stays
    BY <1>3, <2>1, <2>2 DEF PcFits, Kind, Moves
  <2> QED BY <1>1, <1>3, <2>1, <2>2, <2>3
<1>4. ASSUME NEW i \in Id, Missing(r, i), From, req[r].pc = "new", Kind(r) \in Batch
      PROVE  Good /\ Stays
  <2>1. PICK pc \in {req[r].pc, "done"} : Moves(r, pc, req[r].on, req[r].seen)
    BY <1>4, MissingMoves
  <2>2. req'[r].asked.do = req[r].asked.do
    BY <1>4, MissingMoves
  <2>3. Stays
    BY <1>1, <1>4, <2>1, <2>2 DEF PcFits, Kind, Moves
  <2> QED BY <1>1, <1>4, <2>1, <2>2, <2>3
<1>5. ASSUME NEW i \in Id, NEW seen \in Seen, Read(r, i, seen), From, Kind(r) \in Batch
      PROVE  Good /\ Stays
  <2>1. Turns(r, req[r].asked.ids, "write", i, seen) /\ "write" \in Pc
    BY <1>5 DEF Read, Pc
  <2>2. Moves(r, "write", i, seen) /\ req'[r].asked = req[r].asked
    BY <2>1, StandsMoves
  <2>3. Stays
    BY <1>1, <1>5, <2>2 DEF PcFits, Kind, Moves
  <2> QED BY <1>1, <1>5, <2>2, <2>3
<1>6. \A i \in Id : /\ {i} \X Of(i) \in Seen /\ {a \in assoc : a[2] = i} \in Seen
  BY DEF Seen, Of, TableType
<1>7. From /\ Good /\ Stays
  <2>1. CASE AddOperate(r) \/ ModifyOperate(r) \/ AddCommand(r) \/ ModifyCommand(r)
    <3>1. From /\ Kind(r) \notin Batch
      BY <2>1 DEF AddOperate, ModifyOperate, AddCommand, ModifyCommand, Begins, Writes, Kind, Do, Batch
    <3>2. \E pc \in {"write", "done"} : Goes(r, pc) /\ (pc = "write" => req[r].pc = "new")
      BY <2>1 DEF AddOperate, ModifyOperate, AddCommand, ModifyCommand, GoesOn, Begins, Writes
    <3> QED BY <1>2, <3>1, <3>2
  <2>2. CASE AddScript(r) \/ ModifyScript(r) \/ Upload(r)
    <3>1. From /\ Kind(r) \notin Batch
      BY <2>2 DEF AddScript, ModifyScript, Upload, Begins, Writes, Kind, Do, Batch
    <3>2. \E pc \in {"write", "done"} : Goes(r, pc) /\ (pc = "write" => req[r].pc = "new")
      BY <2>2 DEF AddScript, ModifyScript, Upload, GoesOn, Begins, Writes
    <3> QED BY <1>2, <3>1, <3>2
  <2>3. CASE DeleteCommand(r)
    <3>1. From /\ Kind(r) \in Batch
      BY <2>3 DEF DeleteCommand, Begins, Writes, Kind, Do, Batch
    <3>2. PICK i \in Id : \/ Read(r, i, {})
                          \/ Missing(r, i) /\ req[r].pc = "new"
                          \/ NextId(r) /\ req[r].pc = "write"
      BY <2>3, AskedKinds DEF DeleteCommand, Begins, Writes
    <3> QED BY <1>1, <1>3, <1>4, <1>5, <3>1, <3>2
  <2>4. CASE DeleteOperate(r)
    <3>1. From /\ Kind(r) \in Batch
      BY <2>4 DEF DeleteOperate, Begins, Writes, Kind, Do, Batch
    <3>2. PICK i \in Id : \/ Read(r, i, {i} \X Of(i))
                          \/ Missing(r, i) /\ req[r].pc = "new"
                          \/ NextId(r) /\ req[r].pc = "write"
      BY <2>4, AskedKinds DEF DeleteOperate, Begins, Writes
    <3> QED BY <1>3, <1>4, <1>5, <1>6, <3>1, <3>2
  <2>5. CASE DeleteScript(r)
    <3>1. From /\ Kind(r) \in Batch /\ Kind(r) = "delete scripts"
      BY <2>5 DEF DeleteScript, Begins, Writes, Kind, Do, Batch
    <3>2. PICK i \in Id : \/ Read(r, i, {a \in assoc : a[2] = i})
                          \/ Missing(r, i) /\ req[r].pc = "new"
                          \/ Goes(r, "remove") /\ req[r].on = i
      BY <2>5, AskedKinds DEF DeleteScript, Begins, Writes
    <3> QED BY <1>2, <1>4, <1>5, <1>6, <3>1, <3>2
  <2>6. CASE RemoveDirectory(r) \/ RemoveFails(r)
    <3>1. From /\ Kind(r) \in Batch /\ req[r].pc = "remove"
      BY <1>1, <2>6 DEF RemoveDirectory, RemoveFails, PcFits, Batch
    <3>2. NextId(r) \/ Goes(r, "done")
      BY <2>6 DEF RemoveDirectory, RemoveFails
    <3> QED BY <1>2, <1>3, <3>1, <3>2
  <2>7. CASE WriteFails(r)
    <3>1. From /\ req[r].pc = "write" /\ (req[r].on # None => Kind(r) \in Batch)
      BY <1>1, <2>7 DEF WriteFails, PcFits
    <3>2. (NextId(r) /\ req[r].on # None) \/ Goes(r, "done")
      BY <2>7 DEF WriteFails
    <3> QED BY <1>2, <1>3, <3>1, <3>2
  <2> QED BY <2>1, <2>2, <2>3, <2>4, <2>5, <2>6, <2>7 DEF CatalogueNext
<1>8. ReqType'
  <2>1. /\ req' \in [Request -> [asked : Asked \cup AskedTask, pc : Pc, on : Id \cup {None}, seen : Seen]]
        /\ \A q \in Request \ {r} : req'[q] = req[q]
    BY <1>7 DEF Moves
  <2>2. \A q \in Request \ {r} : PcFits(q)'
    BY <2>1 DEF ReqType, PcFits, Kind
  <2> QED BY <1>7, <2>1, <2>2 DEF ReqType
<1> HIDE DEF Stays
<1> QED BY <1>7, <1>8

\* Where a request for tasks goes.
TaskPc == Pc \ {"write", "remove"}

LEMMA TaskMoves ==
  ASSUME ReqType, TableType, NEW r \in Request, Tasks(r)
  PROVE  /\ Kind(r) \in TaskDo /\ req[r].pc \in TaskPc \ {"done"}
         /\ \E pc \in TaskPc, i \in Id \cup {None}, seen \in Seen : Moves(r, pc, i, seen)
         /\ req'[r].asked.do = req[r].asked.do
         /\ Kind(r) \notin Batch => req'[r].asked = req[r].asked
         /\ ReqType'
<1> DEFINE From == Kind(r) \in TaskDo /\ req[r].pc \in TaskPc \ {"done"}
           Good == /\ \E pc \in TaskPc, i \in Id \cup {None}, seen \in Seen : Moves(r, pc, i, seen)
                   /\ req'[r].asked.do = req[r].asked.do
                   /\ Kind(r) \notin Batch => req'[r].asked = req[r].asked
           Stays == PcFits(r)'
<1>1. /\ req[r].on \in Id \cup {None} /\ req[r].seen \in Seen /\ PcFits(r) /\ {} \in Seen
      /\ None \notin Id
  BY AskedKinds, IdAssumption DEF ReqType, Seen, Id
<1>2. From
  <2>1. CASE AddTaskCheck(r) \/ AddTaskDetail(r) \/ AddTaskJob(r) \/ AddTaskCommit(r) \/ AddTaskFails(r)
    BY <1>1, <2>1 DEF AddTaskCheck, AddTaskDetail, AddTaskJob, AddTaskCommit, AddTaskFails, Starts,
      Begins, PcFits, Kind, TaskDo, TaskPc, Pc
  <2>2. CASE FindJob(r) \/ JobFails(r)
    BY <1>1, <2>2 DEF FindJob, JobFails, PcFits, Kind, TaskDo, TaskPc, Pc
  <2>3. CASE ModifyRead(r) \/ ModifyUpdate(r) \/ ModifyRemove(r) \/ ModifyAdd(r)
    BY <1>1, <2>3 DEF ModifyRead, ModifyUpdate, ModifyRemove, ModifyAdd, RemoveJob, Starts,
      Begins, PcFits, Kind, TaskDo, TaskPc, Pc
  <2>4. CASE DeleteRead(r) \/ DeleteJob(r) \/ DeleteTask(r) \/ DeleteFails(r)
    BY <1>1, <2>4 DEF DeleteRead, DeleteJob, DeleteTask, DeleteFails, RemoveJob, Starts,
      Begins, PcFits, Kind, TaskDo, TaskPc, Pc
  <2> QED BY <2>1, <2>2, <2>3, <2>4 DEF Tasks
<1>3. ASSUME NEW pc \in TaskPc \ {"new"}, Goes(r, pc),
             pc \in {"detail", "schedule", "commit"} => Kind(r) = "add task",
             pc \in {"schedule", "commit"} => req[r].seen \in Detail,
             pc \in {"update", "renew"} => Kind(r) = "modify scheduler" /\ req[r].on \in Id,
             pc = "renew" => req[r].asked.when # "never",
             pc = "erase" => Kind(r) = "delete tasks" /\ req[r].on \in Id,
             pc \in {"find", "unschedule"} =>
               Kind(r) \in {"modify scheduler", "delete tasks"} /\ req[r].on \in Id
      PROVE  Good /\ Stays
  <2>1. Moves(r, pc, req[r].on, req[r].seen) /\ req'[r].asked = req[r].asked
    BY <1>3, GoesMoves DEF TaskPc
  <2>2. Stays
    BY <1>3, <2>1 DEF PcFits, Kind, Moves, TaskPc
  <2> QED BY <1>1, <2>1, <2>2
<1>4. ASSUME NEW pc \in TaskPc \ {"new"}, NEW i \in Id \cup {None}, NEW seen \in Seen,
             Turns(r, req[r].asked.ids, pc, i, seen),
             pc \in {"detail", "schedule", "commit"} => Kind(r) = "add task",
             pc \in {"schedule", "commit"} => seen \in Detail,
             pc = "update" => Kind(r) = "modify scheduler" /\ i \in Id,
             pc # "renew",
             pc = "erase" => Kind(r) = "delete tasks" /\ i \in Id,
             pc \in {"find", "unschedule"} =>
               Kind(r) \in {"modify scheduler", "delete tasks"} /\ i \in Id
      PROVE  Good /\ Stays
  <2>1. Moves(r, pc, i, seen) /\ req'[r].asked = req[r].asked
    BY <1>4, StandsMoves DEF TaskPc
  <2>2. Stays
    BY <1>4, <2>1 DEF PcFits, Kind, Moves, TaskPc
  <2> QED BY <1>1, <2>1, <2>2
<1>5. Good /\ Stays
  <2>1. CASE AddTaskCheck(r) \/ AddTaskJob(r) \/ AddTaskCommit(r) \/ AddTaskFails(r) \/ JobFails(r)
    <3>1. \E pc \in {"done", "detail", "commit"} :
            /\ Goes(r, pc) /\ (pc # "done" => Kind(r) = "add task")
            /\ pc = "commit" => req[r].seen \in Detail
      BY <1>1, <2>1 DEF AddTaskCheck, AddTaskJob, AddTaskCommit, AddTaskFails, JobFails, Starts,
        Begins, PcFits, Kind
    <3> QED BY <1>3, <3>1 DEF TaskPc, Pc
  <2>2. CASE AddTaskDetail(r)
    <3>1. Kind(r) = "add task"
      BY <1>1, <2>2 DEF AddTaskDetail, PcFits
    <3>2. PICK d \in Details(req[r].asked.operate, req[r].asked.types) :
            Turns(r, req[r].asked.ids, "schedule", req[r].on, d)
      BY <2>2 DEF AddTaskDetail
    <3>3. d \in Detail
      <4>1. req[r].asked.types \subseteq Type
        BY <1>2, AskedKinds DEF AskedTask
      <4>2. CASE req[r].asked.operate = None
        BY <4>2 DEF Details, Detail
      <4>3. CASE req[r].asked.operate # None
        <5>1. PICK T \in SUBSET req[r].asked.types : d \in [T -> Of(req[r].asked.operate)]
          BY <4>3 DEF Details
        <5>2. d \in [T -> Id] /\ T \in SUBSET (Type \cup Id)
          BY <4>1, <5>1 DEF Of
        <5> QED BY <5>2 DEF Detail
      <4> QED BY <4>2, <4>3
    <3>4. "schedule" \in TaskPc \ {"new"}
      BY DEF TaskPc, Pc
    <3>5. d \in Seen
      BY <3>3 DEF Seen
    <3> QED BY <1>1, <1>4, <3>1, <3>2, <3>3, <3>4, <3>5
  <2>3. CASE FindJob(r)
    <3>1. /\ Turns(r, req[r].asked.ids, "unschedule", req[r].on, JobsOf(req[r].on))
          /\ Kind(r) \in {"modify scheduler", "delete tasks"} /\ req[r].on \in Id
      BY <1>1, <2>3 DEF FindJob, PcFits
    <3>2. JobsOf(req[r].on) \in Seen /\ "unschedule" \in TaskPc \ {"new"}
      BY DEF JobsOf, TableType, Seen, TaskPc, Pc
    <3> QED BY <1>4, <3>1, <3>2
  <2>4. CASE ModifyRead(r)
    <3>1. Kind(r) = "modify scheduler"
      BY <2>4 DEF ModifyRead, Starts, Begins, Kind
    <3>2. PICK i \in Id, pc \in {"update", "done"} : Turns(r, req[r].asked.ids, pc, i, req[r].seen)
      BY <2>4, AskedKinds DEF ModifyRead
    <3>3. pc \in TaskPc \ {"new"}
      BY DEF TaskPc, Pc
    <3> QED BY <1>1, <1>4, <3>1, <3>2, <3>3
  <2>5. CASE ModifyUpdate(r) \/ ModifyRemove(r) \/ ModifyAdd(r) \/ DeleteJob(r)
    <3>3. CASE ModifyUpdate(r)
      BY <1>1, <1>3, <3>3 DEF ModifyUpdate, PcFits, TaskPc, Pc
    <3>4. CASE ModifyRemove(r)
      <4>1. PICK to \in {"done", "renew"} :
              Goes(r, to) /\ (to = "renew" => req[r].asked.when # "never")
        BY <3>4 DEF ModifyRemove, RemoveJob
      <4>2. Kind(r) = "modify scheduler" /\ req[r].on \in Id
        BY <1>1, <3>4 DEF ModifyRemove, RemoveJob, PcFits, Kind
      <4> QED BY <1>3, <4>1, <4>2 DEF TaskPc, Pc
    <3>5. CASE ModifyAdd(r)
      BY <1>3, <3>5 DEF ModifyAdd, TaskPc, Pc
    <3>6. CASE DeleteJob(r)
      <4>1. Goes(r, "erase")
        BY <3>6 DEF DeleteJob, RemoveJob
      <4>2. Kind(r) = "delete tasks" /\ req[r].on \in Id
        BY <1>1, <3>6 DEF DeleteJob, RemoveJob, PcFits, Kind
      <4> QED BY <1>3, <4>1, <4>2 DEF TaskPc, Pc
    <3> QED BY <2>5, <3>3, <3>4, <3>5, <3>6
  <2>6. CASE DeleteRead(r)
    <3>1. Kind(r) = "delete tasks" /\ req[r].pc = "new" /\ Kind(r) \in Batch
      BY <2>6 DEF DeleteRead, Starts, Begins, Kind, Batch
    <3>2. PICK i \in Id : Turns(r, req[r].asked.ids, "find", i, req[r].seen) \/ Missing(r, i)
      BY <2>6, AskedKinds DEF DeleteRead
    <3>3. CASE Turns(r, req[r].asked.ids, "find", i, req[r].seen)
      <4>1. "find" \in TaskPc \ {"new"}
        BY DEF TaskPc, Pc
      <4> QED BY <1>1, <1>4, <3>1, <3>3, <4>1
    <3>4. CASE Missing(r, i)
      <4>1. PICK pc \in {"new", "done"} : Moves(r, pc, req[r].on, req[r].seen)
        BY <3>1, <3>4, MissingMoves
      <4>2. req'[r].asked.do = req[r].asked.do
        BY <3>4, MissingMoves
      <4>3. Stays
        BY <1>1, <3>1, <4>1, <4>2 DEF PcFits, Kind, Moves
      <4> QED BY <1>1, <3>1, <4>1, <4>2, <4>3 DEF TaskPc, Pc
    <3> QED BY <3>2, <3>3, <3>4
  <2>7. CASE DeleteTask(r) \/ DeleteFails(r)
    <3>1. Kind(r) \in Batch /\ NextId(r)
      BY <1>1, <2>7 DEF DeleteTask, DeleteFails, PcFits, Batch
    <3>2. PICK pc \in {"new", "done"} : Moves(r, pc, None, {})
      BY <3>1, NextIdMoves
    <3>3. req'[r].asked.do = req[r].asked.do
      BY <3>1, NextIdMoves
    <3>4. Stays
      BY <3>2, <3>3 DEF PcFits, Kind, Moves
    <3> QED BY <1>1, <3>1, <3>2, <3>3, <3>4 DEF TaskPc, Pc
  <2> QED BY <2>1, <2>2, <2>3, <2>4, <2>5, <2>6, <2>7 DEF Tasks
<1>6. ReqType'
  <2>1. /\ req' \in [Request -> [asked : Asked \cup AskedTask, pc : Pc, on : Id \cup {None}, seen : Seen]]
        /\ \A q \in Request \ {r} : req'[q] = req[q]
    BY <1>5 DEF Moves
  <2>2. \A q \in Request \ {r} : PcFits(q)'
    BY <2>1 DEF ReqType, PcFits, Kind
  <2> QED BY <1>5, <2>1, <2>2 DEF ReqType
<1> HIDE DEF Stays
<1> QED BY <1>2, <1>5, <1>6

LEMMA CatalogueTables ==
  ASSUME ReqType, TableType, NEW r \in Request, CatalogueNext(r), UNCHANGED <<tasks, jobs, sent>>
  PROVE  TableType'
<1>1. Kind(r) \in Do /\ req[r].asked \in Asked
  BY CatalogueMoves, AskedKinds
<1>6. dirs' \subseteq Id
  <2>1. dirs' \subseteq dirs \/ \E i \in Id : dirs' = dirs \cup {i}
    BY AskedKinds DEF CatalogueNext, AddOperate, ModifyOperate, AddCommand, ModifyCommand,
      DeleteCommand, DeleteOperate, AddScript, ModifyScript, DeleteScript, Upload, RemoveDirectory,
      RemoveFails, WriteFails
  <2> QED BY <2>1 DEF TableType
<1>2. CASE AddScript(r)
  <2>1. /\ req[r].asked.operate \in Id \cup {None} /\ req[r].asked.type \in Type
        /\ r \in Id
    BY <1>1 DEF Asked, Id
  <2>2. /\ \/ UNCHANGED scripts \/ scripts' = [scripts EXCEPT ![r] = req[r].asked.type]
        /\ \/ UNCHANGED assoc \/ assoc' = assoc \cup ({req[r].asked.operate} \ {None}) \X {r}
    BY <1>2 DEF AddScript, tables
  <2> QED BY <1>6, <2>1, <2>2 DEF TableType
<1>3. CASE ModifyScript(r)
  <2>1. req[r].asked.operate \in Id \cup {None} /\ req[r].asked.type \in Type
    BY <1>1 DEF Asked
  <2>2. PICK i \in Id :
          /\ scripts' = [scripts EXCEPT ![i] = IF Has(scripts, i) THEN req[r].asked.type ELSE None]
          /\ LET o == req[r].asked.operate
                 mine == {a \in assoc : a[2] = i}
                 moved == IF o = None THEN mine ELSE {<<o, a[2]>> : a \in mine} IN
             assoc' = (assoc \ mine) \cup moved
    BY <1>3, AskedKinds DEF ModifyScript
  <2> QED BY <1>6, <2>1, <2>2 DEF TableType
<1>4. CASE DeleteOperate(r) \/ DeleteScript(r)
  <2>1. assoc' \subseteq assoc /\ (UNCHANGED scripts \/ \E i \in Id : scripts' = [scripts EXCEPT ![i] = None])
    BY <1>4, AskedKinds DEF DeleteOperate, DeleteScript, tables
  <2> QED BY <1>6, <2>1 DEF TableType
<1>5. CASE ~AddScript(r) /\ ~ModifyScript(r) /\ ~(DeleteOperate(r) \/ DeleteScript(r))
  <2>1. UNCHANGED <<scripts, assoc>>
    BY <1>5 DEF CatalogueNext, AddOperate, ModifyOperate, AddCommand, ModifyCommand, DeleteCommand,
      Upload, RemoveDirectory, RemoveFails, WriteFails, tables
  <2> QED BY <1>6, <2>1 DEF TableType
<1> QED BY <1>2, <1>3, <1>4, <1>5

\* What a start brings.
LEMMA StartTables ==
  ASSUME TableType, NEW i \in Id, Start(i) \/ UNCHANGED sent
  PROVE  sent' \in [Id -> (SUBSET Jobs) \cup {None}]
<1>1. StepList(i) => JobList(i) \in SUBSET Jobs
  <2> SUFFICES ASSUME StepList(i), tasks[i].operate # None PROVE JobList(i) \in SUBSET Jobs
    BY DEF JobList
  <2>1. tasks[i] \in Row
    BY DEF StepList, Has, TableType
  <2>2. PICK T \in SUBSET (Type \cup Id) : tasks[i].detail \in [T -> Id]
    BY <2>1 DEF Row, Detail
  <2> QED BY <2>2 DEF JobList, Jobs
<1> QED BY <1>1 DEF Start, TableType

LEMMA TaskTables ==
  ASSUME ReqType, TableType, NEW r \in Request, Tasks(r)
  PROVE  TableType'
<1>1. UNCHANGED <<assoc, scripts, dirs, sent>>
  BY DEF Tasks, AddTaskCheck, AddTaskDetail, AddTaskJob, AddTaskCommit, AddTaskFails, FindJob,
    JobFails, ModifyRead, ModifyUpdate, ModifyRemove, ModifyAdd, DeleteRead, DeleteJob, DeleteTask,
    DeleteFails, catalogue, schedule
<1>2. Kind(r) \in TaskDo /\ req[r].asked \in AskedTask /\ PcFits(r) /\ r \in Id
  BY TaskMoves, AskedKinds DEF ReqType, Id
<1>3. CASE AddTaskJob(r)
  <2>1. jobs' = jobs \cup {<<r, w>> : w \in {req[r].asked.when} \ {"never"}} /\ UNCHANGED tasks
    BY <1>3 DEF AddTaskJob
  <2>2. req[r].asked.when \in When
    BY <1>2 DEF AskedTask
  <2> QED BY <1>1, <1>2, <2>1, <2>2 DEF TableType
<1>4. CASE AddTaskCommit(r)
  <2> DEFINE a == req[r].asked
             new == [name |-> a.name, operate |-> a.operate, types |-> a.types,
                     detail |-> req[r].seen, when |-> a.when]
  <2>1. tasks' = [tasks EXCEPT ![r] = new] /\ UNCHANGED jobs
    BY <1>4 DEF AddTaskCommit
  <2>2. req[r].seen \in Detail
    BY <1>2, <1>4 DEF AddTaskCommit, PcFits
  <2>3. new \in Row
    BY <1>2, <2>2 DEF AskedTask, Row
  <2> HIDE DEF new
  <2> QED BY <1>1, <2>1, <2>3 DEF TableType
<1>5. CASE ModifyUpdate(r)
  <2>1. req[r].asked.when \in When
    BY <1>2 DEF AskedTask
  <2>2. req[r].on \in Id
    BY <1>2, <1>5 DEF ModifyUpdate, PcFits
  <2>3. /\ UNCHANGED jobs
        /\ \/ UNCHANGED tasks
           \/ /\ tasks[req[r].on] \in Row
              /\ tasks' = [tasks EXCEPT ![req[r].on].when = req[r].asked.when]
    <3>1. tasks[req[r].on] # None => tasks[req[r].on] \in Row
      BY <2>2 DEF TableType
    <3>2. /\ UNCHANGED jobs
          /\ tasks' = IF Has(tasks, req[r].on)
                      THEN [tasks EXCEPT ![req[r].on].when = req[r].asked.when] ELSE tasks
      BY <1>5 DEF ModifyUpdate
    <3> QED BY <3>1, <3>2 DEF Has
  <2>4. tasks[req[r].on] \in Row => [tasks[req[r].on] EXCEPT !.when = req[r].asked.when] \in Row
    BY <2>1 DEF Row
  <2> QED BY <1>1, <2>3, <2>4 DEF TableType
<1>6. CASE ModifyAdd(r)
  <2>1. req[r].asked.when \in When \ {"never"} /\ req[r].on \in Id
    BY <1>2, <1>6 DEF ModifyAdd, PcFits, AskedTask
  <2> QED BY <1>1, <1>6, <2>1 DEF ModifyAdd, TableType
<1>7. CASE DeleteTask(r)
  BY <1>1, <1>7 DEF DeleteTask, TableType
<1>8. CASE ModifyRemove(r) \/ DeleteJob(r)
  BY <1>1, <1>8 DEF ModifyRemove, DeleteJob, RemoveJob, TableType
<1>9. CASE \/ AddTaskCheck(r) \/ AddTaskDetail(r) \/ AddTaskFails(r) \/ FindJob(r) \/ JobFails(r)
           \/ ModifyRead(r) \/ DeleteRead(r) \/ DeleteFails(r)
  <2>1. UNCHANGED <<tasks, jobs>>
    BY <1>9 DEF AddTaskCheck, AddTaskDetail, AddTaskFails, FindJob, JobFails, ModifyRead,
      DeleteRead, DeleteFails, schedule
  <2> QED BY <1>1, <2>1 DEF TableType
<1> QED BY <1>3, <1>4, <1>5, <1>6, <1>7, <1>8, <1>9 DEF Tasks

-----------------------------------------------------------------------------
(* The scripts of an operation.  A request that has found no script for    *)
(* its type still finds none, unless another request has committed; one    *)
(* that deletes a script has seen all its associations that are not        *)
(* unchecked; and a script is new when it is added.                        *)

Adds(r) == r \in Request /\ Kind(r) = "add script" /\ req[r].pc \in {"new", "write"}

AddOk(r) ==
  /\ Adds(r) => scripts[r] = None /\ \A o \in Id : <<o, r>> \notin assoc
  /\ Adds(r) /\ req[r].pc = "write" /\ r \notin stale /\ req[r].asked.operate # None =>
       ~HasType(req[r].asked.operate, req[r].asked.type)

DeleteOk(r) ==
  Kind(r) = "delete scripts" /\ req[r].pc = "write" =>
    /\ ~Adds(req[r].on)
    /\ \A o \in Id \ unchecked : <<o, req[r].on>> \in assoc => <<o, req[r].on>> \in req[r].seen

OneEach ==
  \A o \in Id \ unchecked : \A i \in Of(o) :
    Has(scripts, i) /\ \A j \in Of(o) : scripts[i] = scripts[j] => i = j

ScriptInv == OneEach /\ \A r \in Request : AddOk(r) /\ DeleteOk(r)

\* Others that are in a transaction have been overtaken by a commit.
LEMMA Overtakes ==
  ASSUME NEW r \in Request, Commits(r), NEW q \in Request \ {r}, req[q].pc = "write"
  PROVE  q \in stale'
BY DEF Commits, Open

\* Requests that no script or association is changed by.
LEMMA ScriptsStay ==
  ASSUME ScriptInv, ReqType, ReqType', UNCHANGED <<scripts, assoc, unchecked>>, stale \subseteq stale',
         \A q \in Request : /\ Kind(q)' = Kind(q)
                            /\ req'[q] = req[q]
                                 \/ req'[q].pc \notin {"new", "write"}
                                 \/ (req'[q].pc = "new" /\ Kind(q) # "add script")
                                 \/ Kind(q) \notin {"add script", "delete scripts"}
  PROVE  ScriptInv'
<1>1. OneEach'
  BY DEF ScriptInv, OneEach, Of, Has
<1>2. \A q : Adds(q)' => Adds(q)
  BY DEF Adds, Kind
<1>3. ASSUME NEW q \in Request PROVE AddOk(q)' /\ DeleteOk(q)'
  <2>1. AddOk(q) /\ DeleteOk(q)
    BY DEF ScriptInv
  <2>2. CASE req'[q] = req[q]
    BY <1>2, <2>1, <2>2 DEF AddOk, DeleteOk, HasType, Of, Kind
  <2>3. CASE req'[q] # req[q]
    BY <1>2, <2>1, <2>3 DEF AddOk, DeleteOk, Adds, Kind
  <2> QED BY <2>2, <2>3
<1> QED BY <1>1, <1>3 DEF ScriptInv

LEMMA AddScriptOk ==
  ASSUME ScriptInv, ReqType, TableType, NEW r \in Request, AddScript(r), CatalogueNext(r)
  PROVE  ScriptInv'
<1> DEFINE o == req[r].asked.operate
           t == req[r].asked.type
<1>0. /\ Kind(r) = "add script" /\ req[r].asked \in Asked /\ r \in Id /\ None \notin Id \cup Type
      /\ req[r].pc \in {"new", "write"} /\ ReqType' /\ (\A q \in Request \ {r} : req'[q] = req[q])
      /\ req'[r].asked = req[r].asked /\ Adds(r)
  <2>1. Kind(r) = "add script" /\ req[r].pc \in {"new", "write"}
    BY DEF AddScript, Begins, Writes, Kind
  <2> QED BY <2>1, CatalogueMoves, AskedKinds, IdAssumption DEF Batch, Moves, Adds, Id
<1>1. o \in Id \cup {None} /\ t \in Type
  BY <1>0 DEF Asked
<1>2. CASE Begins(r, "add script") /\ GoesOn(r, MayAdd(o, t))
           /\ UNCHANGED <<tables, dirs, stale, unchecked, leftover>>
  <2>1. /\ UNCHANGED <<scripts, assoc, unchecked, stale>>
        /\ req'[r].pc = "write" => MayAdd(o, t)
        /\ req[r].pc = "new" /\ req'[r].pc \in {"write", "done"}
    BY <1>2, GoesMoves DEF tables, GoesOn, Goes, Begins, ReqType
  <2>2. OneEach'
    BY <2>1 DEF ScriptInv, OneEach, Of, Has
  <2>3. \A q : Adds(q)' => Adds(q)
    BY <1>0, <2>1 DEF Adds, Kind
  <2>4. ASSUME NEW q \in Request PROVE AddOk(q)' /\ DeleteOk(q)'
    <3>1. AddOk(q) /\ DeleteOk(q)
      BY DEF ScriptInv
    <3>2. CASE q # r
      BY <1>0, <2>1, <2>3, <3>1, <3>2 DEF AddOk, DeleteOk, HasType, Of, Kind
    <3>3. CASE q = r
      BY <1>0, <2>1, <2>3, <3>1, <3>3 DEF AddOk, DeleteOk, HasType, Of, Kind, MayAdd
    <3> QED BY <3>2, <3>3
  <2> QED BY <2>2, <2>4 DEF ScriptInv
<1>3. CASE Writes(r, "add script") /\ Goes(r, "done") /\ Commits(r)
           /\ scripts' = [scripts EXCEPT ![r] = t]
           /\ assoc' = assoc \cup ({o} \ {None}) \X {r}
           /\ (IF r \in stale THEN unchecked' = unchecked \cup ({o} \ {None})
              ELSE UNCHANGED unchecked)
  <2>1. AddOk(r) /\ scripts[r] = None /\ \A p \in Id : <<p, r>> \notin assoc
    BY <1>0 DEF ScriptInv, AddOk
  <2>2. /\ req'[r].pc = "done" /\ req[r].pc = "write"
        /\ scripts'[r] = t /\ \A i \in Id \ {r} : scripts'[i] = scripts[i]
        /\ unchecked \subseteq unchecked' /\ (r \in stale /\ o # None => o \in unchecked')
    BY <1>0, <1>3 DEF Goes, ReqType, TableType, Writes
  <2>3. \A p, i \in Id : <<p, i>> \in assoc' <=> <<p, i>> \in assoc \/ (p = o /\ i = r)
    BY <1>0, <1>1, <1>3
  <2>4. OneEach'
    <3> SUFFICES ASSUME NEW p \in Id \ unchecked', NEW i \in Id, <<p, i>> \in assoc'
                 PROVE  /\ scripts'[i] # None
                        /\ \A j \in Id : <<p, j>> \in assoc' /\ scripts'[i] = scripts'[j] => i = j
      BY DEF OneEach, Of, Has
    <3>1. p \notin unchecked
      BY <2>2
    <3>2. \A x \in Id : <<p, x>> \in assoc =>
            /\ scripts[x] # None /\ x # r
            /\ \A y \in Id : <<p, y>> \in assoc /\ scripts[x] = scripts[y] => x = y
      BY <2>1, <3>1 DEF ScriptInv, OneEach, Of, Has
    <3>3. p = o => \A x \in Id : <<p, x>> \in assoc => scripts[x] # t
      BY <1>0, <1>1, <2>1, <2>2 DEF AddOk, HasType, Of
    <3>4. ASSUME NEW x \in Id, <<p, x>> \in assoc'
          PROVE  \/ <<p, x>> \in assoc /\ x # r /\ scripts'[x] = scripts[x] /\ scripts[x] # None
                 \/ p = o /\ x = r /\ scripts'[x] = t
      BY <2>2, <2>3, <3>2, <3>4
    <3>5. scripts'[i] # None
      BY <1>0, <1>1, <3>4
    <3>6. ASSUME NEW j \in Id, <<p, j>> \in assoc', scripts'[i] = scripts'[j] PROVE i = j
      <4>1. \/ <<p, i>> \in assoc /\ scripts'[i] = scripts[i]
            \/ p = o /\ i = r /\ scripts'[i] = t
        BY <3>4
      <4>2. \/ <<p, j>> \in assoc /\ scripts'[j] = scripts[j]
            \/ p = o /\ j = r /\ scripts'[j] = t
        BY <3>4, <3>6
      <4> QED BY <3>2, <3>3, <3>6, <4>1, <4>2
    <3> QED BY <3>5, <3>6
  <2>5. \A q : Adds(q)' => Adds(q) /\ q # r
    BY <1>0, <2>2 DEF Adds, Kind
  <2>6. ASSUME NEW q \in Request PROVE AddOk(q)' /\ DeleteOk(q)'
    <3>1. AddOk(q) /\ DeleteOk(q) /\ q \in Id
      BY DEF ScriptInv, Id
    <3>2. CASE q = r
      BY <1>0, <2>2, <2>5, <3>2 DEF AddOk, DeleteOk, Kind
    <3>3. CASE q # r
      <4>1. req'[q] = req[q] /\ (req[q].pc = "write" => q \in stale')
        BY <1>0, <1>3, <3>3, Overtakes
      <4>2. AddOk(q)'
        BY <2>2, <2>3, <2>5, <3>1, <3>3, <4>1 DEF AddOk
      <4>3. DeleteOk(q)'
        <5> SUFFICES ASSUME Kind(q)' = "delete scripts", req'[q].pc = "write" PROVE DeleteOk(q)'
          BY DEF DeleteOk
        <5>1. Kind(q) = "delete scripts" /\ req[q].pc = "write" /\ req[q].on \in Id /\ req[q].on # r
          BY <1>0, <3>1, <4>1 DEF Kind, DeleteOk, ReqType, PcFits
        <5> QED BY <2>2, <2>3, <2>5, <3>1, <4>1, <5>1 DEF DeleteOk
      <4> QED BY <4>2, <4>3
    <3> QED BY <3>2, <3>3
  <2> QED BY <2>4, <2>6 DEF ScriptInv
<1> QED BY <1>2, <1>3 DEF AddScript

LEMMA ModifyScriptOk ==
  ASSUME ScriptInv, ReqType, TableType, NEW r \in Request, ModifyScript(r), CatalogueNext(r)
  PROVE  ScriptInv'
<1> DEFINE o == req[r].asked.operate
           t == req[r].asked.type
<1>0. /\ Kind(r) = "modify script" /\ req[r].asked \in Asked /\ None \notin Id \cup Type
      /\ ReqType' /\ (\A q \in Request \ {r} : req'[q] = req[q]) /\ Kind(r)' = Kind(r)
  <2>1. Kind(r) = "modify script"
    BY DEF ModifyScript, Begins, Kind
  <2>2. /\ ReqType' /\ (\A q \in Request \ {r} : req'[q] = req[q]) /\ Kind(r)' = Kind(r)
        /\ Kind(r) \in Do
    BY CatalogueMoves DEF Moves, Kind
  <2> QED BY <2>1, <2>2, AskedKinds, IdAssumption
<1>1. PICK i \in Id :
        /\ scripts' = [scripts EXCEPT ![i] = IF Has(scripts, i) THEN t ELSE None]
        /\ LET mine == {a \in assoc : a[2] = i}
               moved == IF o = None THEN mine ELSE {<<o, a[2]>> : a \in mine} IN
           /\ assoc' = (assoc \ mine) \cup moved
           /\ unchecked' = unchecked \cup {a[1] : a \in moved}
        /\ Commits(r)
  BY AskedKinds DEF ModifyScript
<1>2. /\ o \in Id \cup {None} /\ t \in Type
  BY <1>0 DEF Asked
<1>3. /\ \A x \in Id \ {i} : scripts'[x] = scripts[x]
      /\ scripts'[i] = IF scripts[i] # None THEN t ELSE None
      /\ unchecked \subseteq unchecked'
  BY <1>1 DEF TableType, Has
<1>4. \A p, x \in Id : /\ x # i => (<<p, x>> \in assoc' <=> <<p, x>> \in assoc)
                       /\ x = i /\ <<p, x>> \in assoc' => p \in unchecked' /\ \E y \in Id : <<y, x>> \in assoc
  <2> SUFFICES ASSUME NEW p \in Id, NEW x \in Id
               PROVE  /\ x # i => (<<p, x>> \in assoc' <=> <<p, x>> \in assoc)
                      /\ x = i /\ <<p, x>> \in assoc' =>
                           p \in unchecked' /\ \E y \in Id : <<y, x>> \in assoc
    OBVIOUS
  <2> DEFINE mine == {a \in assoc : a[2] = i}
             moved == IF o = None THEN mine ELSE {<<o, a[2]>> : a \in mine}
  <2>1. /\ assoc' = (assoc \ mine) \cup moved /\ unchecked' = unchecked \cup {a[1] : a \in moved}
    BY <1>1
  <2>2. \A a \in mine : a[1] \in Id /\ a[2] = i /\ a = <<a[1], i>>
    BY DEF TableType
  <2>3. \A a \in moved : a = <<a[1], i>> /\ mine # {}
    BY <2>2
  <2>4. x # i => <<p, x>> \notin mine /\ <<p, x>> \notin moved
    BY <2>3
  <2>5. x = i /\ <<p, x>> \in assoc' => <<p, x>> \in moved
    BY <2>1
  <2>6. <<p, x>> \in moved => p \in {a[1] : a \in moved}
    <3> SUFFICES ASSUME <<p, x>> \in moved PROVE p \in {a[1] : a \in moved}
      OBVIOUS
    <3>1. <<p, x>>[1] = p
      OBVIOUS
    <3> HIDE DEF moved
    <3> QED BY <3>1
  <2>7. mine # {} => \E y \in Id : <<y, i>> \in assoc
    BY <2>2
  <2> HIDE DEF mine, moved
  <2> QED BY <2>1, <2>3, <2>4, <2>5, <2>6, <2>7
<1>5. OneEach'
  <2> SUFFICES ASSUME NEW p \in Id \ unchecked', NEW x \in Id, <<p, x>> \in assoc'
               PROVE  /\ scripts'[x] # None
                      /\ \A j \in Id : <<p, j>> \in assoc' /\ scripts'[x] = scripts'[j] => x = j
    BY DEF OneEach, Of, Has
  <2>1. p \notin unchecked
    BY <1>3
  <2>2. \A y \in Id : <<p, y>> \in assoc' => y # i /\ <<p, y>> \in assoc
    BY <1>4
  <2>3. \A y \in Id : <<p, y>> \in assoc =>
          /\ scripts[y] # None
          /\ \A z \in Id : <<p, z>> \in assoc /\ scripts[y] = scripts[z] => y = z
    BY <2>1 DEF ScriptInv, OneEach, Of, Has
  <2> QED BY <1>3, <2>2, <2>3
<1>6. \A q : Adds(q)' <=> Adds(q)
  BY <1>0 DEF Adds, Kind
<1>7. ASSUME NEW q \in Request PROVE AddOk(q)' /\ DeleteOk(q)'
  <2>1. AddOk(q) /\ DeleteOk(q) /\ q \in Id
    BY DEF ScriptInv, Id
  <2>2. CASE q = r
    BY <1>0, <1>6, <2>2 DEF AddOk, DeleteOk, Adds
  <2>3. CASE q # r
    <3>1. req'[q] = req[q] /\ (req[q].pc = "write" => q \in stale')
      BY <1>0, <1>1, <2>3, Overtakes
    <3>2. AddOk(q)'
      BY <1>3, <1>4, <1>6, <2>1, <3>1 DEF AddOk
    <3>3. DeleteOk(q)'
      <4> SUFFICES ASSUME Kind(q)' = "delete scripts", req'[q].pc = "write" PROVE DeleteOk(q)'
        BY DEF DeleteOk
      <4>1. Kind(q) = "delete scripts" /\ req[q].pc = "write" /\ req[q].on \in Id
        BY <3>1 DEF Kind, ReqType, PcFits
      <4> QED BY <1>3, <1>4, <1>6, <2>1, <3>1, <4>1 DEF DeleteOk
    <3> QED BY <3>2, <3>3
  <2> QED BY <2>2, <2>3
<1> QED BY <1>5, <1>7 DEF ScriptInv

\* Associations, and scripts that have none but unchecked ones, go.
LEMMA ScriptsGo ==
  ASSUME ScriptInv, ReqType, TableType, NEW r \in Request, Moves(r, req'[r].pc, req'[r].on, req'[r].seen),
         Kind(r)' = Kind(r), Kind(r) # "add script", req'[r].pc # "write",
         assoc' \subseteq assoc, unchecked' = unchecked, stale \subseteq stale',
         NEW S \in SUBSET Id,
         \A i \in Id : scripts'[i] = IF i \in S THEN None ELSE scripts[i],
         \A p \in Id \ unchecked, i \in S : <<p, i>> \notin assoc'
  PROVE  ScriptInv'
<1>1. OneEach'
  <2> SUFFICES ASSUME NEW p \in Id \ unchecked, NEW i \in Id, <<p, i>> \in assoc'
               PROVE  /\ scripts'[i] # None
                      /\ \A j \in Id : <<p, j>> \in assoc' /\ scripts'[i] = scripts'[j] => i = j
    BY DEF OneEach, Of, Has
  <2>1. \A x \in Id : <<p, x>> \in assoc =>
          /\ scripts[x] # None
          /\ \A y \in Id : <<p, y>> \in assoc /\ scripts[x] = scripts[y] => x = y
    BY DEF ScriptInv, OneEach, Of, Has
  <2>2. \A x \in Id : <<p, x>> \in assoc' => <<p, x>> \in assoc /\ scripts'[x] = scripts[x]
    OBVIOUS
  <2> QED BY <2>1, <2>2
<1>2. \A q \in Request \ {r} : req'[q] = req[q]
  BY DEF Moves
<1>3. \A q : Adds(q)' => Adds(q)
  BY <1>2 DEF Adds, Kind
<1>4. ASSUME NEW q \in Request PROVE AddOk(q)' /\ DeleteOk(q)'
  <2>1. AddOk(q) /\ DeleteOk(q) /\ q \in Id
    BY DEF ScriptInv, Id
  <2>2. CASE q = r
    BY <2>2 DEF AddOk, DeleteOk, Adds, Kind
  <2>3. CASE q # r
    <3>1. req'[q] = req[q]
      BY <1>2, <2>3
    <3>2. AddOk(q)'
      <4>1. Adds(q)' => scripts'[q] = None /\ \A o \in Id : <<o, q>> \notin assoc'
        BY <1>3, <2>1 DEF AddOk
      <4>2. ASSUME Adds(q)', req'[q].pc = "write", q \notin stale', req'[q].asked.operate # None
            PROVE  ~HasType(req[q].asked.operate, req[q].asked.type)'
        <5>1. ~HasType(req[q].asked.operate, req[q].asked.type)
          BY <1>3, <2>1, <3>1, <4>2 DEF AddOk
        <5>2. req[q].asked.type # None
          BY <3>1, <4>2, AskedKinds, IdAssumption DEF Adds, Kind, Asked, Do
        <5> QED BY <3>1, <5>1, <5>2 DEF HasType, Of
      <4> QED BY <4>1, <4>2 DEF AddOk
    <3>3. DeleteOk(q)'
      BY <1>3, <2>1, <3>1 DEF DeleteOk, Kind
    <3> QED BY <3>2, <3>3
  <2> QED BY <2>2, <2>3
<1> QED BY <1>1, <1>4 DEF ScriptInv

LEMMA DeleteScriptOk ==
  ASSUME ScriptInv, ReqType, TableType, NEW r \in Request, DeleteScript(r), CatalogueNext(r)
  PROVE  ScriptInv'
<1>0. /\ Kind(r) = "delete scripts" /\ ReqType' /\ Kind(r)' = Kind(r)
      /\ \A q \in Request \ {r} : req'[q] = req[q]
  BY CatalogueMoves DEF DeleteScript, Begins, Writes, Moves, Kind
<1>1. PICK i \in Id :
        \/ /\ Begins(r, "delete scripts") /\ UNCHANGED <<tables, dirs, history>>
           /\ IF Has(scripts, i) THEN Read(r, i, {a \in assoc : a[2] = i}) ELSE Missing(r, i)
        \/ /\ Writes(r, "delete scripts") /\ i = req[r].on
           /\ Goes(r, "remove") /\ Commits(r)
           /\ scripts' = [scripts EXCEPT ![i] = None]
           /\ assoc' = assoc \ req[r].seen
           /\ UNCHANGED unchecked
  BY AskedKinds DEF DeleteScript
<1>2. CASE Begins(r, "delete scripts") /\ UNCHANGED <<tables, dirs, history>>
           /\ Has(scripts, i) /\ Read(r, i, {a \in assoc : a[2] = i})
  <2> DEFINE seen == {a \in assoc : a[2] = i}
  <2>1. seen \in Seen
    BY DEF Seen, TableType
  <2>2. \A p \in Id : <<p, i>> \in assoc => <<p, i>> \in seen
    OBVIOUS
  <2>3. Read(r, i, seen)
    BY <1>2
  <2> HIDE DEF seen
  <2>4. req'[r].pc = "write" /\ req'[r].on = i /\ req'[r].seen = seen
    BY <2>1, <2>3, StandsMoves DEF Read, Moves, Pc
  <2>5. UNCHANGED <<scripts, assoc, unchecked, stale>>
    BY <1>2 DEF tables, history
  <2>6. \A q : Adds(q)' => Adds(q)
    BY <1>0 DEF Adds, Kind
  <2>7. OneEach'
    BY <2>5 DEF ScriptInv, OneEach, Of, Has
  <2>8. ASSUME NEW q \in Request PROVE AddOk(q)' /\ DeleteOk(q)'
    <3>1. AddOk(q) /\ DeleteOk(q) /\ (q = i => AddOk(i))
      BY DEF ScriptInv
    <3>2. CASE q = r
      <4>1. ~Adds(i)
        BY <1>2 DEF ScriptInv, AddOk, Adds, Has
      <4> QED BY <1>0, <2>2, <2>4, <2>5, <2>6, <3>2, <4>1 DEF AddOk, DeleteOk, Adds
    <3>3. CASE q # r
      BY <1>0, <2>5, <2>6, <3>1, <3>3 DEF AddOk, DeleteOk, HasType, Of, Kind
    <3> QED BY <3>2, <3>3
  <2> QED BY <2>7, <2>8 DEF ScriptInv
<1>3. CASE Begins(r, "delete scripts") /\ UNCHANGED <<tables, dirs, history>> /\ Missing(r, i)
  <2>1. PICK pc \in {"new", "done"} : Moves(r, pc, req[r].on, req[r].seen)
    BY <1>3, MissingMoves DEF Begins
  <2>2. req'[r].pc = "new" \/ req'[r].pc = "done"
    BY <2>1 DEF Moves
  <2>3. UNCHANGED <<scripts, assoc, unchecked, stale>>
    BY <1>3 DEF tables, history
  <2> QED BY <1>0, <2>2, <2>3, ScriptsStay DEF Kind
<1>4. CASE /\ Writes(r, "delete scripts") /\ i = req[r].on
           /\ Goes(r, "remove") /\ Commits(r)
           /\ scripts' = [scripts EXCEPT ![i] = None]
           /\ assoc' = assoc \ req[r].seen
           /\ UNCHANGED unchecked
  <2>1. \A p \in Id \ unchecked : <<p, i>> \in assoc => <<p, i>> \in req[r].seen
    BY <1>0, <1>4 DEF ScriptInv, DeleteOk, Writes
  <2>2. Moves(r, req'[r].pc, req'[r].on, req'[r].seen) /\ req'[r].pc = "remove"
    BY <1>4, GoesMoves DEF Moves, Pc
  <2>3. \A x \in Id : scripts'[x] = IF x \in {i} THEN None ELSE scripts[x]
    BY <1>4 DEF TableType
  <2>4. stale \subseteq stale'
    BY <1>4 DEF Commits
  <2>5. \A p \in Id \ unchecked, x \in {i} : <<p, x>> \notin assoc'
    BY <1>4, <2>1
  <2>6. assoc' \subseteq assoc /\ {i} \in SUBSET Id
    BY <1>4
  <2> QED BY <1>0, <1>4, <2>2, <2>3, <2>4, <2>5, <2>6, ScriptsGo
<1> QED BY <1>1, <1>2, <1>3, <1>4

LEMMA DeleteOperateOk ==
  ASSUME ScriptInv, ReqType, TableType, NEW r \in Request, DeleteOperate(r), CatalogueNext(r)
  PROVE  ScriptInv'
<1>0. /\ Kind(r) = "delete operates" /\ ReqType' /\ Kind(r)' = Kind(r)
      /\ \A q \in Request \ {r} : req'[q] = req[q]
  BY CatalogueMoves DEF DeleteOperate, Begins, Writes, Moves, Kind
<1>1. CASE UNCHANGED <<tables, dirs, history>>
  <2>1. UNCHANGED <<scripts, assoc, unchecked, stale>>
    BY <1>1 DEF tables, history
  <2> QED BY <1>0, <2>1, ScriptsStay DEF Kind
<1>2. CASE Writes(r, "delete operates") /\ NextId(r) /\ Commits(r) /\ assoc' \subseteq assoc
           /\ UNCHANGED <<scripts, unchecked>>
  <2>1. PICK pc \in {"new", "done"} : Moves(r, pc, None, {})
    BY <1>2, NextIdMoves
  <2>2. Moves(r, req'[r].pc, req'[r].on, req'[r].seen) /\ req'[r].pc # "write"
    BY <2>1 DEF Moves
  <2>3. stale \subseteq stale'
    BY <1>2 DEF Commits
  <2>4. \A x \in Id : scripts'[x] = IF x \in {} THEN None ELSE scripts[x]
    BY <1>2
  <2>5. {} \in SUBSET Id /\ \A p \in Id \ unchecked, x \in {} : <<p, x>> \notin assoc'
    OBVIOUS
  <2>6. Kind(r) # "add script"
    BY <1>0
  <2> QED BY <1>0, <1>2, <2>2, <2>3, <2>4, <2>5, <2>6, ScriptsGo
<1> QED BY <1>1, <1>2, AskedKinds DEF DeleteOperate

LEMMA CatalogueScriptsOk ==
  ASSUME ScriptInv, ReqType, TableType, NEW r \in Request, CatalogueNext(r)
  PROVE  ScriptInv'
<1>1. CASE AddScript(r) \/ ModifyScript(r) \/ DeleteScript(r) \/ DeleteOperate(r)
  BY <1>1, AddScriptOk, ModifyScriptOk, DeleteScriptOk, DeleteOperateOk
<1>2. CASE \/ AddOperate(r) \/ ModifyOperate(r) \/ AddCommand(r) \/ ModifyCommand(r)
           \/ DeleteCommand(r) \/ Upload(r) \/ RemoveDirectory(r) \/ RemoveFails(r) \/ WriteFails(r)
  <2>1. /\ ReqType' /\ Kind(r)' = Kind(r) /\ \A q \in Request \ {r} : req'[q] = req[q]
    BY CatalogueMoves DEF Moves, Kind
  <2>2. UNCHANGED <<scripts, assoc, unchecked>> /\ stale \subseteq stale'
    BY <1>2 DEF AddOperate, ModifyOperate, AddCommand, ModifyCommand, DeleteCommand, Upload,
      RemoveDirectory, RemoveFails, WriteFails, tables, history, Commits
  <2>3. \/ Kind(r) \notin {"add script", "delete scripts"}
        \/ req'[r].pc \notin {"new", "write"}
        \/ req'[r].pc = "new" /\ Kind(r) # "add script"
    <3>1. CASE AddOperate(r) \/ ModifyOperate(r) \/ AddCommand(r) \/ ModifyCommand(r)
               \/ DeleteCommand(r) \/ Upload(r)
      BY <3>1 DEF AddOperate, ModifyOperate, AddCommand, ModifyCommand, DeleteCommand, Upload,
        Begins, Writes, Kind
    <3>2. CASE RemoveDirectory(r) \/ RemoveFails(r) \/ WriteFails(r)
      <4>1. NextId(r) \/ Goes(r, "done")
        BY <3>2 DEF RemoveDirectory, RemoveFails, WriteFails
      <4>2. req'[r].pc \in {"new", "done"}
        BY <4>1, NextIdMoves, GoesMoves DEF Moves, Pc
      <4>3. Kind(r) = "add script" => Goes(r, "done")
        BY <3>2 DEF RemoveDirectory, RemoveFails, WriteFails, ReqType, PcFits, Batch
      <4>4. Goes(r, "done") => req'[r].pc = "done"
        BY GoesMoves DEF Moves, Pc
      <4> QED BY <4>2, <4>3, <4>4
    <3> QED BY <1>2, <3>1, <3>2
  <2> QED BY <2>1, <2>2, <2>3, ScriptsStay DEF Kind
<1> QED BY <1>1, <1>2 DEF CatalogueNext

\* What the service's end leaves of the requests.
LEMMA RestartMoves ==
  ASSUME ReqType, Restart
  PROVE  /\ ReqType'
         /\ \A r \in Request : IF req[r].pc = "new" THEN req'[r] = req[r]
                               ELSE /\ req'[r].pc = "done" /\ req'[r].asked = req[r].asked
                                    /\ req'[r].on = req[r].on
<1>1. \A r \in Request : req'[r] = [req[r] EXCEPT !.pc = IF @ = "new" THEN "new" ELSE "done"]
  BY DEF Restart
<1>2. req' = [r \in Request |-> req'[r]]
  BY DEF Restart
<1>3. ASSUME NEW r \in Request
      PROVE  /\ req'[r] \in [asked : Asked \cup AskedTask, pc : Pc, on : Id \cup {None}, seen : Seen]
             /\ IF req[r].pc = "new" THEN req'[r] = req[r]
                ELSE /\ req'[r].pc = "done" /\ req'[r].asked = req[r].asked
                     /\ req'[r].on = req[r].on
  <2>1. req[r] \in [asked : Asked \cup AskedTask, pc : Pc, on : Id \cup {None}, seen : Seen]
    BY DEF ReqType
  <2>2. req'[r] = [req[r] EXCEPT !.pc = IF req[r].pc = "new" THEN "new" ELSE "done"]
    BY <1>1
  <2>3. CASE req[r].pc = "new"
    <3>1. req'[r] = req[r]
      BY <2>1, <2>2, <2>3
    <3> QED BY <2>1, <2>3, <3>1
  <2>4. CASE req[r].pc # "new"
    <3>1. req'[r] = [req[r] EXCEPT !.pc = "done"]
      BY <2>2, <2>4
    <3> QED BY <2>1, <2>4, <3>1 DEF Pc
  <2> QED BY <2>3, <2>4
<1>4. req' \in [Request -> [asked : Asked \cup AskedTask, pc : Pc, on : Id \cup {None}, seen : Seen]]
  BY <1>2, <1>3
<1>5. \A r \in Request : PcFits(r)'
  BY <1>3 DEF ReqType, PcFits, Kind
<1> QED BY <1>3, <1>4, <1>5 DEF ReqType

\* What the steps of requests for tasks, of the scheduler and of the service leave alone.
LEMMA TasksKeepScripts ==
  ASSUME \/ (\E r \in Request : Tasks(r)) \/ Restart
         \/ (\E i \in Id : UseJob(i) \/ StartTask(i)) \/ UNCHANGED vars
  PROVE  UNCHANGED <<scripts, assoc, dirs, unchecked>> /\ stale \subseteq stale' /\ leftover \subseteq leftover'
<1>1. CASE \E r \in Request : Tasks(r)
  <2>1. PICK r \in Request : Tasks(r)
    BY <1>1
  <2>2. CASE AddTaskCheck(r) \/ AddTaskDetail(r) \/ AddTaskJob(r) \/ AddTaskCommit(r) \/ AddTaskFails(r)
    BY <2>2 DEF AddTaskCheck, AddTaskDetail, AddTaskJob, AddTaskCommit, AddTaskFails, catalogue, Commits
  <2>3. CASE FindJob(r) \/ JobFails(r)
    BY <2>3 DEF FindJob, JobFails, catalogue
  <2>4. CASE ModifyRead(r) \/ ModifyUpdate(r) \/ ModifyRemove(r) \/ ModifyAdd(r)
    BY <2>4 DEF ModifyRead, ModifyUpdate, ModifyRemove, ModifyAdd, RemoveJob, catalogue, Commits
  <2>5. CASE DeleteRead(r) \/ DeleteJob(r) \/ DeleteTask(r) \/ DeleteFails(r)
    BY <2>5 DEF DeleteRead, DeleteJob, DeleteTask, DeleteFails, RemoveJob, catalogue, Commits
  <2> QED BY <2>1, <2>2, <2>3, <2>4, <2>5 DEF Tasks
<1>2. CASE Restart
  BY <1>2 DEF Restart, tables
<1>3. CASE (\E i \in Id : UseJob(i) \/ StartTask(i)) \/ UNCHANGED vars
  BY <1>3 DEF UseJob, StartTask, vars, catalogue_vars, tables
<1> QED BY <1>1, <1>2, <1>3

LEMMA OthersScriptsOk ==
  ASSUME ScriptInv, ReqType, TableType,
         \/ (\E r \in Request : Tasks(r)) \/ Restart
         \/ (\E i \in Id : UseJob(i) \/ StartTask(i)) \/ UNCHANGED vars
  PROVE  ScriptInv' /\ ReqType'
<1>1. UNCHANGED <<scripts, assoc, unchecked>> /\ stale \subseteq stale'
  BY TasksKeepScripts
<1>2. CASE \E r \in Request : Tasks(r)
  <2>1. PICK r \in Request : Tasks(r)
    BY <1>2
  <2>2. /\ Kind(r) \in TaskDo /\ Kind(r)' = Kind(r) /\ ReqType'
        /\ \A q \in Request \ {r} : req'[q] = req[q]
    BY <2>1, TaskMoves DEF Moves, Kind
  <2>3. Kind(r) \notin {"add script", "delete scripts"}
    BY <2>2 DEF TaskDo
  <2> QED BY <1>1, <2>2, <2>3, ScriptsStay DEF Kind
<1>3. CASE Restart
  <2>1. ReqType' /\ \A q \in Request : Kind(q)' = Kind(q) /\ (req'[q] = req[q] \/ req'[q].pc = "done")
    BY <1>3, RestartMoves DEF Kind
  <2> QED BY <1>1, <2>1, ScriptsStay
<1>4. CASE (\E i \in Id : UseJob(i) \/ StartTask(i)) \/ UNCHANGED vars
  <2>1. UNCHANGED req
    BY <1>4 DEF UseJob, StartTask, vars, catalogue_vars
  <2>2. ReqType' /\ \A q \in Request : Kind(q)' = Kind(q) /\ req'[q] = req[q]
    BY <2>1 DEF ReqType, PcFits, Kind
  <2> QED BY <1>1, <2>2, ScriptsStay
<1> QED BY <1>2, <1>3, <1>4

-----------------------------------------------------------------------------
(* The scripts' directories.                                               *)

LEMMA CatalogueDirsOk ==
  ASSUME DirectoryHasScript, ReqType, TableType, NEW r \in Request, CatalogueNext(r)
  PROVE  DirectoryHasScript'
<1> DEFINE Going(i) == \E q \in Request : req[q].pc = "remove" /\ req[q].on = i
<1>0. /\ None \notin Type /\ \A q \in Request \ {r} : req'[q] = req[q]
      /\ Kind(r) \in Do
  BY CatalogueMoves, IdAssumption DEF Moves
<1>1. CASE req[r].pc # "remove" /\ dirs' = dirs /\ leftover' = leftover
           /\ \A i \in Id : Has(scripts, i) => Has(scripts, i)'
  <2> SUFFICES ASSUME NEW i \in dirs \ leftover PROVE Has(scripts, i)' \/ Going(i)'
    BY <1>1 DEF DirectoryHasScript
  <2>1. i \in Id
    BY DEF TableType
  <2>2. Has(scripts, i) \/ Going(i)
    BY DEF DirectoryHasScript
  <2>3. Going(i) => Going(i)'
    BY <1>0, <1>1
  <2> QED BY <1>1, <2>1, <2>2, <2>3
<1>2. CASE \/ AddOperate(r) \/ ModifyOperate(r) \/ AddCommand(r) \/ ModifyCommand(r)
           \/ DeleteCommand(r) \/ DeleteOperate(r) \/ WriteFails(r)
  <2>1. req[r].pc # "remove"
    BY <1>2 DEF AddOperate, ModifyOperate, AddCommand, ModifyCommand, DeleteCommand, DeleteOperate,
      WriteFails, Begins, Writes
  <2>2. UNCHANGED <<scripts, dirs, leftover>>
    BY <1>2 DEF AddOperate, ModifyOperate, AddCommand, ModifyCommand, DeleteCommand, DeleteOperate,
      WriteFails, tables, history
  <2> QED BY <1>1, <2>1, <2>2 DEF Has
<1>3. CASE AddScript(r)
  <2>1. req[r].asked.type \in Type
    BY <1>0, AskedKinds DEF Asked
  <2>2. req[r].pc # "remove" /\ UNCHANGED <<dirs, leftover>>
    BY <1>3 DEF AddScript, Begins, Writes
  <2>3. UNCHANGED scripts \/ scripts' = [scripts EXCEPT ![r] = req[r].asked.type]
    BY <1>3 DEF AddScript, tables
  <2>4. \A i \in Id : Has(scripts, i) => Has(scripts, i)'
    BY <1>0, <2>1, <2>3 DEF Has, TableType
  <2> QED BY <1>1, <2>2, <2>4
<1>4. CASE ModifyScript(r)
  <2>1. req[r].asked.type \in Type
    BY <1>0, AskedKinds DEF Asked
  <2>2. req[r].pc # "remove" /\ UNCHANGED <<dirs, leftover>>
    BY <1>4 DEF ModifyScript, Begins
  <2>3. PICK i \in Id :
          scripts' = [scripts EXCEPT ![i] = IF Has(scripts, i) THEN req[r].asked.type ELSE None]
    BY <1>4, AskedKinds DEF ModifyScript
  <2>4. \A x \in Id : Has(scripts, x) => Has(scripts, x)'
    BY <1>0, <2>1, <2>3 DEF Has, TableType
  <2> QED BY <1>1, <2>2, <2>4
<1>5. CASE Upload(r)
  <2>1. PICK i \in Id :
          \/ dirs' = dirs \cup {i} /\ leftover' = IF Has(scripts, i) THEN leftover ELSE leftover \cup {i}
          \/ dirs' = dirs \ {i} /\ leftover' = leftover
    BY <1>5, AskedKinds DEF Upload
  <2>2. req[r].pc # "remove" /\ UNCHANGED scripts
    BY <1>5 DEF Upload, Begins, tables
  <2>3. \A x \in dirs' \ leftover' : Has(scripts, x) \/ Going(x)
    BY <2>1 DEF DirectoryHasScript
  <2>4. \A x : Going(x) => Going(x)'
    BY <1>0, <2>2
  <2> QED BY <2>2, <2>3, <2>4 DEF DirectoryHasScript, Has
<1>6. CASE DeleteScript(r)
  <2>1. PICK i \in Id :
          \/ UNCHANGED <<scripts, dirs, leftover>>
          \/ /\ i = req[r].on /\ Goes(r, "remove") /\ scripts' = [scripts EXCEPT ![i] = None]
             /\ UNCHANGED <<dirs, leftover>>
    BY <1>6, AskedKinds DEF DeleteScript, tables, history
  <2>2. req[r].pc # "remove"
    BY <1>6 DEF DeleteScript, Begins, Writes
  <2>3. CASE UNCHANGED <<scripts, dirs, leftover>>
    BY <1>1, <2>2, <2>3 DEF Has
  <2>4. CASE /\ i = req[r].on /\ Goes(r, "remove") /\ scripts' = [scripts EXCEPT ![i] = None]
             /\ UNCHANGED <<dirs, leftover>>
    <3>1. req'[r].pc = "remove" /\ req'[r].on = i
      BY <2>4, GoesMoves DEF Moves, Pc
    <3>2. \A x \in Id \ {i} : scripts'[x] = scripts[x]
      BY <2>4 DEF TableType
    <3>3. \A x : Going(x) => Going(x)'
      BY <1>0, <2>2
    <3>4. \A x \in dirs \ leftover : x \in Id /\ (Has(scripts, x) \/ Going(x))
      BY DEF DirectoryHasScript, TableType
    <3>5. Going(i)'
      BY <3>1
    <3> HIDE DEF Going
    <3>6. \A x \in dirs' \ leftover' : Has(scripts, x)' \/ Going(x)'
      BY <2>4, <3>2, <3>3, <3>4, <3>5 DEF Has
    <3> USE DEF Going
    <3> QED BY <3>6 DEF DirectoryHasScript
  <2> QED BY <2>1, <2>3, <2>4
<1>7. CASE RemoveDirectory(r) \/ RemoveFails(r)
  <2>1. /\ UNCHANGED scripts /\ dirs' \subseteq dirs /\ leftover \subseteq leftover'
        /\ req[r].on \notin dirs' \/ req[r].on \in leftover'
    BY <1>7 DEF RemoveDirectory, RemoveFails, tables, history
  <2>2. \A x : Going(x) => Going(x)' \/ x = req[r].on
    BY <1>0
  <2>3. \A x \in dirs' \ leftover' : Has(scripts, x)' \/ Going(x)'
    BY <2>1, <2>2 DEF DirectoryHasScript, Has
  <2> QED BY <2>3 DEF DirectoryHasScript
<1> QED BY <1>2, <1>3, <1>4, <1>5, <1>6, <1>7 DEF CatalogueNext

LEMMA OthersDirsOk ==
  ASSUME DirectoryHasScript, ReqType, TableType,
         \/ (\E r \in Request : Tasks(r)) \/ Restart
         \/ (\E i \in Id : UseJob(i) \/ StartTask(i)) \/ UNCHANGED vars
  PROVE  DirectoryHasScript'
<1>1. UNCHANGED <<scripts, dirs>> /\ leftover \subseteq leftover'
  BY TasksKeepScripts
<1>2. \A q \in Request : req[q].pc = "remove" => req'[q] = req[q] \/ req[q].on \in leftover'
  <2>1. CASE \E r \in Request : Tasks(r)
    <3>1. PICK r \in Request : Tasks(r)
      BY <2>1
    <3>2. req[r].pc # "remove" /\ \A q \in Request \ {r} : req'[q] = req[q]
      BY <3>1, TaskMoves DEF Moves, TaskPc
    <3> QED BY <3>2
  <2>2. CASE Restart
    BY <2>2 DEF Restart
  <2>3. CASE (\E i \in Id : UseJob(i) \/ StartTask(i)) \/ UNCHANGED vars
    BY <2>3 DEF UseJob, StartTask, vars, catalogue_vars
  <2> QED BY <2>1, <2>2, <2>3
<1> QED BY <1>1, <1>2 DEF DirectoryHasScript, Has

-----------------------------------------------------------------------------
(* The invariant.                                                          *)

LEMMA OtherTables ==
  ASSUME TableType, Restart \/ (\E i \in Id : UseJob(i) \/ StartTask(i)) \/ UNCHANGED vars
  PROVE  TableType'
<1>1. CASE \E i \in Id : UseJob(i) \/ StartTask(i)
  <2>1. PICK i \in Id : UseJob(i) \/ StartTask(i)
    BY <1>1
  <2>2. sent' \in [Id -> (SUBSET Jobs) \cup {None}]
    BY <2>1, StartTables DEF UseJob, StartTask
  <2>3. UNCHANGED <<scripts, assoc, dirs, tasks>> /\ jobs' \subseteq jobs
    BY <2>1 DEF UseJob, StartTask, catalogue_vars, tables
  <2> QED BY <2>2, <2>3 DEF TableType
<1>2. CASE Restart \/ UNCHANGED vars
  <2>1. UNCHANGED <<scripts, assoc, dirs, tasks, jobs, sent>>
    BY <1>2 DEF Restart, vars, schedule, catalogue_vars, tables
  <2> QED BY <2>1 DEF TableType
<1> QED BY <1>1, <1>2

Inv == ReqType /\ TableType /\ ScriptInv /\ DirectoryHasScript

LEMMA InitInv == Init => Inv
<1> SUFFICES ASSUME Init PROVE Inv
  OBVIOUS
<1>1. PICK requests \in Mixes : CatalogueInit(requests)
  BY DEF Init
<1>2. PICK t \in Type : scripts = [i \in Id |-> IF i \in First THEN t ELSE None]
  BY <1>1 DEF CatalogueInit
<1>3. /\ requests \in [Request -> Asked \cup AskedTask] /\ First \subseteq Id /\ None \notin Type
      /\ assoc = {<<i, i>> : i \in First} /\ dirs = First /\ {} \in Seen
      /\ req = [r \in Request |-> [asked |-> requests[r], pc |-> "new", on |-> None, seen |-> {}]]
  BY <1>1, MixesAssumption, IdAssumption DEF CatalogueInit, Id, Seen
<1>4. ReqType
  <2>1. req \in [Request -> [asked : Asked \cup AskedTask, pc : Pc, on : Id \cup {None}, seen : Seen]]
    BY <1>3 DEF Pc
  <2>2. \A r \in Request : PcFits(r)
    BY <1>3 DEF PcFits
  <2> QED BY <2>1, <2>2 DEF ReqType
<1>5. TableType
  BY <1>2, <1>3 DEF Init, TableType
<1>6. DirectoryHasScript
  BY <1>2, <1>3 DEF DirectoryHasScript, Has
<1>7. ScriptInv
  <2>1. OneEach
    BY <1>2, <1>3 DEF OneEach, Of, Has
  <2>2. ASSUME NEW r \in Request PROVE AddOk(r)
    <3>1. r \in Id /\ r \notin First /\ req[r].pc = "new"
      BY <1>3, IdAssumption DEF Id
    <3>2. scripts[r] = None /\ \A o \in Id : <<o, r>> \notin assoc
      BY <1>2, <1>3, <3>1
    <3> QED BY <3>1, <3>2 DEF AddOk
  <2>3. \A r \in Request : DeleteOk(r)
    BY <1>3 DEF DeleteOk
  <2> QED BY <2>1, <2>2, <2>3 DEF ScriptInv
<1> QED BY <1>4, <1>5, <1>6, <1>7 DEF Inv

LEMMA NextInv == Inv /\ [Next]_vars => Inv'
<1> SUFFICES ASSUME Inv, [Next]_vars PROVE Inv'
  OBVIOUS
<1> USE DEF Inv
<1>1. CASE \E r \in Request : Catalogues(r)
  <2>1. PICK r \in Request : Catalogues(r)
    BY <1>1
  <2>2. CatalogueNext(r) /\ UNCHANGED <<tasks, jobs, sent>>
    BY <2>1 DEF Catalogues
  <2> QED BY <2>2, CatalogueMoves, CatalogueTables, CatalogueScriptsOk, CatalogueDirsOk
<1>2. CASE (\E r \in Request : Tasks(r)) \/ Restart
           \/ (\E i \in Id : UseJob(i) \/ StartTask(i)) \/ UNCHANGED vars
  <2>1. TableType'
    BY <1>2, TaskTables, OtherTables
  <2> QED BY <1>2, <2>1, OthersScriptsOk, OthersDirsOk
<1> QED BY <1>1, <1>2 DEF Next

LEMMA InvAlways == Spec => []Inv
BY InitInv, NextInv, PTL DEF Spec

\* However many requests add, move and delete scripts, an operation has at most one
\* script for a type of host, unless the check for it was overtaken or is not made.
THEOREM OneForType == Spec => []OneScriptPerType
<1>1. Inv => OneScriptPerType
  BY DEF Inv, ScriptInv, OneEach, OneScriptPerType
<1> QED BY <1>1, InvAlways, PTL

\* Whatever fails and whenever the service ends, a directory without a script is
\* about to be removed, or one that the code is known to leave.
THEOREM DirectoryIsOwned == Spec => []DirectoryHasScript
<1>1. Inv => DirectoryHasScript
  BY DEF Inv
<1> QED BY <1>1, InvAlways, PTL

-----------------------------------------------------------------------------
(* Rows and jobs.  A task that is being added has no row yet and at most   *)
(* the job that its request gave it; a request that changes a schedule, or *)
(* deletes a task, finds row and job as it left them if nothing was        *)
(* committed meanwhile.                                                    *)

Adding(r) == Kind(r) = "add task" /\ req[r].pc \in {"new", "detail", "schedule", "commit"}
Deals(r) == req[r].pc \in {"update", "find", "unschedule", "renew", "erase"}

HasJob(i, when) == JobsOf(i) = {<<i, when>>} \ {<<i, "never">>} \/ (JobsOf(i) = {} /\ i \in used)

AddTaskOk(r) ==
  Adding(r) =>
    /\ ~Has(tasks, r) /\ \A q \in Request : Deals(q) => req[q].on # r
    /\ IF req[r].pc = "commit" THEN HasJob(r, req[r].asked.when) ELSE JobsOf(r) = {}

DealOk(r) ==
  Deals(r) /\ r \notin stale =>
    /\ Kind(r) = "modify scheduler" => Has(tasks, req[r].on)
    /\ Kind(r) = "modify scheduler" /\ req[r].pc # "update" =>
         tasks[req[r].on].when = req[r].asked.when
    /\ req[r].pc = "erase" \/ (req[r].pc = "unschedule" /\ req[r].seen = {}) =>
         JobsOf(req[r].on) = {}

Matches(i) == IF Has(tasks, i) THEN HasJob(i, tasks[i].when) ELSE JobsOf(i) = {}
Touched(i) == \E r \in Request : Between(r) /\ Subject(r) = i

JobInv ==
  /\ \A i \in Id \ loose : ~Touched(i) => Matches(i)
  /\ \A r \in Request : AddTaskOk(r) /\ DealOk(r)

\* A step of request r that leaves rows and jobs.
LEMMA JobsStay ==
  ASSUME JobInv, NEW r \in Request, \A q \in Request \ {r} : req'[q] = req[q],
         UNCHANGED <<tasks, jobs, used>>, loose \subseteq loose', stale \subseteq stale',
         Between(r) => (Between(r)' /\ Subject(r)' = Subject(r)) \/ Subject(r) \in loose',
         Deals(r)' => (Deals(r) /\ req'[r].on = req[r].on) \/ Has(tasks, req'[r].on),
         AddTaskOk(r)', DealOk(r)'
  PROVE  JobInv'
<1>1. ASSUME NEW i \in Id \ loose', ~Touched(i)' PROVE Matches(i)'
  <2>1. ASSUME NEW q \in Request, Between(q) PROVE Subject(q) # i
    <3>1. CASE q = r
      BY <1>1, <2>1, <3>1 DEF Touched
    <3>2. CASE q # r
      <4>1. Between(q)' /\ Subject(q)' = Subject(q)
        BY <2>1, <3>2 DEF Between, Subject
      <4> QED BY <1>1, <4>1 DEF Touched
    <3> QED BY <3>1, <3>2
  <2>2. Matches(i)
    BY <1>1, <2>1 DEF JobInv, Touched
  <2> QED BY <2>2 DEF Matches, HasJob, JobsOf, Has
<1>2. ASSUME NEW q \in Request \ {r} PROVE AddTaskOk(q)' /\ DealOk(q)'
  <2>1. AddTaskOk(q) /\ DealOk(q)
    BY DEF JobInv
  <2>2. Adding(q)' => Adding(q)
    BY DEF Adding, Kind
  <2>3. Adding(q) => \A p \in Request : Deals(p)' => req'[p].on # q
    BY <2>1 DEF AddTaskOk, Deals
  <2>4. AddTaskOk(q)'
    BY <2>1, <2>2, <2>3 DEF AddTaskOk, HasJob, JobsOf, Has
  <2>5. DealOk(q)'
    BY <2>1 DEF DealOk, Deals, Kind, JobsOf, Has
  <2> QED BY <2>4, <2>5
<1> QED BY <1>1, <1>2 DEF JobInv

\* A step of request r that changes the row or the job of its task.
LEMMA JobsChange ==
  ASSUME JobInv, NEW r \in Request, \A q \in Request \ {r} : req'[q] = req[q],
         NEW s \in Id, s = Subject(r), Kind(r) = "add task" \/ Deals(r), Commits(r),
         Deals(r)' => Deals(r) /\ req'[r].on = req[r].on,
         \A i \in Id \ {s} : tasks'[i] = tasks[i] /\ JobsOf(i)' = JobsOf(i) /\ (i \in used' <=> i \in used),
         loose \subseteq loose', AddTaskOk(r)', DealOk(r)',
         s \in loose' \/ (Between(r)' /\ Subject(r)' = s) \/ Matches(s)'
  PROVE  JobInv'
<1>1. ASSUME NEW i \in Id \ loose', ~Touched(i)' PROVE Matches(i)'
  <2>1. CASE i = s
    BY <1>1, <2>1 DEF Touched
  <2>2. CASE i # s
    <3>1. ASSUME NEW q \in Request, Between(q) PROVE Subject(q) # i
      <4>1. CASE q = r
        BY <2>2, <4>1
      <4>2. CASE q # r
        <5>1. Between(q)' /\ Subject(q)' = Subject(q)
          BY <3>1, <4>2 DEF Between, Subject
        <5> QED BY <1>1, <5>1 DEF Touched
      <4> QED BY <4>1, <4>2
    <3>2. Matches(i)
      BY <1>1, <3>1 DEF JobInv, Touched
    <3> QED BY <2>2, <3>2 DEF Matches, HasJob, Has
  <2> QED BY <2>1, <2>2
<1>2. ASSUME NEW q \in Request \ {r} PROVE AddTaskOk(q)' /\ DealOk(q)'
  <2>1. AddTaskOk(q) /\ DealOk(q) /\ q \in Id
    BY DEF JobInv, Id
  <2>2. Adding(q)' => Adding(q)
    BY DEF Adding, Kind
  <2>3. Adding(q) => q # s
    BY <2>1 DEF AddTaskOk, Subject, Kind
  <2>4. Adding(q) => \A p \in Request : Deals(p)' => req'[p].on # q
    BY <2>1 DEF AddTaskOk, Deals
  <2>5. AddTaskOk(q)'
    BY <2>1, <2>2, <2>3, <2>4 DEF AddTaskOk, HasJob, Has
  <2>6. Deals(q)' => q \in stale'
    BY DEF Deals, Commits, Open
  <2> QED BY <2>5, <2>6 DEF DealOk
<1> QED BY <1>1, <1>2 DEF JobInv

\* What a job more, or less, means for the jobs of each task.
LEMMA JobsGain ==
  ASSUME NEW i, NEW W, jobs' = jobs \cup {<<i, w>> : w \in W}
  PROVE  JobsOf(i)' = JobsOf(i) \cup {<<i, w>> : w \in W} /\ \A x : x # i => JobsOf(x)' = JobsOf(x)
BY DEF JobsOf

LEMMA JobsLose ==
  ASSUME NEW i, jobs' = jobs \ JobsOf(i)
  PROVE  JobsOf(i)' = {} /\ \A x : x # i => JobsOf(x)' = JobsOf(x)
BY DEF JobsOf

LEMMA AddTaskJobsOk ==
  ASSUME JobInv, ReqType, TableType, NEW r \in Request, Tasks(r),
         AddTaskCheck(r) \/ AddTaskDetail(r) \/ AddTaskJob(r) \/ AddTaskCommit(r) \/ AddTaskFails(r)
  PROVE  JobInv'
<1>1. /\ Kind(r) = "add task" /\ Adding(r) /\ ~Deals(r) /\ r \in Id /\ Subject(r) = r
  <2>1. PcFits(r) /\ r \in Id
    BY DEF ReqType, Id
  <2>2. Kind(r) = "add task" /\ Adding(r)
    BY <2>1 DEF AddTaskCheck, AddTaskDetail, AddTaskJob, AddTaskCommit, AddTaskFails, Starts, Begins,
      PcFits, Kind, Adding
  <2> QED BY <2>1, <2>2 DEF Adding, Deals, Subject, Kind
<1>2. /\ \A q \in Request \ {r} : req'[q] = req[q]
      /\ req'[r].asked = req[r].asked /\ Kind(r)' = "add task" /\ Subject(r)' = r
  BY <1>1, TaskMoves DEF Moves, Batch, Kind, Subject
<1>3. AddTaskOk(r) /\ \A q \in Request : Deals(q) => req[q].on # r
  BY <1>1 DEF JobInv, AddTaskOk
<1>4. \A q \in Request \ {r} : Deals(q)' => req'[q].on # r
  BY <1>2, <1>3 DEF Deals
<1>5. CASE AddTaskCheck(r) \/ AddTaskDetail(r) \/ AddTaskFails(r)
  <2>1. req'[r].pc \in {"detail", "schedule", "done"}
    <3>1. CASE AddTaskCheck(r) \/ AddTaskFails(r)
      <4>1. \E pc \in {"detail", "done"} : Goes(r, pc)
        BY <3>1 DEF AddTaskCheck, AddTaskFails
      <4> QED BY <4>1, GoesMoves DEF Moves, Pc
    <3>2. CASE AddTaskDetail(r)
      BY <3>2 DEF AddTaskDetail, Turns, ReqType
    <3> QED BY <1>5, <3>1, <3>2
  <2>2. /\ UNCHANGED <<tasks, jobs, used, stale>> /\ loose \subseteq loose'
        /\ req[r].pc = "commit" => r \in loose' /\ req'[r].pc = "done"
    <3>1. AddTaskFails(r) => req'[r].pc = "done"
      BY GoesMoves DEF AddTaskFails, Moves, Pc
    <3> QED BY <1>5, <3>1 DEF AddTaskCheck, AddTaskDetail, AddTaskFails, Starts, Begins, schedule
  <2>3. Between(r) => r \in loose'
    BY <1>1, <2>2 DEF Between, Adding
  <2>4. AddTaskOk(r)'
    BY <1>1, <1>3, <1>4, <2>1, <2>2 DEF AddTaskOk, Adding, Deals, JobsOf, Has
  <2>5. ~Deals(r)' /\ DealOk(r)'
    BY <2>1 DEF Deals, DealOk
  <2> QED BY <1>1, <1>2, <2>2, <2>3, <2>4, <2>5, JobsStay
<1>6. CASE AddTaskJob(r)
  <2> DEFINE W == {req[r].asked.when} \ {"never"}
  <2>1. req'[r].pc = "commit"
    BY <1>6, GoesMoves DEF AddTaskJob, Moves, Pc
  <2>2. /\ UNCHANGED <<tasks, used, loose>> /\ Commits(r) /\ req[r].pc = "schedule"
        /\ jobs' = jobs \cup {<<r, w>> : w \in W}
    BY <1>6 DEF AddTaskJob
  <2>3. JobsOf(r)' = JobsOf(r) \cup {<<r, w>> : w \in W} /\ \A x : x # r => JobsOf(x)' = JobsOf(x)
    BY <2>2, JobsGain
  <2>4. JobsOf(r) = {}
    BY <1>1, <1>3, <2>2 DEF AddTaskOk
  <2>5. HasJob(r, req[r].asked.when)'
    <3>1. {<<r, w>> : w \in W} = {<<r, req[r].asked.when>>} \ {<<r, "never">>}
      OBVIOUS
    <3> QED BY <1>2, <2>3, <2>4, <3>1 DEF HasJob
  <2>6. AddTaskOk(r)'
    BY <1>1, <1>2, <1>3, <1>4, <2>1, <2>2, <2>5 DEF AddTaskOk, Adding, Deals, Has
  <2>7. ~Deals(r)' /\ DealOk(r)' /\ Between(r)'
    BY <2>1 DEF Deals, DealOk, Between
  <2> HIDE DEF W
  <2> QED BY <1>1, <1>2, <2>2, <2>3, <2>6, <2>7, JobsChange
<1>7. CASE AddTaskCommit(r)
  <2> DEFINE a == req[r].asked
             new == [name |-> a.name, operate |-> a.operate, types |-> a.types,
                     detail |-> req[r].seen, when |-> a.when]
  <2>1. /\ tasks' = [tasks EXCEPT ![r] = new] /\ UNCHANGED <<jobs, used, loose>> /\ Commits(r)
        /\ req[r].pc = "commit"
    BY <1>7 DEF AddTaskCommit
  <2>2. req'[r].pc = "done"
    BY <1>7, GoesMoves DEF AddTaskCommit, Moves, Pc
  <2>3. new # None /\ new.when = a.when
    <3>1. req[r].seen \in Detail /\ a \in AskedTask
      BY <1>1, <2>1, AskedKinds DEF ReqType, PcFits, TaskDo
    <3>2. new \in Row
      BY <3>1 DEF AskedTask, Row
    <3> QED BY <3>2, NoneAssumption
  <2>4. HasJob(r, a.when)
    BY <1>1, <1>3, <2>1 DEF AddTaskOk
  <2> HIDE DEF new
  <2>5. tasks'[r] = new /\ \A i \in Id \ {r} : tasks'[i] = tasks[i]
    BY <1>1, <2>1 DEF TableType
  <2>6. Matches(r)'
    BY <2>1, <2>3, <2>4, <2>5 DEF Matches, HasJob, JobsOf, Has
  <2>7. ~Adding(r)' /\ ~Deals(r)' /\ AddTaskOk(r)' /\ DealOk(r)'
    BY <2>2 DEF Adding, Deals, AddTaskOk, DealOk
  <2>8. \A i \in Id \ {r} : JobsOf(i)' = JobsOf(i) /\ (i \in used' <=> i \in used)
    BY <2>1 DEF JobsOf
  <2> QED BY <1>1, <1>2, <2>1, <2>5, <2>6, <2>7, <2>8, JobsChange
<1> QED BY <1>5, <1>6, <1>7

\* What a request that changes a schedule or deletes tasks is about.
LEMMA Dealings ==
  ASSUME ReqType, TableType, NEW r \in Request, Tasks(r), Kind(r) # "add task"
  PROVE  /\ \A q \in Request \ {r} : req'[q] = req[q]
         /\ Kind(r)' = Kind(r) /\ Kind(r) \in {"modify scheduler", "delete tasks"}
         /\ Subject(r) = req[r].on /\ Subject(r)' = req'[r].on
         /\ Deals(r) => req[r].on \in Id
         /\ Kind(r) = "modify scheduler" => req'[r].asked = req[r].asked
         /\ AddTaskOk(r)'
<1>1. /\ \A q \in Request \ {r} : req'[q] = req[q]
      /\ Kind(r)' = Kind(r) /\ Kind(r) \in {"modify scheduler", "delete tasks"}
      /\ Kind(r) = "modify scheduler" => req'[r].asked = req[r].asked
  BY TaskMoves DEF Moves, Kind, Batch, TaskDo
<1>2. Deals(r) => req[r].on \in Id
  BY DEF ReqType, PcFits, Deals
<1> QED BY <1>1, <1>2 DEF Subject, Kind, AddTaskOk, Adding

LEMMA ModifyJobsOk ==
  ASSUME JobInv, ReqType, TableType, NEW r \in Request, Tasks(r),
         ModifyRead(r) \/ ModifyUpdate(r) \/ ModifyRemove(r) \/ ModifyAdd(r)
  PROVE  JobInv'
<1> PICK i : i = req[r].on
  OBVIOUS
<1>1. PcFits(r) /\ DealOk(r) /\ Kind(r) = "modify scheduler"
  <2>1. PcFits(r) /\ DealOk(r)
    BY DEF ReqType, JobInv
  <2> QED BY <2>1 DEF ModifyRead, ModifyUpdate, ModifyRemove, ModifyAdd, Starts, Begins, PcFits, Kind
<1>2. /\ \A q \in Request \ {r} : req'[q] = req[q]
      /\ Kind(r)' = "modify scheduler" /\ req'[r].asked = req[r].asked
      /\ Subject(r) = req[r].on /\ Subject(r)' = req'[r].on /\ AddTaskOk(r)'
      /\ Deals(r) => i \in Id
  BY <1>1, Dealings
<1>3. r \in stale' <=> r \in stale
  BY DEF ModifyRead, ModifyUpdate, ModifyRemove, ModifyAdd, RemoveJob, Commits
<1>4. CASE ModifyRead(r)
  <2>1. PICK k \in req[r].asked.ids :
          Turns(r, req[r].asked.ids, IF Has(tasks, k) THEN "update" ELSE "done", k, req[r].seen)
    BY <1>4 DEF ModifyRead
  <2>2. req'[r].pc = (IF Has(tasks, k) THEN "update" ELSE "done") /\ req'[r].on = k
    BY <2>1 DEF Turns, ReqType
  <2>3. ~Between(r) /\ UNCHANGED <<tasks, jobs, used, loose, stale>>
    BY <1>4 DEF ModifyRead, Starts, Begins, Between
  <2>4. DealOk(r)' /\ (Deals(r)' => Has(tasks, req'[r].on))
    BY <2>2, <2>3 DEF DealOk, Deals, Has
  <2> QED BY <1>2, <2>3, <2>4, JobsStay
<1>5. CASE ModifyUpdate(r)
  <2>1. Goes(r, "find") /\ Commits(r) /\ req[r].pc = "update" /\ Deals(r) /\ i \in Id
    BY <1>2, <1>5 DEF ModifyUpdate, Deals
  <2>2. req'[r].pc = "find" /\ req'[r].on = i
    BY <2>1, GoesMoves DEF Moves, Pc
  <2>3. UNCHANGED <<jobs, used>> /\ loose \subseteq loose'
    BY <1>5 DEF ModifyUpdate, Loosens
  <2>4. tasks' = IF Has(tasks, i) THEN [tasks EXCEPT ![i].when = req[r].asked.when] ELSE tasks
    BY <1>5 DEF ModifyUpdate
  <2>5. \A x \in Id \ {i} : tasks'[x] = tasks[x] /\ JobsOf(x)' = JobsOf(x) /\ (x \in used' <=> x \in used)
    BY <2>3, <2>4 DEF TableType, JobsOf
  <2>6. Has(tasks, i) => Has(tasks, i)' /\ tasks'[i].when = req[r].asked.when
    <3> SUFFICES ASSUME Has(tasks, i) PROVE Has(tasks, i)' /\ tasks'[i].when = req[r].asked.when
      OBVIOUS
    <3>1. tasks[i] \in Row /\ req[r].asked.when \in When
      <4>1. req[r].asked \in AskedTask
        BY <1>1, AskedKinds DEF TaskDo
      <4> QED BY <2>1, <4>1 DEF TableType, Has, AskedTask
    <3>2. tasks'[i] = [tasks[i] EXCEPT !.when = req[r].asked.when]
      BY <2>1, <2>4 DEF TableType
    <3>3. tasks'[i] \in Row /\ tasks'[i].when = req[r].asked.when
      BY <3>1, <3>2 DEF Row
    <3> QED BY <3>3, NoneAssumption DEF Has
  <2>7. DealOk(r)'
    BY <1>1, <1>2, <1>3, <2>1, <2>2, <2>6 DEF DealOk, Has
  <2>8. Between(r)' /\ Subject(r)' = i
    BY <1>2, <2>2 DEF Between, Kind
  <2> QED BY <1>2, <2>1, <2>2, <2>3, <2>5, <2>7, <2>8, JobsChange
<1>6. CASE ModifyRemove(r)
  <2>1. /\ Commits(r) /\ req[r].pc = "unschedule" /\ Deals(r) /\ i \in Id
        /\ Goes(r, IF req[r].asked.when = "never" THEN "done" ELSE "renew")
        /\ IF req[r].seen = {} THEN UNCHANGED jobs ELSE jobs' = jobs \ JobsOf(i)
        /\ UNCHANGED <<tasks, used>> /\ loose' = IF r \in stale THEN loose \cup {i} ELSE loose
    BY <1>2, <1>6 DEF ModifyRemove, RemoveJob, Deals, Loosens
  <2>2. req'[r].pc = (IF req[r].asked.when = "never" THEN "done" ELSE "renew") /\ req'[r].on = i
    BY <2>1, GoesMoves DEF Moves, Pc
  <2>3. \A x \in Id \ {i} : JobsOf(x)' = JobsOf(x)
    BY <2>1, JobsLose DEF JobsOf
  <2>4. r \notin stale => JobsOf(i)' = {}
    <3>1. r \notin stale /\ req[r].seen = {} => JobsOf(i) = {}
      BY <1>1, <2>1 DEF DealOk
    <3> QED BY <2>1, <3>1, JobsLose DEF JobsOf
  <2>5. r \notin stale => Has(tasks, i) /\ tasks[i].when = req[r].asked.when
    BY <1>1, <2>1 DEF DealOk
  <2>6. DealOk(r)'
    BY <1>2, <1>3, <2>1, <2>2, <2>5 DEF DealOk, Has, Deals
  <2>7. i \in loose' \/ (Between(r)' /\ Subject(r)' = i) \/ Matches(i)'
    <3>1. CASE r \in stale
      BY <2>1, <3>1
    <3>2. CASE r \notin stale /\ req[r].asked.when = "never"
      BY <2>1, <2>4, <2>5, <3>2 DEF Matches, HasJob, Has
    <3>3. CASE req[r].asked.when # "never"
      BY <1>2, <2>2, <3>3 DEF Between
    <3> QED BY <3>1, <3>2, <3>3
  <2>8. Deals(r)' => Deals(r) /\ req'[r].on = req[r].on
    BY <2>1, <2>2
  <2> QED BY <1>2, <2>1, <2>3, <2>6, <2>7, <2>8, JobsChange
<1>7. CASE ModifyAdd(r)
  <2> DEFINE when == req[r].asked.when
  <2>1. /\ Commits(r) /\ req[r].pc = "renew" /\ Deals(r) /\ i \in Id /\ Goes(r, "done")
        /\ JobsOf(i) = {} /\ jobs' = jobs \cup {<<i, when>>} /\ when # "never"
        /\ UNCHANGED tasks /\ used' = used \ {i}
        /\ loose' = IF r \in stale THEN loose \cup {i} ELSE loose
    BY <1>1, <1>2, <1>7 DEF ModifyAdd, Deals, Loosens, PcFits
  <2>2. req'[r].pc = "done" /\ ~Deals(r)' /\ DealOk(r)'
    BY <2>1, GoesMoves DEF Moves, Pc, Deals, DealOk
  <2>4. JobsOf(i)' = {<<i, when>>} /\ \A x \in Id \ {i} : JobsOf(x)' = JobsOf(x)
    BY <2>1 DEF JobsOf
  <2>5. r \notin stale => Has(tasks, i) /\ tasks[i].when = when
    BY <1>1, <2>1 DEF DealOk
  <2>6. i \in loose' \/ Matches(i)'
    BY <2>1, <2>4, <2>5 DEF Matches, HasJob, Has
  <2> HIDE DEF when
  <2> QED BY <1>2, <2>1, <2>2, <2>4, <2>6, JobsChange
<1> QED BY <1>4, <1>5, <1>6, <1>7

LEMMA DeleteJobsOk ==
  ASSUME JobInv, ReqType, TableType, NEW r \in Request, Tasks(r),
         DeleteRead(r) \/ DeleteJob(r) \/ DeleteTask(r) \/ DeleteFails(r)
  PROVE  JobInv'
<1> PICK i : i = req[r].on
  OBVIOUS
<1>1. PcFits(r) /\ DealOk(r) /\ Kind(r) = "delete tasks"
  <2>1. PcFits(r) /\ DealOk(r)
    BY DEF ReqType, JobInv
  <2> QED BY <2>1 DEF DeleteRead, DeleteJob, DeleteTask, DeleteFails, Starts, Begins, PcFits, Kind
<1>2. /\ \A q \in Request \ {r} : req'[q] = req[q]
      /\ Kind(r)' = "delete tasks"
      /\ Subject(r) = req[r].on /\ Subject(r)' = req'[r].on /\ AddTaskOk(r)'
      /\ Deals(r) => i \in Id
  BY <1>1, Dealings
<1>3. r \in stale' <=> r \in stale
  BY DEF DeleteRead, DeleteJob, DeleteTask, DeleteFails, RemoveJob, Commits
<1>4. CASE DeleteRead(r)
  <2>1. PICK k \in req[r].asked.ids :
          IF Has(tasks, k) THEN Turns(r, req[r].asked.ids, "find", k, req[r].seen) ELSE Missing(r, k)
    BY <1>4 DEF DeleteRead
  <2>2. req[r].pc = "new" /\ ~Between(r) /\ UNCHANGED <<tasks, jobs, used, loose, stale>>
    BY <1>4 DEF DeleteRead, Starts, Begins, Between
  <2>3. \/ req'[r].pc = "find" /\ Has(tasks, req'[r].on)
        \/ req'[r].pc \in {"new", "done"}
    <3>1. CASE Has(tasks, k)
      BY <2>1, <3>1 DEF Turns, ReqType
    <3>2. CASE ~Has(tasks, k)
      <4>1. k \in Id /\ Missing(r, k)
        BY <2>1, <3>2, AskedKinds
      <4> QED BY <2>2, <4>1, MissingMoves DEF Moves
    <3> QED BY <3>1, <3>2
  <2>4. DealOk(r)' /\ (Deals(r)' => Has(tasks, req'[r].on))
    BY <1>2, <2>3 DEF DealOk, Deals
  <2> QED BY <1>2, <2>2, <2>4, JobsStay
<1>5. CASE DeleteJob(r)
  <2>1. /\ Commits(r) /\ req[r].pc = "unschedule" /\ Deals(r) /\ i \in Id /\ Goes(r, "erase")
        /\ IF req[r].seen = {} THEN UNCHANGED jobs ELSE jobs' = jobs \ JobsOf(i)
        /\ UNCHANGED <<tasks, used, loose>>
    BY <1>2, <1>5 DEF DeleteJob, RemoveJob, Deals
  <2>2. req'[r].pc = "erase" /\ req'[r].on = i
    BY <2>1, GoesMoves DEF Moves, Pc
  <2>3. \A x \in Id \ {i} : JobsOf(x)' = JobsOf(x)
    BY <2>1, JobsLose DEF JobsOf
  <2>4. r \notin stale => JobsOf(i)' = {}
    <3>1. r \notin stale /\ req[r].seen = {} => JobsOf(i) = {}
      BY <1>1, <2>1 DEF DealOk
    <3> QED BY <2>1, <3>1, JobsLose DEF JobsOf
  <2>5. DealOk(r)'
    BY <1>2, <1>3, <2>2, <2>4 DEF DealOk, JobsOf
  <2>6. Between(r)' /\ Subject(r)' = i
    BY <1>2, <2>2 DEF Between
  <2> QED BY <1>2, <2>1, <2>2, <2>3, <2>5, <2>6, JobsChange
<1>6. CASE DeleteTask(r) \/ DeleteFails(r)
  <2>1. req[r].pc = "erase" /\ NextId(r) /\ Deals(r) /\ i \in Id
    BY <1>2, <1>6 DEF DeleteTask, DeleteFails, Deals
  <2>2. req'[r].pc \in {"new", "done"}
    BY <2>1, NextIdMoves DEF Moves
  <2>3. ~Deals(r)' /\ DealOk(r)'
    BY <2>2 DEF Deals, DealOk
  <2>4. CASE DeleteTask(r)
    <3>1. /\ Commits(r) /\ tasks' = [tasks EXCEPT ![i] = None] /\ UNCHANGED <<jobs, used>>
          /\ loose' = IF r \in stale THEN loose \cup {i} ELSE loose
      BY <2>4 DEF DeleteTask, Loosens
    <3>2. tasks'[i] = None /\ \A x \in Id \ {i} : tasks'[x] = tasks[x]
      BY <2>1, <3>1 DEF TableType
    <3>3. \A x : JobsOf(x)' = JobsOf(x)
      BY <3>1 DEF JobsOf
    <3>4. i \in loose' \/ Matches(i)'
      BY <1>1, <2>1, <3>1, <3>2, <3>3 DEF DealOk, Matches, Has
    <3> QED BY <1>2, <2>1, <2>3, <3>1, <3>2, <3>3, <3>4, JobsChange
  <2>5. CASE DeleteFails(r)
    <3>1. UNCHANGED <<tasks, jobs, used, stale>> /\ loose' = loose \cup {i}
      BY <2>5 DEF DeleteFails
    <3> QED BY <1>2, <2>3, <3>1, JobsStay
  <2> QED BY <1>6, <2>4, <2>5
<1> QED BY <1>4, <1>5, <1>6

LEMMA FindJobsOk ==
  ASSUME JobInv, ReqType, TableType, NEW r \in Request, Tasks(r), FindJob(r) \/ JobFails(r)
  PROVE  JobInv'
<1> DEFINE i == req[r].on
<1>1. PcFits(r) /\ DealOk(r) /\ Kind(r) \in {"modify scheduler", "delete tasks"} /\ Deals(r)
  <2>1. PcFits(r) /\ DealOk(r)
    BY DEF ReqType, JobInv
  <2> QED BY <2>1 DEF FindJob, JobFails, PcFits, Deals
<1>2. /\ \A q \in Request \ {r} : req'[q] = req[q]
      /\ Kind(r)' = Kind(r) /\ (Kind(r) = "modify scheduler" => req'[r].asked = req[r].asked)
      /\ Subject(r) = req[r].on /\ Subject(r)' = req'[r].on /\ AddTaskOk(r)'
  BY <1>1, Dealings
<1>3. CASE FindJob(r)
  <2>1. /\ Turns(r, req[r].asked.ids, "unschedule", i, JobsOf(i)) /\ req[r].pc = "find"
        /\ UNCHANGED <<tasks, jobs, used, loose, stale>>
    BY <1>3 DEF FindJob, schedule
  <2>2. req'[r].pc = "unschedule" /\ req'[r].on = i /\ req'[r].seen = JobsOf(i)
    BY <2>1 DEF Turns, ReqType
  <2>3. Between(r) => Between(r)' /\ Subject(r)' = Subject(r)
    BY <1>2, <2>1, <2>2 DEF Between, Kind
  <2>4. DealOk(r)'
    BY <1>1, <1>2, <2>1, <2>2 DEF DealOk, JobsOf, Has
  <2> QED BY <1>1, <1>2, <2>1, <2>2, <2>3, <2>4, JobsStay
<1>4. CASE JobFails(r)
  <2>1. /\ Goes(r, "done") /\ UNCHANGED <<tasks, jobs, used, stale>> /\ loose \subseteq loose'
        /\ Kind(r) = "modify scheduler" => i \in loose'
        /\ req[r].pc \in {"find", "unschedule", "renew"}
    BY <1>4 DEF JobFails, Kind
  <2>2. req'[r].pc = "done" /\ ~Deals(r)' /\ DealOk(r)'
    BY <2>1, GoesMoves DEF Moves, Pc, Deals, DealOk
  <2>3. Between(r) => Subject(r) \in loose'
    BY <1>1, <1>2, <2>1 DEF Between, PcFits, Kind
  <2> QED BY <1>2, <2>1, <2>2, <2>3, JobsStay
<1> QED BY <1>3, <1>4

LEMMA CatalogueJobsOk ==
  ASSUME JobInv, ReqType, TableType, NEW r \in Request, Catalogues(r)
  PROVE  JobInv'
<1>1. CatalogueNext(r) /\ UNCHANGED <<tasks, jobs, used, loose>>
  BY DEF Catalogues
<1>2. /\ Kind(r) \in Do /\ Kind(r)' = Kind(r) /\ req[r].pc \in {"new", "write", "remove"}
      /\ req'[r].pc \in {"new", "write", "remove", "done"}
      /\ \A q \in Request \ {r} : req'[q] = req[q]
  BY <1>1, CatalogueMoves DEF Moves, Kind
<1>3. stale \subseteq stale'
  BY <1>1 DEF CatalogueNext, AddOperate, ModifyOperate, AddCommand, ModifyCommand,
    DeleteCommand, DeleteOperate, AddScript, ModifyScript, DeleteScript, Upload, RemoveDirectory,
    RemoveFails, WriteFails, Commits, history
<1>4. ~Between(r) /\ ~Deals(r)' /\ AddTaskOk(r)' /\ DealOk(r)'
  BY <1>2 DEF Between, Deals, AddTaskOk, Adding, DealOk, Do
<1> QED BY <1>1, <1>2, <1>3, <1>4, JobsStay

LEMMA RestartJobsOk ==
  ASSUME JobInv, ReqType, Restart
  PROVE  JobInv'
<1>1. /\ UNCHANGED <<tasks, jobs, used>> /\ loose \subseteq loose'
      /\ \A q \in Request : Between(q) => Subject(q) \in loose'
  BY DEF Restart
<1>2. \A q \in Request : IF req[q].pc = "new" THEN req'[q] = req[q] ELSE req'[q].pc = "done"
  BY RestartMoves
<1>3. ASSUME NEW i \in Id \ loose' PROVE Matches(i)'
  <2>1. Matches(i)
    BY <1>1 DEF JobInv, Touched
  <2> QED BY <1>1, <2>1 DEF Matches, HasJob, JobsOf, Has
<1>4. \A q \in Request : ~Deals(q)'
  BY <1>2 DEF Deals
<1>5. ASSUME NEW q \in Request PROVE AddTaskOk(q)' /\ DealOk(q)'
  <2>1. AddTaskOk(q) /\ (Adding(q)' => Adding(q) /\ req[q].pc = "new" /\ req'[q].pc = "new")
    BY <1>2 DEF JobInv, Adding, Kind
  <2> QED BY <1>1, <1>4, <2>1 DEF AddTaskOk, DealOk, JobsOf, Has
<1> QED BY <1>3, <1>5 DEF JobInv

LEMMA UseJobOk ==
  ASSUME JobInv, \/ \E i \in Id : UseJob(i) \/ StartTask(i)
                 \/ UNCHANGED vars
  PROVE  JobInv'
<1>1. /\ UNCHANGED <<req, tasks, loose, stale>>
      /\ \/ UNCHANGED <<jobs, used>>
         \/ \E i \in Id : /\ <<i, "single">> \in jobs /\ jobs' = jobs \ {<<i, "single">>}
                          /\ used' = used \cup {i}
  BY DEF UseJob, StartTask, vars, schedule, catalogue_vars
<1>2. \A x : JobsOf(x) = {} => JobsOf(x)' = {}
  BY <1>1 DEF JobsOf
<1>3. ASSUME NEW x, NEW w, HasJob(x, w) PROVE HasJob(x, w)'
  <2>1. CASE UNCHANGED <<jobs, used>>
    BY <1>3, <2>1 DEF HasJob, JobsOf
  <2>2. CASE \E i \in Id : /\ <<i, "single">> \in jobs /\ jobs' = jobs \ {<<i, "single">>}
                           /\ used' = used \cup {i}
    <3>1. PICK i \in Id : /\ <<i, "single">> \in jobs /\ jobs' = jobs \ {<<i, "single">>}
                          /\ used' = used \cup {i}
      BY <2>2
    <3>2. CASE x = i
      <4>1. <<i, "single">> \in JobsOf(i) /\ JobsOf(i)' = JobsOf(i) \ {<<i, "single">>}
        BY <3>1 DEF JobsOf
      <4>2. JobsOf(i) = {<<i, "single">>}
        BY <1>3, <3>2, <4>1 DEF HasJob
      <4>3. JobsOf(x)' = {} /\ x \in used'
        BY <3>1, <3>2, <4>1, <4>2
      <4> QED BY <4>3 DEF HasJob
    <3>3. CASE x # i
      <4>1. JobsOf(x)' = JobsOf(x) /\ (x \in used' <=> x \in used)
        BY <3>1, <3>3 DEF JobsOf
      <4> QED BY <1>3, <4>1 DEF HasJob
    <3> QED BY <3>2, <3>3
  <2> QED BY <1>1, <2>1, <2>2
<1>4. ASSUME NEW i \in Id \ loose', ~Touched(i)' PROVE Matches(i)'
  <2>1. Matches(i)
    BY <1>1, <1>4 DEF JobInv, Touched, Between, Subject
  <2> QED BY <1>1, <1>2, <1>3, <2>1 DEF Matches, Has
<1>5. ASSUME NEW q \in Request PROVE AddTaskOk(q)' /\ DealOk(q)'
  <2>1. AddTaskOk(q) /\ DealOk(q)
    BY DEF JobInv
  <2>2. AddTaskOk(q)'
    BY <1>1, <1>2, <1>3, <2>1 DEF AddTaskOk, Adding, Deals, Kind, Has
  <2>3. DealOk(q)'
    BY <1>1, <1>2, <2>1 DEF DealOk, Deals, Kind, Has
  <2> QED BY <2>2, <2>3
<1> QED BY <1>4, <1>5 DEF JobInv

LEMMA JobsAlways == Spec => []JobInv
<1>1. Init => JobInv
  <2> SUFFICES ASSUME Init PROVE JobInv
    OBVIOUS
  <2>1. (\A i \in Id : tasks[i] = None) /\ jobs = {} /\ (\A r \in Request : req[r].pc = "new" /\ r \in Id)
    BY DEF Init, CatalogueInit, Id
  <2>2. \A i : JobsOf(i) = {}
    BY <2>1 DEF JobsOf
  <2> QED BY <2>1, <2>2 DEF JobInv, Matches, Has, AddTaskOk, DealOk, Deals
<1>2. Inv /\ JobInv /\ [Next]_vars => JobInv'
  <2> SUFFICES ASSUME Inv, JobInv, [Next]_vars PROVE JobInv'
    OBVIOUS
  <2>1. ReqType /\ TableType
    BY DEF Inv
  <2>2. ASSUME NEW r \in Request, Tasks(r) PROVE JobInv'
    BY <2>1, <2>2, AddTaskJobsOk, ModifyJobsOk, DeleteJobsOk, FindJobsOk DEF Tasks
  <2> QED BY <2>1, <2>2, CatalogueJobsOk, RestartJobsOk, UseJobOk DEF Next
<1> QED BY <1>1, <1>2, InvAlways, PTL DEF Spec

\* Whatever requests add, reschedule and delete tasks at the same time, fail or end with
\* the service, rows and jobs fit, except for tasks of requests that failed or were
\* overtaken between the two, and while one is between the two.
THEOREM JobsFitRows == Spec => []JobsMatchTasks
<1>1. JobInv => JobsMatchTasks
  BY DEF JobInv, JobsMatchTasks, Matches, Touched, HasJob
<1> QED BY <1>1, JobsAlways, PTL

-----------------------------------------------------------------------------
(* What a start sends.  The scripts of a task, or of one that is being     *)
(* added, are those its operation has for its types, and what was sent is  *)
(* made of them.                                                           *)

\* detail has one of the scripts for each of the types that they are for.
Serves(scrs, type, types, detail) ==
  /\ detail \in [{t \in types : \E s \in scrs : type[s] = t} -> scrs]
  /\ \A t \in DOMAIN detail : type[detail[t]] = t

TaskServes(i) ==
  Has(tasks, i) /\ i \notin outdated /\ tasks[i].operate # None =>
    Serves(Of(tasks[i].operate), scripts, tasks[i].types, tasks[i].detail)

RequestServes(r) ==
  req[r].pc \in {"schedule", "commit"} /\ r \notin outdated /\ req[r].asked.operate # None =>
    Serves(Of(req[r].asked.operate), scripts, req[r].asked.types, req[r].seen)

SentIs(i) == Has(tasks, i) /\ sent[i] # None => sent[i] = JobList(i)

SentInv ==
  /\ \A i \in Id : TaskServes(i) /\ SentIs(i)
  /\ \A r \in Request : RequestServes(r) /\ (Adding(r) => sent[r] = None)

LEMMA SameServes ==
  ASSUME NEW scrs, NEW type, NEW type2, \A s \in scrs : type2[s] = type[s],
         NEW types, NEW detail, Serves(scrs, type, types, detail)
  PROVE  Serves(scrs, type2, types, detail)
<1>1. {t \in types : \E s \in scrs : type2[s] = t} = {t \in types : \E s \in scrs : type[s] = t}
  OBVIOUS
<1>2. \A t \in DOMAIN detail : detail[t] \in scrs
  BY DEF Serves
<1> QED BY <1>1, <1>2 DEF Serves

LEMMA SameService ==
  ASSUME NEW o, Service(o)' = Service(o)
  PROVE  Of(o)' = Of(o) /\ \A s \in Of(o) : scripts'[s] = scripts[s]
<1>1. ASSUME NEW s \in Of(o) PROVE s \in Of(o)' /\ scripts'[s] = scripts[s]
  <2>1. <<s, scripts[s]>> \in Service(o)'
    BY DEF Service
  <2>2. PICK k \in Of(o)' : <<s, scripts[s]>> = <<k, scripts'[k]>>
    BY <2>1 DEF Service
  <2> QED BY <2>2
<1>2. ASSUME NEW s \in Of(o)' PROVE s \in Of(o)
  <2>1. <<s, scripts'[s]>> \in Service(o)
    BY DEF Service
  <2>2. PICK k \in Of(o) : <<s, scripts'[s]>> = <<k, scripts[k]>>
    BY <2>1 DEF Service
  <2> QED BY <2>2
<1> QED BY <1>1, <1>2

\* A row whose operation, types and detail stay.
LEMMA RowSentOk ==
  ASSUME NEW i \in Id, TaskServes(i), SentIs(i), UNCHANGED <<scripts, assoc, outdated, sent>>,
         \/ tasks'[i] = tasks[i]
         \/ tasks'[i] = None
         \/ /\ Has(tasks, i) /\ tasks'[i].operate = tasks[i].operate
            /\ tasks'[i].types = tasks[i].types /\ tasks'[i].detail = tasks[i].detail
  PROVE  TaskServes(i)' /\ SentIs(i)'
<1>1. CASE tasks'[i] = None
  BY <1>1 DEF TaskServes, SentIs, Has
<1>2. CASE tasks'[i] # None
  <2>1. /\ Has(tasks, i) /\ tasks'[i].operate = tasks[i].operate
        /\ tasks'[i].types = tasks[i].types /\ tasks'[i].detail = tasks[i].detail
    BY <1>2 DEF Has
  <2>2. JobList(i)' = JobList(i)
    BY <2>1 DEF JobList
  <2>3. SentIs(i)'
    BY <2>1, <2>2 DEF SentIs
  <2>4. TaskServes(i)'
    BY <2>1 DEF TaskServes, Of
  <2> QED BY <2>3, <2>4
<1> QED BY <1>1, <1>2

LEMMA TaskSentOk ==
  ASSUME SentInv, JobInv, ReqType, TableType, NEW r \in Request, Tasks(r)
  PROVE  SentInv'
<1>1. UNCHANGED <<scripts, assoc, outdated, sent>>
  BY DEF Tasks, AddTaskCheck, AddTaskDetail, AddTaskJob, AddTaskCommit, AddTaskFails, FindJob,
    JobFails, ModifyRead, ModifyUpdate, ModifyRemove, ModifyAdd, DeleteRead, DeleteJob, DeleteTask,
    DeleteFails, catalogue, schedule
<1>2. /\ \A q \in Request \ {r} : req'[q] = req[q]
      /\ Kind(r)' = Kind(r) /\ (Kind(r) = "add task" => req'[r].asked = req[r].asked)
      /\ r \in Id /\ PcFits(r) /\ req[r].pc \in TaskPc \ {"done"} /\ PcFits(r)'
  BY TaskMoves DEF Moves, Kind, Batch, Id, ReqType
<1>3. Adding(r)' => Adding(r)
  BY <1>2 DEF Adding, Kind, PcFits, TaskPc, Pc
<1>4. \A q \in Request : Adding(q)' => sent'[q] = None
  <2>1. \A q \in Request \ {r} : Adding(q)' => Adding(q)
    BY <1>2 DEF Adding, Kind
  <2> QED BY <1>1, <1>3, <2>1 DEF SentInv
<1>5. \A q \in Request \ {r} : RequestServes(q)'
  BY <1>1, <1>2 DEF SentInv, RequestServes, Of
<1>6. ASSUME RequestServes(r)',
             \A i \in Id : TaskServes(i)' /\ SentIs(i)'
      PROVE  SentInv'
  BY <1>4, <1>5, <1>6 DEF SentInv
<1>7. ASSUME req'[r].pc \notin {"schedule", "commit"} PROVE RequestServes(r)'
  BY <1>7 DEF RequestServes
<1>8. ASSUME UNCHANGED tasks PROVE \A i \in Id : TaskServes(i)' /\ SentIs(i)'
  BY <1>1, <1>8, RowSentOk DEF SentInv
<1>9. Kind(r) # "add task" => req'[r].pc \notin {"schedule", "commit"}
  BY <1>2 DEF PcFits
<1>10. CASE AddTaskCheck(r) \/ AddTaskFails(r)
  <2>1. \E pc \in {"done", "detail"} : Goes(r, pc)
    BY <1>10 DEF AddTaskCheck, AddTaskFails
  <2>2. req'[r].pc \in {"done", "detail"}
    BY <2>1, GoesMoves DEF Moves, Pc
  <2>3. UNCHANGED tasks
    BY <1>10 DEF AddTaskCheck, AddTaskFails
  <2> QED BY <1>6, <1>7, <1>8, <2>2, <2>3
<1>11. CASE AddTaskDetail(r)
  <2> DEFINE o == req[r].asked.operate
             types == req[r].asked.types
  <2>1. PICK d \in Details(o, types) : Turns(r, req[r].asked.ids, "schedule", req[r].on, d)
    BY <1>11 DEF AddTaskDetail
  <2>2. Kind(r) = "add task" /\ UNCHANGED tasks
    BY <1>2, <1>11 DEF AddTaskDetail, PcFits, schedule
  <2>3. req'[r].seen = d /\ req'[r].asked = req[r].asked
    BY <1>2, <2>1, <2>2 DEF Turns, ReqType
  <2>4. o # None => Serves(Of(o), scripts, types, d)
    <3> SUFFICES ASSUME o # None PROVE Serves(Of(o), scripts, types, d)
      OBVIOUS
    <3>1. Fits(o, types, d)
      BY DEF Details
    <3> QED BY <3>1 DEF Fits, Served, HasType, Serves
  <2>5. RequestServes(r)'
    BY <1>1, <2>3, <2>4 DEF RequestServes, Of
  <2> QED BY <1>6, <1>8, <2>2, <2>5
<1>12. CASE AddTaskJob(r)
  <2>1. Goes(r, "commit") /\ req[r].pc = "schedule" /\ UNCHANGED tasks
    BY <1>12 DEF AddTaskJob
  <2>2. req'[r].asked = req[r].asked /\ req'[r].seen = req[r].seen
    BY <2>1, GoesMoves DEF Moves, Pc
  <2>3. RequestServes(r)'
    BY <1>1, <2>1, <2>2 DEF SentInv, RequestServes, Of
  <2> QED BY <1>6, <1>8, <2>1, <2>3
<1>13. CASE AddTaskCommit(r)
  <2> DEFINE a == req[r].asked
             new == [name |-> a.name, operate |-> a.operate, types |-> a.types,
                     detail |-> req[r].seen, when |-> a.when]
  <2>1. /\ tasks' = [tasks EXCEPT ![r] = new] /\ Goes(r, "done") /\ req[r].pc = "commit"
        /\ Kind(r) = "add task"
    BY <1>2, <1>13 DEF AddTaskCommit, PcFits
  <2>2. req'[r].pc = "done"
    BY <2>1, GoesMoves DEF Moves, Pc
  <2>3. /\ new.operate = a.operate /\ new.types = a.types /\ new.detail = req[r].seen
    OBVIOUS
  <2> HIDE DEF new
  <2>4. tasks'[r] = new /\ \A i \in Id \ {r} : tasks'[i] = tasks[i]
    BY <1>2, <2>1 DEF TableType
  <2>5. sent'[r] = None
    BY <1>1, <2>1 DEF SentInv, Adding
  <2>6. TaskServes(r)'
    <3>1. RequestServes(r)
      BY DEF SentInv
    <3>2. r \notin outdated /\ a.operate # None => Serves(Of(a.operate), scripts, a.types, req[r].seen)
      BY <2>1, <3>1 DEF RequestServes
    <3> QED BY <1>1, <2>3, <2>4, <3>2 DEF TaskServes, Of
  <2>7. \A i \in Id : TaskServes(i)' /\ SentIs(i)'
    <3>1. \A i \in Id \ {r} : TaskServes(i)' /\ SentIs(i)'
      BY <1>1, <2>4, RowSentOk DEF SentInv
    <3>2. SentIs(r)'
      BY <2>5 DEF SentIs
    <3> QED BY <2>6, <3>1, <3>2
  <2> QED BY <1>6, <1>7, <2>2, <2>7
<1>14. CASE ModifyUpdate(r)
  <2> DEFINE i == req[r].on
  <2>1. Kind(r) # "add task" /\ i \in Id
    BY <1>2, <1>14 DEF ModifyUpdate, PcFits
  <2>2. tasks' = IF Has(tasks, i) THEN [tasks EXCEPT ![i].when = req[r].asked.when] ELSE tasks
    BY <1>14 DEF ModifyUpdate
  <2>3. \A x \in Id \ {i} : tasks'[x] = tasks[x]
    BY <2>2 DEF TableType
  <2>4. \/ tasks'[i] = tasks[i]
        \/ /\ Has(tasks, i) /\ tasks'[i].operate = tasks[i].operate
           /\ tasks'[i].types = tasks[i].types /\ tasks'[i].detail = tasks[i].detail
    <3>1. CASE Has(tasks, i)
      <4>1. tasks[i] \in Row /\ tasks'[i] = [tasks[i] EXCEPT !.when = req[r].asked.when]
        BY <2>1, <2>2, <3>1 DEF TableType, Has
      <4> QED BY <3>1, <4>1 DEF Row
    <3>2. CASE ~Has(tasks, i)
      BY <2>2, <3>2
    <3> QED BY <3>1, <3>2
  <2> HIDE DEF i
  <2>5. \A x \in Id : TaskServes(x)' /\ SentIs(x)'
    BY <1>1, <2>3, <2>4, RowSentOk DEF SentInv
  <2> QED BY <1>6, <1>7, <1>9, <2>1, <2>5
<1>15. CASE DeleteTask(r)
  <2>1. Kind(r) # "add task" /\ req[r].on \in Id /\ tasks' = [tasks EXCEPT ![req[r].on] = None]
    BY <1>2, <1>15 DEF DeleteTask, PcFits
  <2>2. \A x \in Id : tasks'[x] = tasks[x] \/ tasks'[x] = None
    BY <2>1 DEF TableType
  <2>3. \A x \in Id : TaskServes(x)' /\ SentIs(x)'
    BY <1>1, <2>2, RowSentOk DEF SentInv
  <2> QED BY <1>6, <1>7, <1>9, <2>1, <2>3
<1>16. CASE \/ FindJob(r) \/ JobFails(r) \/ ModifyRead(r) \/ ModifyRemove(r) \/ ModifyAdd(r)
            \/ DeleteRead(r) \/ DeleteJob(r) \/ DeleteFails(r)
  <2>1. UNCHANGED tasks
    BY <1>16 DEF FindJob, JobFails, ModifyRead, ModifyRemove, ModifyAdd, DeleteRead, DeleteJob,
      DeleteFails, schedule
  <2>2. Kind(r) # "add task"
    BY <1>2, <1>16 DEF FindJob, JobFails, ModifyRead, ModifyRemove, ModifyAdd, DeleteRead, DeleteJob,
      DeleteFails, RemoveJob, Starts, Begins, PcFits, Kind
  <2> QED BY <1>6, <1>7, <1>8, <1>9, <2>1, <2>2
<1> QED BY <1>10, <1>11, <1>12, <1>13, <1>14, <1>15, <1>16 DEF Tasks

LEMMA CatalogueSentOk ==
  ASSUME SentInv, ReqType, TableType, NEW r \in Request, Catalogues(r)
  PROVE  SentInv'
<1>1. CatalogueNext(r) /\ UNCHANGED <<tasks, sent>>
  BY DEF Catalogues
<1>2. /\ Kind(r) \in Do /\ Kind(r)' = Kind(r)
      /\ req'[r].pc \in {"new", "write", "remove", "done"}
      /\ \A q \in Request \ {r} : req'[q] = req[q]
  BY <1>1, CatalogueMoves DEF Moves, Kind
<1>3. /\ outdated \subseteq outdated'
      /\ \A o \in Id : \A i \in For(o) : i \notin outdated' => Service(o)' = Service(o)
  BY DEF Catalogues
<1>4. ASSUME NEW i \in Id PROVE TaskServes(i)' /\ SentIs(i)'
  <2>1. SentIs(i)'
    BY <1>1 DEF SentInv, SentIs, Has, JobList
  <2>2. TaskServes(i)'
    <3> SUFFICES ASSUME Has(tasks, i), i \notin outdated', tasks[i].operate # None
                 PROVE  Serves(Of(tasks[i].operate)', scripts', tasks[i].types, tasks[i].detail)
      BY <1>1 DEF TaskServes, Has, Of
    <3>1. PICK o \in Id : o = tasks[i].operate
      BY DEF TableType, Has, Row
    <3>2. Service(o)' = Service(o)
      BY <1>3, <3>1 DEF For
    <3>3. Of(o)' = Of(o) /\ \A s \in Of(o) : scripts'[s] = scripts[s]
      BY <3>2, SameService
    <3>4. Serves(Of(o), scripts, tasks[i].types, tasks[i].detail)
      BY <1>3, <3>1 DEF SentInv, TaskServes
    <3>5. Serves(Of(o), scripts', tasks[i].types, tasks[i].detail)
      BY <3>3, <3>4, SameServes
    <3> QED BY <1>1, <3>1, <3>3, <3>5 DEF Of
  <2> QED BY <2>1, <2>2
<1>5. ASSUME NEW q \in Request PROVE RequestServes(q)' /\ (Adding(q)' => sent'[q] = None)
  <2>1. CASE q = r
    BY <1>2, <2>1 DEF RequestServes, Adding, Do
  <2>2. CASE q # r
    <3>1. req'[q] = req[q]
      BY <1>2, <2>2
    <3>2. Adding(q)' => sent'[q] = None
      BY <1>1, <3>1 DEF SentInv, Adding, Kind
    <3>3. RequestServes(q)'
      <4> SUFFICES ASSUME req[q].pc \in {"schedule", "commit"}, q \notin outdated',
                          req[q].asked.operate # None
                   PROVE  Serves(Of(req[q].asked.operate)', scripts', req[q].asked.types, req[q].seen)
        BY <3>1 DEF RequestServes, Of
      <4>1. PICK o \in Id : o = req[q].asked.operate
        <5>1. Kind(q) = "add task"
          BY DEF ReqType, PcFits
        <5>2. req[q].asked \in AskedTask
          BY <5>1, AskedKinds DEF TaskDo
        <5> QED BY <5>2 DEF AskedTask
      <4>2. Service(o)' = Service(o)
        BY <1>3, <4>1 DEF For
      <4>3. Of(o)' = Of(o) /\ \A s \in Of(o) : scripts'[s] = scripts[s]
        BY <4>2, SameService
      <4>4. Serves(Of(o), scripts, req[q].asked.types, req[q].seen)
        BY <1>3, <4>1 DEF SentInv, RequestServes
      <4>5. Serves(Of(o), scripts', req[q].asked.types, req[q].seen)
        BY <4>3, <4>4, SameServes
      <4> QED BY <3>1, <4>1, <4>3, <4>5 DEF Of
    <3> QED BY <3>2, <3>3
  <2> QED BY <2>1, <2>2
<1> QED BY <1>4, <1>5 DEF SentInv

LEMMA OtherSentOk ==
  ASSUME SentInv, JobInv, ReqType, TableType,
         Restart \/ (\E i \in Id : UseJob(i) \/ StartTask(i)) \/ UNCHANGED vars
  PROVE  SentInv'
<1>1. UNCHANGED <<tasks, scripts, assoc, outdated>>
  BY DEF Restart, UseJob, StartTask, vars, schedule, catalogue_vars, tables
<1>2. \A q \in Request : req'[q] = req[q] \/ req'[q].pc = "done"
  <2>1. CASE Restart
    BY <2>1, RestartMoves
  <2>2. CASE ~Restart
    BY <2>2 DEF UseJob, StartTask, vars, catalogue_vars
  <2> QED BY <2>1, <2>2
<1>3. ASSUME NEW i \in Id
      PROVE  sent'[i] = sent[i] \/ (Has(tasks, i) /\ sent'[i] = JobList(i))
  <2>1. CASE \E k \in Id : UseJob(k) \/ StartTask(k)
    <3>1. PICK k \in Id : Start(k) \/ UNCHANGED sent
      BY <2>1 DEF UseJob, StartTask
    <3> QED BY <3>1 DEF Start, StepList, TableType
  <2>2. CASE Restart \/ UNCHANGED vars
    BY <2>2 DEF Restart, vars, schedule
  <2> QED BY <2>1, <2>2
<1>4. ASSUME NEW i \in Id PROVE TaskServes(i)' /\ SentIs(i)'
  BY <1>1, <1>3 DEF SentInv, TaskServes, SentIs, Has, Of, JobList
<1>5. ASSUME NEW q \in Request PROVE RequestServes(q)' /\ (Adding(q)' => sent'[q] = None)
  <2>1. RequestServes(q)'
    BY <1>1, <1>2 DEF SentInv, RequestServes, Of
  <2>2. Adding(q)' => Adding(q) /\ q \in Id
    BY <1>2 DEF Adding, Kind, Id
  <2>3. Adding(q) => ~Has(tasks, q)
    BY DEF JobInv, AddTaskOk
  <2> QED BY <1>3, <2>1, <2>2, <2>3 DEF SentInv
<1> QED BY <1>4, <1>5 DEF SentInv

LEMMA SentAlways == Spec => []SentInv
<1>1. Init => SentInv
  <2> SUFFICES ASSUME Init PROVE SentInv
    OBVIOUS
  <2>1. /\ \A i \in Id : tasks[i] = None /\ sent[i] = None
        /\ \A r \in Request : req[r].pc = "new" /\ r \in Id
    BY DEF Init, CatalogueInit, Id
  <2> QED BY <2>1 DEF SentInv, TaskServes, SentIs, RequestServes, Has
<1>2. Inv /\ JobInv /\ SentInv /\ [Next]_vars => SentInv'
  <2> SUFFICES ASSUME Inv, JobInv, SentInv, [Next]_vars PROVE SentInv'
    OBVIOUS
  <2>1. ReqType /\ TableType
    BY DEF Inv
  <2> QED BY <2>1, TaskSentOk, CatalogueSentOk, OtherSentOk DEF Next
<1> QED BY <1>1, <1>2, InvAlways, JobsAlways, PTL DEF Spec

\* However the catalogue is changed between the adding of a task and its start, what is
\* sent to hosts of a type is the operation's script for it, for all types it has one
\* for, unless the operation's scripts have changed since.
THEOREM StartsFit == Spec => []SentFits
<1>1. SentInv => SentFits
  <2> SUFFICES ASSUME SentInv, NEW i \in Id, Has(tasks, i), i \notin outdated,
                      tasks[i].operate # None, sent[i] # None
               PROVE  /\ \A j \in sent[i] : /\ j[1] \in tasks[i].types
                                            /\ <<tasks[i].operate, j[2]>> \in assoc
                                            /\ scripts[j[2]] = j[1]
                      /\ \A t \in tasks[i].types :
                           (\E s \in Of(tasks[i].operate) : scripts[s] = t) => \E j \in sent[i] : j[1] = t
    BY DEF SentFits
  <2> DEFINE d == tasks[i].detail
             served == {t \in tasks[i].types : \E s \in Of(tasks[i].operate) : scripts[s] = t}
  <2>1. d \in [served -> Of(tasks[i].operate)] /\ \A t \in DOMAIN d : scripts[d[t]] = t
    BY DEF SentInv, TaskServes, Serves
  <2>2. sent[i] = {<<t, d[t]>> : t \in served}
    BY <2>1 DEF SentInv, SentIs, JobList
  <2>3. ASSUME NEW j \in sent[i]
        PROVE  j[1] \in tasks[i].types /\ <<tasks[i].operate, j[2]>> \in assoc /\ scripts[j[2]] = j[1]
    <3>1. PICK t \in served : j = <<t, d[t]>>
      BY <2>2
    <3> QED BY <2>1, <3>1 DEF Of
  <2>4. ASSUME NEW t \in served PROVE \E j \in sent[i] : j[1] = t
    <3>1. <<t, d[t]>> \in sent[i]
      BY <2>2
    <3> QED BY <3>1
  <2> QED BY <2>3, <2>4
<1> QED BY <1>1, SentAlways, PTL

=============================================================================
