--------------------------- MODULE MCTaskSchedule ---------------------------
(***************************************************************************)
(* An operation with one or two scripts, and up to three requests of a     *)
(* mix: on the catalogue, on a task and its schedule, or both.             *)
(***************************************************************************)
EXTENDS TaskSchedule, TLC

CONSTANTS r1, r2, r3, i1, i2, t1, t2, n1, n2, n3

Base(do) == [do |-> do, ids |-> {i1}, operate |-> None, type |-> t1, name |-> n3]
AddScript1(o, t) == [Base("add script") EXCEPT !.ids = {}, !.operate = o, !.type = t]
ModifyScript1(o, t) == [Base("modify script") EXCEPT !.operate = o, !.type = t]
Named(do) == [Base(do) EXCEPT !.ids = {}]

BaseTask(do) == [do |-> do, ids |-> {}, operate |-> None, types |-> {t1, t2}, name |-> n3,
                 when |-> "never"]
Add(o, when) == [BaseTask("add task") EXCEPT !.operate = o, !.when = when]
Schedule(i, when) == [BaseTask("modify scheduler") EXCEPT !.ids = {i}, !.when = when]
Delete(I) == [BaseTask("delete tasks") EXCEPT !.ids = I]

Scripts == {AddScript1(o, t) : o \in {i1, None}, t \in {t1, t2}}
  \cup {ModifyScript1(o, t) : o \in {i2, None}, t \in {t1, t2}}
  \cup {Base("upload"), [Base("delete scripts") EXCEPT !.ids = {i1, i2}], Base("delete operates")}
NamedOnes == {Named("add operate"), Named("add command"), Base("modify operate"), Base("modify command"),
              [Base("delete commands") EXCEPT !.ids = {i1, i2}]}

Idle == [Base("upload") EXCEPT !.ids = {}]
Mix(x, y, z) == r1 :> x @@ r2 :> y @@ r3 :> z

MCMixes ==
  {Mix(x, y, Idle) : x \in NamedOnes, y \in NamedOnes}
    \cup {Mix(x, y, z) : x \in Scripts, y \in Scripts, z \in {Idle, AddScript1(i1, t2)}}
    \cup {Mix(Add(i1, "never"), x, y) : x \in Scripts, y \in {AddScript1(i1, t1), AddScript1(i1, t2)}}
    \cup {Mix(Add(None, w), Add(None, "never"), Delete({r1, r2})) : w \in When}
    \cup {Mix(Add(None, w), x, Delete({r1})) : w \in When, x \in {Delete({r1}), Base("delete commands")}}
    \cup {Mix(Add(None, w), Schedule(r1, v), x) :
            w \in When, v \in When, x \in {Delete({r1}), Schedule(r1, "never"), Schedule(r1, "single")}}

=============================================================================
