--------------------------- MODULE MCWorkflowInit ---------------------------
(***************************************************************************)
(* Workflow files with a job j1 of three steps and a job j2 of one: every  *)
(* dependency list of two of j1's steps over its other steps (repeated and *)
(* reordered names, names of the other job's nodes and of the markers),    *)
(* and every way the two jobs can depend on each other.                    *)
(***************************************************************************)
EXTENDS WorkflowInit

Lists(x, y) == {<< >>, <<x>>, <<y>>, <<x, y>>, <<y, x>>, <<x, x>>}

WithOther(lists, ref) == lists \cup {Append(l, ref) : l \in lists}

StepRecord(name, dependency) == [name |-> name, dependency |-> dependency]

MCDescriptions ==
  { << [name |-> "j1", dependency |-> d1,
        steps |-> <<StepRecord("a", a), StepRecord("b", b), StepRecord("c", c)>>],
       [name |-> "j2", dependency |-> d2, steps |-> <<StepRecord("d", d)>>] >> :
    a \in WithOther({<< >>, << <<"b">> >>, << <<"c">> >>, << <<"j1", "c">> >>}, <<"j2", "d">>),
    b \in Lists(<<"a">>, <<"c">>),
    c \in Lists(<<"a">>, <<"b">>),
    d \in {<< >>, << <<"j1", "b">> >>, << <<"j1", "end">>, <<"d">> >>},
    d1 \in {<< >>, <<"j2">>}, d2 \in {<< >>, <<"j1">>} }

=============================================================================
