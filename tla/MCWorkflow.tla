----------------------------- MODULE MCWorkflow -----------------------------
(***************************************************************************)
(* Workflow over the plans that init() (WorkflowInit) makes of small       *)
(* workflow files.                                                         *)
(***************************************************************************)
EXTENDS Workflow

CONSTANTS start, a, b, c, end    \* the nodes of a job with three steps

OneJobStep == {a, b, c}
OneJobNode == {start, end} \cup OneJobStep

\* The graph of the job if b waits for the steps B and c for C.  The start
\* precedes the steps that wait for none, and the end follows those below which
\* the search found nothing new: no other step waits for them, or (b, when c
\* waits for both) it was found from a.
Plan(B, C) ==
  LET waits == [s \in OneJobStep |-> CASE s = a -> {} [] s = b -> B [] s = c -> C]
      After(s) == {t \in OneJobStep : s \in waits[t]}
      Last(s) == After(s) = {} \/ (s = b /\ B = {} /\ C = {a, b})
  IN  [n \in OneJobNode |->
         CASE n = start -> {s \in OneJobStep : waits[s] = {}}
           [] n = end   -> {}
           [] OTHER     -> After(n) \cup IF Last(n) THEN {end} ELSE {}]

\* Up to renaming, every acyclic order of three steps.
OneJobPlans == {Plan(B, C) : B \in SUBSET {a}, C \in SUBSET {a, b}}

\* The template's steps (no flag), steps whose failure counts, steps that must
\* run whatever happened before, and steps whose job lists no hosts.
Setting(e, i, h) == [essential |-> e, ignore_result |-> i, has_hosts |-> h]
Template  == Setting("unset", "unset", TRUE)
Strict    == Setting("unset", "false", TRUE)
MustRun   == Setting("true", "false", TRUE)
Hostless  == Setting("unset", "unset", FALSE)

OneJobSettings ==
  {s \in [OneJobStep -> {Template, Strict, MustRun, Hostless}] :
     Cardinality({n \in OneJobStep : s[n] = Hostless}) <= 2}
TemplateSettings == {[s \in OneJobStep |-> Template]}

=============================================================================
