--------------------------- MODULE StepExecution ---------------------------
(***************************************************************************)
(* What a work node relies on when it hands its step to a TaskDispatcher:  *)
(* the step is executed on each host at most once, and its result is       *)
(* reported at most once.  A report of SUCCESS or PARTIAL_PASSED counts    *)
(* the results of all hosts; a report of FAILED may also mean that the     *)
(* dispatcher gave up, and then hosts may still be executing the step.     *)
(* Without hosts nothing is ever reported.                                 *)
(***************************************************************************)
EXTENDS Sequences

CONSTANT Host

VARIABLES hosts,    \* the hosts of the step
          outcome,  \* of the step on each host: "none", "ok" or "failed"
          reports   \* the result codes the callback was called with

vars == <<hosts, outcome, reports>>

Init ==
  /\ hosts \in SUBSET Host
  /\ outcome = [h \in hosts |-> "none"]
  /\ reports = << >>

HostEnds(h, o) ==
  /\ outcome[h] = "none"
  /\ outcome' = [outcome EXCEPT ![h] = o]
  /\ UNCHANGED <<hosts, reports>>

Verdict ==
  IF \A h \in hosts : outcome[h] = "ok" THEN "SUCCESS"
  ELSE IF \E h \in hosts : outcome[h] = "ok" THEN "PARTIAL_PASSED"
  ELSE "FAILED"

Report ==
  /\ hosts # {} /\ reports = << >>
  /\ \A h \in hosts : outcome[h] # "none"
  /\ reports' = <<Verdict>>
  /\ UNCHANGED <<hosts, outcome>>

GiveUp ==
  /\ hosts # {} /\ reports = << >>
  /\ reports' = <<"FAILED">>
  /\ UNCHANGED <<hosts, outcome>>

Next ==
  \/ \E h \in hosts, o \in {"ok", "failed"} : HostEnds(h, o)
  \/ Report
  \/ GiveUp

Spec == Init /\ [][Next]_vars

\* A step with hosts is reported in the end.
FairSpec == Spec /\ WF_vars(Report \/ GiveUp)

=============================================================================
