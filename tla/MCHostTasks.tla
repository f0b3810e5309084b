----------------------------- MODULE MCHostTasks -----------------------------
(***************************************************************************)
(* Two tasks of a kind on a host or two; a chain of two tasks, on hosts    *)
(* that another chain keeps busy as well; a chain beside a task in no      *)
(* chain, on as many hosts as there are processes.                         *)
(***************************************************************************)
EXTENDS HostTasks, TLC

CONSTANTS h1, h2, w1, w2, s1, s2, t1, t2, t3

On2(kind, other, hosts) == t1 :> [kind |-> kind, hosts |-> hosts] @@
                           t2 :> [kind |-> other, hosts |-> {h1}]

Direct ==
  {[task |-> On2(kind, kind, {h1}), chains |-> <<>>, troubles |-> 1] : kind \in Column}

InChain ==
  {[task |-> On2("repo_set_task", "repo_set_task", {h1}), chains |-> <<<<t1, t2>>>>, troubles |-> 1],
   [task |-> On2("cve_fix_task", "cve_rollback_task", {h1, h2}), chains |-> <<<<t1, t2>>>>,
    troubles |-> 1]}

InChains ==
  {[task |-> On2("cve_fix_task", "cve_scan_task", {h1}) @@
             t3 :> [kind |-> "hotpatch_remove_task", hosts |-> {h1}],
    chains |-> <<<<t1, t2>>, <<t3>>>>, troubles |-> 0]}

Beside ==
  {[task |-> t1 :> [kind |-> "cve_fix_task", hosts |-> {h1, h2}] @@
             t2 :> [kind |-> "cve_scan_task", hosts |-> {h1}] @@
             t3 :> [kind |-> "hotpatch_remove_task", hosts |-> {h1}],
    chains |-> <<<<t2, t3>>>>, troubles |-> 0]}

MCMixes == Direct \cup InChain \cup InChains \cup Beside
=============================================================================
