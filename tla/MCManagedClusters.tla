------------------------- MODULE MCManagedClusters -------------------------
(***************************************************************************)
(* Two clusters and two celery processes: three requests for one cluster   *)
(* while the other one is only there, or a request for each of them.       *)
(***************************************************************************)
EXTENDS ManagedClusters, TLC

CONSTANTS c1, c2, w1, w2

MCCluster == {c1, c2}
MCWorker == {w1, w2}
MCBudgets == {b \in [MCCluster -> 0..3] : {b[c1], b[c2]} \in {{0, 3}, {1}}}
Symmetry == Permutations(MCCluster) \cup Permutations(MCWorker)

=============================================================================
