----------------------------- MODULE MCTaskPool -----------------------------
(***************************************************************************)
(* Three tasks; a pool of two workers is full with two of them.            *)
(***************************************************************************)
EXTENDS TaskPool

CONSTANTS t1, t2, t3

ThreeTasks == {t1, t2, t3}

=============================================================================
