-------------------------- MODULE MCTaskDispatcher --------------------------
(***************************************************************************)
(* Steps on none to three hosts; one batch is smaller than the hosts.      *)
(***************************************************************************)
EXTENDS TaskDispatcher

CONSTANTS h1, h2, h3

MCHost == {h1, h2, h3}

=============================================================================
