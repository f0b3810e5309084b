-------------------------- MODULE MCTaskLifecycle --------------------------
(***************************************************************************)
(* Three requests of any kind.                                             *)
(***************************************************************************)
EXTENDS TaskLifecycle

CONSTANTS r1, r2, r3

ThreeRequests == {r1, r2, r3}
AllKinds      == {"start", "retry", "cancel", "delete"}

=============================================================================
