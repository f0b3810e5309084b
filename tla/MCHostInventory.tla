-------------------------- MODULE MCHostInventory --------------------------
(***************************************************************************)
(* HostInventory with any two requests, or with one of some mixes of       *)
(* three, two addresses and one group name.                                *)
(***************************************************************************)
EXTENDS HostInventory, Naturals, TLC

CONSTANTS r1, r2, r3

MCRequest == {r1, r2, r3}

Kinds == <<"update", "batch", "add", "delete", "addGroup", "deleteGroup">>

Mix(a, b, c) == (r1 :> a) @@ (r2 :> b) @@ (r3 :> c)

MCMixes ==
  UNION {{Mix(Kinds[k], Kinds[n], None) : n \in k..6} : k \in 1..6} \cup
  {Mix("add", "add", "deleteGroup"),
   Mix("batch", "update", "deleteGroup"),
   Mix("addGroup", "batch", "deleteGroup"),
   Mix("addGroup", "addGroup", "deleteGroup")}

Symmetry == Permutations(Ip)
=============================================================================
