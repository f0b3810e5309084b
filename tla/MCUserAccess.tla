---------------------------- MODULE MCUserAccess ----------------------------
(***************************************************************************)
(* A user with two other clusters.  Either the administrator sets its      *)
(* permissions, once or twice, while readers fill the caches, or the user  *)
(* and another one whose name begins with its name make two or three       *)
(* requests about their sessions, or one of each kind comes.               *)
(***************************************************************************)
EXTENDS UserAccess, TLC

CONSTANTS r1, r2, s1, s2, s3, c0, c1, c2, g1, u1, u2, nothing

MCBegins == u1 :> {u1, u2} @@ u2 :> {u2}

Ask(kind, user) == [kind |-> kind, user |-> user]
Plan(before, sets, sessions) ==
  [before |-> before, sets |-> sets, sessions |-> sessions,
   online |-> IF sessions = <<>> THEN {} ELSE {u1, u2}]
Some(C) == [c \in C |-> {g1}]

SetPlans ==
  {Plan(<<>>, r1 :> Some({c1}) @@ r2 :> f, <<>>) : f \in {<<>>, Some({c1})}}
    \cup {Plan(Some({c0, c1, c2}), r1 :> f, <<>>) : f \in {<<>>, Some({c0, c1})}}

SessionPlans ==
  {Plan(<<>>, <<>>, s1 :> Ask("refresh", u1) @@ s2 :> Ask(a, u1) @@ s3 :> Ask("login", u1)) :
     a \in {"logout", "refresh"}}
    \cup {Plan(<<>>, <<>>, s1 :> Ask(a, u1) @@ s2 :> Ask(b, u2)) : a \in Kind, b \in Kind}

MixedPlans == {Plan(Some({c0}), r1 :> Some({c1}), s1 :> Ask(k, u1)) : k \in {"login", "logout"}}

MCPlans == SetPlans \cup SessionPlans \cup MixedPlans

=============================================================================
