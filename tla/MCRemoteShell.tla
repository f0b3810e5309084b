----------------------------- MODULE MCRemoteShell -----------------------------
(***************************************************************************)
(* One executor from its first connection on, with sessions that end; two  *)
(* executors, logged in, with the same place or the same file to fetch.    *)
(***************************************************************************)
EXTENDS RemoteShell, TLC

CONSTANTS x1, x2, d1, s1, s2

Does(plugin, src, tilde, overwrite, at, breaks) ==
  [plugin |-> plugin, src |-> src, dest |-> d1, tilde |-> tilde, overwrite |-> overwrite,
   at |-> at, breaks |-> breaks]

Alone ==
  {x1 :> Does(plugin, s1, FALSE, FALSE, "new", breaks) :
     plugin \in {"shell", "retry", "copy", "script"}, breaks \in 0..1}
    \cup {x1 :> Does("shell", s1, FALSE, FALSE, "new", 2),
           x1 :> Does("copy", s1, TRUE, FALSE, "new", 0)}

Together ==
  {x1 :> Does(p1, s1, FALSE, FALSE, "ready", 0) @@ x2 :> Does(p2, src, FALSE, over, "ready", 0) :
     p1 \in {"copy", "fetch"}, p2 \in {"copy", "fetch"}, src \in {s1, s2}, over \in BOOLEAN}

MCMixes == Alone \cup Together
=============================================================================
