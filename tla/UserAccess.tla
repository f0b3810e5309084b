----------------------------- MODULE UserAccess -----------------------------
(***************************************************************************)
(* The user-access service: sessions and permissions meet in the Redis     *)
(* cache of the user, which a log in fills and a log out clears, while an  *)
(* administrator sets the user's permissions.                              *)
(***************************************************************************)
EXTENDS Permissions, Sessions

CONSTANTS
  Subject,  \* the user whose permissions are modelled
  Plans     \* the requests there will be, one plan chosen at first

ASSUME PlansAssumption ==
  /\ Subject \in User
  /\ \A p \in Plans : /\ DOMAIN p.sets \subseteq Request /\ p.sets \in [DOMAIN p.sets -> Grant]
                      /\ p.before \in Grant /\ p.online \subseteq User
                      /\ DOMAIN p.sessions \subseteq Session
                      /\ p.sessions \in [DOMAIN p.sessions -> [kind : Kind, user : User]]

vars == <<permission_vars, session_vars>>

Init == \E p \in Plans : PermissionsInit(p.sets, p.before) /\ SessionsInit(p.sessions, p.online)

\* Log in caches the permissions of its user, and does not mind if that fails.
LoginFills(s) ==
  /\ Goes(s, "cache", "done")
  /\ UNCHANGED <<row, token, locked, mixed, others>>
  /\ IF sess[s].user = Subject /\ View(Here) # {} /\ filling[Here] = {}
     THEN FillRead(Here) ELSE UNCHANGED caches

\* Log out deletes the caches of its user.
LogoutClears(s) ==
  /\ Goes(s, "uncache", "done")
  /\ UNCHANGED <<row, token, locked, mixed, others>>
  /\ DeleteUserCache(Here, IF sess[s].user = Subject THEN {Here} ELSE {})

Next ==
  \/ PermissionsNext /\ UNCHANGED session_vars
  \/ SessionsNext /\ UNCHANGED permission_vars
  \/ \E s \in Session : LoginFills(s) \/ LogoutClears(s)

Fairness == \A c \in Cluster :
  /\ WF_vars(FillWrite(c) /\ UNCHANGED <<others, session_vars>>)
  /\ WF_vars(Expire(c) /\ UNCHANGED <<others, session_vars>>)

Spec == Init /\ [][Next]_vars /\ Fairness

-----------------------------------------------------------------------------
Key == Request \cup {First, None}
LocalView == [user : {Here}, key : [Cluster -> Key], groups : SUBSET (Cluster \X Group)]
RemoteView == [user : Key, key : Key, groups : SUBSET Group]
AnyView == LocalView \cup RemoteView

TypeOK ==
  /\ call \in [Request -> [Remote -> Place]]
  /\ tries \in [Request -> [Remote -> 0..MaxTries]]
  /\ registered \in BOOLEAN /\ raced \in BOOLEAN
  /\ assoc \in [Cluster -> Key] /\ perm \subseteq Cluster \X Group
  /\ DOMAIN binding = Remote
  /\ \A c \in Remote : binding[c] \subseteq RemoteView /\ Cardinality(binding[c]) < 2
  /\ DOMAIN cached = Cluster /\ DOMAIN filling = Cluster
  /\ \A c \in Cluster : /\ cached[c] \cup filling[c] \subseteq (IF c = Here THEN LocalView ELSE RemoteView)
                        /\ Cardinality(filling[c]) < 2
  /\ DOMAIN set = Request
  /\ \A r \in Request : /\ set[r].pc \in {"new", "remove", "bind", "clear", "done"}
                        /\ set[r].grant \in Grant /\ set[r].had \in BOOLEAN
                        /\ set[r].asked \subseteq Remote
  /\ astray \subseteq Remote /\ outdated \subseteq Cluster
  /\ row \in [User -> Token \cup {Nothing}]
  /\ token \in [User -> [Client -> Token \cup {Nothing}]]
  /\ locked \subseteq Token /\ mixed \subseteq User
  /\ \A s \in Session : sess[s].user \in User /\ sess[s].saw \in Token \cup {Nothing}

\* In the end no cache holds a group that is no longer permitted: the groups
\* are kept for a minute, and what is filled after the last change is current.
StaleGroupsExpire ==
  <>[](\A c \in Cluster : \A v \in cached[c] : \A g \in v.groups :
         \E w \in View(c) : g \in w.groups)

=============================================================================
