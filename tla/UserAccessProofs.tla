-------------------------- MODULE UserAccessProofs --------------------------
(***************************************************************************)
(* Proofs about the user-access service, for any clusters, groups, users,  *)
(* requests and plans: the tokens that are accepted, the permissions that  *)
(* the clusters agree on, and the views in their caches.                   *)
(***************************************************************************)
EXTENDS UserAccess, TLAPS

-----------------------------------------------------------------------------
(* Sessions.  A request that has committed and not told Redis is the last  *)
(* one to have committed for its user, unless the user is mixed.           *)

SessionPc == {"login", "record", "stored", "cache", "refresh", "look", "exchange", "refreshed",
              "logout", "deleted", "uncache", "access", "done"}

SessionTypeOK ==
  /\ row \in [User -> Token \cup {Nothing}]
  /\ token \in [User -> [Client -> Token \cup {Nothing}]]
  /\ sess \in [Session -> [pc : SessionPc, user : User, saw : Token \cup {Nothing}]]

\* s has committed and not told Redis.
Unsaid(s) == sess[s].pc \in {"stored", "refreshed", "deleted"}

LastCommit ==
  \A s \in Session : Unsaid(s) /\ sess[s].user \notin mixed =>
    /\ row[sess[s].user] = IF sess[s].pc = "deleted" THEN Nothing ELSE s
    /\ \A r \in Session : Unsaid(r) /\ sess[r].user = sess[s].user => r = s

SessionInv == SessionTypeOK /\ LastCommit /\ TokensMatchRows

LEMMA SessionStart == Init => SessionInv
<1> SUFFICES ASSUME Init PROVE SessionInv
  OBVIOUS
<1>1. PICK p \in Plans : SessionsInit(p.sessions, p.online)
  BY DEF Init
<1>2. /\ DOMAIN p.sessions \subseteq Session /\ p.online \subseteq User
      /\ p.sessions \in [DOMAIN p.sessions -> [kind : Kind, user : User]]
  BY PlansAssumption
<1>3. row \in [User -> Token \cup {Nothing}] /\ \A u \in User : row[u] \in {u, Nothing}
  BY <1>1, <1>2 DEF SessionsInit, Token
<1>4. token \in [User -> [Client -> Token \cup {Nothing}]] /\ \A u \in User : token[u]["own"] = row[u]
  BY <1>1, <1>3 DEF SessionsInit, Client
<1>5. \A s \in Session : /\ sess[s].pc \in Kind \cup {"done"} /\ sess[s].user \in User
                         /\ sess[s].saw = Nothing
  <2>1. \A s \in DOMAIN p.sessions : p.sessions[s].kind \in Kind /\ p.sessions[s].user \in User
    BY <1>2
  <2>2. (CHOOSE u \in User : TRUE) \in User
    BY PlansAssumption
  <2> QED BY <1>1, <2>1, <2>2 DEF SessionsInit
<1>6. sess \in [Session -> [pc : SessionPc, user : User, saw : Token \cup {Nothing}]]
  <2>1. Kind \cup {"done"} \subseteq SessionPc
    BY DEF Kind, SessionPc
  <2>2. sess = [s \in Session |-> [pc |-> sess[s].pc, user |-> sess[s].user, saw |-> sess[s].saw]]
    BY <1>1 DEF SessionsInit
  <2> QED BY <1>5, <2>1, <2>2
<1> QED BY <1>3, <1>4, <1>5, <1>6 DEF SessionInv, SessionTypeOK, LastCommit, Unsaid, Kind,
          TokensMatchRows

\* Steps that leave rows, tokens and the users that are mixed alone, and begin or end
\* no commit.
LEMMA SessionQuiet ==
  ASSUME SessionInv, UNCHANGED <<row, token>>, mixed \subseteq mixed',
         sess' \in [Session -> [pc : SessionPc, user : User, saw : Token \cup {Nothing}]],
         \A s \in Session : Unsaid(s)' => Unsaid(s) /\ sess'[s] = sess[s],
         \A s \in Session : Unsaid(s) /\ ~Unsaid(s)' => sess[s].user \in mixed'
  PROVE  SessionInv'
<1>1. SessionTypeOK'
  BY DEF SessionInv, SessionTypeOK
<1>2. LastCommit'
  BY DEF SessionInv, LastCommit, Unsaid
<1>3. TokensMatchRows'
  <2> SUFFICES ASSUME NEW u \in User \ mixed', ~Between(u)'
               PROVE  token[u]["own"] \in {Nothing, row[u]}
    BY DEF TokensMatchRows
  <2>1. ~Between(u)
    BY DEF Between, Unsaid, SessionInv, SessionTypeOK
  <2> QED BY <2>1 DEF SessionInv, TokensMatchRows
<1> QED BY <1>1, <1>2, <1>3 DEF SessionInv

\* Commits, by which a request becomes the last one.
LEMMA SessionCommit ==
  ASSUME SessionInv, NEW s \in Session, NEW t \in {s, Nothing},
         NEW pc \in {"stored", "refreshed", "deleted"}, ~Unsaid(s),
         t = IF pc = "deleted" THEN Nothing ELSE s,
         sess' = [sess EXCEPT ![s].pc = pc], UNCHANGED token, CommitsRow(sess[s].user, t)
  PROVE  SessionInv'
<1> DEFINE u == sess[s].user
<1>1. /\ u \in User /\ sess'[s].pc = pc /\ sess'[s].user = u
      /\ \A r \in Session \ {s} : sess'[r] = sess[r]
  BY DEF SessionInv, SessionTypeOK
<1>2. SessionTypeOK'
  BY <1>1 DEF SessionInv, SessionTypeOK, CommitsRow, Token, SessionPc
<1>3. /\ row'[u] = t /\ \A v \in User \ {u} : row'[v] = row[v]
      /\ mixed \subseteq mixed' /\ (u \notin mixed' => ~Between(u))
  BY <1>1 DEF SessionInv, SessionTypeOK, CommitsRow
<1>4. LastCommit'
  <2> SUFFICES ASSUME NEW r \in Session, Unsaid(r)', sess'[r].user \notin mixed'
               PROVE  /\ row'[sess'[r].user] = IF sess'[r].pc = "deleted" THEN Nothing ELSE r
                      /\ \A q \in Session : Unsaid(q)' /\ sess'[q].user = sess'[r].user => q = r
    BY DEF LastCommit
  <2>1. CASE sess'[r].user = u
    <3>1. \A q \in Session \ {s} : sess'[q].user = u => ~Unsaid(q)'
      BY <1>1, <1>3, <2>1 DEF Between, Unsaid
    <3> QED BY <1>1, <1>3, <2>1, <3>1
  <2>2. CASE sess'[r].user # u
    BY <1>1, <1>3, <2>2 DEF SessionInv, LastCommit, SessionTypeOK, Unsaid
  <2> QED BY <2>1, <2>2
<1>5. TokensMatchRows'
  <2> SUFFICES ASSUME NEW v \in User \ mixed', ~Between(v)'
               PROVE  token'[v]["own"] \in {Nothing, row'[v]}
    BY DEF TokensMatchRows
  <2>1. v # u
    BY <1>1 DEF Between
  <2>2. ~Between(v)
    BY <1>1, <2>1 DEF Between
  <2> QED BY <1>3, <2>1, <2>2 DEF SessionInv, TokensMatchRows
<1> QED BY <1>2, <1>4, <1>5 DEF SessionInv

\* What tells Redis.
LEMMA SessionTold ==
  ASSUME SessionInv, NEW s \in Session, Unsaid(s), NEW pc \in {"cache", "done", "uncache"},
         sess' = [sess EXCEPT ![s].pc = pc], UNCHANGED <<row, mixed>>,
         token' \in [User -> [Client -> Token \cup {Nothing}]],
         \A v \in User : \/ token'[v]["own"] = token[v]["own"]
                         \/ token'[v]["own"] = Nothing
                         \/ v = sess[s].user /\ sess[s].pc # "deleted" /\ token'[v]["own"] = s,
         token'[sess[s].user]["own"] \in {Nothing, row[sess[s].user], s},
         sess[s].pc = "deleted" => token'[sess[s].user]["own"] = Nothing
  PROVE  SessionInv'
<1> DEFINE u == sess[s].user
<1>1. /\ u \in User /\ sess'[s].pc = pc /\ sess'[s].user = u
      /\ \A r \in Session \ {s} : sess'[r] = sess[r]
  BY DEF SessionInv, SessionTypeOK
<1>2. SessionTypeOK'
  BY DEF SessionInv, SessionTypeOK, SessionPc
<1>3. LastCommit'
  BY <1>1 DEF SessionInv, LastCommit, Unsaid
<1>4. TokensMatchRows'
  <2> SUFFICES ASSUME NEW v \in User \ mixed, ~Between(v)'
               PROVE  token'[v]["own"] \in {Nothing, row[v]}
    BY DEF TokensMatchRows
  <2>1. CASE v = u
    BY <2>1 DEF SessionInv, LastCommit, Unsaid
  <2>2. CASE v # u
    <3>1. ~Between(v)
      BY <1>1, <2>2 DEF Between
    <3> QED BY <2>2, <3>1 DEF SessionInv, TokensMatchRows
  <2> QED BY <2>1, <2>2
<1> QED BY <1>2, <1>3, <1>4 DEF SessionInv

LEMMA SessionStep == SessionInv /\ [Next]_vars => SessionInv'
<1> SUFFICES ASSUME SessionInv, [Next]_vars PROVE SessionInv'
  OBVIOUS
<1>1. CASE UNCHANGED session_vars
  BY <1>1 DEF SessionInv, session_vars, SessionTypeOK, LastCommit, Unsaid, TokensMatchRows, Between
<1>2. ASSUME NEW s \in Session, LoginRead(s) \/ LoginFails(s) \/ RefreshLock(s) \/ RefreshFails(s)
                                \/ RefreshRead(s) \/ LoginFills(s) \/ LogoutClears(s)
      PROVE  SessionInv'
  <2>1. /\ UNCHANGED <<row, token, mixed>> /\ ~Unsaid(s) /\ ~Unsaid(s)'
        /\ \A r \in Session \ {s} : sess'[r] = sess[r]
    BY <1>2 DEF LoginRead, LoginFails, RefreshLock, RefreshFails, RefreshRead, LoginFills,
      LogoutClears, Goes, Unsaid, SessionInv, SessionTypeOK
  <2>2. sess' \in [Session -> [pc : SessionPc, user : User, saw : Token \cup {Nothing}]]
    <3>1. Held \subseteq Token
      BY DEF Held, Client, SessionInv, SessionTypeOK
    <3>2. \E pc \in SessionPc, u \in User, t \in Token \cup {Nothing} :
            sess' = [sess EXCEPT ![s] = [pc |-> pc, user |-> u, saw |-> t]]
      <4>1. sess[s] = [pc |-> sess[s].pc, user |-> sess[s].user, saw |-> sess[s].saw]
            /\ sess[s].user \in User /\ sess[s].saw \in Token \cup {Nothing}
        BY DEF SessionInv, SessionTypeOK
      <4>2. CASE LoginFails(s) \/ RefreshFails(s) \/ LoginFills(s) \/ LogoutClears(s)
        <5>1. sess' = [sess EXCEPT ![s] = [pc |-> "done", user |-> sess[s].user, saw |-> sess[s].saw]]
          BY <4>1, <4>2 DEF LoginFails, RefreshFails, LoginFills, LogoutClears, Goes,
            SessionInv, SessionTypeOK
        <5> QED BY <4>1, <5>1 DEF SessionPc
      <4>3. CASE LoginRead(s)
        <5>1. sess' = [sess EXCEPT ![s] = [pc |-> "record", user |-> sess[s].user,
                                           saw |-> row[sess[s].user]]]
          BY <4>3 DEF LoginRead
        <5> QED BY <4>1, <5>1 DEF SessionPc, SessionInv, SessionTypeOK
      <4>4. CASE RefreshLock(s)
        <5>1. \E t \in Token : sess' = [sess EXCEPT ![s] = [pc |-> "look", user |-> sess[s].user,
                                                           saw |-> t]]
          BY <3>1, <4>4 DEF RefreshLock
        <5> QED BY <4>1, <5>1 DEF SessionPc
      <4>5. CASE RefreshRead(s)
        <5>1. \E u \in User : sess' = [sess EXCEPT ![s] = [pc |-> "exchange", user |-> u,
                                                          saw |-> sess[s].saw]]
          BY <4>5 DEF RefreshRead
        <5> QED BY <4>1, <5>1 DEF SessionPc
      <4> QED BY <1>2, <4>2, <4>3, <4>4, <4>5
    <3> QED BY <3>2 DEF SessionInv, SessionTypeOK
  <2> QED BY <2>1, <2>2, SessionQuiet DEF Unsaid
<1>3. ASSUME NEW s \in Session, LoginCommit(s) \/ LogoutDelete(s) PROVE SessionInv'
  <2>1. CASE LoginCommit(s)
    <3>1. ~Unsaid(s) /\ sess' = [sess EXCEPT ![s].pc = "stored"] /\ UNCHANGED token
          /\ CommitsRow(sess[s].user, s)
      BY <2>1 DEF LoginCommit, Goes, Unsaid
    <3> QED BY <3>1, SessionCommit
  <2>2. CASE LogoutDelete(s)
    <3>1. ~Unsaid(s) /\ sess' = [sess EXCEPT ![s].pc = "deleted"] /\ UNCHANGED token
          /\ CommitsRow(sess[s].user, Nothing)
      BY <2>2 DEF LogoutDelete, Goes, Unsaid
    <3> QED BY <3>1, SessionCommit
  <2> QED BY <1>3, <2>1, <2>2
<1>4. ASSUME NEW s \in Session, RefreshCommit(s) PROVE SessionInv'
  <2> DEFINE u == sess[s].user
  <2>1. ~Unsaid(s) /\ sess' = [sess EXCEPT ![s].pc = "refreshed"] /\ UNCHANGED token
    BY <1>4 DEF RefreshCommit, Goes, Unsaid
  <2>2. CASE row[u] = Nothing
    <3>1. u \in User /\ u \in mixed' /\ mixed' = mixed \cup {u} /\ UNCHANGED row
      BY <1>4, <2>2 DEF RefreshCommit, SessionInv, SessionTypeOK
    <3>2. /\ sess'[s].user = u /\ \A r \in Session \ {s} : sess'[r] = sess[r]
          /\ sess' \in [Session -> [pc : SessionPc, user : User, saw : Token \cup {Nothing}]]
      BY <2>1 DEF SessionInv, SessionTypeOK, SessionPc
    <3>3. LastCommit'
      BY <3>1, <3>2 DEF SessionInv, LastCommit, Unsaid
    <3>4. TokensMatchRows'
      <4> SUFFICES ASSUME NEW v \in User \ mixed', ~Between(v)'
                   PROVE  token'[v]["own"] \in {Nothing, row'[v]}
        BY DEF TokensMatchRows
      <4>1. v # u /\ v \notin mixed
        BY <3>1
      <4>2. ~Between(v)
        BY <3>2, <4>1 DEF Between
      <4> QED BY <2>1, <3>1, <4>1, <4>2 DEF SessionInv, TokensMatchRows
    <3> QED BY <2>1, <3>1, <3>2, <3>3, <3>4 DEF SessionInv, SessionTypeOK
  <2>3. CASE row[u] # Nothing
    <3>1. CommitsRow(u, s)
      BY <1>4, <2>3 DEF RefreshCommit
    <3> QED BY <2>1, <3>1, SessionCommit
  <2> QED BY <2>2, <2>3
<1>5. ASSUME NEW s \in Session, LoginStore(s) \/ RefreshStore(s) PROVE SessionInv'
  <2> DEFINE pc == IF LoginStore(s) THEN "cache" ELSE "done"
  <2>1. /\ Unsaid(s) /\ sess[s].pc # "deleted" /\ pc \in {"cache", "done", "uncache"}
        /\ sess' = [sess EXCEPT ![s].pc = pc] /\ UNCHANGED <<row, mixed>>
        /\ token' = [token EXCEPT ![sess[s].user]["own"] = s]
    BY <1>5 DEF LoginStore, RefreshStore, Goes, Unsaid
  <2>2. sess[s].user \in User /\ token \in [User -> [Client -> Token \cup {Nothing}]]
    BY DEF SessionInv, SessionTypeOK
  <2>3. /\ token' \in [User -> [Client -> Token \cup {Nothing}]]
        /\ token'[sess[s].user]["own"] = s
        /\ \A v \in User \ {sess[s].user} : token'[v]["own"] = token[v]["own"]
    BY <2>1, <2>2 DEF Client, Token
  <2> HIDE DEF pc
  <2> QED BY <2>1, <2>3, SessionTold
<1>6. ASSUME NEW s \in Session, LogoutTokens(s) PROVE SessionInv'
  <2> DEFINE pc == IF HasTokens(sess[s].user) THEN "uncache" ELSE "done"
  <2>1. /\ Unsaid(s) /\ sess[s].pc = "deleted" /\ pc \in {"cache", "done", "uncache"}
        /\ sess' = [sess EXCEPT ![s].pc = pc] /\ UNCHANGED <<row, mixed>>
    BY <1>6 DEF LogoutTokens, Goes, Unsaid
  <2>2. sess[s].user \in User /\ sess[s].user \in Begins[sess[s].user]
        /\ token \in [User -> [Client -> Token \cup {Nothing}]]
    BY BeginsAssumption DEF SessionInv, SessionTypeOK
  <2>3. /\ token' \in [User -> [Client -> Token \cup {Nothing}]]
        /\ token'[sess[s].user]["own"] = Nothing
        /\ \A v \in User : token'[v]["own"] \in {token[v]["own"], Nothing}
    BY <1>6, <2>2 DEF LogoutTokens, Client
  <2> HIDE DEF pc
  <2> QED BY <2>1, <2>3, SessionTold
<1>7. ASSUME NEW s \in Session, Dies(s) PROVE SessionInv'
  <2>1. /\ UNCHANGED <<row, token>> /\ mixed' = mixed \cup {sess[s].user}
        /\ sess' = [sess EXCEPT ![s].pc = "done"]
    BY <1>7 DEF Dies, Goes
  <2>2. sess' \in [Session -> [pc : SessionPc, user : User, saw : Token \cup {Nothing}]]
        /\ sess'[s].pc = "done" /\ \A r \in Session \ {s} : sess'[r] = sess[r]
    BY <2>1 DEF SessionInv, SessionTypeOK, SessionPc
  <2> QED BY <2>1, <2>2, SessionQuiet DEF Unsaid
<1>8. ASSUME NEW s \in Session, AccessToken(s) PROVE SessionInv'
  <2>1. /\ UNCHANGED <<row, mixed>> /\ sess' = [sess EXCEPT ![s].pc = "done"] /\ ~Unsaid(s)
        /\ token' = [token EXCEPT ![sess[s].user]["other"] = s]
    BY <1>8 DEF AccessToken, Goes, Unsaid
  <2>2. sess' \in [Session -> [pc : SessionPc, user : User, saw : Token \cup {Nothing}]]
        /\ sess'[s].pc = "done" /\ \A r \in Session \ {s} : sess'[r] = sess[r]
    BY <2>1 DEF SessionInv, SessionTypeOK, SessionPc
  <2>3. /\ token' \in [User -> [Client -> Token \cup {Nothing}]]
        /\ \A v \in User : token'[v]["own"] = token[v]["own"]
    BY <2>1 DEF SessionInv, SessionTypeOK, Client, Token
  <2> QED BY <2>1, <2>2, <2>3 DEF SessionInv, SessionTypeOK, LastCommit, Unsaid, TokensMatchRows,
            Between
<1>9. ASSUME NEW u \in User, NEW c \in Client, TokenExpires(u, c) PROVE SessionInv'
  <2>1. UNCHANGED <<row, sess, mixed>> /\ token' = [token EXCEPT ![u][c] = Nothing]
    BY <1>9 DEF TokenExpires
  <2>2. /\ token' \in [User -> [Client -> Token \cup {Nothing}]]
        /\ \A v \in User : token'[v]["own"] \in {token[v]["own"], Nothing}
    BY <2>1 DEF SessionInv, SessionTypeOK, Client
  <2> QED BY <2>1, <2>2 DEF SessionInv, SessionTypeOK, LastCommit, Unsaid, TokensMatchRows, Between
<1>10. ASSUME NEW t \in Token, LockExpires(t) PROVE SessionInv'
  BY <1>10 DEF LockExpires, SessionInv, SessionTypeOK, LastCommit, Unsaid, TokensMatchRows, Between
<1> QED BY <1>1, <1>2, <1>3, <1>4, <1>5, <1>6, <1>7, <1>8, <1>9, <1>10
        DEF vars, session_vars, Next, SessionsNext

\* The token that is accepted of a user is the one in the user's row, whatever the
\* order of the requests, unless two of the user's commit before Redis is told.
THEOREM TokensAreRows == Spec => []TokensMatchRows
<1>1. SessionInv => TokensMatchRows
  BY DEF SessionInv
<1> QED BY <1>1, SessionStart, SessionStep, PTL DEF Spec

-----------------------------------------------------------------------------
(* Permissions: types, and what is over.                                   *)

SetPc == {"new", "remove", "bind", "clear", "done"}
SetJob == [pc : SetPc, grant : Grant, had : BOOLEAN, asked : SUBSET Remote]

PermissionTypeOK ==
  /\ set \in [Request -> SetJob]
  /\ call \in [Request -> [Remote -> Place]]
  /\ tries \in [Request -> [Remote -> Nat]]
  /\ assoc \in [Cluster -> Key]
  /\ perm \subseteq Cluster \X Group
  /\ binding \in [Remote -> SUBSET RemoteView]
  /\ cached \in [Cluster -> SUBSET AnyView]
  /\ filling \in [Cluster -> SUBSET AnyView]

LEMMA ViewType ==
  ASSUME PermissionTypeOK, NEW c \in Cluster
  PROVE  View(c) \subseteq AnyView
<1>1. CASE c = Here
  BY <1>1 DEF View, AnyView, LocalView, PermissionTypeOK
<1>2. CASE c # Here
  BY <1>2 DEF View, AnyView, PermissionTypeOK, Cluster
<1> QED BY <1>1, <1>2

LEMMA GrantType ==
  ASSUME NEW f \in Grant
  PROVE  DOMAIN f \subseteq Cluster /\ \A c \in DOMAIN f : f[c] \subseteq Group
BY DEF Grant

\* A record of a request with another pc.
LEMMA JobMoves ==
  ASSUME PermissionTypeOK, NEW r \in Request, NEW from, NEW to \in SetPc, Moves(r, from, to)
  PROVE  /\ set' \in [Request -> SetJob] /\ set[r].pc = from /\ set'[r].pc = to
         /\ set'[r].grant = set[r].grant /\ set'[r].had = set[r].had
         /\ set'[r].asked = set[r].asked
         /\ \A q \in Request \ {r} : set'[q] = set[q]
BY DEF PermissionTypeOK, Moves, SetJob

\* A part of a request goes from one place to another.
PartMoves(r, c, from, to) ==
  /\ call[r][c] = from /\ call'[r][c] = to
  /\ call' \in [Request -> [Remote -> Place]] /\ tries' \in [Request -> [Remote -> Nat]]
  /\ \A q \in Request, d \in Remote :
       <<q, d>> # <<r, c>> => call'[q][d] = call[q][d] /\ tries'[q][d] = tries[q][d]

LEMMA PutMoves ==
  ASSUME PermissionTypeOK, NEW r \in Request, NEW c \in Remote, NEW from \in Place, NEW to \in Place,
         Put(r, c, from, to), UNCHANGED tries
  PROVE  PartMoves(r, c, from, to) /\ tries'[r][c] = tries[r][c]
BY DEF PermissionTypeOK, Put, PartMoves

LEMMA LostMoves ==
  ASSUME PermissionTypeOK, NEW r \in Request, NEW c \in Remote, NEW from \in {"sent", "run"},
         Lost(r, c, from)
  PROVE  \/ PartMoves(r, c, from, "sent") /\ tries'[r][c] = tries[r][c] + 1 /\ UNCHANGED astray
         \/ PartMoves(r, c, from, "refused") /\ astray' = astray \cup {c}
<1>1. CASE Again(r, c, from)
  <2>1. /\ call[r][c] = from /\ call' = [call EXCEPT ![r][c] = "sent"]
        /\ tries' = [tries EXCEPT ![r][c] = @ + 1]
    BY <1>1 DEF Again, Put
  <2>2. PartMoves(r, c, from, "sent") /\ tries'[r][c] = tries[r][c] + 1
    BY <2>1 DEF PermissionTypeOK, PartMoves, Place
  <2> QED BY <2>2 DEF Lost, PartMoves
<1>2. CASE GiveUp(r, c, from)
  <2>1. PartMoves(r, c, from, "refused")
    BY <1>2, PutMoves DEF GiveUp, Place
  <2> QED BY <2>1 DEF Lost, PartMoves
<1> QED BY <1>1, <1>2 DEF Lost

LEMMA AnswersMoves ==
  ASSUME PermissionTypeOK, NEW r \in Request, NEW c \in Remote, NEW from \in {"sent", "run"},
         Answers(r, c, from)
  PROVE  \/ PartMoves(r, c, from, "ok") /\ UNCHANGED astray
         \/ PartMoves(r, c, from, "sent") /\ tries'[r][c] = tries[r][c] + 1 /\ UNCHANGED astray
         \/ PartMoves(r, c, from, "refused") /\ astray' = astray \cup {c}
<1>1. CASE Succeeds(r, c, from) /\ UNCHANGED astray
  BY <1>1, PutMoves DEF Succeeds, Place
<1>2. CASE Lost(r, c, from)
  BY <1>2, LostMoves
<1> QED BY <1>1, <1>2 DEF Answers

LEMMA Distributes ==
  ASSUME PermissionTypeOK, NEW r \in Request, NEW C, Distribute(r, C)
  PROVE  /\ call' \in [Request -> [Remote -> Place]] /\ tries' \in [Request -> [Remote -> Nat]]
         /\ \A c \in Remote : /\ call'[r][c] = IF c \in C THEN "sent" ELSE "none"
                             /\ tries'[r][c] = IF c \in C THEN 1 ELSE 0
         /\ \A q \in Request \ {r} : call'[q] = call[q] /\ tries'[q] = tries[q]
BY DEF PermissionTypeOK, Distribute, Place

LEMMA RefusesAll ==
  ASSUME PermissionTypeOK, NEW r \in Request, RefuseAll(r)
  PROVE  /\ call' \in [Request -> [Remote -> Place]] /\ UNCHANGED tries
         /\ \A c \in Remote : /\ tries[r][c] < 2 /\ call[r][c] \in {"none", "sent"}
                             /\ call'[r][c] = IF call[r][c] = "sent" THEN "refused" ELSE call[r][c]
         /\ \A q \in Request \ {r} : call'[q] = call[q]
BY DEF PermissionTypeOK, RefuseAll, Place

\* The steps, told apart by what they may do to the databases.
Quiet(r) ==
  \/ SetStart(r) \/ RemoveDone(r) \/ RemoveFails(r) \/ CommitFails(r) \/ Clear(r) \/ ClearFails(r)

CacheOnly ==
  \/ \E c \in Cluster : CacheStep(c)
  \/ \E s \in Session : LoginFills(s) \/ LogoutClears(s)

LEMMA Steps ==
  [Next]_vars =>
    \/ UNCHANGED permission_vars \/ CacheOnly \/ Register
    \/ \E r \in Request : Quiet(r) \/ Commit(r)
    \/ \E r \in Request, c \in Remote :
         \/ NotDelivered(r, c) \/ RunDelete(r, c) \/ CommitDelete(r, c) \/ RunBind(r, c)
         \/ FinishBind(r, c) \/ HandlerDies(r, c)
BY DEF Next, vars, PermissionsNext, Quiet, CacheOnly, Handler

\* What is cached afterwards was cached or read before, up to groups.
Older(v, w) == v.user = w.user /\ v.key = w.key /\ v.groups \in {{}, w.groups}

CacheFacts(c) ==
  /\ \A v \in cached'[c] : v \in AnyView /\ \E w \in cached[c] \cup filling[c] : Older(v, w)
  /\ filling'[c] \in {filling[c], {}, View(c)}

LEMMA Expired ==
  ASSUME NEW v \in AnyView
  PROVE  [v EXCEPT !.groups = {}] \in AnyView /\ Older([v EXCEPT !.groups = {}], v)
<1>1. CASE v \in LocalView
  <2>1. [v EXCEPT !.groups = {}] \in LocalView /\ Older([v EXCEPT !.groups = {}], v)
    BY <1>1 DEF LocalView, Older
  <2> QED BY <2>1 DEF AnyView
<1>2. CASE v \in RemoteView
  <2>1. [v EXCEPT !.groups = {}] \in RemoteView /\ Older([v EXCEPT !.groups = {}], v)
    BY <1>2 DEF RemoteView, Older
  <2> QED BY <2>1 DEF AnyView
<1> QED BY <1>1, <1>2 DEF AnyView

LEMMA CacheSteps ==
  ASSUME PermissionTypeOK, NEW c \in Cluster,
         FillRead(c) \/ FillWrite(c) \/ Expire(c) \/ \E U : DeleteUserCache(c, U)
  PROVE  /\ cached' \in [Cluster -> SUBSET AnyView] /\ filling' \in [Cluster -> SUBSET AnyView]
         /\ CacheFacts(c)
         /\ \A d \in Cluster \ {c} : cached'[d] = cached[d] /\ filling'[d] = filling[d]
<1> USE DEF PermissionTypeOK, CacheFacts
<1>1. CASE FillRead(c)
  BY <1>1, ViewType DEF FillRead, Older
<1>2. CASE FillWrite(c)
  <2>1. Cleared(c, {v.user : v \in filling[c]}) \subseteq cached[c]
    BY DEF Cleared
  <2> QED BY <1>2, <2>1 DEF FillWrite, Older
<1>3. CASE Expire(c)
  <2>1. cached' = [cached EXCEPT ![c] = {[v EXCEPT !.groups = {}] : v \in cached[c]}] /\ UNCHANGED filling
    BY <1>3 DEF Expire
  <2>2. \A v \in cached[c] : /\ [v EXCEPT !.groups = {}] \in AnyView
                            /\ Older([v EXCEPT !.groups = {}], v)
    BY Expired
  <2>3. {[v EXCEPT !.groups = {}] : v \in cached[c]} \subseteq AnyView
    BY <2>2
  <2>4. \A v \in {[w EXCEPT !.groups = {}] : w \in cached[c]} :
          v \in AnyView /\ \E w \in cached[c] \cup filling[c] : Older(v, w)
    BY <2>2
  <2> QED BY <2>1, <2>3, <2>4
<1>4. ASSUME NEW U, DeleteUserCache(c, U)
      PROVE  /\ cached' \in [Cluster -> SUBSET AnyView] /\ filling' \in [Cluster -> SUBSET AnyView]
             /\ CacheFacts(c)
             /\ \A d \in Cluster \ {c} : cached'[d] = cached[d] /\ filling'[d] = filling[d]
  <2>1. Cleared(c, U) \subseteq cached[c]
    BY DEF Cleared
  <2> QED BY <1>4, <2>1 DEF DeleteUserCache, Older
<1> QED BY <1>1, <1>2, <1>3, <1>4

LEMMA CacheOnlySteps ==
  ASSUME PermissionTypeOK, CacheOnly
  PROVE  /\ UNCHANGED <<tables, set, history, distribution_vars>>
         /\ cached' \in [Cluster -> SUBSET AnyView] /\ filling' \in [Cluster -> SUBSET AnyView]
         /\ \A c \in Cluster : CacheFacts(c)
<1>0. Here \in Cluster
  BY DEF Cluster
<1>1. \A c \in Cluster : cached'[c] = cached[c] /\ filling'[c] = filling[c] => CacheFacts(c)
  BY DEF CacheFacts, Older, PermissionTypeOK
<1>2. CASE \E c \in Cluster : CacheStep(c)
  BY <1>1, <1>2, CacheSteps DEF CacheStep, others
<1>3. ASSUME NEW s \in Session, LoginFills(s) \/ LogoutClears(s)
      PROVE  /\ UNCHANGED <<tables, set, history, distribution_vars>>
             /\ cached' \in [Cluster -> SUBSET AnyView] /\ filling' \in [Cluster -> SUBSET AnyView]
             /\ \A c \in Cluster : CacheFacts(c)
  <2>1. UNCHANGED <<tables, set, history, distribution_vars>>
    BY <1>3 DEF LoginFills, LogoutClears, others
  <2>2. FillRead(Here) \/ UNCHANGED caches \/ \E U : DeleteUserCache(Here, U)
    BY <1>3 DEF LoginFills, LogoutClears
  <2>3. CASE UNCHANGED caches
    BY <1>1, <2>1, <2>3 DEF caches, PermissionTypeOK
  <2> QED BY <1>0, <1>1, <2>1, <2>2, <2>3, CacheSteps
<1> QED BY <1>2, <1>3 DEF CacheOnly

-----------------------------------------------------------------------------
(* Parts of a request that is not being answered are not on their way; and *)
(* a part that is on its way has been attempted.                           *)

Over ==
  \A r \in Request, c \in Remote :
    /\ set[r].pc \notin {"remove", "bind"} => call[r][c] \in {"none", "ok", "refused"}
    /\ call[r][c] \in {"sent", "run"} => tries[r][c] > 0
    /\ set[r].pc = "bind" /\ call[r][c] # "none" => c \in DOMAIN set[r].grant

PermissionBase == PermissionTypeOK /\ Over

LEMMA PermissionStart == Init => PermissionBase
<1> SUFFICES ASSUME Init PROVE PermissionBase
  OBVIOUS
<1>1. PICK p \in Plans : PermissionsInit(p.sets, p.before)
  BY DEF Init
<1>2. /\ DOMAIN p.sets \subseteq Request /\ p.sets \in [DOMAIN p.sets -> Grant] /\ p.before \in Grant
  BY PlansAssumption
<1>3. <<>> \in Grant
  <2>1. <<>> \in [{} -> SUBSET Group]
    OBVIOUS
  <2> QED BY <2>1 DEF Grant
<1>4. set \in [Request -> SetJob] /\ \A r \in Request : set[r].pc \in {"new", "done"}
  <2>1. \A r \in DOMAIN p.sets : p.sets[r] \in Grant
    BY <1>2
  <2> QED BY <1>1, <1>3, <2>1 DEF PermissionsInit, SetJob, SetPc
<1>5. assoc \in [Cluster -> Key] /\ perm \subseteq Cluster \X Group
  BY <1>1 DEF PermissionsInit, Key
<1>6. binding \in [Remote -> SUBSET RemoteView]
  <2>1. \A c \in DOMAIN p.before : p.before[c] \in SUBSET Group
    BY <1>2, GrantType
  <2> QED BY <1>1, <2>1 DEF PermissionsInit, RemoteView, Key
<1>7. cached \in [Cluster -> SUBSET AnyView] /\ filling \in [Cluster -> SUBSET AnyView]
  BY <1>1 DEF PermissionsInit
<1>8. /\ call \in [Request -> [Remote -> Place]] /\ tries \in [Request -> [Remote -> Nat]]
      /\ \A r \in Request, c \in Remote : call[r][c] = "none"
  BY <1>1 DEF PermissionsInit, DistributionInit, Place
<1> QED BY <1>4, <1>5, <1>6, <1>7, <1>8 DEF PermissionBase, PermissionTypeOK, Over

\* A part that moves leaves the requests as they are.
LEMMA PartBase ==
  ASSUME PermissionBase, NEW r \in Request, NEW c \in Remote, NEW from \in {"sent", "run"},
         NEW to \in Place, PartMoves(r, c, from, to),
         to \in {"sent", "run"} => tries'[r][c] > 0, UNCHANGED set
  PROVE  Over'
<1>1. set[r].pc \in {"remove", "bind"}
  BY DEF PartMoves, PermissionBase, Over
<1>2. SUFFICES ASSUME NEW q \in Request, NEW d \in Remote
               PROVE  /\ set[q].pc \notin {"remove", "bind"} => call'[q][d] \in {"none", "ok", "refused"}
                      /\ call'[q][d] \in {"sent", "run"} => tries'[q][d] > 0
                      /\ set[q].pc = "bind" /\ call'[q][d] # "none" => d \in DOMAIN set[q].grant
  BY DEF Over
<1>3. CASE <<q, d>> = <<r, c>>
  BY <1>1, <1>3 DEF PartMoves, PermissionBase, Over
<1>4. CASE <<q, d>> # <<r, c>>
  BY <1>4 DEF PartMoves, PermissionBase, Over
<1> QED BY <1>3, <1>4

\* The parts of one request, at one cluster.
PartStep(r, c) ==
  \/ RunDelete(r, c) \/ CommitDelete(r, c) \/ RunBind(r, c) \/ FinishBind(r, c)
  \/ HandlerDies(r, c)
  \/ NotDelivered(r, c) /\ ~RefuseAll(r)

Attempted(r, c) == tries'[r][c] = tries[r][c] \/ tries'[r][c] = tries[r][c] + 1

LEMMA PartSteps ==
  ASSUME PermissionBase, NEW r \in Request, NEW c \in Remote, PartStep(r, c)
  PROVE  /\ UNCHANGED set
         /\ \E from \in {"sent", "run"}, to \in Place : PartMoves(r, c, from, to)
              /\ (to = "sent" => tries'[r][c] = tries[r][c] + 1)
              /\ (to = "run" => from = "sent" /\ tries'[r][c] = tries[r][c])
<1> USE DEF PermissionBase, Place
<1>1. CASE RunDelete(r, c) \/ CommitDelete(r, c)
  BY <1>1, AnswersMoves, PutMoves DEF RunDelete, CommitDelete, Arrives
<1>2. CASE RunBind(r, c) \/ FinishBind(r, c)
  BY <1>2, AnswersMoves, PutMoves DEF RunBind, FinishBind, Arrives
<1>3. CASE HandlerDies(r, c)
  BY <1>3, LostMoves DEF HandlerDies
<1>4. CASE NotDelivered(r, c) /\ ~RefuseAll(r)
  BY <1>4, LostMoves, PutMoves DEF NotDelivered, Fails, Unsigned, Unknown
<1> QED BY <1>1, <1>2, <1>3, <1>4 DEF PartStep

LEMMA PermissionStep == PermissionBase /\ [Next]_vars => PermissionBase'
<1> SUFFICES ASSUME PermissionBase, [Next]_vars PROVE PermissionBase'
  OBVIOUS
<1> USE DEF PermissionBase
<1>1. CASE UNCHANGED permission_vars
  BY <1>1 DEF permission_vars, distribution_vars, PermissionTypeOK, Over
<1>2. CASE CacheOnly
  BY <1>2, CacheOnlySteps DEF tables, history, distribution_vars, PermissionTypeOK, Over
<1>3. CASE Register
  <2>1. assoc' \in [Cluster -> Key]
    BY <1>3 DEF Register, PermissionTypeOK, Key
  <2> QED BY <1>3, <2>1 DEF Register, caches, distribution_vars, PermissionTypeOK, Over
<1>4. ASSUME NEW r \in Request, Quiet(r) PROVE PermissionBase'
  <2>1. UNCHANGED <<assoc, perm, binding>>
    BY <1>4 DEF Quiet, SetStart, RemoveDone, RemoveFails, CommitFails, Clear, ClearFails, tables
  <2>2. cached' \in [Cluster -> SUBSET AnyView] /\ filling' \in [Cluster -> SUBSET AnyView]
    <3>1. Here \in Cluster
      BY DEF Cluster
    <3>2. CASE Clear(r)
      BY <3>1, <3>2, CacheSteps DEF Clear
    <3>3. CASE ~Clear(r)
      BY <1>4, <3>3 DEF Quiet, SetStart, RemoveDone, RemoveFails, CommitFails, ClearFails, caches,
        PermissionTypeOK
    <3> QED BY <3>2, <3>3
  <2>3. ASSUME NEW C, Distribute(r, C), NEW pc \in {"remove", "bind"},
               set' \in [Request -> SetJob], set'[r].pc = pc,
               \A q \in Request \ {r} : set'[q] = set[q],
               pc = "bind" => C \subseteq DOMAIN set'[r].grant
        PROVE  PermissionBase'
    <3>1. /\ call' \in [Request -> [Remote -> Place]] /\ tries' \in [Request -> [Remote -> Nat]]
          /\ \A c \in Remote : /\ call'[r][c] = IF c \in C THEN "sent" ELSE "none"
                              /\ tries'[r][c] = IF c \in C THEN 1 ELSE 0
          /\ \A q \in Request \ {r} : call'[q] = call[q] /\ tries'[q] = tries[q]
      BY <2>3, Distributes
    <3>2. PermissionTypeOK'
      BY <2>1, <2>2, <2>3, <3>1 DEF PermissionTypeOK
    <3>3. Over'
      BY <2>3, <3>1 DEF Over
    <3> QED BY <3>2, <3>3
  <2>4. CASE SetStart(r)
    <3> DEFINE asked == {c \in Remote : assoc[c] # None}
    <3>1. /\ set' = [set EXCEPT ![r] = [pc |-> "remove", grant |-> set[r].grant, had |-> perm # {},
                                       asked |-> asked]]
          /\ Distribute(r, asked)
      BY <1>4, <2>4 DEF SetStart, PermissionTypeOK
    <3>2. set' \in [Request -> SetJob] /\ set'[r].pc = "remove"
          /\ \A q \in Request \ {r} : set'[q] = set[q]
      BY <3>1 DEF PermissionTypeOK, SetJob, SetPc
    <3> QED BY <2>3, <3>1, <3>2
  <2>6. CASE RemoveDone(r)
    <3>1. Moves(r, "remove", "bind") /\ Distribute(r, DOMAIN set[r].grant \cap Remote)
      BY <2>6 DEF RemoveDone
    <3>2. set' \in [Request -> SetJob] /\ set'[r].pc = "bind"
          /\ set'[r].grant = set[r].grant /\ \A q \in Request \ {r} : set'[q] = set[q]
      BY <3>1, JobMoves DEF SetPc
    <3> QED BY <2>3, <3>1, <3>2
  <2>5. CASE RemoveFails(r) \/ CommitFails(r) \/ Clear(r) \/ ClearFails(r)
    <3>1. /\ \E from : Moves(r, from, "done")
          /\ UNCHANGED <<call, tries>>
          /\ \A c \in Remote : call[r][c] \in {"none", "ok", "refused"}
      BY <2>5 DEF RemoveFails, CommitFails, Clear, ClearFails, Answered, Moves, distribution_vars, Over
    <3>2. set' \in [Request -> SetJob] /\ \A q \in Request \ {r} : set'[q] = set[q]
      BY <3>1, JobMoves DEF SetPc
    <3>3. PermissionTypeOK'
      BY <2>1, <2>2, <3>1, <3>2 DEF PermissionTypeOK
    <3>4. set'[r].pc = "done"
      BY <3>1, JobMoves DEF SetPc
    <3>5. Over'
      BY <3>1, <3>2, <3>4 DEF Over
    <3> QED BY <3>3, <3>5
  <2> QED BY <1>4, <2>4, <2>5, <2>6 DEF Quiet
<1>5. ASSUME NEW r \in Request, Commit(r) PROVE PermissionBase'
  <2>1. set' \in [Request -> SetJob] /\ set'[r].pc = "clear"
        /\ \A q \in Request \ {r} : set'[q] = set[q]
    BY <1>5, JobMoves DEF Commit, SetPc
  <2>2. assoc' \in [Cluster -> Key] /\ perm' \subseteq Cluster \X Group
    BY <1>5 DEF Commit, GrantedGroups, PermissionTypeOK, Key
  <2>3. UNCHANGED <<binding, cached, filling, call, tries>> /\ Answered(r)
    BY <1>5 DEF Commit, caches, distribution_vars
  <2>4. PermissionTypeOK'
    BY <2>1, <2>2, <2>3 DEF PermissionTypeOK
  <2>5. Over'
    BY <2>1, <2>3 DEF Over, Answered
  <2> QED BY <2>4, <2>5
<1>6. ASSUME NEW r \in Request, NEW c \in Remote, PartStep(r, c) PROVE PermissionBase'
  <2>1. /\ UNCHANGED <<set, assoc, perm>> /\ Over' /\ call' \in [Request -> [Remote -> Place]]
        /\ tries' \in [Request -> [Remote -> Nat]]
    <3>1. PICK from \in {"sent", "run"}, to \in Place :
            /\ PartMoves(r, c, from, to) /\ UNCHANGED set
            /\ to = "sent" => tries'[r][c] = tries[r][c] + 1
            /\ to = "run" => from = "sent" /\ tries'[r][c] = tries[r][c]
      BY <1>6, PartSteps
    <3>2. UNCHANGED <<assoc, perm>>
      BY <1>6 DEF PartStep, RunDelete, CommitDelete, RunBind, FinishBind, HandlerDies, NotDelivered, tables
    <3>3. tries[r][c] \in Nat
      BY DEF PermissionTypeOK
    <3>4. to \in {"sent", "run"} => tries'[r][c] > 0
      BY <3>1, <3>3 DEF PartMoves, Over
    <3> QED BY <3>1, <3>2, <3>4, PartBase DEF PartMoves
  <2>2. binding' \in [Remote -> SUBSET RemoteView]
    <3>1. CASE RunBind(r, c)
      <4>1. set[r].grant[c] \subseteq Group
        <5>1. set[r].grant \in Grant /\ c \in DOMAIN set[r].grant
          BY <3>1 DEF PermissionTypeOK, SetJob, RunBind, Arrives, Put, Over
        <5> QED BY <5>1, GrantType
      <4>2. r \in Key /\ \A v \in binding[c] : v \in RemoteView
        BY DEF PermissionTypeOK, Key
      <4>3. [user |-> r, key |-> r, groups |-> set[r].grant[c]] \in RemoteView
        BY <4>1, <4>2 DEF RemoteView
      <4>4. \A v \in binding[c] :
              [user |-> v.user, key |-> r, groups |-> v.groups \cup set[r].grant[c]] \in RemoteView
        BY <4>1, <4>2 DEF RemoteView
      <4>5. {[user |-> v.user, key |-> r, groups |-> v.groups \cup set[r].grant[c]] : v \in binding[c]}
              \subseteq RemoteView
        BY <4>4
      <4>6. binding' = [binding EXCEPT ![c] =
              IF binding[c] = {} THEN {[user |-> r, key |-> r, groups |-> set[r].grant[c]]}
              ELSE {[user |-> v.user, key |-> r, groups |-> v.groups \cup set[r].grant[c]] :
                      v \in binding[c]}]
        BY <3>1 DEF RunBind, PermissionTypeOK
      <4> QED BY <4>3, <4>5, <4>6 DEF PermissionTypeOK
    <3>2. CASE CommitDelete(r, c)
      BY <3>2 DEF CommitDelete, PermissionTypeOK
    <3> QED BY <1>6, <3>1, <3>2 DEF PartStep, RunDelete, FinishBind, HandlerDies, NotDelivered, tables,
              PermissionTypeOK
  <2>3. cached' \in [Cluster -> SUBSET AnyView] /\ filling' \in [Cluster -> SUBSET AnyView]
    <3>1. c \in Cluster
      BY DEF Cluster
    <3>2. CASE FinishBind(r, c)
      BY <3>1, <3>2, CacheSteps DEF FinishBind
    <3>3. CASE RunDelete(r, c)
      <4>1. Cleared(c, Users(c)) \subseteq cached[c]
        BY DEF Cleared
      <4> QED BY <3>1, <3>3, <4>1 DEF RunDelete, PermissionTypeOK
    <3> QED BY <1>6, <3>2, <3>3 DEF PartStep, CommitDelete, RunBind, HandlerDies, NotDelivered, caches,
              PermissionTypeOK
  <2> QED BY <2>1, <2>2, <2>3 DEF PermissionTypeOK
<1>7. ASSUME NEW r \in Request, NEW c \in Remote, NotDelivered(r, c), RefuseAll(r) PROVE PermissionBase'
  <2>1. /\ call' \in [Request -> [Remote -> Place]] /\ UNCHANGED tries
        /\ \A d \in Remote : call'[r][d] = IF call[r][d] = "sent" THEN "refused" ELSE call[r][d]
        /\ \A q \in Request \ {r} : call'[q] = call[q]
    BY <1>7, RefusesAll
  <2>2. UNCHANGED <<tables, caches, set>>
    BY <1>7 DEF NotDelivered
  <2>3. PermissionTypeOK'
    BY <2>1, <2>2 DEF tables, caches, PermissionTypeOK
  <2>4. \A q \in Request, d \in Remote :
          call'[q][d] = call[q][d] \/ (call[q][d] = "sent" /\ call'[q][d] = "refused")
    <3> TAKE q \in Request, d \in Remote
    <3>1. CASE q = r
      BY <2>1, <3>1
    <3>2. CASE q # r
      BY <2>1, <3>2
    <3> QED BY <3>1, <3>2
  <2>5. Over'
    BY <2>1, <2>2, <2>4 DEF Over
  <2> QED BY <2>3, <2>5
<1>8. ASSUME NEW r \in Request, NEW c \in Remote, NotDelivered(r, c) PROVE PermissionBase'
  <2>1. CASE RefuseAll(r)
    BY <1>7, <1>8, <2>1
  <2>2. CASE ~RefuseAll(r)
    BY <1>6, <1>8, <2>2 DEF PartStep
  <2> QED BY <2>1, <2>2
<1>9. ASSUME NEW r \in Request, NEW c \in Remote,
             RunDelete(r, c) \/ CommitDelete(r, c) \/ RunBind(r, c) \/ FinishBind(r, c)
               \/ HandlerDies(r, c)
      PROVE  PermissionBase'
  BY <1>6, <1>9 DEF PartStep
<1> QED BY <1>1, <1>2, <1>3, <1>4, <1>5, <1>8, <1>9, Steps

-----------------------------------------------------------------------------
(* The caches.  While a cluster is not outdated, what is read is current,  *)
(* and what is cached is at least about the users it has.                  *)

CacheOf(c) ==
  c \notin outdated =>
    /\ filling[c] \subseteq View(c)
    /\ ~Clearing(c) => \A v \in cached[c] : \E w \in View(c) : Older(v, w)
    /\ c \in Remote => \A v \in cached[c] : \E w \in View(c) : v.user = w.user

HereOnly == \A v \in cached[Here] \cup filling[Here] : v.user = Here

ClearsRegistered == \A r \in Request : set[r].pc = "clear" => registered

CacheInv == (\A c \in Cluster : CacheOf(c)) /\ HereOnly /\ ClearsRegistered

LEMMA CacheInvStart == Init => CacheInv
<1> SUFFICES ASSUME Init PROVE CacheInv
  OBVIOUS
<1>1. PICK p \in Plans : PermissionsInit(p.sets, p.before)
  BY DEF Init
<1>2. \A c \in Cluster : cached[c] = {} /\ filling[c] = {}
  BY <1>1 DEF PermissionsInit
<1>3. \A r \in Request : set[r].pc # "clear"
  BY <1>1 DEF PermissionsInit
<1> QED BY <1>2, <1>3 DEF CacheInv, CacheOf, HereOnly, ClearsRegistered, Cluster

\* A cluster whose database a step leaves alone.
LEMMA CacheStays ==
  ASSUME CacheInv, NEW c \in Cluster, CacheFacts(c), View(c)' = View(c),
         outdated \subseteq outdated', Clearing(c) => Clearing(c)' \/ c \in outdated'
  PROVE  CacheOf(c)'
<1> SUFFICES ASSUME c \notin outdated'
             PROVE  /\ filling'[c] \subseteq View(c)
                    /\ ~Clearing(c)' => \A v \in cached'[c] : \E w \in View(c) : Older(v, w)
                    /\ c \in Remote => \A v \in cached'[c] : \E w \in View(c) : v.user = w.user
  BY DEF CacheOf
<1>1. /\ filling[c] \subseteq View(c)
      /\ ~Clearing(c) => \A v \in cached[c] : \E w \in View(c) : Older(v, w)
      /\ c \in Remote => \A v \in cached[c] : \E w \in View(c) : v.user = w.user
  BY DEF CacheInv, CacheOf
<1>2. \A v \in cached'[c] : \E w \in cached[c] \cup filling[c] : Older(v, w)
  BY DEF CacheFacts
<1>3. filling'[c] \subseteq View(c)
  BY <1>1 DEF CacheFacts
<1>4. ASSUME NEW v \in cached'[c], ~Clearing(c)' PROVE \E x \in View(c) : Older(v, x)
  <2>1. PICK w \in cached[c] \cup filling[c] : Older(v, w)
    BY <1>2
  <2>2. PICK x \in View(c) : Older(w, x)
    BY <1>1, <1>4 DEF Older
  <2> QED BY <2>1, <2>2 DEF Older
<1>5. ASSUME NEW v \in cached'[c], c \in Remote PROVE \E x \in View(c) : v.user = x.user
  BY <1>1, <1>2, <1>5 DEF Older
<1> QED BY <1>3, <1>4, <1>5

\* What the views depend on.
LEMMA ViewStays ==
  ASSUME NEW c \in Cluster, c = Here => UNCHANGED <<registered, assoc, perm>>,
         c # Here => binding'[c] = binding[c]
  PROVE  View(c)' = View(c)
BY DEF View

\* A cluster whose caches a step leaves alone.
LEMMA CachesStay ==
  ASSUME NEW c \in Cluster, cached'[c] \subseteq cached[c], filling'[c] = filling[c],
         PermissionTypeOK
  PROVE  CacheFacts(c)
BY DEF CacheFacts, Older, PermissionTypeOK

LEMMA HereStays ==
  ASSUME HereOnly, CacheFacts(Here)
  PROVE  HereOnly'
<1>1. \A w \in View(Here) : w.user = Here
  BY DEF View
<1> QED BY <1>1 DEF HereOnly, CacheFacts, Older

LEMMA CacheStep1 ==
  ASSUME PermissionBase, CacheInv, CacheOnly \/ UNCHANGED permission_vars
  PROVE  CacheInv'
<1>1. /\ UNCHANGED <<tables, set, history, distribution_vars>>
      /\ \A c \in Cluster : CacheFacts(c)
  <2>1. CASE CacheOnly
    BY <2>1, CacheOnlySteps DEF PermissionBase
  <2>2. CASE UNCHANGED permission_vars
    BY <2>2, CachesStay DEF permission_vars, tables, history, PermissionBase
  <2> QED BY <2>1, <2>2
<1>2. \A c \in Cluster : View(c)' = View(c) /\ Clearing(c)' = Clearing(c)
  BY <1>1 DEF View, Clearing, tables, distribution_vars
<1>3. \A c \in Cluster : CacheOf(c)'
  BY <1>1, <1>2, CacheStays DEF history
<1>4. Here \in Cluster
  BY DEF Cluster
<1>5. HereOnly' /\ ClearsRegistered'
  BY <1>1, <1>4, HereStays DEF CacheInv, ClearsRegistered, tables
<1> QED BY <1>3, <1>5 DEF CacheInv

\* A request's own steps.
LEMMA CacheStep2 ==
  ASSUME PermissionBase, CacheInv, NEW r \in Request, Quiet(r) \/ Commit(r)
  PROVE  CacheInv'
<1>1. /\ \A q \in Request \ {r} : set'[q] = set[q] /\ call'[q] = call[q]
      /\ set[r].pc = "bind" => Answered(r)
      /\ set'[r].pc = "clear" <=> Commit(r)
      /\ set'[r].pc = "bind" => \A c \in Remote : call'[r][c] \in {"none", "sent"}
  <2>1. CASE SetStart(r)
    <3>1. /\ set[r].pc = "new" /\ set' = [set EXCEPT ![r] = [pc |-> "remove", grant |-> set[r].grant,
                                       had |-> perm # {}, asked |-> {c \in Remote : assoc[c] # None}]]
          /\ Distribute(r, {c \in Remote : assoc[c] # None})
          /\ ~Commit(r)
      BY <2>1 DEF SetStart, PermissionBase, PermissionTypeOK, Commit, Moves
    <3>2. set'[r].pc = "remove" /\ \A q \in Request \ {r} : set'[q] = set[q]
      BY <3>1 DEF PermissionBase, PermissionTypeOK
    <3>3. \A q \in Request \ {r} : call'[q] = call[q]
      BY <3>1, Distributes DEF PermissionBase
    <3> QED BY <3>1, <3>2, <3>3
  <2>2. CASE RemoveDone(r)
    <3>1. Moves(r, "remove", "bind") /\ Distribute(r, DOMAIN set[r].grant \cap Remote) /\ ~Commit(r)
      BY <2>2 DEF RemoveDone, Commit, Moves
    <3>2. /\ set[r].pc = "remove" /\ set'[r].pc = "bind" /\ \A q \in Request \ {r} : set'[q] = set[q]
      BY <3>1, JobMoves DEF SetPc, PermissionBase
    <3>3. /\ \A q \in Request \ {r} : call'[q] = call[q]
          /\ \A c \in Remote : call'[r][c] \in {"none", "sent"}
      BY <3>1, Distributes DEF PermissionBase
    <3> QED BY <3>1, <3>2, <3>3
  <2>3. CASE RemoveFails(r) \/ Clear(r) \/ ClearFails(r) \/ CommitFails(r)
    <3>1. PICK from : /\ Moves(r, from, "done") /\ UNCHANGED call
                      /\ from = "bind" => Answered(r)
      BY <2>3 DEF RemoveFails, Clear, ClearFails, CommitFails, distribution_vars
    <3>2. /\ set[r].pc = from /\ set'[r].pc = "done"
          /\ \A q \in Request \ {r} : set'[q] = set[q]
      BY <3>1, JobMoves DEF SetPc, PermissionBase
    <3>3. ~Commit(r)
      BY <3>2, JobMoves DEF Commit, SetPc, PermissionBase
    <3> QED BY <3>1, <3>2, <3>3
  <2>4. CASE Commit(r)
    <3>1. Moves(r, "bind", "clear") /\ UNCHANGED call /\ Answered(r)
      BY <2>4 DEF Commit, distribution_vars
    <3>2. /\ set[r].pc = "bind" /\ set'[r].pc = "clear" /\ \A q \in Request \ {r} : set'[q] = set[q]
      BY <3>1, JobMoves DEF SetPc, PermissionBase
    <3> QED BY <2>4, <3>1, <3>2
  <2> QED BY <2>1, <2>2, <2>3, <2>4 DEF Quiet
<1>2. UNCHANGED <<registered, binding, filling>> /\ outdated \subseteq outdated'
  BY DEF Quiet, SetStart, RemoveDone, RemoveFails, CommitFails, Clear, ClearFails, Commit, tables,
    caches, history, DeleteUserCache
<1>3. \A c \in Cluster : cached'[c] \subseteq cached[c]
  <2>1. CASE Clear(r)
    <3>1. Cleared(Here, {Here}) \subseteq cached[Here]
      BY DEF Cleared
    <3> QED BY <2>1, <3>1 DEF Clear, DeleteUserCache, PermissionBase, PermissionTypeOK
  <2>2. CASE ~Clear(r)
    <3>1. UNCHANGED cached
      BY <2>2 DEF Quiet, SetStart, RemoveDone, RemoveFails, CommitFails, ClearFails, Commit, caches
    <3> QED BY <3>1
  <2> QED BY <2>1, <2>2
<1>4. ASSUME NEW c \in Remote PROVE CacheOf(c)'
  <2>1. c \in Cluster /\ c # Here
    BY HereAssumption DEF Cluster
  <2>2. View(c)' = View(c)
    BY <1>2, <2>1, ViewStays
  <2>3. Clearing(c) => Clearing(c)'
    BY <1>1, <2>1 DEF Clearing, Answered
  <2> QED BY <1>2, <1>3, <2>1, <2>2, <2>3, CachesStay, CacheStays DEF PermissionBase
<1>5. CacheOf(Here)' /\ HereOnly'
  <2>1. Here \in Cluster /\ Here \notin Remote
    BY HereAssumption DEF Cluster
  <2>2. CacheFacts(Here) /\ HereOnly'
    BY <1>2, <1>3, <2>1, CachesStay, HereStays DEF PermissionBase, CacheInv
  <2>3. CASE Commit(r)
    <3>1. Here \in outdated' \/ filling[Here] = {}
      BY <2>3 DEF Commit
    <3>2. Clearing(Here)'
      BY <1>1, <2>3 DEF Clearing
    <3> QED BY <1>2, <2>1, <2>2, <3>1, <3>2 DEF CacheOf
  <2>4. CASE Clear(r)
    <3>1. cached'[Here] = {}
      BY <2>1, <2>4 DEF Clear, DeleteUserCache, Cleared, CacheInv, HereOnly, PermissionBase,
        PermissionTypeOK
    <3>2. View(Here)' = View(Here) /\ UNCHANGED outdated
      BY <2>4 DEF Clear, tables, history, View
    <3> QED BY <1>2, <2>1, <2>2, <3>1, <3>2 DEF CacheOf, CacheInv
  <2>5. CASE ~Commit(r) /\ ~Clear(r)
    <3>1. UNCHANGED <<assoc, perm>> /\ (set[r].pc = "clear" => Here \in outdated')
      BY <2>5, JobMoves DEF Quiet, SetStart, RemoveDone, RemoveFails, CommitFails, ClearFails, tables,
        Moves
    <3>2. Clearing(Here) => Clearing(Here)' \/ Here \in outdated'
      BY <1>1, <3>1 DEF Clearing
    <3>3. View(Here)' = View(Here)
      BY <1>2, <2>1, <3>1, ViewStays
    <3> QED BY <1>2, <2>1, <2>2, <3>2, <3>3, CacheStays
  <2> QED BY <2>2, <2>3, <2>4, <2>5
<1>6. ClearsRegistered'
  <2>1. Commit(r) => registered
    BY DEF Commit
  <2> QED BY <1>1, <1>2, <2>1 DEF CacheInv, ClearsRegistered
<1> QED BY <1>4, <1>5, <1>6 DEF CacheInv, Cluster

LEMMA CacheRegister == ASSUME PermissionBase, CacheInv, Register PROVE CacheInv'
<1>1. /\ ~registered /\ UNCHANGED <<binding, cached, filling, set, call>>
      /\ outdated \subseteq outdated' /\ (Here \in outdated' \/ filling[Here] = {})
  BY DEF Register, caches, distribution_vars
<1>2. ASSUME NEW c \in Remote PROVE CacheOf(c)'
  <2>1. c \in Cluster /\ c # Here
    BY HereAssumption DEF Cluster
  <2>2. View(c)' = View(c)
    BY <1>1, <2>1, ViewStays
  <2>3. Clearing(c)' = Clearing(c)
    BY <1>1 DEF Clearing
  <2> QED BY <1>1, <2>1, <2>2, <2>3, CachesStay, CacheStays DEF PermissionBase
<1>3. CacheOf(Here)'
  <2>1. ~Clearing(Here)
    BY <1>1 DEF Clearing, CacheInv, ClearsRegistered
  <2>2. View(Here) = {} /\ Here \notin Remote
    BY <1>1, HereAssumption DEF View
  <2>3. Here \in outdated \/ cached[Here] = {}
    BY <2>1, <2>2 DEF CacheInv, CacheOf, Cluster
  <2> QED BY <1>1, <2>2, <2>3 DEF CacheOf
<1> QED BY <1>1, <1>2, <1>3 DEF CacheInv, Cluster, HereOnly, ClearsRegistered

\* The steps of a part, at the cluster it is for.
LEMMA CachePart ==
  ASSUME PermissionBase, CacheInv, NEW r \in Request, NEW c \in Remote,
         PartStep(r, c) \/ (NotDelivered(r, c) /\ RefuseAll(r))
  PROVE  CacheInv'
<1>1. /\ UNCHANGED set
      /\ \A q \in Request, d \in Remote :
           call[q][d] = "run" => call'[q][d] = "run" \/ (q = r /\ d = c)
  <2>1. CASE PartStep(r, c)
    BY <2>1, PartSteps DEF PartMoves
  <2>2. CASE NotDelivered(r, c) /\ RefuseAll(r)
    BY <2>2, RefusesAll DEF NotDelivered, PermissionBase
  <2> QED BY <2>1, <2>2
<1>2. /\ UNCHANGED <<registered, assoc, perm, filling>> /\ outdated \subseteq outdated'
      /\ \A d \in Remote \ {c} : binding'[d] = binding[d]
      /\ \A d \in Cluster \ {c} : cached'[d] = cached[d]
  BY DEF PartStep, RunDelete, CommitDelete, RunBind, FinishBind, HandlerDies, NotDelivered, tables,
    caches, DeleteUserCache, PermissionBase, PermissionTypeOK
<1>3. c \in Cluster /\ c # Here /\ Here \in Cluster
  BY HereAssumption DEF Cluster
<1>4. ASSUME NEW d \in Cluster \ {c} PROVE CacheOf(d)'
  <2>1. View(d)' = View(d)
    BY <1>2, ViewStays DEF Cluster
  <2>2. Clearing(d) => Clearing(d)'
    BY <1>1 DEF Clearing, Cluster
  <2> QED BY <1>2, <2>1, <2>2, CachesStay, CacheStays DEF PermissionBase
<1>5. CacheOf(c)'
  <2>1. View(c) = binding[c] /\ View(c)' = binding'[c]
    BY <1>3 DEF View
  <2>2. CASE RunDelete(r, c) \/ HandlerDies(r, c) \/ NotDelivered(r, c)
    <3>1. UNCHANGED binding /\ cached'[c] \subseteq cached[c]
      BY <1>3, <2>2 DEF RunDelete, HandlerDies, NotDelivered, tables, caches, Cleared, PermissionBase,
        PermissionTypeOK
    <3>2. Clearing(c) => Clearing(c)' \/ c \in outdated'
      <4>1. (call[r][c] = "run" => call'[r][c] = "run" \/ c \in outdated' \/ set[r].pc # "bind")
        BY <2>2, PutMoves, LostMoves DEF RunDelete, HandlerDies, NotDelivered, Fails, Unsigned, Unknown, RefuseAll,
          Lost, Again, GiveUp, Put, PermissionBase, PermissionTypeOK
      <4> QED BY <1>1, <1>3, <4>1 DEF Clearing
    <3> QED BY <1>2, <1>3, <2>1, <3>1, <3>2, CachesStay, CacheStays DEF PermissionBase
  <2>3. CASE CommitDelete(r, c)
    <3>1. (c \in outdated' \/ (filling[c] = {} /\ cached[c] = {})) /\ UNCHANGED cached
      BY <2>3 DEF CommitDelete, caches
    <3> QED BY <1>2, <3>1 DEF CacheOf
  <2>4. CASE RunBind(r, c)
    <3>1. UNCHANGED cached /\ (c \in outdated' \/ filling[c] = {})
      BY <2>4 DEF RunBind, caches
    <3>2. Clearing(c)'
      <4>1. set[r].pc = "bind" /\ call'[r][c] = "run"
        BY <2>4, PutMoves DEF RunBind, Arrives, Put, PermissionBase, PermissionTypeOK
      <4> QED BY <1>1, <1>3, <4>1 DEF Clearing
    <3>3. \A v \in binding[c] : \E w \in binding'[c] : v.user = w.user
      <4> SUFFICES ASSUME NEW v \in binding[c] PROVE \E w \in binding'[c] : v.user = w.user
        OBVIOUS
      <4> DEFINE w == [user |-> v.user, key |-> r, groups |-> v.groups \cup set[r].grant[c]]
      <4>1. binding'[c] = {[user |-> x.user, key |-> r, groups |-> x.groups \cup set[r].grant[c]] :
                             x \in binding[c]}
        BY <2>4 DEF RunBind, PermissionBase, PermissionTypeOK
      <4>2. w \in binding'[c] /\ v.user = w.user
        BY <4>1
      <4> QED BY <4>2
    <3>4. c \notin outdated => \A v \in cached[c] : \E w \in binding[c] : v.user = w.user
      BY <1>3, <2>1 DEF CacheInv, CacheOf
    <3>5. c \notin outdated' => \A v \in cached'[c] : \E w \in binding'[c] : v.user = w.user
      BY <1>2, <3>1, <3>3, <3>4
    <3> QED BY <1>2, <2>1, <3>1, <3>2, <3>5 DEF CacheOf
  <2>5. CASE FinishBind(r, c)
    <3>1. /\ cached'[c] = Cleared(c, Users(c)) /\ UNCHANGED <<binding, outdated>>
      BY <1>3, <2>5 DEF FinishBind, DeleteUserCache, tables, PermissionBase, PermissionTypeOK
    <3>2. c \notin outdated => \A v \in cached[c] : v.user \in Users(c)
      BY <1>3, <2>1 DEF CacheInv, CacheOf, Users
    <3>3. c \notin outdated => cached'[c] = {}
      BY <3>1, <3>2 DEF Cleared
    <3> QED BY <1>2, <1>3, <2>1, <3>1, <3>3 DEF CacheOf, CacheInv
  <2> QED BY <2>2, <2>3, <2>4, <2>5 DEF PartStep
<1>6. HereOnly' /\ ClearsRegistered'
  BY <1>1, <1>2, <1>3 DEF CacheInv, HereOnly, ClearsRegistered
<1> QED BY <1>4, <1>5, <1>6 DEF CacheInv

LEMMA CacheInvStep == PermissionBase /\ CacheInv /\ [Next]_vars => CacheInv'
<1> SUFFICES ASSUME PermissionBase, CacheInv, [Next]_vars PROVE CacheInv'
  OBVIOUS
<1>1. ASSUME NEW r \in Request, NEW c \in Remote,
             \/ NotDelivered(r, c) \/ RunDelete(r, c) \/ CommitDelete(r, c) \/ RunBind(r, c)
             \/ FinishBind(r, c) \/ HandlerDies(r, c)
      PROVE  CacheInv'
  BY <1>1, CachePart DEF PartStep
<1> QED BY <1>1, Steps, CacheStep1, CacheStep2, CacheRegister

\* A view that a cluster's cache holds is that of its database, up to expired groups,
\* when no request is about to clear it: unless a commit overtook a reader, the
\* clearing failed, or the handler that was to clear it died.
THEOREM CachesAreFresh == Spec => []FreshCache
<1>1. CacheInv => FreshCache
  BY DEF CacheInv, CacheOf, FreshCache, Older
<1> QED BY <1>1, PermissionStart, PermissionStep, CacheInvStart, CacheInvStep, PTL DEF Spec

-----------------------------------------------------------------------------
(* What the clusters agree on.  While requests have not overlapped, there  *)
(* is one under way at most.  What it removes is as it was where the part  *)
(* has not been tried, and is gone where the part is done; what it binds   *)
(* is not there where the part has not been tried, and is where it is done.*)

Agree(c) ==
  IF assoc[c] = None THEN binding[c] = {}
  ELSE \E v \in binding[c] : v.key = assoc[c] /\ v.groups = {g \in Group : <<c, g>> \in perm}

Bound(r, c) ==
  binding[c] # {} /\ \A v \in binding[c] : v.key = r /\ v.groups = set[r].grant[c]

\* The other cluster cannot have begun the part.
Untried(r, c) == call[r][c] \in {"none", "refused"} \/ (call[r][c] = "sent" /\ tries[r][c] = 1)

RemovingAt(r, c) ==
  /\ call[r][c] = "ok" => binding[c] = {}
  /\ c \notin set[r].asked => call[r][c] = "none"
  /\ c \notin astray /\ Untried(r, c) => Agree(c)

BindingAt(r, c) ==
  c \notin astray =>
    /\ Untried(r, c) => binding[c] = {}
    /\ call[r][c] \in {"run", "ok"} => Bound(r, c)
    /\ call[r][c] = "sent" => binding[c] = {} \/ Bound(r, c)

Snapshot(r) == set[r].had = (perm # {}) /\ set[r].asked = {c \in Remote : assoc[c] # None}

Alone == \A q \in Request, r \in Request : UnderWay(q) /\ UnderWay(r) => q = r

Calm == (\A r \in Request : set[r].pc \notin {"remove", "bind"}) => \A c \in Remote \ astray : Agree(c)

Working(r) ==
  /\ set[r].pc \in {"remove", "bind"} => Snapshot(r)
  /\ set[r].pc = "remove" => \A c \in Remote : RemovingAt(r, c)
  /\ set[r].pc = "bind" => \A c \in Remote : BindingAt(r, c)

AgreeInv == ~raced => Alone /\ Calm /\ \A r \in Request : Working(r)

LEMMA AgreeStart == Init => AgreeInv
<1> SUFFICES ASSUME Init PROVE AgreeInv
  OBVIOUS
<1>1. PICK p \in Plans : PermissionsInit(p.sets, p.before)
  BY DEF Init
<1>2. \A r \in Request : set[r].pc \in {"new", "done"}
  BY <1>1 DEF PermissionsInit
<1>3. ASSUME NEW c \in Remote PROVE Agree(c)
  <2>1. p.before \in Grant /\ c \in Cluster /\ First # None
    BY PlansAssumption DEF Cluster, First, None
  <2>2. CASE c \notin DOMAIN p.before
    BY <1>1, <2>1, <2>2 DEF PermissionsInit, Agree
  <2>3. CASE c \in DOMAIN p.before
    <3>1. p.before[c] \subseteq Group
      BY <2>1, <2>3, GrantType
    <3>2. {g \in Group : <<c, g>> \in perm} = p.before[c]
      BY <1>1, <2>1, <2>3, <3>1 DEF PermissionsInit
    <3>3. assoc[c] = First /\ binding[c] = {[user |-> First, key |-> First, groups |-> p.before[c]]}
      BY <1>1, <2>1, <2>3 DEF PermissionsInit
    <3> QED BY <2>1, <3>2, <3>3 DEF Agree
  <2> QED BY <2>2, <2>3
<1> QED BY <1>2, <1>3 DEF AgreeInv, Alone, UnderWay, Calm, Working

\* What a part's step does at its cluster, from either kind of request.
LEMMA PartOutcome ==
  ASSUME PermissionBase, NEW r \in Request, NEW c \in Remote, PartStep(r, c)
  PROVE  /\ UNCHANGED <<set, assoc, perm, raced>> /\ set[r].pc \in {"remove", "bind"}
         /\ astray \subseteq astray'
         /\ \A q \in Request, d \in Remote :
              <<q, d>> # <<r, c>> => call'[q][d] = call[q][d] /\ tries'[q][d] = tries[q][d]
         /\ \A d \in Remote \ {c} : binding'[d] = binding[d]
         /\ (c \notin astray' /\ Untried(r, c)') => (Untried(r, c) /\ binding'[c] = binding[c])
         /\ (set[r].pc = "remove" /\ call'[r][c] = "ok") => binding'[c] = {}
         /\ set[r].pc = "bind" =>
              \/ call'[r][c] # "ok" /\ call'[r][c] # "run" /\ binding'[c] = binding[c]
              \/ call'[r][c] = "ok" /\ call[r][c] = "run" /\ binding'[c] = binding[c]
              \/ RunBind(r, c) /\ call[r][c] = "sent" /\ call'[r][c] = "run"
<1> USE DEF PermissionBase
<1>1. /\ UNCHANGED <<set, assoc, perm, raced>> /\ astray \subseteq astray'
      /\ \A d \in Remote \ {c} : binding'[d] = binding[d]
  <2>1. CASE RunDelete(r, c) \/ CommitDelete(r, c)
    BY <2>1, AnswersMoves DEF RunDelete, CommitDelete, tables, PermissionTypeOK
  <2>2. CASE RunBind(r, c) \/ FinishBind(r, c)
    BY <2>2, AnswersMoves DEF RunBind, FinishBind, tables, PermissionTypeOK
  <2>3. CASE HandlerDies(r, c) \/ NotDelivered(r, c)
    BY <2>3, LostMoves DEF HandlerDies, NotDelivered, tables
  <2> QED BY <2>1, <2>2, <2>3 DEF PartStep
<1>2. PICK from \in {"sent", "run"}, to \in Place : PartMoves(r, c, from, to)
  BY PartSteps
<1>3. set[r].pc \in {"remove", "bind"} /\ tries[r][c] > 0 /\ tries[r][c] \in Nat
  BY <1>2 DEF PartMoves, Over, PermissionTypeOK
<1>4. /\ (c \notin astray' /\ Untried(r, c)') => (Untried(r, c) /\ binding'[c] = binding[c])
      /\ (set[r].pc = "remove" /\ call'[r][c] = "ok") => binding'[c] = {}
      /\ set[r].pc = "bind" =>
              \/ call'[r][c] # "ok" /\ call'[r][c] # "run" /\ binding'[c] = binding[c]
              \/ call'[r][c] = "ok" /\ call[r][c] = "run" /\ binding'[c] = binding[c]
              \/ RunBind(r, c) /\ call[r][c] = "sent" /\ call'[r][c] = "run"
  <2>1. CASE RunDelete(r, c)
    <3>1. UNCHANGED binding /\ set[r].pc = "remove"
      BY <2>1 DEF RunDelete, tables
    <3>2. CASE binding[c] = {} /\ Answers(r, c, "sent")
      BY <1>3, <3>1, <3>2, AnswersMoves DEF PartMoves, Untried
    <3>3. CASE Arrives(r, c)
      BY <3>1, <3>3, PutMoves DEF Arrives, Place, PartMoves, Untried
    <3> QED BY <2>1, <3>2, <3>3 DEF RunDelete
  <2>2. CASE CommitDelete(r, c)
    <3>1. set[r].pc = "remove" /\ binding'[c] = {} /\ Answers(r, c, "run")
      BY <2>2 DEF CommitDelete, PermissionTypeOK
    <3>2. c \notin astray' => ~Untried(r, c)'
      BY <1>3, <3>1, AnswersMoves DEF PartMoves, Untried
    <3> QED BY <3>1, <3>2
  <2>3. CASE RunBind(r, c)
    <3>1. set[r].pc = "bind" /\ PartMoves(r, c, "sent", "run")
      BY <2>3, PutMoves DEF RunBind, Arrives, Place
    <3> QED BY <2>3, <3>1 DEF PartMoves, Untried
  <2>4. CASE FinishBind(r, c)
    <3>1. set[r].pc = "bind" /\ UNCHANGED binding /\ call[r][c] = "run" /\ Answers(r, c, "run")
      BY <2>4 DEF FinishBind, tables
    <3> QED BY <1>3, <3>1, AnswersMoves DEF PartMoves, Untried
  <2>5. CASE HandlerDies(r, c)
    <3>1. UNCHANGED binding /\ Lost(r, c, "run")
      BY <2>5 DEF HandlerDies, tables
    <3> QED BY <1>3, <3>1, LostMoves DEF PartMoves, Untried
  <2>6. CASE NotDelivered(r, c) /\ ~RefuseAll(r)
    <3>1. UNCHANGED binding
      BY <2>6 DEF NotDelivered, tables
    <3>2. CASE Lost(r, c, "sent")
      BY <1>3, <3>1, <3>2, LostMoves DEF PartMoves, Untried
    <3>3. CASE Fails(r, c) /\ astray' = astray \cup {d \in {c} : tries[r][d] > 1}
      <4>1. PartMoves(r, c, "sent", "refused") /\ (c \notin astray' => tries[r][c] = 1)
        BY <1>3, <3>3, PutMoves DEF Fails, Place
      <4> QED BY <3>1, <4>1 DEF PartMoves, Untried
    <3>4. CASE Unsigned(r, c) \/ Unknown(r, c)
      <4>1. (PartMoves(r, c, "sent", "refused") \/ PartMoves(r, c, "sent", "none")) /\ tries[r][c] = 1
        BY <3>4, PutMoves DEF Unsigned, Unknown, Fails, Place
      <4> QED BY <3>1, <4>1 DEF PartMoves, Untried
    <3> QED BY <2>6, <3>2, <3>3, <3>4 DEF NotDelivered
  <2> QED BY <2>1, <2>2, <2>3, <2>4, <2>5, <2>6 DEF PartStep
<1> QED BY <1>1, <1>2, <1>3, <1>4 DEF PartMoves

\* Binding once more what is bound changes nothing.
LEMMA BindsAgain ==
  ASSUME PermissionTypeOK, NEW r \in Request, NEW c \in Remote, RunBind(r, c),
         binding[c] = {} \/ Bound(r, c)
  PROVE  Bound(r, c)'
<1>1. UNCHANGED set
  BY DEF RunBind
<1>2. CASE binding[c] = {}
  <2>1. binding'[c] = {[user |-> r, key |-> r, groups |-> set[r].grant[c]]}
    BY <1>2 DEF RunBind, PermissionTypeOK
  <2>2. binding'[c] # {} /\ \A w \in binding'[c] : w.key = r /\ w.groups = set'[r].grant[c]
    BY <1>1, <2>1
  <2> QED BY <2>2 DEF Bound
<1>3. CASE binding[c] # {} /\ Bound(r, c)
  <2>1. binding'[c] = {[user |-> v.user, key |-> r, groups |-> v.groups \cup set[r].grant[c]] :
                         v \in binding[c]}
    BY <1>3 DEF RunBind, PermissionTypeOK
  <2>2. binding'[c] # {}
    BY <1>3, <2>1
  <2>3. ASSUME NEW w \in binding'[c] PROVE w.key = r /\ w.groups = set'[r].grant[c]
    <3>1. PICK v \in binding[c] :
            w = [user |-> v.user, key |-> r, groups |-> v.groups \cup set[r].grant[c]]
      BY <2>1
    <3>2. v.groups \cup set[r].grant[c] = set[r].grant[c]
      BY <1>3 DEF Bound
    <3> QED BY <1>1, <3>1, <3>2
  <2> QED BY <2>2, <2>3 DEF Bound
<1> QED BY <1>2, <1>3

LEMMA AgreePart ==
  ASSUME PermissionBase, AgreeInv, NEW r \in Request, NEW c \in Remote, PartStep(r, c)
  PROVE  AgreeInv'
<1> SUFFICES ASSUME ~raced' PROVE (Alone /\ Calm /\ \A q \in Request : Working(q))'
  BY DEF AgreeInv
<1>1. /\ UNCHANGED <<set, assoc, perm, raced>> /\ set[r].pc \in {"remove", "bind"}
      /\ astray \subseteq astray'
      /\ \A d \in Remote \ {c} : call'[r][d] = call[r][d] /\ tries'[r][d] = tries[r][d]
                                /\ binding'[d] = binding[d]
  BY PartOutcome
<1>2. Alone /\ Working(r)
  BY <1>1 DEF AgreeInv
<1>3. Alone' /\ Calm'
  BY <1>1, <1>2 DEF Alone, UnderWay, Calm
<1>4. \A q \in Request \ {r} : set[q].pc \notin {"remove", "bind"}
  BY <1>1, <1>2 DEF Alone, UnderWay
<1>5. Snapshot(r)'
  BY <1>1, <1>2 DEF Working, Snapshot
<1>6. ASSUME NEW d \in Remote, set[r].pc = "remove" PROVE RemovingAt(r, d)'
  <2>1. RemovingAt(r, d)
    BY <1>2, <1>6 DEF Working
  <2>2. CASE d # c
    <3>1. /\ call'[r][d] = call[r][d] /\ tries'[r][d] = tries[r][d] /\ binding'[d] = binding[d]
      BY <1>1, <2>2
    <3>2. Agree(d)' = Agree(d) /\ Untried(r, d)' = Untried(r, d)
      BY <1>1, <3>1 DEF Agree, Untried
    <3> QED BY <1>1, <2>1, <3>1, <3>2 DEF RemovingAt
  <2>3. CASE d = c
    <3>1. /\ (c \notin astray' /\ Untried(r, c)') => (Untried(r, c) /\ binding'[c] = binding[c])
          /\ call'[r][c] = "ok" => binding'[c] = {}
      BY <1>6, PartOutcome
    <3>2. c \in set[r].asked
      <4>1. call[r][c] # "none"
        BY PartSteps DEF PartMoves
      <4> QED BY <2>1, <2>3, <4>1 DEF RemovingAt
    <3>3. c \notin astray' /\ Untried(r, c)' => Agree(c)'
      BY <1>1, <2>1, <2>3, <3>1 DEF RemovingAt, Agree
    <3> QED BY <1>1, <2>3, <3>1, <3>2, <3>3 DEF RemovingAt
  <2> QED BY <2>2, <2>3
<1>7. ASSUME NEW d \in Remote, set[r].pc = "bind" PROVE BindingAt(r, d)'
  <2>1. BindingAt(r, d)
    BY <1>2, <1>7 DEF Working
  <2>2. CASE d # c
    <3>1. /\ call'[r][d] = call[r][d] /\ tries'[r][d] = tries[r][d] /\ binding'[d] = binding[d]
      BY <1>1, <2>2
    <3>2. Bound(r, d)' = Bound(r, d) /\ Untried(r, d)' = Untried(r, d)
      BY <1>1, <3>1 DEF Bound, Untried
    <3> QED BY <1>1, <2>1, <3>1, <3>2 DEF BindingAt
  <2>3. CASE d = c
    <3> SUFFICES ASSUME c \notin astray'
                 PROVE  /\ Untried(r, c)' => binding'[c] = {}
                        /\ call'[r][c] \in {"run", "ok"} => Bound(r, c)'
                        /\ call'[r][c] = "sent" => binding'[c] = {} \/ Bound(r, c)'
      BY <2>3 DEF BindingAt
    <3>1. /\ Untried(r, c) => binding[c] = {}
          /\ call[r][c] \in {"run", "ok"} => Bound(r, c)
          /\ call[r][c] = "sent" => binding[c] = {} \/ Bound(r, c)
      BY <1>1, <2>1, <2>3 DEF BindingAt
    <3>2. Untried(r, c)' => binding'[c] = {}
      BY <3>1, PartOutcome
    <3>3. call[r][c] \in {"sent", "run"}
      BY PartSteps DEF PartMoves
    <3>4. binding'[c] = binding[c] => Bound(r, c)' = Bound(r, c)
      BY <1>1 DEF Bound
    <3>5. \/ call'[r][c] # "ok" /\ call'[r][c] # "run" /\ binding'[c] = binding[c]
          \/ call'[r][c] = "ok" /\ call[r][c] = "run" /\ binding'[c] = binding[c]
          \/ RunBind(r, c) /\ call[r][c] = "sent" /\ call'[r][c] = "run"
      BY <1>7, PartOutcome
    <3>6. CASE RunBind(r, c) /\ call[r][c] = "sent" /\ call'[r][c] = "run"
      BY <3>1, <3>2, <3>6, BindsAgain DEF PermissionBase
    <3> QED BY <3>1, <3>2, <3>3, <3>4, <3>5, <3>6
  <2> QED BY <2>2, <2>3
<1>8. Working(r)'
  BY <1>1, <1>5, <1>6, <1>7 DEF Working
<1>9. \A q \in Request \ {r} : Working(q)'
  BY <1>1, <1>4 DEF Working
<1> QED BY <1>3, <1>8, <1>9

\* One cluster is not to be asked: no part is sent.
LEMMA AgreeRefused ==
  ASSUME PermissionBase, AgreeInv, NEW r \in Request, NEW c \in Remote, NotDelivered(r, c), RefuseAll(r)
  PROVE  AgreeInv'
<1> SUFFICES ASSUME ~raced' PROVE (Alone /\ Calm /\ \A q \in Request : Working(q))'
  BY DEF AgreeInv
<1>1. UNCHANGED <<set, assoc, perm, binding, raced>>
  BY DEF NotDelivered, tables
<1>2. /\ UNCHANGED tries /\ \A q \in Request \ {r} : call'[q] = call[q]
      /\ \A d \in Remote : /\ tries[r][d] < 2 /\ call[r][d] \in {"none", "sent"}
                          /\ call'[r][d] = IF call[r][d] = "sent" THEN "refused" ELSE call[r][d]
  BY RefusesAll DEF PermissionBase
<1>3. PICK e \in Remote : call[r][e] = "sent"
  BY DEF RefuseAll
<1>4. set[r].pc \in {"remove", "bind"}
  BY <1>3 DEF PermissionBase, Over
<1>5. Alone /\ Working(r)
  BY <1>1 DEF AgreeInv
<1>6. Alone' /\ Calm' /\ \A q \in Request \ {r} : Working(q)'
  BY <1>1, <1>4, <1>5 DEF Alone, Calm, UnderWay, Working
<1>7. astray \subseteq astray'
  BY LostMoves DEF NotDelivered, PermissionBase
<1>8. ASSUME NEW d \in Remote PROVE Untried(r, d)
  <2>1. tries[r][d] \in Nat /\ (call[r][d] = "sent" => tries[r][d] > 0)
    BY DEF PermissionBase, PermissionTypeOK, Over
  <2> QED BY <1>2, <2>1 DEF Untried
<1>9. ASSUME NEW d \in Remote PROVE Agree(d)' = Agree(d) /\ Bound(r, d)' = Bound(r, d)
  BY <1>1 DEF Agree, Bound
<1>10. \A d \in Remote : set[r].pc = "remove" => RemovingAt(r, d)'
  BY <1>1, <1>2, <1>5, <1>7, <1>8, <1>9 DEF Working, RemovingAt
<1>11. \A d \in Remote : set[r].pc = "bind" => BindingAt(r, d)'
  BY <1>1, <1>2, <1>5, <1>7, <1>8 DEF Working, BindingAt
<1>12. Working(r)'
  BY <1>1, <1>5, <1>10, <1>11 DEF Working, Snapshot
<1> QED BY <1>6, <1>12

\* A request that is not under way begins.
LEMMA AgreeBegins ==
  ASSUME PermissionBase, AgreeInv, NEW r \in Request, SetStart(r)
  PROVE  AgreeInv'
<1> SUFFICES ASSUME ~raced' PROVE (Alone /\ Calm /\ \A q \in Request : Working(q))'
  BY DEF AgreeInv
<1> DEFINE asked == {c \in Remote : assoc[c] # None}
<1>1. /\ set' = [set EXCEPT ![r] = [pc |-> "remove", grant |-> set[r].grant, had |-> perm # {},
                                   asked |-> asked]]
      /\ Distribute(r, asked) /\ UNCHANGED <<assoc, perm, binding, astray>>
      /\ ~raced /\ \A q \in Request : ~UnderWay(q)
  BY DEF SetStart, PermissionBase, PermissionTypeOK, tables
<1>2. /\ set'[r].pc = "remove" /\ set'[r].had = (perm # {}) /\ set'[r].asked = asked
      /\ \A q \in Request \ {r} : set'[q] = set[q]
  BY <1>1 DEF PermissionBase, PermissionTypeOK
<1>3. \A c \in Remote : /\ call'[r][c] = IF c \in asked THEN "sent" ELSE "none"
                       /\ tries'[r][c] = IF c \in asked THEN 1 ELSE 0
  BY <1>1, Distributes DEF PermissionBase
<1>4. \A c \in Remote \ astray : Agree(c)
  BY <1>1 DEF AgreeInv, Calm, UnderWay
<1>5. Alone' /\ Calm'
  BY <1>1, <1>2 DEF Alone, Calm, UnderWay
<1>6. \A q \in Request \ {r} : Working(q)'
  BY <1>1, <1>2 DEF Working, UnderWay
<1>7. \A c \in Remote : RemovingAt(r, c)'
  <2> TAKE c \in Remote
  <2>1. Agree(c)' = Agree(c)
    BY <1>1 DEF Agree
  <2> QED BY <1>1, <1>2, <1>3, <1>4, <2>1 DEF RemovingAt
<1>8. Snapshot(r)'
  BY <1>1, <1>2 DEF Snapshot
<1>9. Working(r)'
  BY <1>2, <1>7, <1>8 DEF Working
<1> QED BY <1>5, <1>6, <1>9

\* A request moves on, or ends: who is under way.
LEMMA OneMoves ==
  ASSUME PermissionBase, Alone, NEW r \in Request, set[r].pc \in {"remove", "bind", "clear"},
         \A q \in Request \ {r} : set'[q] = set[q]
  PROVE  Alone' /\ \A q \in Request \ {r} : ~UnderWay(q) /\ Working(q)'
<1>1. \A q \in Request \ {r} : ~UnderWay(q)
  BY DEF Alone, UnderWay
<1>2. Alone'
  BY <1>1 DEF Alone, UnderWay
<1>3. \A q \in Request \ {r} : Working(q)'
  BY <1>1 DEF Working, UnderWay
<1> QED BY <1>1, <1>2, <1>3

LEMMA AgreeRemoved ==
  ASSUME PermissionBase, AgreeInv, NEW r \in Request, RemoveDone(r) \/ RemoveFails(r)
  PROVE  AgreeInv'
<1> SUFFICES ASSUME ~raced' PROVE (Alone /\ Calm /\ \A q \in Request : Working(q))'
  BY DEF AgreeInv
<1>1. /\ Answered(r) /\ UNCHANGED <<assoc, perm, binding, raced>>
      /\ Moves(r, "remove", "bind") \/ Moves(r, "remove", "done")
  BY DEF RemoveDone, RemoveFails, tables
<1>2. /\ set[r].pc = "remove" /\ set'[r].grant = set[r].grant /\ set'[r].had = set[r].had
      /\ set'[r].asked = set[r].asked
      /\ \A q \in Request \ {r} : set'[q] = set[q]
  BY <1>1, JobMoves DEF SetPc, PermissionBase
<1>3. Alone /\ Snapshot(r) /\ \A c \in Remote : RemovingAt(r, c)
  BY <1>1, <1>2 DEF AgreeInv, Working
<1>4. Alone' /\ \A q \in Request \ {r} : ~UnderWay(q) /\ Working(q)'
  BY <1>2, <1>3, OneMoves
<1>5. \A c \in Remote : Agree(c)' = Agree(c)
  BY <1>1 DEF Agree
<1>6. CASE RemoveDone(r)
  <2>1. /\ set'[r].pc = "bind" /\ Distribute(r, DOMAIN set[r].grant \cap Remote)
        /\ Parts(r, "refused") = {}
        /\ astray' = (astray \ Parts(r, "ok")) \cup (set[r].asked \ Parts(r, "ok"))
    BY <1>2, <1>6, JobMoves DEF RemoveDone, SetPc, PermissionBase
  <2>2. \A c \in Remote : call'[r][c] \in {"none", "sent"}
    BY <2>1, Distributes DEF PermissionBase
  <2>3. ASSUME NEW c \in Remote \ astray' PROVE binding'[c] = {}
    <3>1. CASE c \in Parts(r, "ok")
      BY <1>1, <1>3, <3>1 DEF Parts, RemovingAt
    <3>2. CASE c \notin Parts(r, "ok")
      <4>1. c \notin astray /\ c \notin set[r].asked
        BY <2>1, <2>3, <3>2
      <4>2. Agree(c) /\ assoc[c] = None
        BY <1>3, <4>1 DEF RemovingAt, Untried, Snapshot
      <4> QED BY <1>1, <4>2 DEF Agree
    <3> QED BY <3>1, <3>2
  <2>4. \A c \in Remote : BindingAt(r, c)'
    BY <2>2, <2>3 DEF BindingAt
  <2>5. Working(r)' /\ Calm'
    BY <1>1, <1>2, <1>3, <2>1, <2>4 DEF Working, Calm, Snapshot
  <2> QED BY <1>4, <2>5
<1>7. CASE RemoveFails(r)
  <2>1. set'[r].pc = "done" /\ UNCHANGED <<call, tries>> /\ astray' = astray \cup Parts(r, "ok")
    BY <1>2, <1>7, JobMoves DEF RemoveFails, SetPc, PermissionBase, distribution_vars
  <2>2. ASSUME NEW c \in Remote \ astray' PROVE Agree(c)'
    <3>1. Untried(r, c) /\ c \notin astray
      BY <1>1, <2>1, <2>2 DEF Answered, Parts, Untried
    <3> QED BY <1>3, <1>5, <3>1 DEF RemovingAt
  <2>3. Working(r)' /\ Calm'
    BY <2>1, <2>2 DEF Working, Calm
  <2> QED BY <1>4, <2>3
<1> QED BY <1>6, <1>7

LEMMA AgreeCommit ==
  ASSUME PermissionBase, AgreeInv, NEW r \in Request, Commit(r) \/ CommitFails(r)
  PROVE  AgreeInv'
<1> SUFFICES ASSUME ~raced' PROVE (Alone /\ Calm /\ \A q \in Request : Working(q))'
  BY DEF AgreeInv
<1>1. /\ Answered(r) /\ UNCHANGED <<binding, raced, call, tries>>
      /\ Moves(r, "bind", "clear") \/ Moves(r, "bind", "done")
  BY DEF Commit, CommitFails, tables, distribution_vars
<1>2. /\ set[r].pc = "bind" /\ set'[r].pc \in {"clear", "done"} /\ set'[r].grant = set[r].grant
      /\ \A q \in Request \ {r} : set'[q] = set[q]
  BY <1>1, JobMoves DEF SetPc, PermissionBase
<1>3. Alone /\ Snapshot(r) /\ \A c \in Remote : BindingAt(r, c)
  BY <1>1, <1>2 DEF AgreeInv, Working
<1>4. Alone' /\ \A q \in Request \ {r} : ~UnderWay(q) /\ Working(q)'
  BY <1>2, <1>3, OneMoves
<1>5. Working(r)'
  BY <1>2 DEF Working
<1>6. CASE Commit(r)
  <2>1. /\ assoc' = [c \in Cluster |-> IF c \in Granted(r) THEN r ELSE None]
        /\ perm' = (IF set[r].had THEN {} ELSE perm) \cup GrantedGroups(r) /\ UNCHANGED astray
    BY <1>6 DEF Commit
  <2>2. perm' = GrantedGroups(r)
    BY <1>3, <2>1 DEF Snapshot
  <2>3. ASSUME NEW c \in Remote \ astray PROVE Agree(c)'
    <3>1. c \in Cluster /\ c # Here /\ r # None
      BY HereAssumption, RequestAssumption DEF Cluster
    <3>2. CASE call[r][c] = "ok"
      <4>1. c \in Granted(r) /\ assoc'[c] = r
        BY <2>1, <3>1, <3>2 DEF Granted, Parts
      <4>2. set[r].grant[c] \subseteq Group
        <5>1. set[r].grant \in Grant /\ c \in DOMAIN set[r].grant
          BY <1>2, <3>2 DEF PermissionBase, PermissionTypeOK, SetJob, Over
        <5> QED BY <5>1, GrantType
      <4>3. {g \in Group : <<c, g>> \in perm'} = set[r].grant[c]
        BY <2>2, <3>1, <4>1, <4>2 DEF GrantedGroups
      <4>4. Bound(r, c)
        BY <1>3, <2>3, <3>2 DEF BindingAt
      <4> QED BY <1>1, <3>1, <4>1, <4>3, <4>4 DEF Agree, Bound
    <3>3. CASE call[r][c] # "ok"
      <4>1. Untried(r, c)
        BY <1>1, <3>3 DEF Answered, Untried
      <4>2. binding'[c] = {}
        BY <1>1, <1>3, <2>3, <4>1 DEF BindingAt
      <4>3. assoc'[c] = None
        BY <2>1, <3>1, <3>3 DEF Granted, Parts
      <4> QED BY <4>2, <4>3 DEF Agree
    <3> QED BY <3>2, <3>3
  <2>4. Calm'
    BY <2>1, <2>3 DEF Calm
  <2> QED BY <1>4, <1>5, <2>4
<1>7. CASE CommitFails(r)
  <2>1. UNCHANGED <<assoc, perm>> /\ astray' = astray \cup set[r].asked \cup Parts(r, "ok")
    BY <1>7 DEF CommitFails, tables
  <2>2. ASSUME NEW c \in Remote \ astray' PROVE Agree(c)'
    <3>1. c \notin astray /\ c \notin set[r].asked /\ Untried(r, c)
      BY <1>1, <2>1, <2>2 DEF Parts, Answered, Untried
    <3> QED BY <1>1, <1>3, <2>1, <3>1 DEF Snapshot, BindingAt, Agree
  <2>3. Calm'
    BY <2>2 DEF Calm
  <2> QED BY <1>4, <1>5, <2>3
<1> QED BY <1>6, <1>7

LEMMA AgreeCleared ==
  ASSUME PermissionBase, AgreeInv, NEW r \in Request, Clear(r) \/ ClearFails(r)
  PROVE  AgreeInv'
<1> SUFFICES ASSUME ~raced' PROVE (Alone /\ Calm /\ \A q \in Request : Working(q))'
  BY DEF AgreeInv
<1>1. /\ UNCHANGED <<assoc, perm, binding, raced, astray, call, tries>> /\ Moves(r, "clear", "done")
  BY DEF Clear, ClearFails, tables, history, distribution_vars
<1>2. /\ set[r].pc = "clear" /\ set'[r].pc = "done" /\ \A q \in Request \ {r} : set'[q] = set[q]
  BY <1>1, JobMoves DEF SetPc, PermissionBase
<1>3. Alone' /\ \A q \in Request \ {r} : ~UnderWay(q) /\ Working(q)'
  BY <1>1, <1>2, OneMoves DEF AgreeInv
<1>4. \A c \in Remote \ astray : Agree(c)
  BY <1>1, <1>2, <1>3 DEF AgreeInv, Calm, UnderWay
<1>5. \A c \in Remote : Agree(c)' = Agree(c)
  BY <1>1 DEF Agree
<1>6. Calm' /\ Working(r)'
  BY <1>1, <1>2, <1>4, <1>5 DEF Calm, Working
<1> QED BY <1>3, <1>6

\* Steps that leave requests, parts and the other clusters alone.
LEMMA AgreeElsewhere ==
  ASSUME PermissionBase, AgreeInv, Register \/ CacheOnly \/ UNCHANGED permission_vars
  PROVE  AgreeInv'
<1>1. /\ UNCHANGED <<set, perm, binding, astray, raced, call, tries>>
      /\ \A c \in Remote : assoc'[c] = assoc[c]
  <2>1. CASE Register
    <3>1. \A c \in Remote : c \in Cluster /\ c # Here
      BY HereAssumption DEF Cluster
    <3> QED BY <2>1, <3>1 DEF Register, distribution_vars, PermissionBase, PermissionTypeOK
  <2>2. CASE CacheOnly
    BY <2>2, CacheOnlySteps DEF tables, history, distribution_vars, PermissionBase
  <2>3. CASE UNCHANGED permission_vars
    BY <2>3 DEF permission_vars, distribution_vars
  <2> QED BY <2>1, <2>2, <2>3
<1>2. \A c \in Remote : Agree(c)' = Agree(c)
  BY <1>1 DEF Agree
<1>3. \A r \in Request, c \in Remote : /\ RemovingAt(r, c)' = RemovingAt(r, c)
                                      /\ BindingAt(r, c)' = BindingAt(r, c)
  BY <1>1, <1>2 DEF RemovingAt, BindingAt, Untried, Bound
<1>4. \A r \in Request : Snapshot(r)' = Snapshot(r)
  BY <1>1 DEF Snapshot
<1>5. ~raced => (\A r \in Request : Working(r)') /\ Calm' /\ Alone'
  BY <1>1, <1>2, <1>3, <1>4 DEF AgreeInv, Working, Calm, Alone, UnderWay
<1> QED BY <1>1, <1>5 DEF AgreeInv

LEMMA AgreeStep == PermissionBase /\ AgreeInv /\ [Next]_vars => AgreeInv'
<1> SUFFICES ASSUME PermissionBase, AgreeInv, [Next]_vars PROVE AgreeInv'
  OBVIOUS
<1>1. ASSUME NEW r \in Request, NEW c \in Remote,
             \/ NotDelivered(r, c) \/ RunDelete(r, c) \/ CommitDelete(r, c) \/ RunBind(r, c)
             \/ FinishBind(r, c) \/ HandlerDies(r, c)
      PROVE  AgreeInv'
  BY <1>1, AgreePart, AgreeRefused DEF PartStep
<1>2. ASSUME NEW r \in Request, Quiet(r) \/ Commit(r) PROVE AgreeInv'
  BY <1>2, AgreeBegins, AgreeRemoved, AgreeCommit, AgreeCleared DEF Quiet
<1> QED BY <1>1, <1>2, Steps, AgreeElsewhere

\* When the requests to set permissions have not overlapped and are over, every other
\* cluster has the key and the groups that are recorded for it, unless its answer was
\* lost for good or the request failed after it had done its part.
THEOREM ClustersAgree == Spec => []AccessAgrees
<1>1. AgreeInv => AccessAgrees
  BY DEF AgreeInv, Calm, Agree, AccessAgrees, Settled, UnderWay
<1> QED BY <1>1, PermissionStart, PermissionStep, AgreeStart, AgreeStep, PTL DEF Spec

=============================================================================
