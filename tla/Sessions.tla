------------------------------ MODULE Sessions ------------------------------
(***************************************************************************)
(* Log in, refresh, log out.  The database keeps one row per user with the *)
(* last token, which is what refresh looks the user up by; Redis keeps the *)
(* tokens that are accepted, one per user and client.  Each request        *)
(* commits to the one and then changes the other.  A refresh takes a lock  *)
(* on the token it exchanges, which Redis drops after 30 seconds.  Log out *)
(* removes the tokens under every name that begins with the user's.        *)
(***************************************************************************)
CONSTANTS
  User,
  Session,  \* the requests
  Begins,   \* Begins[u]: the users whose names begin with u's
  Nothing   \* no token

ASSUME BeginsAssumption ==
  /\ User \cap Session = {} /\ Nothing \notin User \cup Session
  /\ Begins \in [User -> SUBSET User] /\ \A u \in User : u \in Begins[u]

VARIABLES
  row,      \* user_token: the local access token, Nothing without a row
  token,    \* Redis "token-<user>-<client>", for this service's client and another
  locked,   \* Redis "<token>-invaild-token"
  sess,     \* the requests
  mixed     \* history: users whose database and Redis were changed out of step

session_vars == <<row, token, locked, sess, mixed>>

Kind == {"login", "refresh", "logout", "access"}
Client == {"own", "other"}

\* A token is named by the request that made it; a user's first by the user.
Token == User \cup Session

SessionsInit(plan, online) ==
  /\ row = [u \in User |-> IF u \in online THEN u ELSE Nothing]
  /\ token = [u \in User |-> [c \in Client |-> IF c = "own" THEN row[u] ELSE Nothing]]
  /\ locked = {}
  /\ sess = [s \in Session |->
       [pc |-> IF s \in DOMAIN plan THEN plan[s].kind ELSE "done",
        user |-> IF s \in DOMAIN plan THEN plan[s].user ELSE CHOOSE u \in User : TRUE,
        saw |-> Nothing]]
  /\ mixed = {}

-----------------------------------------------------------------------------
Goes(s, from, to) ==
  /\ sess[s].pc = from
  /\ sess' = [sess EXCEPT ![s].pc = to]

\* Has committed and not yet told Redis.
Between(u) == \E s \in Session : sess[s].user = u /\ sess[s].pc \in {"stored", "refreshed", "deleted"}

\* s commits token t for user u.
CommitsRow(u, t) ==
  /\ row' = [row EXCEPT ![u] = t]
  /\ mixed' = IF Between(u) THEN mixed \cup {u} ELSE mixed

\* oauth2_authorize_login: the oauth2 server answers, then the row is read.
LoginRead(s) ==
  /\ sess[s].pc = "login"
  /\ sess' = [sess EXCEPT ![s] = [pc |-> "record", user |-> @.user, saw |-> row[@.user]]]
  /\ UNCHANGED <<row, token, locked, mixed>>

\* A row that is inserted twice, or updated when it is gone, is an error.
LoginCommit(s) ==
  /\ (sess[s].saw = Nothing) = (row[sess[s].user] = Nothing)
  /\ Goes(s, "record", "stored")
  /\ CommitsRow(sess[s].user, s)
  /\ UNCHANGED <<token, locked>>

LoginFails(s) ==
  /\ \/ Goes(s, "login", "done")
     \/ /\ (sess[s].saw = Nothing) # (row[sess[s].user] = Nothing)
        /\ Goes(s, "record", "done")
  /\ UNCHANGED <<row, token, locked, mixed>>

\* The permissions are cached next.
LoginStore(s) ==
  /\ Goes(s, "stored", "cache")
  /\ token' = [token EXCEPT ![sess[s].user]["own"] = s]
  /\ UNCHANGED <<row, locked, mixed>>

-----------------------------------------------------------------------------
\* RefreshToken, by the holder of a token.
Held == ({row[u] : u \in User} \cup {token[u]["own"] : u \in User}) \ {Nothing}

RefreshLock(s) == \E t \in Held \ locked :
  /\ sess[s].pc = "refresh"
  /\ locked' = locked \cup {t}
  /\ sess' = [sess EXCEPT ![s] = [pc |-> "look", user |-> @.user, saw |-> t]]
  /\ UNCHANGED <<row, token, mixed>>

\* The token is locked, has no row, or the oauth2 server refuses.
RefreshFails(s) ==
  /\ \/ Goes(s, "refresh", "done")
     \/ Goes(s, "look", "done") /\ \A u \in User : row[u] # sess[s].saw
     \/ Goes(s, "exchange", "done")
  /\ UNCHANGED <<row, token, locked, mixed>>

RefreshRead(s) == \E u \in User :
  /\ sess[s].pc = "look" /\ row[u] = sess[s].saw
  /\ sess' = [sess EXCEPT ![s] = [pc |-> "exchange", user |-> u, saw |-> @.saw]]
  /\ UNCHANGED <<row, token, locked, mixed>>

\* UPDATE ... WHERE username = u, which may find no row any more.
RefreshCommit(s) ==
  LET u == sess[s].user IN
  /\ Goes(s, "exchange", "refreshed")
  /\ IF row[u] = Nothing THEN mixed' = mixed \cup {u} /\ UNCHANGED row ELSE CommitsRow(u, s)
  /\ UNCHANGED <<token, locked>>

RefreshStore(s) ==
  /\ Goes(s, "refreshed", "done")
  /\ token' = [token EXCEPT ![sess[s].user]["own"] = s]
  /\ UNCHANGED <<row, locked, mixed>>

LockExpires(t) ==
  /\ t \in locked /\ locked' = locked \ {t}
  /\ UNCHANGED <<row, token, sess, mixed>>

-----------------------------------------------------------------------------
\* Oauth2AuthorizeLogout.
LogoutDelete(s) ==
  /\ Goes(s, "logout", "deleted")
  /\ CommitsRow(sess[s].user, Nothing)
  /\ UNCHANGED <<token, locked>>

HasTokens(u) == \E v \in Begins[u], c \in Client : token[v][c] # Nothing

\* Seeded defect: the tokens are looked for under the user's name only.
LogoutTokens_NoPrefix(s) ==
  /\ Goes(s, "deleted", "uncache")
  /\ UNCHANGED <<row, token, locked, mixed>>

\* The user's caches are deleted next; DEL without keys is an error.
LogoutTokens(s) ==
  LET u == sess[s].user IN
  /\ Goes(s, "deleted", IF HasTokens(u) THEN "uncache" ELSE "done")
  /\ token' = [v \in User |-> IF v \in Begins[u] THEN [c \in Client |-> Nothing] ELSE token[v]]
  /\ UNCHANGED <<row, locked, mixed>>

\* AccessTokenAPI: another client exchanges its token for one of this service.
AccessToken(s) ==
  /\ Goes(s, "access", "done")
  /\ token' = [token EXCEPT ![sess[s].user]["other"] = s]
  /\ UNCHANGED <<row, locked, mixed>>

TokenExpires(u, c) ==
  /\ token[u][c] # Nothing /\ token' = [token EXCEPT ![u][c] = Nothing]
  /\ UNCHANGED <<row, locked, sess, mixed>>

\* The service fails between its commit and Redis.
Dies(s) ==
  /\ \E pc \in {"stored", "refreshed", "deleted"} : Goes(s, pc, "done")
  /\ mixed' = mixed \cup {sess[s].user}
  /\ UNCHANGED <<row, token, locked>>

SessionsNext ==
  \/ \E s \in Session :
       \/ LoginRead(s) \/ LoginCommit(s) \/ LoginFails(s) \/ LoginStore(s)
       \/ RefreshLock(s) \/ RefreshFails(s) \/ RefreshRead(s) \/ RefreshCommit(s)
       \/ RefreshStore(s) \/ LogoutDelete(s) \/ LogoutTokens(s) \/ AccessToken(s) \/ Dies(s)
  \/ \E t \in Token : LockExpires(t)
  \/ \E u \in User, c \in Client : TokenExpires(u, c)

-----------------------------------------------------------------------------
\* A token of this service's client that Redis accepts is the one in the user's
\* row, so its holder can refresh it, and there is none after a log out: unless
\* a request of the user commits while another has committed and not told
\* Redis, a refresh commits after a log out, or the service fails in between.
TokensMatchRows ==
  \A u \in User \ mixed : ~Between(u) => token[u]["own"] \in {Nothing, row[u]}

=============================================================================
