------------------------------ MODULE AuthTokens ------------------------------
(***************************************************************************)
(* The sessions of modules/mz_crud_new: a table of tokens with one row for *)
(* each user, and in each browser a cookie with the token it was given.    *)
(*                                                                         *)
(* A token is replaced by a deletion and an insertion, in two statements   *)
(* and outside a transaction; the requests of a user overlap; any of them  *)
(* may be killed between two statements, or its answer lost; and an answer *)
(* that comes late still writes or clears the cookie.                      *)
(*                                                                         *)
(* Abstracted: a token, and a password, is the number of the request that  *)
(* made it; a request that is refused for its form changes nothing and is  *)
(* left out; checkAuth stands for every request that only validates the    *)
(* token (save, createUser).  Time is counted in units of which a request  *)
(* may take RequestTime.                                                   *)
(***************************************************************************)
EXTENDS Naturals, FiniteSets

CONSTANTS
  Users, Browsers,
  Registered,       \* users that have an account at first
  TokenLife,        \* the 30 days of a token
  CookieLife,       \* the hour of a cookie
  RequestTime,      \* the longest a request may run
  Slots,            \* requests under way at a time
  MaxRequests,      \* bound: requests made
  MaxTime           \* bound: length of a run

\* A session of the browser is the shorter one, even if its token was issued at
\* the beginning of a request and its cookie at the end.
ASSUME AuthTokensAssumption ==
  /\ Registered \subseteq Users
  /\ TokenLife \in Nat /\ CookieLife \in Nat /\ RequestTime \in Nat
  /\ CookieLife + RequestTime <= TokenLife
  /\ MaxRequests \in Nat /\ MaxTime \in Nat

ASSUME SomebodyAssumption == Users # {} /\ Browsers # {}

VARIABLES
  password,      \* password of each user, zero without an account
  tokens,        \* the table mz_crud_tokens
  cookie,        \* the cookie auth_token of each browser
  request,       \* the requests under way
  made,          \* number of requests made
  clock,
  newest,        \* history: the request that last set out to replace the token
  ended,         \* history: tokens that were ended by their own browser
  loose          \* history: users whose password changes have overlapped

vars == <<password, tokens, cookie, request, made, clock, newest, ended, loose>>

NoRow == [token |-> 0, expiration |-> 0, password |-> 0]
NoCookie == [token |-> 0, user |-> CHOOSE u \in Users : TRUE, expires |-> 0]

Kinds == {"login", "register", "change", "edit", "mail", "logout", "check"}

\* A request is sent, runs through its statements, is answered.
Stages == {"none", "sent", "save", "forget", "delete", "insert", "answer",
           "failed"}

Idle == [stage |-> "none", kind |-> "check", browser |-> CHOOSE b \in Browsers : TRUE,
         user |-> CHOOSE u \in Users : TRUE, token |-> 0, id |-> 0, known |-> 0,
         since |-> 0, expiration |-> 0, alone |-> TRUE, writes |-> FALSE,
         cookie |-> NoCookie]

\* The number one stands for the passwords of the first accounts.
Init ==
  /\ password = [u \in Users |-> IF u \in Registered THEN 1 ELSE 0]
  /\ tokens = [u \in Users |-> NoRow]
  /\ cookie = [b \in Browsers |-> NoCookie]
  /\ request = [k \in Slots |-> Idle]
  /\ made = 1
  /\ clock = 0
  /\ newest = [u \in Users |-> 0]
  /\ ended = {}
  /\ loose = {}

-----------------------------------------------------------------------------
(* The browser.                                                            *)

\* The request k goes on as r.
Proceed(k, r) == request' = [request EXCEPT ![k] = r]

Live(c) == c.token # 0 /\ c.expires > clock

\* The token that goes with a request, if its cookie has not expired.
Carried(b) == IF Live(cookie[b]) THEN cookie[b].token ELSE 0

Send(k, b, kind, u, known) ==
  /\ request[k].stage = "none"
  /\ made < MaxRequests
  /\ made' = made + 1
  /\ Proceed(k, [Idle EXCEPT !.stage = "sent", !.kind = kind, !.browser = b,
                              !.user = u, !.token = Carried(b), !.id = made',
                              !.known = known])
  /\ UNCHANGED <<password, tokens, cookie, clock, newest, ended, loose>>

\* An answer, in whatever order it comes: an error of the server has no cookie.
Receive(k) ==
  LET r == request[k] IN
  /\ r.stage \in {"answer", "failed"}
  /\ cookie' = IF r.stage = "answer" /\ r.writes
               THEN [cookie EXCEPT ![r.browser] = r.cookie] ELSE cookie
  /\ Proceed(k, Idle)
  /\ UNCHANGED <<password, tokens, made, clock, newest, ended, loose>>

\* The request or its answer is lost, or its process is killed.
Lose(k) ==
  /\ request[k].stage # "none"
  /\ Proceed(k, Idle)
  /\ loose' = IF request[k].stage = "forget" THEN loose \cup {request[k].user}
              ELSE loose
  /\ UNCHANGED <<password, tokens, cookie, made, clock, newest, ended>>

-----------------------------------------------------------------------------
(* The server.                                                             *)

\* validateBearerToken
Valid(u, token) ==
  /\ token # 0
  /\ tokens[u].token = token /\ tokens[u].expiration > clock

\* A mutant: the password is not checked.
AnyPassword(u, known) == TRUE

CorrectPassword(u, known) == password[u] # 0 /\ password[u] = known

\* Stages in which a request holds what it has read or has yet to change.
Busy == {"save", "forget", "delete", "insert"}

With(k, u) ==
  {j \in Slots \ {k} : request[j].stage \in Busy /\ request[j].user = u}

\* The request k goes to work on the account of u: one that has begun and not
\* ended is not alone any more, nor is k.
Begin(k, stage) ==
  LET r == request[k]  u == request[k].user IN
  request' = [j \in Slots |->
    IF j = k THEN [r EXCEPT !.stage = stage, !.since = clock,
                            !.alone = With(k, u) = {},
                            !.known = IF r.kind = "login" THEN @ ELSE password[u]]
    ELSE IF j \in With(k, u) THEN [request[j] EXCEPT !.alone = FALSE]
    ELSE request[j]]

\* login
Login(k) ==
  LET r == request[k] IN
  /\ r.stage = "sent" /\ r.kind = "login"
  /\ CorrectPassword(r.user, r.known)
  /\ Begin(k, "delete")
  /\ UNCHANGED <<password, tokens, cookie, made, clock, newest, ended, loose>>

\* register: the name is free.
Register(k) ==
  LET r == request[k] IN
  /\ r.stage = "sent" /\ r.kind = "register"
  /\ password[r.user] = 0
  /\ Begin(k, "save")
  /\ UNCHANGED <<password, tokens, cookie, made, clock, newest, ended, loose>>

\* changePassword and user_edit of the user's own account, with a password
\* ("edit") or without ("mail"), up to the save: the account has been loaded.
Validated(k) ==
  LET r == request[k] IN
  /\ r.stage = "sent" /\ r.kind \in {"change", "edit", "mail"}
  /\ Valid(r.user, r.token)
  /\ r.kind = "change" => CorrectPassword(r.user, r.known)
  /\ Begin(k, "save")
  /\ UNCHANGED <<password, tokens, cookie, made, clock, newest, ended, loose>>

\* checkAuth, and the other requests that find their token good.
Checked(k) ==
  LET r == request[k] IN
  /\ r.stage = "sent" /\ r.kind = "check"
  /\ Valid(r.user, r.token)
  /\ Proceed(k, [r EXCEPT !.stage = "answer"])
  /\ UNCHANGED <<password, tokens, cookie, made, clock, newest, ended, loose>>

\* Any request whose token is not good: the answer clears the cookie, if one came.
Refused(k) ==
  LET r == request[k] IN
  /\ r.stage = "sent" /\ r.kind \in {"change", "edit", "mail", "check"}
  /\ ~Valid(r.user, r.token)
  /\ Proceed(k, [r EXCEPT !.stage = "answer", !.writes = r.token # 0])
  /\ UNCHANGED <<password, tokens, cookie, made, clock, newest, ended, loose>>

Without(token) ==
  [u \in Users |-> IF token # 0 /\ tokens[u].token = token THEN NoRow ELSE tokens[u]]

\* A mutant: every session of the user is ended.
LogoutOfUser(k) == [tokens EXCEPT ![request[k].user] = NoRow]

\* invalidateBearerToken
LogoutOfToken(k) == Without(request[k].token)

Logout(k) ==
  LET r == request[k] IN
  /\ r.stage = "sent" /\ r.kind = "logout"
  /\ tokens' = LogoutOfToken(k)
  /\ ended' = ended \cup {r.token}
  /\ Proceed(k, [r EXCEPT !.stage = "answer", !.writes = TRUE])
  /\ UNCHANGED <<password, cookie, made, clock, newest, loose>>

\* The whole account is saved, with the password it had when it was loaded
\* where the request sets none.
Save(k) ==
  LET r == request[k]  u == request[k].user IN
  /\ r.stage = "save"
  /\ ~(r.kind = "register" /\ password[u] # 0)
  /\ password' = [password EXCEPT ![u] = IF r.kind = "mail" THEN r.known ELSE r.id]
  /\ loose' = IF r.alone THEN loose ELSE loose \cup {u}
  /\ Proceed(k, [r EXCEPT !.known = password'[u], !.stage =
       CASE r.kind = "register" -> "delete"
         [] r.kind = "mail"     -> "answer"
         [] OTHER               -> "forget"])
  /\ UNCHANGED <<tokens, cookie, made, clock, newest, ended>>

\* The name has been taken since: the account cannot be saved.
SaveFails(k) ==
  /\ request[k].stage = "save"
  /\ request[k].kind = "register" /\ password[request[k].user] # 0
  /\ Proceed(k, [request[k] EXCEPT !.stage = "failed"])
  /\ UNCHANGED <<password, tokens, cookie, made, clock, newest, ended, loose>>

\* changePassword ends the token it was sent, user_edit all those of the user.
Forget(k) ==
  LET r == request[k] IN
  /\ r.stage = "forget"
  /\ IF r.kind = "change"
     THEN /\ tokens' = Without(r.token)
          /\ ended' = ended \cup {r.token}
          /\ UNCHANGED newest
     ELSE /\ tokens' = [tokens EXCEPT ![r.user] = NoRow]
          /\ newest' = [newest EXCEPT ![r.user] = r.id]
          /\ UNCHANGED ended
  /\ Proceed(k, [r EXCEPT !.stage = "delete"])
  /\ UNCHANGED <<password, cookie, made, clock, loose>>

\* A mutant: only the token that came with the request is replaced.
ReplacedToken(k) == Without(request[k].token)

ReplacedOfUser(k) == [tokens EXCEPT ![request[k].user] = NoRow]

\* generateBearerToken, its first statement
Delete(k) ==
  LET r == request[k] IN
  /\ r.stage = "delete"
  /\ tokens' = ReplacedOfUser(k)
  /\ newest' = [newest EXCEPT ![r.user] = r.id]
  /\ Proceed(k, [r EXCEPT !.stage = "insert", !.expiration = clock + TokenLife])
  /\ UNCHANGED <<password, cookie, made, clock, ended, loose>>

\* A login, a registration and a change of the password give the browser the
\* new token; an edit makes one that nobody gets, and clears the cookie.
Given(k) ==
  IF request[k].kind = "edit" THEN NoCookie
  ELSE [token |-> request[k].id, user |-> request[k].user,
        expires |-> clock + CookieLife]

\* generateBearerToken, its second statement, and the answer
Insert(k) ==
  LET r == request[k]  u == request[k].user IN
  /\ r.stage = "insert"
  /\ tokens[u] = NoRow
  /\ tokens' = [tokens EXCEPT ![u] =
       [token |-> r.id, expiration |-> r.expiration, password |-> r.known]]
  /\ Proceed(k, [r EXCEPT !.stage = "answer", !.writes = TRUE, !.cookie = Given(k)])
  /\ UNCHANGED <<password, cookie, made, clock, newest, ended, loose>>

\* The primary key is the user: the row of another request is in the way.
InsertFails(k) ==
  /\ request[k].stage = "insert"
  /\ tokens[request[k].user] # NoRow
  /\ Proceed(k, [request[k] EXCEPT !.stage = "failed"])
  /\ UNCHANGED <<password, tokens, cookie, made, clock, newest, ended, loose>>

Expired(u) == tokens[u].expiration < clock

\* mz_crud_cron
Cron ==
  /\ tokens' = [u \in Users |-> IF Expired(u) THEN NoRow ELSE tokens[u]]
  /\ UNCHANGED <<password, cookie, request, made, clock, newest, ended, loose>>

\* No request runs longer than RequestTime.
Tick ==
  /\ clock < MaxTime
  /\ \A k \in Slots : request[k].stage \in Busy => clock < request[k].since + RequestTime
  /\ clock' = clock + 1
  /\ UNCHANGED <<password, tokens, cookie, request, made, newest, ended, loose>>

-----------------------------------------------------------------------------

\* The account is the one of the cookie, or the one the user types the name of.
User(k) ==
  \E b \in Browsers :
    \/ \E u \in Users :
         \/ Send(k, b, "register", u, 0)
         \/ \E p \in 1..made : Send(k, b, "login", u, p)
    \/ \E kind \in Kinds \ {"login", "register"} :
         Send(k, b, kind, cookie[b].user, password[cookie[b].user])

Handle(k) ==
  \/ Login(k) \/ Register(k) \/ Validated(k) \/ Checked(k) \/ Refused(k)
  \/ Logout(k) \/ Save(k) \/ SaveFails(k) \/ Forget(k) \/ Delete(k)
  \/ Insert(k) \/ InsertFails(k)

Next ==
  \/ \E k \in Slots : User(k) \/ Handle(k) \/ Receive(k) \/ Lose(k)
  \/ Cron \/ Tick

Spec == Init /\ [][Next]_vars

-----------------------------------------------------------------------------
(* Properties.                                                             *)

Row == [token : Nat, expiration : Nat, password : Nat]
Cookie == [token : Nat, user : Users, expires : Nat]
Request == [stage : Stages, kind : Kinds, browser : Browsers, user : Users,
            token : Nat, id : Nat, known : Nat, since : Nat, expiration : Nat,
            alone : BOOLEAN, writes : BOOLEAN, cookie : Cookie]

\* The tables, the cookies and the requests stay well formed, and a session
\* belongs to an account.
TokensTypeOK ==
  /\ password \in [Users -> Nat]
  /\ tokens \in [Users -> Row]
  /\ cookie \in [Browsers -> Cookie]
  /\ request \in [Slots -> Request]
  /\ made \in Nat /\ clock \in Nat
  /\ newest \in [Users -> Nat]
  /\ ended \subseteq Nat /\ loose \subseteq Users
  /\ \A u \in Users : tokens[u].token # 0 => password[u] # 0

\* The cookie holds the last session asked for, which its browser has not ended.
Current(c) == Live(c) /\ newest[c.user] = c.token /\ c.token \notin ended

\* The browser that was the last to log in, or to change the password, is not
\* turned away as long as its cookie lives: whatever other requests of the user
\* have failed, been killed or come late, whoever has logged out with a token
\* of an earlier session, and whatever cron has cleaned up.
SessionKept ==
  \A b \in Browsers :
    Current(cookie[b]) => Valid(cookie[b].user, cookie[b].token)

\* A token, or an account, that could not be stored is always the fault of another
\* request for the same user at the same time: never of a session left behind by an earlier
\* one, nor of a request that was killed half way.
FailsOnlyTogether ==
  \A k \in Slots :
    request[k].stage = "failed" => ~request[k].alone

\* After the password has changed, no session opened with the former one is
\* left, except until the request that changed it has ended them, and for users
\* whose requests have overlapped or been killed there.
Replacing(u) == \E k \in Slots : request[k].stage = "forget" /\ request[k].user = u

NoFormerSession ==
  \A u \in Users \ loose :
    tokens[u] # NoRow /\ ~Replacing(u) => tokens[u].password = password[u]
=============================================================================
