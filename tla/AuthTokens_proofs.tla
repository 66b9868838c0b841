-------------------------- MODULE AuthTokens_proofs --------------------------
(* Theorems about AuthTokens, for any number of users, browsers and        *)
(* requests, and every lifetime the assumption of the module allows.       *)
EXTENDS AuthTokens, TLAPS

Typed ==
  /\ password \in [Users -> Nat]
  /\ tokens \in [Users -> Row]
  /\ cookie \in [Browsers -> Cookie]
  /\ request \in [Slots -> Request]
  /\ made \in Nat /\ clock \in Nat
  /\ newest \in [Users -> Nat]
  /\ ended \subseteq Nat /\ loose \subseteq Users

\* The accounts of the sessions, and of the requests that will open one or
\* save an account with the password it had.
Accounted(r) ==
  /\ r.stage # "none" => r.id >= 1
  /\ r.stage \in {"forget", "delete", "insert"} => password[r.user] # 0
  /\ r.stage = "save" /\ r.kind = "mail" => r.known # 0

Accounts ==
  /\ made >= 1
  /\ \A u \in Users : tokens[u].token # 0 => password[u] # 0
  /\ \A k \in Slots : Accounted(request[k])

LEMMA BlankTypes == Idle \in Request /\ NoRow \in Row /\ NoCookie \in Cookie
<1>1. (CHOOSE u \in Users : TRUE) \in Users /\ (CHOOSE b \in Browsers : TRUE) \in Browsers
  BY SomebodyAssumption
<1> QED BY <1>1 DEF Idle, NoRow, NoCookie, Request, Row, Cookie, Stages, Kinds

\* The requests of User, all of the one form.
LEMMA UserSends ==
  ASSUME Typed, NEW k \in Slots, User(k)
  PROVE  \E b \in Browsers, kind \in Kinds, u \in Users, known \in Nat :
           Send(k, b, kind, u, known)
<1>1. PICK b \in Browsers :
        \/ \E u \in Users : \/ Send(k, b, "register", u, 0)
                            \/ \E p \in 1..made : Send(k, b, "login", u, p)
        \/ \E kind \in Kinds \ {"login", "register"} :
             Send(k, b, kind, cookie[b].user, password[cookie[b].user])
  BY DEF User
<1>2. cookie[b].user \in Users /\ password[cookie[b].user] \in Nat
  BY DEF Typed, Cookie
<1>3. "register" \in Kinds /\ "login" \in Kinds /\ 0 \in Nat /\ 1..made \subseteq Nat
  BY DEF Typed, Kinds
<1> QED BY <1>1, <1>2, <1>3

\* What Begin changes of the requests, field by field.
SameFields(k) ==
  /\ request'[k].kind = request[k].kind /\ request'[k].browser = request[k].browser
  /\ request'[k].user = request[k].user /\ request'[k].token = request[k].token
  /\ request'[k].id = request[k].id /\ request'[k].expiration = request[k].expiration
  /\ request'[k].writes = request[k].writes /\ request'[k].cookie = request[k].cookie

LEMMA BeginTyped ==
  ASSUME Typed, NEW k \in Slots, NEW stage \in Stages, Begin(k, stage)
  PROVE  /\ request' \in [Slots -> Request]
         /\ SameFields(k)
         /\ request'[k].stage = stage /\ request'[k].since = clock
         /\ request'[k].alone <=> With(k, request[k].user) = {}
         /\ request'[k].known = IF request[k].kind = "login" THEN request[k].known
                                ELSE password[request[k].user]
         /\ \A j \in Slots \ {k} :
              /\ SameFields(j)
              /\ request'[j].stage = request[j].stage
              /\ request'[j].since = request[j].since
              /\ request'[j].known = request[j].known
              /\ request'[j].alone <=> /\ request[j].alone
                                       /\ j \notin With(k, request[k].user)
<1> DEFINE crowd == With(k, request[k].user)
           lone  == crowd = {}
           known == IF request[k].kind = "login" THEN request[k].known
                    ELSE password[request[k].user]
           begun(b) == [request[k] EXCEPT !.stage = stage, !.since = clock,
                                          !.alone = b, !.known = known]
           met(j) == [request[j] EXCEPT !.alone = FALSE]
<1>1. request[k] \in Request /\ clock \in Nat /\ known \in Nat
  BY DEF Typed, Request
<1>2. request' = [j \in Slots |-> IF j = k THEN begun(lone)
                                  ELSE IF j \in crowd THEN met(j) ELSE request[j]]
  BY DEF Begin
<1>3. \A b \in BOOLEAN :
        /\ begun(b) \in Request
        /\ begun(b).stage = stage /\ begun(b).since = clock
        /\ begun(b).alone = b /\ begun(b).known = known
        /\ begun(b).kind = request[k].kind /\ begun(b).browser = request[k].browser
        /\ begun(b).user = request[k].user /\ begun(b).token = request[k].token
        /\ begun(b).id = request[k].id /\ begun(b).expiration = request[k].expiration
        /\ begun(b).writes = request[k].writes /\ begun(b).cookie = request[k].cookie
  BY <1>1 DEF Request
<1>4. ASSUME NEW j \in Slots
      PROVE  /\ request[j] \in Request /\ met(j) \in Request
             /\ met(j).stage = request[j].stage /\ met(j).since = request[j].since
             /\ ~met(j).alone /\ met(j).known = request[j].known
             /\ met(j).kind = request[j].kind /\ met(j).browser = request[j].browser
             /\ met(j).user = request[j].user /\ met(j).token = request[j].token
             /\ met(j).id = request[j].id /\ met(j).expiration = request[j].expiration
             /\ met(j).writes = request[j].writes /\ met(j).cookie = request[j].cookie
  BY DEF Typed, Request
<1>5. lone \in BOOLEAN /\ k \notin crowd
  BY DEF With
<1> HIDE DEF begun, met, lone, crowd, known
<1>6. request' \in [Slots -> Request]
  BY <1>2, <1>3, <1>4, <1>5
<1>7. request'[k] = begun(lone)
  BY <1>2
<1>8. \A j \in Slots \ {k} : request'[j] = IF j \in crowd THEN met(j) ELSE request[j]
  BY <1>2
<1>9. /\ SameFields(k)
      /\ request'[k].stage = stage /\ request'[k].since = clock
      /\ request'[k].alone = lone
      /\ request'[k].known = known
  BY <1>3, <1>5, <1>7 DEF SameFields
<1>10. ASSUME NEW j \in Slots \ {k}
       PROVE  /\ SameFields(j)
              /\ request'[j].stage = request[j].stage
              /\ request'[j].since = request[j].since
              /\ request'[j].known = request[j].known
              /\ request'[j].alone <=> request[j].alone /\ j \notin crowd
  <2>1. CASE j \in crowd
    <3>1. request'[j] = met(j)
      BY <1>8, <2>1
    <3>2. ~request'[j].alone
      BY <1>4, <3>1, Zenon
    <3> QED BY <1>4, <2>1, <3>1, <3>2 DEF SameFields
  <2>2. CASE j \notin crowd
    BY <1>8, <2>2 DEF SameFields
  <2> QED BY <2>1, <2>2
<1> QED BY <1>6, <1>9, <1>10 DEF lone, crowd, known

LEMMA ProceedTyped ==
  ASSUME Typed, NEW k \in Slots, NEW r \in Request, Proceed(k, r)
  PROVE  request' \in [Slots -> Request]
BY DEF Typed, Proceed

LEMMA SentTyped ==
  ASSUME NEW b \in Browsers, NEW kind \in Kinds, NEW u \in Users,
         NEW token \in Nat, NEW id \in Nat, NEW known \in Nat
  PROVE  [Idle EXCEPT !.stage = "sent", !.kind = kind, !.browser = b, !.user = u,
                      !.token = token, !.id = id, !.known = known] \in Request
<1>1. Idle \in Request /\ "sent" \in Stages
  BY BlankTypes DEF Stages
<1> QED BY <1>1 DEF Request

LEMMA WithoutTyped ==
  ASSUME Typed, NEW token
  PROVE  /\ Without(token) \in [Users -> Row]
         /\ \A u \in Users : Without(token)[u] \in {NoRow, tokens[u]}
BY BlankTypes DEF Without, Typed

LEMMA TypedStep ==
  ASSUME Typed, [Next]_vars
  PROVE  Typed'
<1> USE DEF Typed
<1>0. ASSUME NEW k \in Slots PROVE request[k] \in Request
  OBVIOUS
<1>1. ASSUME NEW k \in Slots, NEW b \in Browsers, NEW kind \in Kinds,
             NEW u \in Users, NEW known \in Nat, Send(k, b, kind, u, known)
      PROVE  Typed'
  <2>1. Carried(b) \in Nat
    BY DEF Carried, Cookie
  <2>2. made' \in Nat
    BY <1>1 DEF Send
  <2>3. request' \in [Slots -> Request]
    BY <1>1, <2>1, <2>2, SentTyped, ProceedTyped DEF Send
  <2> QED BY <1>1, <2>2, <2>3 DEF Send
<1>2. ASSUME NEW k \in Slots, Receive(k) PROVE Typed'
  <2>1. request' \in [Slots -> Request]
    BY <1>2, BlankTypes, ProceedTyped DEF Receive
  <2>2. cookie' \in [Browsers -> Cookie]
    BY <1>2, <1>0 DEF Receive, Request
  <2> QED BY <1>2, <2>1, <2>2 DEF Receive
<1>3. ASSUME NEW k \in Slots, Lose(k) PROVE Typed'
  <2>1. request' \in [Slots -> Request]
    BY <1>3, BlankTypes, ProceedTyped DEF Lose
  <2> QED BY <1>3, <1>0, <2>1 DEF Lose, Request
<1>4. ASSUME NEW k \in Slots, Login(k) PROVE Typed'
  BY <1>4, BeginTyped DEF Login, Stages
<1>5. ASSUME NEW k \in Slots, Register(k) PROVE Typed'
  BY <1>5, BeginTyped DEF Register, Stages
<1>6. ASSUME NEW k \in Slots, Validated(k) PROVE Typed'
  BY <1>6, BeginTyped DEF Validated, Stages
<1>7. ASSUME NEW k \in Slots, Checked(k) PROVE Typed'
  <2>1. [request[k] EXCEPT !.stage = "answer"] \in Request
    BY <1>0 DEF Request, Stages
  <2> QED BY <1>7, <2>1, ProceedTyped DEF Checked
<1>8. ASSUME NEW k \in Slots, Refused(k) PROVE Typed'
  <2>1. [request[k] EXCEPT !.stage = "answer", !.writes = request[k].token # 0] \in Request
    BY <1>0 DEF Request, Stages
  <2> QED BY <1>8, <2>1, ProceedTyped DEF Refused
<1>9. ASSUME NEW k \in Slots, Logout(k) PROVE Typed'
  <2>1. [request[k] EXCEPT !.stage = "answer", !.writes = TRUE] \in Request
    BY <1>0 DEF Request, Stages
  <2>2. request' \in [Slots -> Request]
    BY <1>9, <2>1, ProceedTyped DEF Logout
  <2>3. request[k].token \in Nat
    BY <1>0 DEF Request
  <2> QED BY <1>9, <2>2, <2>3, WithoutTyped DEF Logout, LogoutOfToken
<1>10. ASSUME NEW k \in Slots, Save(k) PROVE Typed'
  <2>1. password' \in [Users -> Nat] /\ request[k].user \in Users
    BY <1>10, <1>0 DEF Save, Request
  <2>2. [request[k] EXCEPT !.known = password'[request[k].user], !.stage =
           CASE request[k].kind = "register" -> "delete"
             [] request[k].kind = "mail"     -> "answer"
             [] OTHER                        -> "forget"] \in Request
    <3>1. \A s \in Stages : [request[k] EXCEPT !.known = password'[request[k].user],
                                               !.stage = s] \in Request
      BY <1>0, <2>1 DEF Request
    <3>2. (CASE request[k].kind = "register" -> "delete"
             [] request[k].kind = "mail"     -> "answer"
             [] OTHER                        -> "forget") \in Stages
      BY DEF Stages
    <3> QED BY <3>1, <3>2
  <2>3. request' \in [Slots -> Request]
    BY <1>10, <2>2, ProceedTyped DEF Save
  <2> QED BY <1>10, <2>1, <2>3 DEF Save
<1>11. ASSUME NEW k \in Slots, SaveFails(k) PROVE Typed'
  <2>1. [request[k] EXCEPT !.stage = "failed"] \in Request
    BY <1>0 DEF Request, Stages
  <2> QED BY <1>11, <2>1, ProceedTyped DEF SaveFails
<1>12. ASSUME NEW k \in Slots, Forget(k) PROVE Typed'
  <2>1. [request[k] EXCEPT !.stage = "delete"] \in Request
    BY <1>0 DEF Request, Stages
  <2>2. request' \in [Slots -> Request]
    BY <1>12, <2>1, ProceedTyped DEF Forget
  <2>3. /\ request[k].token \in Nat /\ request[k].id \in Nat
        /\ request[k].user \in Users
    BY <1>0 DEF Request
  <2> QED BY <1>12, <2>2, <2>3, WithoutTyped, BlankTypes DEF Forget
<1>13. ASSUME NEW k \in Slots, Delete(k) PROVE Typed'
  <2>1. [request[k] EXCEPT !.stage = "insert", !.expiration = clock + TokenLife] \in Request
    <3>1. clock + TokenLife \in Nat
      BY AuthTokensAssumption
    <3>2. \A n \in Nat : [request[k] EXCEPT !.stage = "insert", !.expiration = n] \in Request
      BY <1>0 DEF Request, Stages
    <3> QED BY <3>1, <3>2
  <2>2. request' \in [Slots -> Request]
    BY <1>13, <2>1, ProceedTyped DEF Delete
  <2>3. request[k].id \in Nat /\ request[k].user \in Users
    BY <1>0 DEF Request
  <2> QED BY <1>13, <2>2, <2>3, BlankTypes DEF Delete, ReplacedOfUser
<1>14. ASSUME NEW k \in Slots, Insert(k) PROVE Typed'
  <2>1. Given(k) \in Cookie
    <3>1. request[k].id \in Nat /\ request[k].user \in Users
      BY <1>0 DEF Request
    <3>2. clock + CookieLife \in Nat
      BY AuthTokensAssumption
    <3> QED BY <3>1, <3>2, BlankTypes DEF Given, Cookie
  <2>2. [token |-> request[k].id, expiration |-> request[k].expiration,
         password |-> request[k].known] \in Row
    BY <1>0 DEF Row, Request
  <2>3. [request[k] EXCEPT !.stage = "answer", !.writes = TRUE,
                           !.cookie = Given(k)] \in Request
    BY <1>0, <2>1 DEF Request, Stages
  <2>4. request' \in [Slots -> Request]
    BY <1>14, <2>3, ProceedTyped DEF Insert
  <2> QED BY <1>14, <2>2, <2>4 DEF Insert
<1>15. ASSUME NEW k \in Slots, InsertFails(k) PROVE Typed'
  <2>1. [request[k] EXCEPT !.stage = "failed"] \in Request
    BY <1>0 DEF Request, Stages
  <2> QED BY <1>15, <2>1, ProceedTyped DEF InsertFails
<1>16. CASE Cron
  BY <1>16, BlankTypes DEF Cron
<1>17. CASE Tick
  BY <1>17 DEF Tick
<1>18. CASE UNCHANGED vars
  BY <1>18 DEF vars
<1> QED
  BY <1>1, <1>2, <1>3, <1>4, <1>5, <1>6, <1>7, <1>8, <1>9, <1>10, <1>11,
     <1>12, <1>13, <1>14, <1>15, <1>16, <1>17, <1>18, UserSends
  DEF Next, Handle

-----------------------------------------------------------------------------
(* The accounts.                                                           *)

\* What a request that goes on leaves alone.
LEMMA ProceedEffect ==
  ASSUME Typed, NEW k \in Slots, NEW r, Proceed(k, r)
  PROVE  /\ request'[k] = r
         /\ \A j \in Slots \ {k} : request'[j] = request[j]
BY DEF Typed, Proceed

\* The actions that move one request on, and leave the accounts alone.
LEMMA ProceedAccounts ==
  ASSUME Typed, Typed', Accounts, NEW k \in Slots, NEW r, Proceed(k, r),
         Accounted(r), made' >= 1, password' = password,
         \A u \in Users : tokens'[u].token # 0 => tokens[u].token # 0
  PROVE  Accounts'
BY ProceedEffect DEF Accounts, Accounted

LEMMA BeginAccounts ==
  ASSUME Typed, Typed', Accounts, NEW k \in Slots, NEW stage \in Stages,
         Begin(k, stage), request[k].stage = "sent",
         stage # "save" => password[request[k].user] # 0,
         stage = "save" /\ request[k].kind = "mail" => password[request[k].user] # 0,
         UNCHANGED <<password, tokens, made>>
  PROVE  Accounts'
<1>1. Accounted(request[k])
  BY DEF Accounts
<1>2. Accounted(request'[k])
  BY <1>1, BeginTyped DEF Accounted, SameFields
<1>3. \A j \in Slots \ {k} : Accounted(request'[j])
  BY BeginTyped DEF Accounts, Accounted, SameFields
<1> QED BY <1>2, <1>3 DEF Accounts, Accounted

LEMMA AccountsStep ==
  ASSUME Typed, Typed', Accounts, [Next]_vars
  PROVE  Accounts'
<1>0. ASSUME NEW k \in Slots
      PROVE  request[k] \in Request /\ Accounted(request[k]) /\ request[k].user \in Users
  BY DEF Typed, Accounts, Request
<1>a. Accounted(Idle)
  BY DEF Accounted, Idle
<1>b. ASSUME NEW token, NEW u \in Users
      PROVE  Without(token)[u].token # 0 => tokens[u].token # 0
  BY WithoutTyped DEF NoRow
<1>c. ASSUME NEW s \in {"answer", "failed"}, NEW k \in Slots,
             NEW r \in Request, r.stage = s, r.id = request[k].id,
             request[k].stage # "none"
      PROVE  Accounted(r)
  BY <1>0, <1>c DEF Accounted
<1>1. ASSUME NEW k \in Slots, NEW b \in Browsers, NEW kind \in Kinds,
             NEW u \in Users, NEW known \in Nat, Send(k, b, kind, u, known)
      PROVE  Accounts'
  <2> DEFINE r == [Idle EXCEPT !.stage = "sent", !.kind = kind, !.browser = b,
                               !.user = u, !.token = Carried(b), !.id = made',
                               !.known = known]
  <2>1. made' >= 1
    BY <1>1 DEF Send, Accounts, Typed
  <2>2. r.stage = "sent" /\ r.id = made'
    BY DEF Idle
  <2>3. Accounted(r)
    BY <2>1, <2>2 DEF Accounted
  <2> QED BY <1>1, <2>1, <2>3, ProceedAccounts DEF Send
<1>2. ASSUME NEW k \in Slots, Receive(k) \/ Lose(k) PROVE Accounts'
  BY <1>2, <1>a, ProceedAccounts DEF Receive, Lose, Accounts
<1>3. ASSUME NEW k \in Slots, Login(k) \/ Register(k) \/ Validated(k) PROVE Accounts'
  <2>1. CASE Login(k)
    BY <2>1, BeginAccounts DEF Login, CorrectPassword, Stages
  <2>2. CASE Register(k)
    BY <2>2, BeginAccounts DEF Register, Stages
  <2>3. CASE Validated(k)
    <3>1. password[request[k].user] # 0
      BY <1>0, <2>3 DEF Validated, Valid, Accounts
    <3> QED BY <2>3, <3>1, BeginAccounts DEF Validated, Stages
  <2> QED BY <1>3, <2>1, <2>2, <2>3
<1>4. ASSUME NEW k \in Slots, Checked(k) \/ Refused(k) \/ Logout(k) PROVE Accounts'
  <2> DEFINE r(w) == [request[k] EXCEPT !.stage = "answer", !.writes = w]
  <2>1. \A w \in BOOLEAN : r(w) \in Request /\ r(w).stage = "answer" /\ r(w).id = request[k].id
    BY <1>0 DEF Request, Stages
  <2>2. \A w \in BOOLEAN : Accounted(r(w))
    BY <1>4, <1>c, <2>1 DEF Checked, Refused, Logout
  <2>3. CASE Checked(k)
    <3> DEFINE q == [request[k] EXCEPT !.stage = "answer"]
    <3>1. q \in Request /\ q.stage = "answer" /\ q.id = request[k].id
      BY <1>0 DEF Request, Stages
    <3>2. Accounted(q)
      BY <1>c, <2>3, <3>1 DEF Checked
    <3> QED BY <2>3, <3>2, ProceedAccounts DEF Checked, Accounts
  <2>4. CASE Refused(k)
    <3>1. Proceed(k, r(request[k].token # 0))
      BY <2>4 DEF Refused
    <3>2. (request[k].token # 0) \in BOOLEAN
      OBVIOUS
    <3> HIDE DEF r
    <3> QED BY <2>2, <2>4, <3>1, <3>2, ProceedAccounts DEF Refused, Accounts
  <2>5. CASE Logout(k)
    <3>1. Proceed(k, r(TRUE))
      BY <2>5 DEF Logout
    <3> HIDE DEF r
    <3> QED BY <1>b, <2>2, <2>5, <3>1, ProceedAccounts DEF Logout, LogoutOfToken, Accounts
  <2> QED BY <1>4, <2>3, <2>4, <2>5
<1>5. ASSUME NEW k \in Slots, SaveFails(k) \/ InsertFails(k) PROVE Accounts'
  <2> DEFINE q == [request[k] EXCEPT !.stage = "failed"]
  <2>1. q \in Request /\ q.stage = "failed" /\ q.id = request[k].id
    BY <1>0 DEF Request, Stages
  <2>2. Accounted(q)
    BY <1>5, <1>c, <2>1 DEF SaveFails, InsertFails
  <2> QED BY <1>5, <2>2, ProceedAccounts DEF SaveFails, InsertFails, Accounts
<1>6. ASSUME NEW k \in Slots, Save(k) PROVE Accounts'
  <2> DEFINE u == request[k].user
             p == IF request[k].kind = "mail" THEN request[k].known ELSE request[k].id
  <2>1. p # 0 /\ password' = [password EXCEPT ![u] = p]
    BY <1>0, <1>6 DEF Save, Accounted
  <2>2. \A v \in Users : password[v] # 0 => password'[v] # 0
    BY <2>1 DEF Typed
  <2>3. password'[u] # 0
    BY <1>0, <2>1 DEF Typed
  <2>4. \A j \in Slots \ {k} : request'[j] = request[j]
    BY <1>6, ProceedEffect DEF Save
  <2>5. request'[k].user = u /\ request'[k].id = request[k].id
        /\ request'[k].stage \in {"delete", "answer", "forget"}
    <3> DEFINE s == CASE request[k].kind = "register" -> "delete"
                      [] request[k].kind = "mail"     -> "answer"
                      [] OTHER                        -> "forget"
    <3>1. s \in {"delete", "answer", "forget"}
      OBVIOUS
    <3>2. request'[k] = [request[k] EXCEPT !.known = password'[u], !.stage = s]
      BY <1>6, ProceedEffect DEF Save
    <3> HIDE DEF s
    <3> QED BY <1>0, <3>1, <3>2 DEF Request
  <2>6. Accounted(request[k])'
    BY <1>0, <1>6, <2>3, <2>5 DEF Accounted, Save
  <2>7. \A j \in Slots \ {k} : Accounted(request[j])'
    BY <1>0, <2>2, <2>4 DEF Accounted
  <2> QED BY <1>6, <2>2, <2>6, <2>7 DEF Save, Accounts
<1>7. ASSUME NEW k \in Slots, Forget(k) PROVE Accounts'
  <2> DEFINE q == [request[k] EXCEPT !.stage = "delete"]
  <2>1. q \in Request /\ q.stage = "delete" /\ q.id = request[k].id /\ q.user = request[k].user
    BY <1>0 DEF Request, Stages
  <2>2. Accounted(q)
    BY <1>0, <1>7, <2>1 DEF Accounted, Forget
  <2>3. \A v \in Users : tokens'[v].token # 0 => tokens[v].token # 0
    BY <1>0, <1>7, <1>b DEF Forget, NoRow, Typed
  <2> QED BY <1>7, <2>2, <2>3, ProceedAccounts DEF Forget, Accounts
<1>8. ASSUME NEW k \in Slots, Delete(k) PROVE Accounts'
  <2> DEFINE q(n) == [request[k] EXCEPT !.stage = "insert", !.expiration = n]
  <2>1. \A n \in Nat : /\ q(n) \in Request /\ q(n).stage = "insert"
                       /\ q(n).id = request[k].id /\ q(n).user = request[k].user
    BY <1>0 DEF Request, Stages
  <2>2. \A n \in Nat : Accounted(q(n))
    BY <1>0, <1>8, <2>1 DEF Accounted, Delete
  <2>3. \A v \in Users : tokens'[v].token # 0 => tokens[v].token # 0
    BY <1>0, <1>8 DEF Delete, ReplacedOfUser, NoRow, Typed
  <2>4. Proceed(k, q(clock + TokenLife)) /\ clock + TokenLife \in Nat
    BY <1>8, AuthTokensAssumption DEF Delete, Typed
  <2> HIDE DEF q
  <2> QED BY <1>8, <2>2, <2>3, <2>4, ProceedAccounts DEF Delete, Accounts
<1>9. ASSUME NEW k \in Slots, Insert(k) PROVE Accounts'
  <2> DEFINE q == [request[k] EXCEPT !.stage = "answer", !.writes = TRUE,
                                     !.cookie = Given(k)]
             row == [token |-> request[k].id, expiration |-> request[k].expiration,
                     password |-> request[k].known]
  <2>1. q.stage = "answer" /\ q.id = request[k].id
    BY <1>0 DEF Request
  <2>2. Accounted(q)
    BY <1>0, <1>9, <2>1 DEF Accounted, Insert
  <2>3. \A v \in Users : tokens'[v].token # 0 => tokens[v].token # 0 \/ v = request[k].user
    BY <1>0, <1>9 DEF Insert, Typed
  <2>4. password[request[k].user] # 0
    BY <1>0, <1>9 DEF Insert, Accounted
  <2>5. /\ request'[k] = q
        /\ \A j \in Slots \ {k} : request'[j] = request[j]
    BY <1>9, ProceedEffect DEF Insert
  <2> HIDE DEF q
  <2> QED BY <1>0, <1>9, <2>2, <2>3, <2>4, <2>5 DEF Insert, Accounts, Accounted
<1>10. CASE Cron
  <2>1. \A v \in Users : tokens'[v].token # 0 => tokens[v].token # 0
    BY <1>10 DEF Cron, NoRow, Typed
  <2> QED BY <1>10, <2>1 DEF Cron, Accounts, Accounted
<1>11. CASE Tick \/ UNCHANGED vars
  BY <1>11 DEF Tick, vars, Accounts, Accounted
<1> QED
  BY <1>1, <1>2, <1>3, <1>4, <1>5, <1>6, <1>7, <1>8, <1>9, <1>10, <1>11, UserSends
  DEF Next, Handle

-----------------------------------------------------------------------------
(* What each statement does to its request, field by field.                *)

OthersWait(k) == \A j \in Slots \ {k} : request'[j] = request[j]

Kept(k) ==
  /\ request'[k].kind = request[k].kind /\ request'[k].user = request[k].user
  /\ request'[k].token = request[k].token /\ request'[k].id = request[k].id
  /\ request'[k].since = request[k].since
  /\ request'[k].alone <=> request[k].alone

LEMMA SendEffect ==
  ASSUME Typed, Typed', NEW k \in Slots, NEW b \in Browsers, NEW kind \in Kinds,
         NEW u \in Users, NEW known \in Nat, Send(k, b, kind, u, known)
  PROVE  /\ OthersWait(k)
         /\ request'[k].stage = "sent" /\ request'[k].id = made + 1
         /\ request'[k].cookie = NoCookie
<1>1. request'[k] = [Idle EXCEPT !.stage = "sent", !.kind = kind, !.browser = b,
                                 !.user = u, !.token = Carried(b), !.id = made',
                                 !.known = known]
  BY ProceedEffect DEF Send
<1>2. OthersWait(k)
  BY ProceedEffect DEF Send, OthersWait
<1> QED BY <1>1, <1>2 DEF Idle, Send

LEMMA IdleEffect ==
  ASSUME Typed, NEW k \in Slots, Receive(k) \/ Lose(k)
  PROVE  /\ OthersWait(k)
         /\ request'[k].stage = "none" /\ request'[k].cookie = NoCookie
<1>1. request'[k] = Idle /\ OthersWait(k)
  BY ProceedEffect DEF Receive, Lose, OthersWait
<1> QED BY <1>1 DEF Idle

LEMMA AnswerEffect ==
  ASSUME Typed, NEW k \in Slots,
         \/ Checked(k) \/ Refused(k) \/ Logout(k) \/ SaveFails(k) \/ InsertFails(k)
  PROVE  /\ OthersWait(k) /\ Kept(k)
         /\ request'[k].stage \in {"answer", "failed"}
         /\ request'[k].cookie = request[k].cookie
<1>0. request[k] \in Request
  BY DEF Typed
<1> DEFINE a    == [request[k] EXCEPT !.stage = "answer"]
           f    == [request[k] EXCEPT !.stage = "failed"]
           w(x) == [request[k] EXCEPT !.stage = "answer", !.writes = x]
<1>1. OthersWait(k)
  BY ProceedEffect DEF Checked, Refused, Logout, SaveFails, InsertFails, OthersWait
<1>2. request'[k] \in {a, f, w(request[k].token # 0), w(TRUE)}
  BY ProceedEffect DEF Checked, Refused, Logout, SaveFails, InsertFails
<1>3. CASE request'[k] = a
  BY <1>0, <1>1, <1>3 DEF Request, Kept
<1>4. CASE request'[k] = f
  BY <1>0, <1>1, <1>4 DEF Request, Kept
<1>5. ASSUME NEW x, request'[k] = w(x)
      PROVE  /\ Kept(k) /\ request'[k].stage = "answer"
             /\ request'[k].cookie = request[k].cookie
  BY <1>0, <1>5 DEF Request, Kept
<1> HIDE DEF a, f, w
<1> QED BY <1>1, <1>2, <1>3, <1>4, <1>5

LEMMA SaveEffect ==
  ASSUME Typed, NEW k \in Slots, Save(k)
  PROVE  /\ OthersWait(k) /\ Kept(k)
         /\ request'[k].stage = IF request[k].kind = "register" THEN "delete"
                                ELSE IF request[k].kind = "mail" THEN "answer"
                                ELSE "forget"
         /\ request'[k].known = password'[request[k].user]
         /\ request'[k].cookie = request[k].cookie
<1> DEFINE s == CASE request[k].kind = "register" -> "delete"
                  [] request[k].kind = "mail"     -> "answer"
                  [] OTHER                        -> "forget"
           p == password'[request[k].user]
<1>0. request[k] \in Request
  BY DEF Typed
<1>1. OthersWait(k) /\ request'[k] = [request[k] EXCEPT !.known = p, !.stage = s]
  BY ProceedEffect DEF Save, OthersWait
<1>2. s = IF request[k].kind = "register" THEN "delete"
          ELSE IF request[k].kind = "mail" THEN "answer" ELSE "forget"
  OBVIOUS
<1> HIDE DEF s, p
<1>3. Kept(k) /\ request'[k].stage = s /\ request'[k].known = p
      /\ request'[k].cookie = request[k].cookie
  BY <1>0, <1>1 DEF Request, Kept
<1> QED BY <1>1, <1>2, <1>3 DEF p

LEMMA ForgetEffect ==
  ASSUME Typed, NEW k \in Slots, Forget(k)
  PROVE  /\ OthersWait(k) /\ Kept(k)
         /\ request'[k].stage = "delete" /\ request'[k].known = request[k].known
         /\ request'[k].cookie = request[k].cookie
<1>0. request[k] \in Request
  BY DEF Typed
<1>1. OthersWait(k) /\ request'[k] = [request[k] EXCEPT !.stage = "delete"]
  BY ProceedEffect DEF Forget, OthersWait
<1> QED BY <1>0, <1>1 DEF Request, Kept

LEMMA DeleteEffect ==
  ASSUME Typed, NEW k \in Slots, Delete(k)
  PROVE  /\ OthersWait(k) /\ Kept(k)
         /\ request'[k].stage = "insert" /\ request'[k].known = request[k].known
         /\ request'[k].expiration = clock + TokenLife
         /\ request'[k].cookie = request[k].cookie
<1> DEFINE n == clock + TokenLife
<1>0. request[k] \in Request
  BY DEF Typed
<1>1. OthersWait(k) /\ request'[k] = [request[k] EXCEPT !.stage = "insert", !.expiration = n]
  BY ProceedEffect DEF Delete, OthersWait
<1> HIDE DEF n
<1>2. Kept(k) /\ request'[k].stage = "insert" /\ request'[k].known = request[k].known
      /\ request'[k].expiration = n /\ request'[k].cookie = request[k].cookie
  BY <1>0, <1>1 DEF Request, Kept
<1> QED BY <1>1, <1>2 DEF n

LEMMA InsertEffect ==
  ASSUME Typed, NEW k \in Slots, Insert(k)
  PROVE  /\ OthersWait(k) /\ Kept(k)
         /\ request'[k].stage = "answer"
         /\ request'[k].cookie = Given(k)
<1> DEFINE c == Given(k)
<1>0. request[k] \in Request
  BY DEF Typed
<1>1. OthersWait(k) /\ request'[k] = [request[k] EXCEPT !.stage = "answer", !.writes = TRUE,
                                                        !.cookie = c]
  BY ProceedEffect DEF Insert, OthersWait
<1> HIDE DEF c
<1>2. Kept(k) /\ request'[k].stage = "answer" /\ request'[k].cookie = c
  BY <1>0, <1>1 DEF Request, Kept
<1> QED BY <1>1, <1>2 DEF c

-----------------------------------------------------------------------------
(* The number of a request is in no cookie until its token is stored.      *)

Early == Busy \cup {"sent"}

Handed(token) ==
  \/ token = 0
  \/ \E b \in Browsers : cookie[b].token = token
  \/ \E k \in Slots : request[k].cookie.token = token

Fresh ==
  /\ \A token \in Nat : Handed(token) => token <= made
  /\ \A k \in Slots : request[k].stage \in Early =>
       /\ request[k].id <= made /\ ~Handed(request[k].id)
       /\ \A j \in Slots \ {k} :
            request[j].stage \in Early => request[j].id # request[k].id

\* Steps that give no cookie that has not been given before.
LEMMA FreshKept ==
  ASSUME Typed, Typed', Fresh, made' = made,
         \A token \in Nat : Handed(token)' => Handed(token),
         \A k \in Slots : request'[k].stage \in Early =>
           request[k].stage \in Early /\ request'[k].id = request[k].id
  PROVE  Fresh'
<1>1. \A k \in Slots : request[k].id \in Nat
  BY DEF Typed, Request
<1> QED BY <1>1 DEF Fresh

LEMMA SameCookies ==
  ASSUME Typed, Typed', cookie' = cookie,
         \A k \in Slots : request'[k].cookie \in {request[k].cookie, NoCookie},
         NEW token \in Nat, Handed(token)'
  PROVE  Handed(token)
BY DEF Handed, NoCookie

LEMMA FreshStep ==
  ASSUME Typed, Typed', Fresh, [Next]_vars
  PROVE  Fresh'
<1>1. ASSUME NEW k \in Slots, NEW b \in Browsers, NEW kind \in Kinds,
             NEW u \in Users, NEW known \in Nat, Send(k, b, kind, u, known)
      PROVE  Fresh'
  <2>1. /\ OthersWait(k) /\ request'[k].id = made + 1
        /\ request'[k].cookie = NoCookie /\ made' = made + 1 /\ cookie' = cookie
    BY <1>1, SendEffect DEF Send
  <2>2. \A token \in Nat : Handed(token)' => Handed(token)
    BY <2>1, SameCookies DEF OthersWait
  <2>3. \A j \in Slots : request[j].id \in Nat
    BY DEF Typed, Request
  <2> QED BY <2>1, <2>2, <2>3 DEF Fresh, OthersWait, Typed
<1>2. ASSUME NEW k \in Slots, Receive(k) \/ Lose(k) PROVE Fresh'
  <2>1. OthersWait(k) /\ request'[k].stage = "none" /\ request'[k].cookie = NoCookie
    BY <1>2, IdleEffect
  <2>2. \A b \in Browsers : cookie'[b] \in {cookie[b], request[k].cookie}
    BY <1>2 DEF Receive, Lose, Typed
  <2>3. \A token \in Nat : Handed(token)' => Handed(token)
    BY <2>1, <2>2 DEF Handed, OthersWait, NoCookie
  <2>4. made' = made
    BY <1>2 DEF Receive, Lose
  <2> QED BY <2>1, <2>3, <2>4, FreshKept DEF OthersWait, Early, Busy
<1>3. ASSUME NEW k \in Slots, Login(k) \/ Register(k) \/ Validated(k) PROVE Fresh'
  <2>1. PICK stage \in Stages : Begin(k, stage)
    BY <1>3 DEF Login, Register, Validated, Stages
  <2>2. request[k].stage = "sent" /\ cookie' = cookie /\ made' = made
    BY <1>3 DEF Login, Register, Validated
  <2>3. \A j \in Slots : SameFields(j)
    BY <2>1, BeginTyped
  <2>4. \A j \in Slots \ {k} : request'[j].stage = request[j].stage
    BY <2>1, BeginTyped
  <2>5. \A token \in Nat : Handed(token)' => Handed(token)
    BY <2>2, <2>3, SameCookies DEF SameFields
  <2> QED BY <2>2, <2>3, <2>4, <2>5, FreshKept DEF SameFields, Early
<1>4. ASSUME NEW k \in Slots,
             \/ Checked(k) \/ Refused(k) \/ Logout(k) \/ SaveFails(k)
             \/ InsertFails(k) \/ Save(k) \/ Forget(k) \/ Delete(k)
      PROVE  Fresh'
  <2>1. OthersWait(k) /\ Kept(k) /\ request'[k].cookie = request[k].cookie
    BY <1>4, AnswerEffect, SaveEffect, ForgetEffect, DeleteEffect
  <2>2. request'[k].stage \in Early => request[k].stage \in Early
    <3>1. CASE Save(k) \/ Forget(k) \/ Delete(k)
      BY <3>1 DEF Save, Forget, Delete, Early, Busy
    <3>2. CASE ~(Save(k) \/ Forget(k) \/ Delete(k))
      BY <1>4, <3>2, AnswerEffect DEF Early, Busy
    <3> QED BY <3>1, <3>2
  <2>3. cookie' = cookie /\ made' = made
    BY <1>4 DEF Checked, Refused, Logout, SaveFails, InsertFails, Save, Forget, Delete
  <2>4. \A token \in Nat : Handed(token)' => Handed(token)
    BY <2>1, <2>3, SameCookies DEF OthersWait
  <2> QED BY <2>1, <2>2, <2>3, <2>4, FreshKept DEF OthersWait, Kept
<1>5. ASSUME NEW k \in Slots, Insert(k) PROVE Fresh'
  <2>1. /\ OthersWait(k) /\ request'[k].stage = "answer"
        /\ request'[k].cookie = Given(k) /\ cookie' = cookie /\ made' = made
        /\ request[k].stage = "insert"
    BY <1>5, InsertEffect DEF Insert
  <2>2. Given(k).token \in {0, request[k].id}
    BY DEF Given, NoCookie
  <2>3. \A token \in Nat : Handed(token)' => Handed(token) \/ token = request[k].id
    BY <2>1, <2>2 DEF Handed, OthersWait
  <2>4. request[k].stage \in Early
    BY <2>1 DEF Early, Busy
  <2>5. \A j \in Slots : request[j].id \in Nat
    BY DEF Typed, Request
  <2>6. \A j \in Slots : request'[j].stage \in Early => j # k /\ request'[j] = request[j]
    BY <2>1 DEF OthersWait, Early, Busy
  <2> QED BY <2>1, <2>3, <2>4, <2>5, <2>6 DEF Fresh
<1>6. CASE Cron \/ Tick \/ UNCHANGED vars
  <2>1. UNCHANGED <<cookie, request, made>>
    BY <1>6 DEF Cron, Tick, vars
  <2> QED BY <2>1 DEF Fresh, Handed
<1> QED
  BY <1>1, <1>2, <1>3, <1>4, <1>5, <1>6, UserSends DEF Next, Handle

-----------------------------------------------------------------------------
(* A request ends before the token it makes could expire.                  *)

Timely ==
  \A k \in Slots : request[k].stage \in Busy =>
    /\ request[k].since <= clock /\ clock <= request[k].since + RequestTime
    /\ request[k].stage = "insert" =>
         request[k].since + TokenLife <= request[k].expiration

LEMMA TimelyStep ==
  ASSUME Typed, Typed', Timely, [Next]_vars
  PROVE  Timely'
<1> USE AuthTokensAssumption
<1>0. /\ clock \in Nat
      /\ \A k \in Slots : request[k].since \in Nat /\ request[k].expiration \in Nat
  BY DEF Typed, Request
<1>1. ASSUME NEW k \in Slots, NEW b \in Browsers, NEW kind \in Kinds,
             NEW u \in Users, NEW known \in Nat, Send(k, b, kind, u, known)
      PROVE  Timely'
  BY <1>1, SendEffect DEF Send, OthersWait, Timely, Busy
<1>2. ASSUME NEW k \in Slots, Receive(k) \/ Lose(k) PROVE Timely'
  <2>1. clock' = clock
    BY <1>2 DEF Receive, Lose
  <2> QED BY <1>2, <2>1, IdleEffect DEF OthersWait, Timely, Busy
<1>3. ASSUME NEW k \in Slots, Login(k) \/ Register(k) \/ Validated(k) PROVE Timely'
  <2>1. PICK stage \in {"delete", "save"} : Begin(k, stage)
    BY <1>3 DEF Login, Register, Validated
  <2>2. stage \in Stages
    BY DEF Stages
  <2>3. clock' = clock
    BY <1>3 DEF Login, Register, Validated
  <2>4. request'[k].stage # "insert" /\ request'[k].since = clock
    BY <2>1, <2>2, BeginTyped
  <2>5. \A j \in Slots \ {k} :
          /\ request'[j].stage = request[j].stage /\ request'[j].since = request[j].since
          /\ request'[j].expiration = request[j].expiration
    BY <2>1, <2>2, BeginTyped DEF SameFields
  <2> QED BY <1>0, <2>3, <2>4, <2>5 DEF Timely
<1>4. ASSUME NEW k \in Slots,
             Checked(k) \/ Refused(k) \/ Logout(k) \/ SaveFails(k) \/ InsertFails(k)
      PROVE  Timely'
  <2>1. clock' = clock
    BY <1>4 DEF Checked, Refused, Logout, SaveFails, InsertFails
  <2> QED BY <1>4, <2>1, AnswerEffect DEF OthersWait, Timely, Busy
<1>5. ASSUME NEW k \in Slots, Save(k) \/ Forget(k) \/ Insert(k) PROVE Timely'
  <2>1. clock' = clock /\ request[k].stage \in Busy
    BY <1>5 DEF Save, Forget, Insert, Busy
  <2>2. /\ OthersWait(k) /\ Kept(k) /\ request'[k].stage # "insert"
    BY <1>5, SaveEffect, ForgetEffect, InsertEffect
  <2> QED BY <2>1, <2>2 DEF OthersWait, Kept, Timely
<1>6. ASSUME NEW k \in Slots, Delete(k) PROVE Timely'
  <2>1. clock' = clock /\ request[k].stage \in Busy
    BY <1>6 DEF Delete, Busy
  <2>2. /\ OthersWait(k) /\ Kept(k) /\ request'[k].expiration = clock + TokenLife
    BY <1>6, DeleteEffect
  <2> QED BY <1>0, <2>1, <2>2 DEF OthersWait, Kept, Timely
<1>7. CASE Tick
  BY <1>0, <1>7 DEF Tick, Timely
<1>8. CASE Cron \/ UNCHANGED vars
  BY <1>8 DEF Cron, vars, Timely
<1> QED
  BY <1>1, <1>2, <1>3, <1>4, <1>5, <1>6, <1>7, <1>8, UserSends DEF Next, Handle

-----------------------------------------------------------------------------
(* The last session asked for is in the table, until its cookie expires.   *)

Stored(c) ==
  Current(c) => /\ tokens[c.user].token = c.token
                /\ c.expires <= tokens[c.user].expiration

Sessions ==
  /\ \A b \in Browsers : Stored(cookie[b])
  /\ \A k \in Slots : Stored(request[k].cookie)

\* What was handed out stays stored by a step that keeps it so: every cookie and
\* every answer is one there was before.
LEMMA StoredKept ==
  ASSUME Typed, Typed', Sessions,
         \A b \in Browsers : \/ cookie'[b] = cookie[b]
                             \/ \E k \in Slots : cookie'[b] = request[k].cookie,
         \A k \in Slots : request'[k].cookie \in {request[k].cookie, NoCookie},
         \A c \in Cookie : Handed(c.token) /\ Current(c)' =>
           /\ Current(c)
           /\ tokens[c.user].token = c.token /\ c.expires <= tokens[c.user].expiration
              => tokens'[c.user] = tokens[c.user]
  PROVE  Sessions'
<1>1. ASSUME NEW c \in Cookie, Stored(c), Handed(c.token) PROVE Stored(c)'
  BY <1>1 DEF Stored
<1>2. Stored(NoCookie)'
  BY DEF Stored, Current, Live, NoCookie
<1>3. \A b \in Browsers : cookie[b] \in Cookie /\ Handed(cookie[b].token)
  BY DEF Typed, Handed
<1>4. \A k \in Slots : request[k].cookie \in Cookie /\ Handed(request[k].cookie.token)
  BY DEF Typed, Request, Handed
<1>5. \A b \in Browsers : Stored(cookie[b])'
  BY <1>1, <1>3, <1>4 DEF Sessions, Stored, Current, Live
<1>6. \A k \in Slots : Stored(request[k].cookie)'
  BY <1>1, <1>2, <1>4 DEF Sessions, Stored, Current, Live
<1> QED BY <1>5, <1>6 DEF Sessions

LEMMA QuietStep ==
  ASSUME UNCHANGED <<tokens, newest, ended, clock>>, NEW c, Current(c)'
  PROVE  Current(c) /\ tokens'[c.user] = tokens[c.user]
BY DEF Current, Live

\* A token that is deleted has been ended by its browser.
LEMMA DeletedToken ==
  ASSUME Typed, NEW token \in Nat, tokens' = Without(token),
         ended' = ended \cup {token}, UNCHANGED <<newest, clock>>,
         NEW c \in Cookie, Current(c)', tokens[c.user].token = c.token
  PROVE  Current(c) /\ tokens'[c.user] = tokens[c.user]
<1>1. c.user \in Users /\ c.token # token
  BY DEF Cookie, Current
<1>2. Current(c)
  BY DEF Current, Live
<1> QED BY <1>1, <1>2 DEF Without

\* The token of a user is deleted by a request whose own is in no cookie.
LEMMA DeletedUser ==
  ASSUME Typed, Fresh, NEW k \in Slots, request[k].stage \in Early,
         tokens' = [tokens EXCEPT ![request[k].user] = NoRow],
         newest' = [newest EXCEPT ![request[k].user] = request[k].id],
         UNCHANGED <<ended, clock>>,
         NEW c \in Cookie, Handed(c.token), Current(c)'
  PROVE  Current(c) /\ tokens'[c.user] = tokens[c.user]
<1>1. c.token # request[k].id
  BY DEF Fresh
<1>2. newest'[c.user] = c.token /\ c.user \in Users /\ request[k].user \in Users
  BY DEF Current, Cookie, Typed, Request
<1>3. c.user # request[k].user
  BY <1>1, <1>2 DEF Typed
<1>4. newest[c.user] = c.token
  BY <1>2, <1>3 DEF Typed
<1> QED BY <1>2, <1>3, <1>4 DEF Current, Live, Typed

LEMMA SessionsStep ==
  ASSUME Typed, Typed', Fresh, Timely, Sessions, [Next]_vars
  PROVE  Sessions'
<1>1. ASSUME UNCHANGED <<tokens, newest, ended, clock, cookie>>,
             \A k \in Slots : request'[k].cookie \in {request[k].cookie, NoCookie}
      PROVE  Sessions'
  BY <1>1, StoredKept, QuietStep
<1>2. ASSUME NEW k \in Slots, NEW b \in Browsers, NEW kind \in Kinds,
             NEW u \in Users, NEW known \in Nat, Send(k, b, kind, u, known)
      PROVE  Sessions'
  BY <1>1, <1>2, SendEffect DEF Send, OthersWait
<1>3. ASSUME NEW k \in Slots, Receive(k) \/ Lose(k) PROVE Sessions'
  <2>1. OthersWait(k) /\ request'[k].cookie = NoCookie
    BY <1>3, IdleEffect
  <2>2. \A b \in Browsers : cookie'[b] = cookie[b] \/ cookie'[b] = request[k].cookie
    BY <1>3 DEF Receive, Lose, Typed
  <2>3. UNCHANGED <<tokens, newest, ended, clock>>
    BY <1>3 DEF Receive, Lose
  <2> QED BY <2>1, <2>2, <2>3, StoredKept, QuietStep DEF OthersWait
<1>4. ASSUME NEW k \in Slots, Login(k) \/ Register(k) \/ Validated(k) PROVE Sessions'
  <2>1. PICK stage \in Stages : Begin(k, stage)
    BY <1>4 DEF Login, Register, Validated, Stages
  <2>2. \A j \in Slots : SameFields(j)
    BY <2>1, BeginTyped
  <2> QED BY <1>1, <1>4, <2>2 DEF Login, Register, Validated, SameFields
<1>5. ASSUME NEW k \in Slots,
             Checked(k) \/ Refused(k) \/ SaveFails(k) \/ InsertFails(k) \/ Save(k)
      PROVE  Sessions'
  <2>1. OthersWait(k) /\ request'[k].cookie = request[k].cookie
    BY <1>5, AnswerEffect, SaveEffect
  <2>2. UNCHANGED <<tokens, newest, ended, clock, cookie>>
    BY <1>5 DEF Checked, Refused, SaveFails, InsertFails, Save
  <2> QED BY <1>1, <2>1, <2>2 DEF OthersWait
<1>6. ASSUME NEW k \in Slots, Logout(k) \/ Forget(k) \/ Delete(k) PROVE Sessions'
  <2>1. OthersWait(k) /\ request'[k].cookie = request[k].cookie /\ cookie' = cookie
    BY <1>6, AnswerEffect, ForgetEffect, DeleteEffect DEF Logout, Forget, Delete
  <2>2. request[k].token \in Nat
    BY DEF Typed, Request
  <2>3. CASE Logout(k) \/ (Forget(k) /\ request[k].kind = "change")
    <3>1. /\ tokens' = Without(request[k].token)
          /\ ended' = ended \cup {request[k].token}
          /\ UNCHANGED <<newest, clock>>
      BY <2>3 DEF Logout, LogoutOfToken, Forget
    <3>2. \A c \in Cookie : Handed(c.token) /\ Current(c)' =>
            /\ Current(c)
            /\ tokens[c.user].token = c.token /\ c.expires <= tokens[c.user].expiration
               => tokens'[c.user] = tokens[c.user]
      <4>1. ASSUME NEW c \in Cookie, Current(c)' PROVE Current(c)
        BY <3>1, <4>1 DEF Current, Live
      <4> QED BY <2>2, <3>1, <4>1, DeletedToken
    <3> QED BY <2>1, <3>2, StoredKept DEF OthersWait
  <2>4. CASE Delete(k) \/ (Forget(k) /\ request[k].kind # "change")
    <3>1. /\ tokens' = [tokens EXCEPT ![request[k].user] = NoRow]
          /\ newest' = [newest EXCEPT ![request[k].user] = request[k].id]
          /\ UNCHANGED <<ended, clock>>
      BY <2>4 DEF Delete, ReplacedOfUser, Forget
    <3>2. request[k].stage \in Early
      BY <2>4 DEF Delete, Forget, Early, Busy
    <3> QED BY <2>1, <3>1, <3>2, StoredKept, DeletedUser DEF OthersWait
  <2> QED BY <1>6, <2>3, <2>4
<1>7. ASSUME NEW k \in Slots, Insert(k) PROVE Sessions'
  <2> DEFINE u == request[k].user
             row == [token |-> request[k].id, expiration |-> request[k].expiration,
                     password |-> request[k].known]
  <2>1. /\ OthersWait(k) /\ request'[k].cookie = Given(k) /\ cookie' = cookie
        /\ UNCHANGED <<newest, ended, clock>> /\ tokens[u] = NoRow
        /\ tokens' = [tokens EXCEPT ![u] = row] /\ request[k].stage = "insert"
    BY <1>7, InsertEffect DEF Insert
  <2>2. ASSUME NEW c \in Cookie, Stored(c) PROVE Stored(c)'
    <3> SUFFICES ASSUME Current(c)' PROVE Stored(c)'
      BY DEF Stored
    <3>1. Current(c) /\ c.user \in Users /\ c.token # 0
      BY <2>1 DEF Current, Live, Cookie
    <3>2. tokens[c.user].token = c.token
      BY <2>2, <3>1 DEF Stored
    <3>3. c.user # u
      BY <2>1, <3>1, <3>2 DEF NoRow
    <3>4. tokens'[c.user] = tokens[c.user]
      BY <2>1, <3>1, <3>3 DEF Typed
    <3> QED BY <2>2, <3>1, <3>4 DEF Stored
  <2>3. Stored(request[k].cookie)'
    <3>1. CASE request[k].kind = "edit"
      <4>1. request'[k].cookie = NoCookie
        BY <2>1, <3>1 DEF Given
      <4> QED BY <4>1 DEF Stored, Current, Live, NoCookie
    <3>2. CASE request[k].kind # "edit"
      <4>1. /\ request'[k].cookie.user = u /\ request'[k].cookie.token = request[k].id
            /\ request'[k].cookie.expires = clock + CookieLife
        BY <2>1, <3>2 DEF Given
      <4>2. u \in Users /\ clock \in Nat /\ request[k].since \in Nat
            /\ request[k].expiration \in Nat
        BY DEF Typed, Request
      <4>3. tokens'[u].token = request[k].id /\ tokens'[u].expiration = request[k].expiration
        BY <2>1, <4>2 DEF Typed
      <4>4. clock + CookieLife <= request[k].expiration
        BY <2>1, <4>2, AuthTokensAssumption DEF Timely, Busy
      <4> QED BY <4>1, <4>3, <4>4 DEF Stored
    <3> QED BY <3>1, <3>2
  <2>4. \A b \in Browsers : cookie[b] \in Cookie /\ Stored(cookie[b])
    BY DEF Typed, Sessions
  <2>5. \A j \in Slots : request[j].cookie \in Cookie /\ Stored(request[j].cookie)
    BY DEF Typed, Request, Sessions
  <2>6. \A b \in Browsers : Stored(cookie[b])'
    BY <2>1, <2>2, <2>4 DEF Stored, Current, Live
  <2>7. \A j \in Slots : Stored(request[j].cookie)'
    <3>1. ASSUME NEW j \in Slots, j # k PROVE Stored(request[j].cookie)'
      <4>1. request'[j] = request[j]
        BY <2>1, <3>1 DEF OthersWait
      <4> QED BY <2>2, <2>5, <4>1 DEF Stored, Current, Live
    <3> QED BY <2>3, <3>1
  <2> QED BY <2>6, <2>7 DEF Sessions
<1>8. CASE Cron
  <2>1. UNCHANGED <<cookie, request, newest, ended, clock>>
    BY <1>8 DEF Cron
  <2>2. ASSUME NEW c \in Cookie, Current(c)', c.expires <= tokens[c.user].expiration
        PROVE  tokens'[c.user] = tokens[c.user]
    <3>1. c.user \in Users /\ clock < c.expires /\ c.expires \in Nat
      BY <2>1, <2>2 DEF Current, Live, Cookie
    <3>2. tokens[c.user].expiration \in Nat /\ clock \in Nat
      BY <3>1 DEF Typed, Row
    <3>3. ~Expired(c.user)
      BY <2>2, <3>1, <3>2 DEF Expired
    <3> QED BY <1>8, <3>1, <3>3 DEF Cron
  <2>3. \A c \in Cookie : Current(c)' => Current(c)
    BY <2>1 DEF Current, Live
  <2> QED BY <2>1, <2>2, <2>3, StoredKept
<1>9. CASE Tick
  <2>1. UNCHANGED <<cookie, request, tokens, newest, ended>> /\ clock' = clock + 1
    BY <1>9 DEF Tick
  <2>2. \A c \in Cookie : Current(c)' => Current(c)
    BY <2>1 DEF Current, Live, Cookie, Typed
  <2> QED BY <2>1, <2>2, StoredKept
<1>10. CASE UNCHANGED vars
  BY <1>1, <1>10 DEF vars
<1> QED
  BY <1>2, <1>3, <1>4, <1>5, <1>6, <1>7, <1>8, <1>9, <1>10, UserSends
  DEF Next, Handle

-----------------------------------------------------------------------------
(* A request that is alone has the row of its user to itself.              *)

Lone(k) ==
  request[k].alone /\ request[k].stage \in Busy =>
    /\ \A j \in Slots \ {k} :
         request[j].stage \in Busy => request[j].user # request[k].user
    /\ request[k].stage = "insert" => tokens[request[k].user] = NoRow
    /\ request[k].stage = "save" /\ request[k].kind # "register" =>
         \/ tokens[request[k].user] = NoRow
         \/ tokens[request[k].user].token = request[k].token
    /\ request[k].stage = "save" /\ request[k].kind = "register" =>
         password[request[k].user] = 0

Crowding == (\A k \in Slots : Lone(k)) /\ FailsOnlyTogether

\* Rows may only have gone, and requests in their work only gone on.
RowsOnlyGo == \A u \in Users : tokens'[u] \in {NoRow, tokens[u]}

LEMMA LoneKept ==
  ASSUME Typed, Typed', \A k \in Slots : Lone(k), RowsOnlyGo, password' = password,
         \A k \in Slots : request'[k].stage \in Busy =>
           /\ request[k].stage \in Busy
           /\ Kept(k)
           /\ request'[k].stage # request[k].stage =>
                /\ request'[k].stage # "save"
                /\ request'[k].stage = "insert" => tokens'[request[k].user] = NoRow
  PROVE  \A k \in Slots : Lone(k)'
<1>1. \A k \in Slots : request[k].user \in Users
  BY DEF Typed, Request
<1> SUFFICES ASSUME NEW k \in Slots, request'[k].alone, request'[k].stage \in Busy
             PROVE  Lone(k)'
  BY DEF Lone
<1>2. /\ request[k].stage \in Busy /\ Kept(k) /\ request[k].alone
      /\ request'[k].stage # request[k].stage =>
                /\ request'[k].stage # "save"
                /\ request'[k].stage = "insert" => tokens'[request[k].user] = NoRow
  BY DEF Kept
<1>3. \A j \in Slots \ {k} : request'[j].stage \in Busy => request'[j].user # request'[k].user
  BY <1>2 DEF Lone, Kept
<1>4. tokens'[request[k].user] \in {NoRow, tokens[request[k].user]}
  BY <1>1 DEF RowsOnlyGo
<1> QED BY <1>2, <1>3, <1>4 DEF Lone, Kept

LEMMA Same == ASSUME NEW k, request'[k] = request[k] PROVE Kept(k)
BY DEF Kept

LEMMA CrowdingStep ==
  ASSUME Typed, Typed', Crowding, [Next]_vars
  PROVE  Crowding'
<1> USE DEF Crowding
<1>1. ASSUME NEW k \in Slots, OthersWait(k), request'[k].stage \in {"none", "sent"},
             UNCHANGED <<tokens, password>>
      PROVE  Crowding'
  <2>1. \A j \in Slots : Lone(j)'
    BY <1>1, LoneKept, Same DEF OthersWait, Busy, RowsOnlyGo
  <2> QED BY <1>1, <2>1 DEF OthersWait, FailsOnlyTogether
<1>2. ASSUME NEW k \in Slots, NEW b \in Browsers, NEW kind \in Kinds,
             NEW u \in Users, NEW known \in Nat, Send(k, b, kind, u, known)
      PROVE  Crowding'
  BY <1>1, <1>2, SendEffect DEF Send
<1>3. ASSUME NEW k \in Slots, Receive(k) \/ Lose(k) PROVE Crowding'
  BY <1>1, <1>3, IdleEffect DEF Receive, Lose
<1>4. ASSUME NEW k \in Slots, Login(k) \/ Register(k) \/ Validated(k) PROVE Crowding'
  <2>1. PICK stage \in {"delete", "save"} : Begin(k, stage)
    BY <1>4 DEF Login, Register, Validated
  <2>2. stage \in Stages /\ stage \in Busy
    BY DEF Stages, Busy
  <2>3. UNCHANGED <<tokens, password>> /\ request[k].stage = "sent"
    BY <1>4 DEF Login, Register, Validated
  <2>4. /\ request'[k].stage = stage /\ SameFields(k)
        /\ request'[k].alone <=> With(k, request[k].user) = {}
    BY <2>1, <2>2, BeginTyped
  <2>5. \A j \in Slots \ {k} :
          /\ SameFields(j) /\ request'[j].stage = request[j].stage
          /\ request'[j].alone <=> request[j].alone /\ j \notin With(k, request[k].user)
    BY <2>1, <2>2, BeginTyped
  <2>6. stage = "save" /\ request[k].kind # "register" =>
          tokens[request[k].user].token = request[k].token
    <3>1. CASE Login(k)
      <4>1. stage = "delete"
        <5>1. Begin(k, "delete") /\ "delete" \in Stages
          BY <3>1 DEF Login, Stages
        <5>2. request'[k].stage = "delete"
          BY <5>1, BeginTyped
        <5> QED BY <2>4, <5>2
      <4> QED BY <4>1
    <3>2. CASE Register(k)
      BY <3>2 DEF Register
    <3>3. CASE Validated(k)
      BY <3>3 DEF Validated, Valid
    <3> QED BY <1>4, <3>1, <3>2, <3>3
  <2>7. stage = "save" /\ request[k].kind = "register" => password[request[k].user] = 0
    <3>1. CASE Login(k)
      BY <3>1 DEF Login
    <3>2. CASE Register(k)
      BY <3>2 DEF Register
    <3>3. CASE Validated(k)
      BY <3>3 DEF Validated
    <3> QED BY <1>4, <3>1, <3>2, <3>3
  <2>8. Lone(k)'
    <3>1. With(k, request[k].user) = {} =>
            \A j \in Slots \ {k} : request'[j].stage \in Busy =>
              request'[j].user # request'[k].user
      BY <2>4, <2>5 DEF With, SameFields
    <3> QED BY <2>3, <2>4, <2>6, <2>7, <3>1 DEF Lone, SameFields
  <2>9. ASSUME NEW j \in Slots \ {k} PROVE Lone(j)'
    <3> SUFFICES ASSUME request'[j].alone, request'[j].stage \in Busy PROVE Lone(j)'
      BY DEF Lone
    <3>1. request[j].stage \in Busy /\ request[j].alone /\ j \notin With(k, request[k].user)
      BY <2>5
    <3>2. request[j].user # request[k].user
      BY <3>1 DEF With
    <3>3. \A i \in Slots \ {j} : request'[i].stage \in Busy => request'[i].user # request'[j].user
      BY <2>4, <2>5, <3>1, <3>2 DEF Lone, SameFields
    <3> QED BY <2>3, <2>5, <3>1, <3>3 DEF Lone, SameFields
  <2>10. FailsOnlyTogether'
    BY <2>2, <2>4, <2>5 DEF FailsOnlyTogether, Busy
  <2> QED BY <2>8, <2>9, <2>10
<1>5. ASSUME NEW k \in Slots,
             Checked(k) \/ Refused(k) \/ Logout(k) \/ SaveFails(k) \/ InsertFails(k)
      PROVE  Crowding'
  <2>1. OthersWait(k) /\ Kept(k) /\ request'[k].stage \in {"answer", "failed"}
    BY <1>5, AnswerEffect
  <2>2. password' = password /\ request[k].token \in Nat
    BY <1>5 DEF Checked, Refused, Logout, SaveFails, InsertFails, Typed, Request
  <2>3. RowsOnlyGo
    BY <1>5, <2>2, WithoutTyped
    DEF Checked, Refused, Logout, LogoutOfToken, SaveFails, InsertFails, RowsOnlyGo
  <2>4. \A j \in Slots : Lone(j)'
    BY <2>1, <2>2, <2>3, LoneKept, Same DEF OthersWait, Busy
  <2>5. request'[k].stage = "failed" => ~request[k].alone
    <3>1. CASE SaveFails(k)
      <4>1. /\ request[k].stage = "save" /\ request[k].kind = "register"
            /\ password[request[k].user] # 0
        BY <3>1 DEF SaveFails
      <4>2. Lone(k)
        OBVIOUS
      <4> QED BY <4>1, <4>2 DEF Lone, Busy
    <3>2. CASE InsertFails(k)
      <4>1. request[k].stage = "insert" /\ tokens[request[k].user] # NoRow
        BY <3>2 DEF InsertFails
      <4>2. Lone(k)
        OBVIOUS
      <4> QED BY <4>1, <4>2 DEF Lone, Busy
    <3>3. CASE Checked(k) \/ Refused(k) \/ Logout(k)
      <4>1. request[k] \in Request
        BY DEF Typed
      <4>2. request'[k].stage = "answer"
        <5> DEFINE w(x) == [request[k] EXCEPT !.stage = "answer", !.writes = x]
        <5>0. ASSUME NEW x PROVE w(x).stage = "answer"
          BY <4>1 DEF Request
        <5> HIDE DEF w
        <5>1. CASE Checked(k)
          BY <4>1, <5>1, ProceedEffect DEF Checked, Request
        <5>2. CASE Refused(k)
          <6>1. request'[k] = w(request[k].token # 0)
            BY <5>2, ProceedEffect DEF Refused, w
          <6> QED BY <5>0, <6>1
        <5>3. CASE Logout(k)
          <6>1. request'[k] = w(TRUE)
            BY <5>3, ProceedEffect DEF Logout, w
          <6> QED BY <5>0, <6>1
        <5> QED BY <3>3, <5>1, <5>2, <5>3
      <4> QED BY <4>2
    <3> QED BY <1>5, <3>1, <3>2, <3>3
  <2> QED BY <2>1, <2>4, <2>5 DEF OthersWait, Kept, FailsOnlyTogether
<1>6. ASSUME NEW k \in Slots, Forget(k) \/ Delete(k) PROVE Crowding'
  <2>1. /\ OthersWait(k) /\ Kept(k) /\ request[k].stage \in Busy
        /\ request'[k].stage \in {"delete", "insert"} /\ password' = password
    BY <1>6, ForgetEffect, DeleteEffect DEF Forget, Delete, Busy
  <2>2. RowsOnlyGo
    <3>1. request[k].token \in Nat /\ request[k].user \in Users
      BY DEF Typed, Request
    <3> QED BY <1>6, <3>1, WithoutTyped DEF Forget, Delete, ReplacedOfUser, RowsOnlyGo, Typed
  <2>3. request'[k].stage = "insert" => tokens'[request[k].user] = NoRow
    <3>1. request[k].user \in Users
      BY DEF Typed, Request
    <3>2. CASE Forget(k)
      BY <3>2, ForgetEffect
    <3>3. CASE Delete(k)
      BY <3>1, <3>3 DEF Delete, ReplacedOfUser, Typed
    <3> QED BY <1>6, <3>2, <3>3
  <2>4. \A j \in Slots : Lone(j)'
    BY <2>1, <2>2, <2>3, LoneKept, Same DEF OthersWait
  <2> QED BY <2>1, <2>4 DEF OthersWait, FailsOnlyTogether
<1>7. ASSUME NEW k \in Slots, Save(k) PROVE Crowding'
  <2>1. /\ OthersWait(k) /\ Kept(k) /\ request[k].stage = "save"
        /\ request'[k].stage \in {"delete", "answer", "forget"} /\ tokens' = tokens
    BY <1>7, SaveEffect DEF Save
  <2>2. \A v \in Users : v # request[k].user => password'[v] = password[v]
    BY <1>7 DEF Save, Typed
  <2>3. Lone(k)'
    BY <2>1 DEF OthersWait, Kept, Lone, Busy
  <2>4. ASSUME NEW j \in Slots \ {k} PROVE Lone(j)'
    <3> SUFFICES ASSUME request'[j].alone, request'[j].stage \in Busy PROVE Lone(j)'
      BY DEF Lone
    <3>1. request'[j] = request[j] /\ Lone(j) /\ request[j].user \in Users
      BY <2>1 DEF OthersWait, Typed, Request
    <3>2. request[j].user # request[k].user
      BY <2>1, <3>1 DEF Lone, Busy
    <3>3. \A i \in Slots \ {j} : request'[i].stage \in Busy => request'[i].user # request'[j].user
      BY <2>1, <3>1, <3>2 DEF OthersWait, Kept, Lone
    <3> QED BY <2>1, <2>2, <3>1, <3>2, <3>3 DEF Lone
  <2> QED BY <2>1, <2>3, <2>4 DEF OthersWait, FailsOnlyTogether
<1>8. ASSUME NEW k \in Slots, Insert(k) PROVE Crowding'
  <2>1. /\ OthersWait(k) /\ Kept(k) /\ request[k].stage = "insert"
        /\ request'[k].stage = "answer" /\ password' = password
    BY <1>8, InsertEffect DEF Insert
  <2>2. \A v \in Users : v # request[k].user => tokens'[v] = tokens[v]
    BY <1>8 DEF Insert, Typed
  <2>3. Lone(k)'
    BY <2>1 DEF Lone, Busy
  <2>4. ASSUME NEW j \in Slots \ {k} PROVE Lone(j)'
    <3> SUFFICES ASSUME request'[j].alone, request'[j].stage \in Busy PROVE Lone(j)'
      BY DEF Lone
    <3>1. request'[j] = request[j] /\ Lone(j) /\ request[j].user \in Users
      BY <2>1 DEF OthersWait, Typed, Request
    <3>2. request[j].user # request[k].user
      BY <2>1, <3>1 DEF Lone, Busy
    <3>3. \A i \in Slots \ {j} : request'[i].stage \in Busy => request'[i].user # request'[j].user
      BY <2>1, <3>1, <3>2 DEF OthersWait, Kept, Lone
    <3> QED BY <2>1, <2>2, <3>1, <3>2, <3>3 DEF Lone
  <2> QED BY <2>1, <2>3, <2>4 DEF OthersWait, FailsOnlyTogether
<1>9. CASE Cron
  <2>1. RowsOnlyGo /\ UNCHANGED <<password, request>>
    BY <1>9 DEF Cron, RowsOnlyGo
  <2>2. \A j \in Slots : Lone(j)'
    BY <2>1, LoneKept, Same
  <2> QED BY <2>1, <2>2 DEF FailsOnlyTogether
<1>10. CASE Tick \/ UNCHANGED vars
  BY <1>10 DEF Tick, vars, Lone, FailsOnlyTogether
<1> QED
  BY <1>2, <1>3, <1>4, <1>5, <1>6, <1>7, <1>8, <1>9, <1>10, UserSends DEF Next, Handle

-----------------------------------------------------------------------------
(* The rows after a change of the password.                                *)

Knows ==
  \A k \in Slots : request[k].stage \in Busy /\ request[k].user \notin loose =>
    request[k].known = password[request[k].user]

LEMMA KnowsStep ==
  ASSUME Typed, Typed', Crowding, Knows, [Next]_vars
  PROVE  Knows'
<1>0. \A k \in Slots : request[k].user \in Users
  BY DEF Typed, Request
<1>1. ASSUME NEW k \in Slots, OthersWait(k), request'[k].stage \notin Busy,
             password' = password, loose \subseteq loose'
      PROVE  Knows'
  BY <1>1 DEF OthersWait, Knows
<1>2. ASSUME NEW k \in Slots, NEW b \in Browsers, NEW kind \in Kinds,
             NEW u \in Users, NEW known \in Nat, Send(k, b, kind, u, known)
      PROVE  Knows'
  BY <1>1, <1>2, SendEffect DEF Send, Busy
<1>3. ASSUME NEW k \in Slots, Receive(k) \/ Lose(k) PROVE Knows'
  <2>1. password' = password /\ loose \subseteq loose'
    BY <1>3 DEF Receive, Lose
  <2> QED BY <1>1, <1>3, <2>1, IdleEffect DEF Busy
<1>4. ASSUME NEW k \in Slots, Login(k) \/ Register(k) \/ Validated(k) PROVE Knows'
  <2>1. PICK stage \in Stages : Begin(k, stage)
    BY <1>4 DEF Login, Register, Validated, Stages
  <2>2. request'[k].known = password[request[k].user] /\ SameFields(k)
    BY <1>4, <2>1, BeginTyped DEF Login, Register, Validated, CorrectPassword
  <2>3. \A j \in Slots \ {k} :
          /\ SameFields(j) /\ request'[j].stage = request[j].stage
          /\ request'[j].known = request[j].known
    BY <2>1, BeginTyped
  <2>4. UNCHANGED <<password, loose>>
    BY <1>4 DEF Login, Register, Validated
  <2> QED BY <2>2, <2>3, <2>4 DEF Knows, SameFields
<1>5. ASSUME NEW k \in Slots,
             Checked(k) \/ Refused(k) \/ Logout(k) \/ SaveFails(k) \/ InsertFails(k)
      PROVE  Knows'
  <2>1. UNCHANGED <<password, loose>>
    BY <1>5 DEF Checked, Refused, Logout, SaveFails, InsertFails
  <2> QED BY <1>1, <1>5, <2>1, AnswerEffect DEF Busy
<1>6. ASSUME NEW k \in Slots, Forget(k) \/ Delete(k) PROVE Knows'
  <2>1. /\ OthersWait(k) /\ Kept(k) /\ request[k].stage \in Busy
        /\ request'[k].known = request[k].known /\ UNCHANGED <<password, loose>>
    BY <1>6, ForgetEffect, DeleteEffect DEF Forget, Delete, Busy
  <2> QED BY <2>1 DEF OthersWait, Kept, Knows
<1>7. ASSUME NEW k \in Slots, Insert(k) PROVE Knows'
  <2>1. UNCHANGED <<password, loose>>
    BY <1>7 DEF Insert
  <2> QED BY <1>1, <1>7, <2>1, InsertEffect DEF Busy
<1>8. ASSUME NEW k \in Slots, Save(k) PROVE Knows'
  <2>1. /\ OthersWait(k) /\ Kept(k) /\ request[k].stage \in Busy
        /\ request'[k].known = password'[request[k].user]
    BY <1>8, SaveEffect DEF Save, Busy
  <2>2. \A v \in Users : v # request[k].user => password'[v] = password[v]
    BY <1>8 DEF Save, Typed
  <2>3. loose \subseteq loose' /\ (request[k].alone \/ request[k].user \in loose')
    BY <1>8 DEF Save
  <2>4. ASSUME NEW j \in Slots \ {k}, request'[j].stage \in Busy,
               request'[j].user \notin loose'
        PROVE  request'[j].known = password'[request'[j].user]
    <3>1. request'[j] = request[j] /\ request[j].user \in Users
      BY <1>0, <2>1 DEF OthersWait
    <3>2. CASE request[j].user = request[k].user
      <4>1. request[k].alone /\ Lone(k)
        BY <2>3, <2>4, <3>1, <3>2 DEF Crowding
      <4> QED BY <2>1, <2>4, <3>1, <3>2, <4>1 DEF Lone
    <3>3. CASE request[j].user # request[k].user
      BY <2>2, <2>3, <2>4, <3>1, <3>3 DEF Knows
    <3> QED BY <3>2, <3>3
  <2> QED BY <2>1, <2>4 DEF Kept, Knows
<1>9. CASE Cron \/ Tick \/ UNCHANGED vars
  BY <1>9 DEF Cron, Tick, vars, Knows
<1> QED
  BY <1>2, <1>3, <1>4, <1>5, <1>6, <1>7, <1>8, <1>9, UserSends DEF Next, Handle

\* A request that has saved a password and will end the session of u.
Ending(k, u) ==
  /\ request[k].stage = "forget" /\ request[k].user = u
  /\ request[k].kind # "change" \/ request[k].token = tokens[u].token

Rows ==
  \A u \in Users :
    /\ tokens[u].token = 0 => tokens[u] = NoRow
    /\ \/ u \in loose
       \/ tokens[u] = NoRow
       \/ tokens[u].password = password[u]
       \/ \E k \in Slots : Ending(k, u)

\* Rows that stay are right as long as no request that would end them goes away.
LEMMA RowsKept ==
  ASSUME Typed, Typed', Rows, RowsOnlyGo, password' = password, loose \subseteq loose',
         \A k \in Slots, u \in Users :
           Ending(k, u) => \/ Ending(k, u)' \/ u \in loose'
                           \/ tokens'[u] = NoRow
  PROVE  Rows'
<1> SUFFICES ASSUME NEW u \in Users
             PROVE  /\ tokens'[u].token = 0 => tokens'[u] = NoRow
                    /\ \/ u \in loose' \/ tokens'[u] = NoRow
                       \/ tokens'[u].password = password'[u]
                       \/ \E k \in Slots : Ending(k, u)'
  BY DEF Rows
<1>1. tokens'[u] \in {NoRow, tokens[u]}
  BY DEF RowsOnlyGo
<1> QED BY <1>1 DEF Rows

LEMMA RowsStep ==
  ASSUME Typed, Typed', Accounts, Crowding, Knows, Rows, [Next]_vars
  PROVE  Rows'
<1>0. \A k \in Slots : request[k].user \in Users /\ request[k].token \in Nat
  BY DEF Typed, Request
<1>1. ASSUME NEW k \in Slots, OthersWait(k), RowsOnlyGo, password' = password,
             loose \subseteq loose', request[k].stage # "forget"
      PROVE  Rows'
  <2>1. ASSUME NEW j \in Slots, NEW u \in Users, Ending(j, u), tokens'[u] = tokens[u]
        PROVE  Ending(j, u)'
    BY <1>1, <2>1 DEF OthersWait, Ending
  <2> QED BY <1>1, <2>1, RowsKept DEF RowsOnlyGo
<1>2. ASSUME NEW k \in Slots, NEW b \in Browsers, NEW kind \in Kinds,
             NEW u \in Users, NEW known \in Nat, Send(k, b, kind, u, known)
      PROVE  Rows'
  BY <1>1, <1>2, SendEffect DEF Send, RowsOnlyGo
<1>3. ASSUME NEW k \in Slots, Receive(k) \/ Lose(k) PROVE Rows'
  <2>1. /\ OthersWait(k) /\ UNCHANGED <<tokens, password>> /\ loose \subseteq loose'
        /\ request[k].stage = "forget" => request[k].user \in loose'
    BY <1>3, IdleEffect DEF Receive, Lose
  <2>2. \A j \in Slots, u \in Users : Ending(j, u) => Ending(j, u)' \/ u \in loose'
    BY <2>1 DEF OthersWait, Ending
  <2> QED BY <2>1, <2>2, RowsKept DEF RowsOnlyGo
<1>4. ASSUME NEW k \in Slots, Login(k) \/ Register(k) \/ Validated(k) PROVE Rows'
  <2>1. PICK stage \in Stages : Begin(k, stage)
    BY <1>4 DEF Login, Register, Validated, Stages
  <2>2. UNCHANGED <<tokens, password, loose>> /\ request[k].stage = "sent"
    BY <1>4 DEF Login, Register, Validated
  <2>3. \A j \in Slots \ {k} : SameFields(j) /\ request'[j].stage = request[j].stage
    BY <2>1, BeginTyped
  <2>4. \A j \in Slots, u \in Users : Ending(j, u) => Ending(j, u)'
    BY <2>2, <2>3 DEF Ending, SameFields
  <2> QED BY <2>2, <2>4, RowsKept DEF RowsOnlyGo
<1>5. ASSUME NEW k \in Slots,
             Checked(k) \/ Refused(k) \/ Logout(k) \/ SaveFails(k) \/ InsertFails(k)
      PROVE  Rows'
  <2>1. /\ OthersWait(k) /\ UNCHANGED <<password, loose>> /\ request[k].stage # "forget"
    BY <1>5, AnswerEffect DEF Checked, Refused, Logout, SaveFails, InsertFails
  <2>2. RowsOnlyGo
    BY <1>0, <1>5, WithoutTyped
    DEF Checked, Refused, Logout, LogoutOfToken, SaveFails, InsertFails, RowsOnlyGo
  <2> QED BY <1>1, <2>1, <2>2
<1>6. ASSUME NEW k \in Slots, Forget(k) PROVE Rows'
  <2> DEFINE u == request[k].user
  <2>1. OthersWait(k) /\ UNCHANGED <<password, loose>>
    BY <1>6, ForgetEffect DEF Forget
  <2>2. RowsOnlyGo
    BY <1>0, <1>6, WithoutTyped DEF Forget, RowsOnlyGo, Typed
  <2>3. tokens[u].token = request[k].token \/ request[k].kind # "change"
        => tokens'[u] = NoRow
    <3>1. CASE request[k].kind = "change"
      <4>1. tokens' = Without(request[k].token)
        BY <1>6, <3>1 DEF Forget
      <4> QED BY <1>0, <3>1, <4>1 DEF Without, Rows
    <3>2. CASE request[k].kind # "change"
      BY <1>0, <1>6, <3>2 DEF Forget, Typed
    <3> QED BY <3>1, <3>2
  <2>4. \A j \in Slots, v \in Users :
          Ending(j, v) => Ending(j, v)' \/ tokens'[v] = NoRow
    BY <2>1, <2>2, <2>3 DEF OthersWait, Ending, RowsOnlyGo
  <2> QED BY <2>1, <2>2, <2>4, RowsKept
<1>7. ASSUME NEW k \in Slots, Delete(k) PROVE Rows'
  <2>1. OthersWait(k) /\ UNCHANGED <<password, loose>> /\ request[k].stage # "forget"
    BY <1>7, DeleteEffect DEF Delete
  <2>2. RowsOnlyGo
    BY <1>0, <1>7 DEF Delete, ReplacedOfUser, RowsOnlyGo, Typed
  <2> QED BY <1>1, <2>1, <2>2
<1>8. ASSUME NEW k \in Slots, Save(k) PROVE Rows'
  <2> DEFINE u == request[k].user
  <2>1. /\ OthersWait(k) /\ Kept(k) /\ request[k].stage = "save" /\ tokens' = tokens
        /\ loose \subseteq loose' /\ (request[k].alone \/ u \in loose')
        /\ request[k].kind \notin {"register", "mail"} => request'[k].stage = "forget"
        /\ password' = [password EXCEPT ![u] = IF request[k].kind = "mail"
                                               THEN request[k].known ELSE request[k].id]
        /\ ~(request[k].kind = "register" /\ password[u] # 0)
    BY <1>8, SaveEffect DEF Save
  <2>2. \A v \in Users : v # u => password'[v] = password[v]
    BY <2>1 DEF Typed
  <2>3. \A j \in Slots, v \in Users : Ending(j, v) => Ending(j, v)'
    BY <2>1 DEF OthersWait, Ending
  <2>4. CASE u \in loose'
    BY <2>1, <2>2, <2>3, <2>4 DEF Rows
  <2>5. CASE u \notin loose'
    <3>1. request[k].alone /\ Lone(k) /\ u \in Users /\ u \notin loose
      BY <1>0, <2>1, <2>5 DEF Crowding
    <3>2. CASE request[k].kind = "mail"
      <4>1. request[k].known = password[u]
        BY <2>1, <3>1 DEF Knows, Busy
      <4>2. password' = password
        BY <2>1, <3>1, <3>2, <4>1 DEF Typed
      <4> QED BY <2>1, <2>3, <4>2, RowsKept DEF RowsOnlyGo
    <3>3. CASE request[k].kind = "register"
      <4>1. tokens[u].token = 0
        BY <1>0, <2>1, <3>3 DEF Accounts
      <4>2. tokens[u] = NoRow
        BY <3>1, <4>1 DEF Rows
      <4> QED BY <2>1, <2>2, <2>3, <4>2 DEF Rows
    <3>4. CASE request[k].kind \notin {"mail", "register"}
      <4>1. tokens[u] = NoRow \/ tokens[u].token = request[k].token
        BY <2>1, <3>1, <3>4 DEF Lone, Busy
      <4>2. \A v \in Users : v = u => tokens[v] = NoRow \/ Ending(k, v)'
        BY <2>1, <3>4, <4>1 DEF Kept, Ending
      <4> QED BY <2>1, <2>2, <2>3, <4>2 DEF Rows
    <3> QED BY <3>2, <3>3, <3>4
  <2> QED BY <2>4, <2>5
<1>9. ASSUME NEW k \in Slots, Insert(k) PROVE Rows'
  <2> DEFINE u == request[k].user
  <2>1. /\ OthersWait(k) /\ UNCHANGED <<password, loose>> /\ request[k].stage = "insert"
    BY <1>9, InsertEffect DEF Insert
  <2>2. u \in Users /\ \A v \in Users : v # u => tokens'[v] = tokens[v]
    BY <1>0, <1>9 DEF Insert, Typed
  <2>3. tokens'[u].token = request[k].id /\ tokens'[u].password = request[k].known
    BY <1>9, <2>2 DEF Insert, Typed
  <2>4. request[k].id # 0 /\ request[k].id \in Nat
    BY <2>1 DEF Accounts, Accounted, Typed, Request
  <2>5. u \in loose \/ request[k].known = password[u]
    BY <2>1 DEF Knows, Busy
  <2>6. \A j \in Slots, v \in Users : v # u /\ Ending(j, v) => Ending(j, v)'
    BY <2>1, <2>2 DEF OthersWait, Ending
  <2> QED BY <2>1, <2>2, <2>3, <2>4, <2>5, <2>6 DEF Rows
<1>10. CASE Cron \/ Tick \/ UNCHANGED vars
  <2>1. RowsOnlyGo /\ UNCHANGED <<password, loose, request>>
    BY <1>10 DEF Cron, Tick, vars, RowsOnlyGo
  <2>2. \A j \in Slots, v \in Users : Ending(j, v) => Ending(j, v)' \/ tokens'[v] = NoRow
    BY <2>1 DEF Ending, RowsOnlyGo
  <2> QED BY <2>1, <2>2, RowsKept
<1> QED
  BY <1>2, <1>3, <1>4, <1>5, <1>6, <1>7, <1>8, <1>9, <1>10, UserSends DEF Next, Handle

-----------------------------------------------------------------------------

\* The inductive invariant.
Inv ==
  /\ Typed /\ Accounts /\ Fresh /\ Timely /\ Sessions
  /\ Crowding /\ Knows /\ Rows

LEMMA InitInv == Init => Inv
<1> SUFFICES ASSUME Init PROVE Inv
  OBVIOUS
<1>1. Typed
  BY BlankTypes, AuthTokensAssumption DEF Init, Typed
<1>2. \A k \in Slots : /\ request[k].stage = "none" /\ request[k].cookie = NoCookie
  BY DEF Init, Idle
<1>3. \A u \in Users : tokens[u] = NoRow /\ tokens[u].token = 0
  BY DEF Init, NoRow
<1>4. \A b \in Browsers : cookie[b] = NoCookie
  BY DEF Init
<1>5. made = 1 /\ NoCookie.token = 0
  BY DEF Init, NoCookie
<1>6. \A token \in Nat : Handed(token) => token = 0
  BY <1>2, <1>4, <1>5 DEF Handed
<1>7. Stored(NoCookie)
  BY DEF Stored, Current, Live, NoCookie
<1>8. Accounts
  BY <1>2, <1>3, <1>5 DEF Accounts, Accounted
<1>9. Fresh /\ Timely
  BY <1>2, <1>5, <1>6 DEF Fresh, Timely, Early, Busy
<1>10. Sessions
  BY <1>2, <1>4, <1>7 DEF Sessions
<1>11. Crowding /\ Knows
  BY <1>2 DEF Crowding, Lone, FailsOnlyTogether, Knows, Busy
<1>12. Rows
  BY <1>3 DEF Rows
<1> QED BY <1>1, <1>8, <1>9, <1>10, <1>11, <1>12 DEF Inv

LEMMA StepInv == Inv /\ [Next]_vars => Inv'
BY TypedStep, AccountsStep, FreshStep, TimelyStep, SessionsStep, CrowdingStep,
   KnowsStep, RowsStep DEF Inv

LEMMA Invariance == Spec => []Inv
BY InitInv, StepInv, PTL DEF Spec

\* The rows, cookies and requests of mz_crud_tokens are always well formed, and
\* a session belongs to an account.
THEOREM TokensTypeCorrect == Spec => []TokensTypeOK
<1>1. Inv => TokensTypeOK
  BY DEF Inv, Typed, Accounts, TokensTypeOK
<1> QED BY <1>1, Invariance, PTL

\* The browser that was the last to log in is accepted until its cookie expires,
\* for any number of browsers, users and requests under way, if no request runs
\* longer than the token outlives the cookie.
THEOREM SessionsAreKept == Spec => []SessionKept
<1>1. Inv => SessionKept
  <2> SUFFICES ASSUME Inv, NEW b \in Browsers, Current(cookie[b])
               PROVE  Valid(cookie[b].user, cookie[b].token)
    BY DEF SessionKept
  <2>1. Stored(cookie[b]) /\ cookie[b] \in Cookie
    BY DEF Inv, Sessions, Typed
  <2>2. /\ tokens[cookie[b].user].token = cookie[b].token
        /\ cookie[b].expires <= tokens[cookie[b].user].expiration
        /\ cookie[b].token # 0 /\ cookie[b].expires > clock
    BY <2>1 DEF Stored, Current, Live
  <2>3. /\ cookie[b].expires \in Nat /\ clock \in Nat
        /\ tokens[cookie[b].user].expiration \in Nat
    BY <2>1 DEF Inv, Typed, Cookie, Row
  <2> QED BY <2>2, <2>3 DEF Valid
<1> QED BY <1>1, Invariance, PTL

\* generateBearerToken only fails on its insertion, and register on the name, if
\* another request of the same user is at work at the same time.
THEOREM FailuresAreShared == Spec => []FailsOnlyTogether
<1>1. Inv => FailsOnlyTogether
  BY DEF Inv, Crowding
<1> QED BY <1>1, Invariance, PTL

\* changePassword and user_edit leave no session of the former password behind,
\* unless requests of the user overlap or one is killed half way.
THEOREM FormerSessionsEnd == Spec => []NoFormerSession
<1>1. Inv => NoFormerSession
  BY DEF Inv, Rows, Ending, NoFormerSession, Replacing
<1> QED BY <1>1, Invariance, PTL
=============================================================================
