---------------------------- MODULE AuthSessions ----------------------------
(***************************************************************************)
(* AuthService with UserRepository under it: accounts, refresh tokens and  *)
(* the cookie that carries a refresh token.  Nothing here runs in a        *)
(* transaction, so every statement is a step of its own, and the handlers  *)
(* of one browser, of its tabs or of a repeated call, overlap like any     *)
(* others.                                                                 *)
(*                                                                         *)
(* A definition whose comment begins with "Slip:" is a mistake somebody    *)
(* could make in the definition after it; the specification uses none.     *)
(***************************************************************************)
EXTENDS Naturals, FiniteSets

CONSTANTS Procs,      \* handlers in flight
          Users,      \* people, each with one e-mail address
          Browsers,   \* cookie jars
          Tokens,     \* bound: refresh tokens that are ever signed
          MaxExpired, \* bound: tokens that expire, by either expiry
          Null

VARIABLES users,      \* who has an account
          stored,     \* tokens with a row in refresh_tokens
          owner,      \* userId in the payload of a token, Null before it is signed
          parent,     \* the token a refresh replaced by this one, Null after a login
          overdue,    \* tokens whose expires_at has passed
          invalid,    \* tokens whose exp claim has passed
          ended,      \* how a token lost its row, when not by a refresh
          cookie,     \* the refreshToken cookie of a browser
          job         \* step and locals of a handler

tables == <<users, stored>>
tokens == <<owner, parent, overdue, invalid, ended>>
vars   == <<tables, tokens, cookie, job>>

ASSUME NullAssumption == Null \notin Users \cup Browsers \cup Tokens

Steps == {"idle", "create_user", "compare", "store", "answer", "find", "revoke", "purge",
          "find_user", "rotate", "logout", "clear"}

Job == [step    : Steps,
        browser : Browsers \cup {Null},
        user    : Users \cup {Null},      \* who registers or logs in
        token   : Tokens \cup {Null},     \* tokenFromCookie
        new     : Tokens \cup {Null}]     \* the signed token

Idle == [step |-> "idle", browser |-> Null, user |-> Null, token |-> Null, new |-> Null]

\* Any of the seeded accounts, and nobody logged in.
Init == /\ users \in SUBSET Users
        /\ stored = {}
        /\ owner = [t \in Tokens |-> Null]
        /\ parent = [t \in Tokens |-> Null]
        /\ overdue = {}
        /\ invalid = {}
        /\ ended = [t \in Tokens |-> "no"]
        /\ cookie = [b \in Browsers |-> Null]
        /\ job = [p \in Procs |-> Idle]

-----------------------------------------------------------------------------

At(p, step) == job[p].step = step

Begin(p, j) == /\ At(p, "idle")
               /\ job' = [job EXCEPT ![p] = j]

Goto(p, step) == job' = [job EXCEPT ![p] = [@ EXCEPT !.step = step]]

Finish(p) == job' = [job EXCEPT ![p] = Idle]

Signed == {t \in Tokens : owner[t] # Null}

\* Slip: the payload has no jti, so that two tokens of one user signed within a
\* second are the same.
SignSame(p, u, from) ==
  \E t \in Tokens :
    /\ owner[t] \in {Null, u}
    /\ owner' = [owner EXCEPT ![t] = u]
    /\ parent' = [parent EXCEPT ![t] = from]
    /\ job' = [job EXCEPT ![p] = [@ EXCEPT !.step = "store", !.new = t]]

\* signRefreshToken: the random jti makes the token new.
Sign(p, u, from) ==
  \E t \in Tokens \ Signed :
    /\ owner' = [owner EXCEPT ![t] = u]
    /\ parent' = [parent EXCEPT ![t] = from]
    /\ job' = [job EXCEPT ![p] = [@ EXCEPT !.step = "store", !.new = t]]

-----------------------------------------------------------------------------
\* POST /auth/register and POST /auth/login

\* findByEmail found nobody; the password is hashed meanwhile.
StartRegister(p, b, u) ==
  /\ u \notin users
  /\ Begin(p, [Idle EXCEPT !.step = "create_user", !.browser = b, !.user = u])
  /\ UNCHANGED <<tables, tokens, cookie>>

\* An account created meanwhile violates the unique index on email: 409.
CreateUser(p) ==
  /\ At(p, "create_user")
  /\ LET u == job[p].user
     IN IF u \in users
          THEN Finish(p) /\ UNCHANGED <<users, owner, parent>>
          ELSE users' = users \cup {u} /\ Sign(p, u, Null)
  /\ UNCHANGED <<stored, overdue, invalid, ended, cookie>>

\* An unknown address is compared with DUMMY_HASH and refused: see Refuse.
StartLogin(p, b, u) ==
  /\ u \in users
  /\ Begin(p, [Idle EXCEPT !.step = "compare", !.browser = b, !.user = u])
  /\ UNCHANGED <<tables, tokens, cookie>>

\* bcrypt.compare
ComparePassword(p, isMatch) ==
  /\ At(p, "compare")
  /\ IF isMatch THEN Sign(p, job[p].user, Null)
                ELSE Finish(p) /\ UNCHANGED <<owner, parent>>
  /\ UNCHANGED <<tables, overdue, invalid, ended, cookie>>

\* Slip: the response is sent first, and the row is written after it.
StoreAfterAnswer(p) ==
  /\ At(p, "store")
  /\ LET j == job[p]
     IN \/ /\ cookie[j.browser] # j.new
           /\ cookie' = [cookie EXCEPT ![j.browser] = j.new]
           /\ UNCHANGED <<stored, job>>
        \/ /\ cookie[j.browser] = j.new
           /\ stored' = stored \cup {j.new}
           /\ Finish(p)
           /\ UNCHANGED cookie
  /\ UNCHANGED <<users, tokens>>

\* createRefreshToken, the last statement of register, login and refresh.
StoreToken(p) ==
  /\ At(p, "store")
  /\ stored' = stored \cup {job[p].new}
  /\ Goto(p, "answer")
  /\ UNCHANGED <<users, tokens, cookie>>

\* The response with Set-Cookie reaches the browser, or is lost.
Answer(p, delivered) ==
  /\ At(p, "answer")
  /\ cookie' = IF delivered THEN [cookie EXCEPT ![job[p].browser] = job[p].new] ELSE cookie
  /\ Finish(p)
  /\ UNCHANGED <<tables, tokens>>

-----------------------------------------------------------------------------
\* POST /auth/refresh

\* Slip: a call without a cookie is not refused.
StartRefreshBare(p, b) ==
  /\ cookie[b] \notin invalid
  /\ Begin(p, [Idle EXCEPT !.step = "find", !.browser = b, !.token = cookie[b]])
  /\ UNCHANGED <<tables, tokens, cookie>>

\* A cookie whose JWT does not verify is refused: see Refuse.
StartRefresh(p, b) ==
  /\ cookie[b] \notin {Null} \cup invalid
  /\ Begin(p, [Idle EXCEPT !.step = "find", !.browser = b, !.token = cookie[b]])
  /\ UNCHANGED <<tables, tokens, cookie>>

\* Slip: a token without a row is good enough if its JWT verifies.
FindLeniently(p) ==
  /\ At(p, "find")
  /\ Goto(p, IF job[p].token \in overdue THEN "purge" ELSE "find_user")
  /\ UNCHANGED <<tables, tokens, cookie>>

\* findRefreshToken
FindToken(p) ==
  /\ At(p, "find")
  /\ LET t == job[p].token
     IN Goto(p, IF t \notin stored THEN "revoke" ELSE IF t \in overdue THEN "purge" ELSE "find_user")
  /\ UNCHANGED <<tables, tokens, cookie>>

\* Slip: DELETE without its condition.
RevokeEverybody(p) ==
  /\ At(p, "revoke")
  /\ stored' = {}
  /\ ended' = [t \in Tokens |-> IF t \in stored THEN "reuse" ELSE ended[t]]
  /\ Finish(p)
  /\ UNCHANGED <<users, owner, parent, overdue, invalid, cookie>>

\* Slip: only the row of the token that was presented is deleted.
RevokeOne(p) ==
  /\ At(p, "revoke")
  /\ stored' = stored \ {job[p].token}
  /\ ended' = [t \in Tokens |->
                 IF t \in stored /\ owner[t] = owner[job[p].token] THEN "reuse" ELSE ended[t]]
  /\ Finish(p)
  /\ UNCHANGED <<users, owner, parent, overdue, invalid, cookie>>

\* deleteAllUserRefreshTokens, 403.
RevokeAll(p) ==
  /\ At(p, "revoke")
  /\ LET all == {t \in stored : owner[t] = owner[job[p].token]}
     IN /\ stored' = stored \ all
        /\ ended' = [t \in Tokens |-> IF t \in all THEN "reuse" ELSE ended[t]]
  /\ Finish(p)
  /\ UNCHANGED <<users, owner, parent, overdue, invalid, cookie>>

\* The row has expired: it is deleted, 401.
PurgeToken(p) ==
  /\ At(p, "purge")
  /\ stored' = stored \ {job[p].token}
  /\ Finish(p)
  /\ UNCHANGED <<users, tokens, cookie>>

\* findById; no operation deletes an account.
FindUser(p) ==
  /\ At(p, "find_user")
  /\ IF owner[job[p].token] \in users THEN Goto(p, "rotate") ELSE Finish(p)
  /\ UNCHANGED <<tables, tokens, cookie>>

\* Slip: the old token is kept, to be on the safe side.
KeepOld(p) ==
  /\ At(p, "rotate")
  /\ Sign(p, owner[job[p].token], job[p].token)
  /\ UNCHANGED <<tables, overdue, invalid, ended, cookie>>

\* deleteRefreshToken, whether or not the row is still there, then the next token
\* is signed.
DeleteOld(p) ==
  /\ At(p, "rotate")
  /\ stored' = stored \ {job[p].token}
  /\ Sign(p, owner[job[p].token], job[p].token)
  /\ UNCHANGED <<users, overdue, invalid, ended, cookie>>

-----------------------------------------------------------------------------
\* POST /auth/logout

StartLogout(p, b) ==
  /\ Begin(p, [Idle EXCEPT !.step = IF cookie[b] = Null THEN "clear" ELSE "logout",
                           !.browser = b, !.token = cookie[b]])
  /\ UNCHANGED <<tables, tokens, cookie>>

\* Slip: only the cookie is cleared.
ForgetCookie(p) ==
  /\ At(p, "logout")
  /\ Goto(p, "clear")
  /\ ended' = [ended EXCEPT ![job[p].token] = IF job[p].token \in stored THEN "logout" ELSE @]
  /\ UNCHANGED <<tables, owner, parent, overdue, invalid, cookie>>

Logout(p) ==
  /\ At(p, "logout")
  /\ stored' = stored \ {job[p].token}
  /\ ended' = [ended EXCEPT ![job[p].token] = IF job[p].token \in stored THEN "logout" ELSE @]
  /\ Goto(p, "clear")
  /\ UNCHANGED <<users, owner, parent, overdue, invalid, cookie>>

\* clearCookie reaches the browser, or is lost.
ClearCookie(p, delivered) ==
  /\ At(p, "clear")
  /\ cookie' = IF delivered THEN [cookie EXCEPT ![job[p].browser] = Null] ELSE cookie
  /\ Finish(p)
  /\ UNCHANGED <<tables, tokens>>

-----------------------------------------------------------------------------

\* A call refused before its handler changes anything: 400, 401, 409, 429.
Refuse(p) == /\ At(p, "idle")
             /\ UNCHANGED vars

\* Slip: a refresh that cannot store its token puts the old row back, which another
\* call may have revoked meanwhile.
PutOldBack(p) ==
  /\ ~ At(p, "idle")
  /\ stored' = IF At(p, "store") THEN stored \cup ({job[p].token} \ {Null}) ELSE stored
  /\ Finish(p)
  /\ UNCHANGED <<users, tokens, cookie>>

\* A statement fails, or the process dies: the client sees an error, and what was
\* written stays.
DbError(p) == /\ ~ At(p, "idle")
              /\ Finish(p)
              /\ UNCHANGED <<tables, tokens, cookie>>

\* The bound on tokens that expire is kept.
MayExpire(t) == Cardinality(overdue \cup invalid \cup {t}) <= MaxExpired

\* Seven days after expires_at was computed, and JWT_REFRESH_EXPIRES_IN after the
\* token was signed; the two are set independently.
Overdue(t) == /\ t \in stored \ overdue
              /\ MayExpire(t)
              /\ overdue' = overdue \cup {t}
              /\ UNCHANGED <<tables, owner, parent, invalid, ended, cookie, job>>

Invalid(t) == /\ t \in Signed \ invalid
              /\ MayExpire(t)
              /\ invalid' = invalid \cup {t}
              /\ UNCHANGED <<tables, owner, parent, overdue, ended, cookie, job>>

\* The browser drops the cookie: maxAge has passed.
DropCookie(b) == /\ cookie[b] # Null
                 /\ cookie' = [cookie EXCEPT ![b] = Null]
                 /\ UNCHANGED <<tables, tokens, job>>

Start(p) == \E b \in Browsers : \/ \E u \in Users : StartRegister(p, b, u) \/ StartLogin(p, b, u)
                                \/ StartRefresh(p, b)
                                \/ StartLogout(p, b)

Continue(p) == \/ CreateUser(p)
               \/ \E isMatch \in BOOLEAN : ComparePassword(p, isMatch)
               \/ StoreToken(p)
               \/ FindToken(p) \/ RevokeAll(p) \/ PurgeToken(p) \/ FindUser(p) \/ DeleteOld(p)
               \/ Logout(p)
               \/ \E delivered \in BOOLEAN : Answer(p, delivered) \/ ClearCookie(p, delivered)

Next == \/ \E p \in Procs : Start(p) \/ Refuse(p) \/ Continue(p) \/ DbError(p)
        \/ \E t \in Tokens : Overdue(t) \/ Invalid(t)
        \/ \E b \in Browsers : DropCookie(b)

Spec == Init /\ [][Next]_vars

-----------------------------------------------------------------------------

\* Steps of a handler that works with the token of the cookie.
Presented == {"find", "revoke", "purge", "find_user", "rotate", "logout"}

\* Accounts, tokens, cookies and handlers hold values of their types, and a handler
\* has at each step the locals that auth.service.js uses there.
TypeOK == /\ users \subseteq Users
          /\ stored \subseteq Tokens
          /\ owner \in [Tokens -> Users \cup {Null}]
          /\ parent \in [Tokens -> Tokens \cup {Null}]
          /\ overdue \subseteq Tokens
          /\ invalid \subseteq Tokens
          /\ ended \in [Tokens -> {"no", "logout", "reuse"}]
          /\ cookie \in [Browsers -> Tokens \cup {Null}]
          /\ job \in [Procs -> Job]
          /\ \A p \in Procs :
               /\ job[p].step # "idle" => job[p].browser \in Browsers
               /\ job[p].step \in {"create_user", "compare"} => job[p].user \in Users
               /\ job[p].step \in {"store", "answer"} => job[p].new \in Signed
               /\ job[p].step \in Presented => job[p].token \in Signed

\* A token that is about to be stored is known to nobody else: no row, no cookie,
\* no other handler and no token has come from it (signRefreshToken, and the order
\* in which register, login and refresh store, answer and set the cookie).
FreshToken ==
  \A p \in Procs : At(p, "store") =>
    LET t == job[p].new
    IN /\ t \notin stored
       /\ \A b \in Browsers : cookie[b] # t
       /\ \A q \in Procs : job[q].token # t /\ (q # p => job[q].new # t)
       /\ \A s \in Tokens : parent[s] # t

\* Reuse is only suspected of a token that was stored once and lost its row: a
\* browser never sees 403 because its token has not been written yet.
ReuseIsReal ==
  \A p \in Procs : At(p, "revoke") =>
    /\ job[p].token \notin stored
    /\ \A q \in Procs : At(q, "store") => job[q].new # job[p].token

\* A session ends through a call that presents a token of the same user, never
\* through a call of somebody else.
OwnSessionsOnly ==
  [][\A t \in stored \ stored' :
       \E p \in Procs : job[p].token # Null /\ owner[job[p].token] = owner[t]]_vars

\* A token is replaced at most once: the first refresh invalidates it.
OneSuccessor ==
  \A s, t \in Tokens : parent[s] # Null /\ parent[s] = parent[t] => s = t
=============================================================================
