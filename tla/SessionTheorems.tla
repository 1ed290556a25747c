--------------------------- MODULE SessionTheorems ---------------------------
(***************************************************************************)
(* What is proved of AuthSessions and SessionIsolation for any number of   *)
(* handlers, users, browsers and tokens.                                   *)
(***************************************************************************)
EXTENDS SessionIsolation, TLAPS

\* Only tokens that were signed are in a row, a cookie, the locals of a handler or the
\* descent of another token: a token to be signed next is new to all of them.
Known == /\ stored \subseteq Signed
         /\ \A b \in Browsers : cookie[b] \in Signed \cup {Null}
         /\ \A t \in Tokens : parent[t] \in Signed \cup {Null}
         /\ \A p \in Procs : {job[p].token, job[p].new} \subseteq Signed \cup {Null}

IInv == TypeOK /\ Known /\ FreshToken /\ ReuseIsReal

-----------------------------------------------------------------------------

\* Before the first call nothing is signed.
LEMMA InitHolds == Init => IInv
  BY DEF Init, IInv, TypeOK, Known, FreshToken, ReuseIsReal, At, Idle, Job, Steps, Signed,
         Presented

\* signRefreshToken, with whatever rows the handler has deleted before: the token is
\* one that nobody has.
LEMMA SignKeeps ==
  ASSUME IInv, NEW p \in Procs, NEW u \in Users, NEW from \in {Null, job[p].token},
         Sign(p, u, from), job[p].step \notin {"idle", "store"},
         users' \subseteq Users, stored' \subseteq stored,
         UNCHANGED <<overdue, invalid, ended, cookie>>
  PROVE  IInv'
<1>0. TypeOK /\ Known /\ FreshToken /\ ReuseIsReal
  BY DEF IInv
<1> PICK t \in Tokens \ Signed :
           /\ owner' = [owner EXCEPT ![t] = u]
           /\ parent' = [parent EXCEPT ![t] = from]
           /\ job' = [job EXCEPT ![p] = [job[p] EXCEPT !.step = "store", !.new = t]]
  BY DEF Sign, IInv, TypeOK
<1>1. Signed' = Signed \cup {t} /\ t # Null
  BY <1>0, NullAssumption DEF Signed, TypeOK
<1> DEFINE j == [job[p] EXCEPT !.step = "store", !.new = t]
<1>2. /\ job[p] \in Job /\ job \in [Procs -> Job] /\ job[p].browser \in Browsers
      /\ \A q \in Procs : job[q].token # t /\ job[q].new # t
      /\ stored \subseteq Signed /\ \A b \in Browsers : cookie[b] # t
      /\ \A s \in Tokens : parent[s] # t
  BY <1>0, <1>1 DEF TypeOK, Known
<1>3. /\ j \in Job /\ j.step = "store" /\ j.new = t
      /\ j.token = job[p].token /\ j.browser = job[p].browser
  BY <1>2 DEF Job, Steps
<1>4. job' = [job EXCEPT ![p] = j]
  OBVIOUS
<1> HIDE DEF j
<1>5. /\ job' \in [Procs -> Job] /\ job'[p] = j
      /\ \A q \in Procs \ {p} : job'[q] = job[q]
  BY <1>2, <1>3, <1>4
<1>6. ASSUME NEW q \in Procs
      PROVE  /\ job'[q].step # "idle" => job'[q].browser \in Browsers
             /\ job'[q].step \in {"create_user", "compare"} => job'[q].user \in Users
             /\ job'[q].step \in {"store", "answer"} => job'[q].new \in Signed'
             /\ job'[q].step \in Presented => job'[q].token \in Signed'
  BY <1>0, <1>1, <1>2, <1>3, <1>5 DEF TypeOK, Presented
<1>7. TypeOK'
  <2>1. from \in Tokens \cup {Null}
    BY <1>0 DEF Known, Signed
  <2>2. owner' \in [Tokens -> Users \cup {Null}] /\ parent' \in [Tokens -> Tokens \cup {Null}]
    BY <1>0, <2>1 DEF TypeOK
  <2> QED
    BY <1>0, <1>5, <1>6, <2>2 DEF TypeOK
<1>8. Known'
  BY <1>0, <1>1, <1>3, <1>5 DEF Known, TypeOK
<1>9. ASSUME NEW q \in Procs, job'[q].step = "store"
      PROVE  LET n == job'[q].new
             IN /\ n \notin stored'
                /\ \A b \in Browsers : cookie'[b] # n
                /\ \A o \in Procs : job'[o].token # n /\ (o # q => job'[o].new # n)
                /\ \A s \in Tokens : parent'[s] # n
  <2>1. CASE q = p
    <3>1. \A s \in Tokens : parent'[s] # t
      BY <1>0, <1>1, <1>2 DEF TypeOK
    <3>2. t \notin stored' /\ \A b \in Browsers : cookie'[b] # t
      BY <1>1, <1>2
    <3>3. \A o \in Procs : job'[o].token # t /\ (o # p => job'[o].new # t)
      BY <1>2, <1>3, <1>5
    <3> QED
      BY <2>1, <1>3, <1>5, <3>1, <3>2, <3>3
  <2>2. CASE q # p
    <3> DEFINE n == job[q].new
    <3>1. job'[q] = job[q] /\ At(q, "store")
      BY <1>5, <1>9, <2>2 DEF At
    <3>2. /\ n \notin stored /\ n # t
          /\ \A b \in Browsers : cookie[b] # n
          /\ \A o \in Procs : job[o].token # n /\ (o # q => job[o].new # n)
          /\ \A s \in Tokens : parent[s] # n
      BY <1>0, <1>2, <3>1 DEF FreshToken
    <3>3. n # from /\ n \in Tokens
      BY <1>0, <3>1, <3>2, NullAssumption DEF TypeOK, Signed, At
    <3>4. \A s \in Tokens : parent'[s] # n
      BY <1>0, <3>2, <3>3 DEF TypeOK
    <3>5. \A o \in Procs : job'[o].token # n /\ (o # q => job'[o].new # n)
      BY <1>3, <1>5, <3>2
    <3>6. n \notin stored' /\ \A b \in Browsers : cookie'[b] # n
      BY <3>2
    <3> QED
      BY <3>1, <3>4, <3>5, <3>6
  <2> QED
    BY <2>1, <2>2
<1>10. FreshToken'
  BY <1>9 DEF FreshToken, At
<1>11. ReuseIsReal'
  <2>1. ASSUME NEW q \in Procs, job'[q].step = "revoke"
        PROVE  /\ job'[q].token \notin stored'
               /\ \A o \in Procs : job'[o].step = "store" => job'[o].new # job'[q].token
    <3>1. q # p /\ job'[q] = job[q] /\ At(q, "revoke")
      BY <1>3, <1>5, <2>1 DEF At
    <3>2. job[q].token \notin stored
      BY <1>0, <3>1 DEF ReuseIsReal
    <3> QED
      BY <1>9, <3>1, <3>2
  <2> QED
    BY <2>1 DEF ReuseIsReal, At
<1> QED
  BY <1>7, <1>8, <1>10, <1>11 DEF IInv

\* createRefreshToken: the token was nobody's, so that no handler that suspects reuse
\* has it.
LEMMA StoreKeeps ==
  ASSUME IInv, NEW p \in Procs, StoreToken(p)
  PROVE  IInv'
<1> DEFINE j == [job[p] EXCEPT !.step = "answer"]
<1>0. /\ TypeOK /\ Known /\ FreshToken /\ ReuseIsReal
      /\ job[p] \in Job /\ job \in [Procs -> Job]
      /\ job[p].new \in Signed /\ job[p].step = "store" /\ job[p].browser \in Browsers
  BY DEF IInv, TypeOK, StoreToken, At
<1>1. j \in Job /\ j.step = "answer" /\ j.new = job[p].new /\ j.token = job[p].token
      /\ j.browser = job[p].browser
  BY <1>0 DEF Job, Steps
<1>2. /\ job' = [job EXCEPT ![p] = j]
      /\ stored' = stored \cup {job[p].new}
      /\ UNCHANGED <<users, tokens, cookie>>
  BY <1>0 DEF StoreToken, Goto
<1> HIDE DEF j
<1>3. /\ job' \in [Procs -> Job] /\ job'[p] = j
      /\ \A q \in Procs \ {p} : job'[q] = job[q]
  BY <1>0, <1>1, <1>2
<1>4. /\ owner' = owner /\ parent' = parent /\ overdue' = overdue /\ invalid' = invalid
      /\ ended' = ended /\ users' = users /\ cookie' = cookie /\ Signed' = Signed
  BY <1>2 DEF tokens, Signed
<1>5. TypeOK'
  <2>1. ASSUME NEW q \in Procs
        PROVE  /\ job'[q].step # "idle" => job'[q].browser \in Browsers
               /\ job'[q].step \in {"create_user", "compare"} => job'[q].user \in Users
               /\ job'[q].step \in {"store", "answer"} => job'[q].new \in Signed
               /\ job'[q].step \in Presented => job'[q].token \in Signed
    BY <1>0, <1>1, <1>3 DEF TypeOK, Presented
  <2>2. stored' \subseteq Tokens
    BY <1>0, <1>2 DEF TypeOK, Signed
  <2> QED
    BY <1>0, <1>3, <1>4, <2>1, <2>2 DEF TypeOK
<1>6. Known'
  BY <1>0, <1>1, <1>2, <1>3, <1>4 DEF Known
<1>7. FreshToken'
  BY <1>0, <1>1, <1>2, <1>3, <1>4 DEF FreshToken, At
<1>8. ReuseIsReal'
  BY <1>0, <1>1, <1>2, <1>3 DEF ReuseIsReal, FreshToken, At
<1> QED
  BY <1>5, <1>6, <1>7, <1>8 DEF IInv

\* Any other step: nothing is signed and nothing stored, a cookie is dropped or set to
\* the token of the handler that answers, and a handler suspects only a token it did not find.
LEMMA MoveKeeps ==
  ASSUME IInv, NEW p \in Procs, NEW j \in Job, job' = [job EXCEPT ![p] = j],
         j.step # "store",
         j.step # "idle" => j.browser \in Browsers,
         j.step \in {"create_user", "compare"} => j.user \in Users,
         j.step = "answer" => j.new \in Signed,
         j.step \in Presented => j.token \in Signed,
         j.step = "revoke" => j.token \notin stored,
         j.new \in {Null, job[p].new},
         j.token \in {Null, job[p].token} \/ \E b \in Browsers : j.token = cookie[b],
         users' \subseteq Users, stored' \subseteq stored,
         UNCHANGED <<owner, parent>>,
         overdue' \subseteq Tokens, invalid' \subseteq Tokens,
         ended' \in [Tokens -> {"no", "logout", "reuse"}],
         cookie' \in [Browsers -> Tokens \cup {Null}],
         \A b \in Browsers : \/ cookie'[b] \in {Null, cookie[b]}
                             \/ At(p, "answer") /\ cookie'[b] = job[p].new
  PROVE  IInv'
<1>0. TypeOK /\ Known /\ FreshToken /\ ReuseIsReal /\ job \in [Procs -> Job]
  BY DEF IInv, TypeOK
<1>1. /\ job' \in [Procs -> Job] /\ job'[p] = j
      /\ \A q \in Procs \ {p} : job'[q] = job[q]
  BY <1>0
<1>2. Signed' = Signed /\ Null \notin Signed
  BY NullAssumption DEF Signed
<1>3. TypeOK'
  <2>1. ASSUME NEW q \in Procs
        PROVE  /\ job'[q].step # "idle" => job'[q].browser \in Browsers
               /\ job'[q].step \in {"create_user", "compare"} => job'[q].user \in Users
               /\ job'[q].step \in {"store", "answer"} => job'[q].new \in Signed
               /\ job'[q].step \in Presented => job'[q].token \in Signed
    BY <1>0, <1>1 DEF TypeOK
  <2>2. stored' \subseteq Tokens
    BY <1>0 DEF TypeOK
  <2> QED
    BY <1>0, <1>1, <1>2, <2>1, <2>2 DEF TypeOK
<1>4. Known'
  BY <1>0, <1>1, <1>2 DEF Known
<1>5. ASSUME NEW q \in Procs, job'[q].step = "store"
      PROVE  LET n == job'[q].new
             IN /\ n \notin stored'
                /\ \A b \in Browsers : cookie'[b] # n
                /\ \A o \in Procs : job'[o].token # n /\ (o # q => job'[o].new # n)
                /\ \A s \in Tokens : parent'[s] # n
  <2> DEFINE n == job[q].new
  <2>1. q # p /\ job'[q] = job[q] /\ At(q, "store") /\ n \in Signed
    BY <1>0, <1>1, <1>5 DEF At, TypeOK
  <2>2. /\ n \notin stored
        /\ \A b \in Browsers : cookie[b] # n
        /\ \A o \in Procs : job[o].token # n /\ (o # q => job[o].new # n)
        /\ \A s \in Tokens : parent[s] # n
    BY <1>0, <2>1 DEF FreshToken
  <2>3. n # Null
    BY <1>2, <2>1
  <2>4. \A b \in Browsers : cookie'[b] # n
    BY <2>1, <2>2, <2>3
  <2>5. \A o \in Procs : job'[o].token # n /\ (o # q => job'[o].new # n)
    BY <1>1, <2>2, <2>3
  <2> QED
    BY <2>1, <2>2, <2>4, <2>5
<1>6. FreshToken'
  BY <1>5 DEF FreshToken, At
<1>7. ReuseIsReal'
  <2>1. ASSUME NEW q \in Procs, job'[q].step = "revoke"
        PROVE  /\ job'[q].token \notin stored'
               /\ \A o \in Procs : job'[o].step = "store" => job'[o].new # job'[q].token
    BY <1>0, <1>1, <1>5, <2>1 DEF ReuseIsReal, At
  <2> QED
    BY <2>1 DEF ReuseIsReal, At
<1> QED
  BY <1>3, <1>4, <1>6, <1>7 DEF IInv

\* A step that changes neither tables nor tokens nor cookies.
LEMMA QuietKeeps ==
  ASSUME IInv, NEW p \in Procs, NEW j \in Job, job' = [job EXCEPT ![p] = j],
         j.step # "store",
         j.step # "idle" => j.browser \in Browsers,
         j.step \in {"create_user", "compare"} => j.user \in Users,
         j.step = "answer" => j.new \in Signed,
         j.step \in Presented => j.token \in Signed,
         j.step = "revoke" => j.token \notin stored,
         j.new \in {Null, job[p].new},
         j.token \in {Null, job[p].token} \/ \E b \in Browsers : j.token = cookie[b],
         UNCHANGED <<tables, tokens, cookie>>
  PROVE  IInv'
<1>1. /\ users' = users /\ stored' = stored /\ UNCHANGED <<owner, parent>>
      /\ overdue' = overdue /\ invalid' = invalid /\ ended' = ended /\ cookie' = cookie
  BY DEF tables, tokens
<1>2. TypeOK
  BY DEF IInv
<1>3. /\ users' \subseteq Users /\ stored' \subseteq stored
      /\ overdue' \subseteq Tokens /\ invalid' \subseteq Tokens
      /\ ended' \in [Tokens -> {"no", "logout", "reuse"}]
      /\ cookie' \in [Browsers -> Tokens \cup {Null}]
      /\ \A b \in Browsers : cookie'[b] \in {Null, cookie[b]}
  BY <1>1, <1>2 DEF TypeOK
<1> QED
  BY <1>1, <1>3, MoveKeeps

\* The locals of a handler that has answered.
LEMMA IdleIsJob == Idle \in Job /\ Idle.step = "idle" /\ Idle.token = Null /\ Idle.new = Null
  BY DEF Idle, Job, Steps

\* Answers that change nothing else.
LEMMA FinishKeeps ==
  ASSUME IInv, NEW p \in Procs, Finish(p), UNCHANGED <<tables, tokens, cookie>>
  PROVE  IInv'
  BY IdleIsJob, QuietKeeps DEF Finish, Presented

\* What a handler keeps when it goes on to another step.
LEMMA GotoMoves ==
  ASSUME IInv, NEW p \in Procs, NEW step \in Steps, Goto(p, step)
  PROVE  \E j \in Job : /\ job' = [job EXCEPT ![p] = j]
                        /\ j.step = step
                        /\ j.browser = job[p].browser /\ j.user = job[p].user
                        /\ j.token = job[p].token /\ j.new = job[p].new
<1> DEFINE j == [job[p] EXCEPT !.step = step]
<1>1. job \in [Procs -> Job] /\ job[p] \in Job
  BY DEF IInv, TypeOK
<1>2. job' = [job EXCEPT ![p] = j]
  BY <1>1 DEF Goto
<1>3. /\ j \in Job /\ j.step = step
      /\ j.browser = job[p].browser /\ j.user = job[p].user
      /\ j.token = job[p].token /\ j.new = job[p].new
  BY <1>1 DEF Job
<1> QED
  BY <1>2, <1>3

\* Calls that begin.
LEMMA StartKeeps ==
  ASSUME IInv, NEW p \in Procs, NEW b \in Browsers,
         \/ \E u \in Users : StartRegister(p, b, u) \/ StartLogin(p, b, u)
         \/ StartRefresh(p, b) \/ StartLogout(p, b)
  PROVE  IInv'
<1>0. cookie[b] \in Signed \cup {Null} /\ cookie[b] \in Tokens \cup {Null}
  BY DEF IInv, Known, Signed
<1>1. ASSUME NEW u \in Users, NEW step \in {"create_user", "compare"},
             Begin(p, [Idle EXCEPT !.step = step, !.browser = b, !.user = u]),
             UNCHANGED <<tables, tokens, cookie>>
      PROVE  IInv'
  <2> DEFINE j == [Idle EXCEPT !.step = step, !.browser = b, !.user = u]
  <2>1. /\ j \in Job /\ j.step = step /\ j.browser = b /\ j.user = u
        /\ j.token = Null /\ j.new = Null
    BY DEF Idle, Job, Steps
  <2>2. job' = [job EXCEPT ![p] = j]
    BY <1>1 DEF Begin
  <2> HIDE DEF j
  <2> QED
    BY <1>1, <2>1, <2>2, QuietKeeps DEF Presented
<1>2. ASSUME NEW step \in {"find", "logout", "clear"},
             step # "clear" => cookie[b] # Null,
             Begin(p, [Idle EXCEPT !.step = step, !.browser = b, !.token = cookie[b]]),
             UNCHANGED <<tables, tokens, cookie>>
      PROVE  IInv'
  <2> DEFINE j == [Idle EXCEPT !.step = step, !.browser = b, !.token = cookie[b]]
  <2>1. /\ j \in Job /\ j.step = step /\ j.browser = b
        /\ j.token = cookie[b] /\ j.new = Null
    BY <1>0 DEF Idle, Job, Steps
  <2>2. job' = [job EXCEPT ![p] = j]
    BY <1>2 DEF Begin
  <2> HIDE DEF j
  <2> QED
    BY <1>0, <1>2, <2>1, <2>2, QuietKeeps DEF Presented
<1>3. CASE \E u \in Users : StartRegister(p, b, u) \/ StartLogin(p, b, u)
  BY <1>1, <1>3 DEF StartRegister, StartLogin
<1>4. CASE StartRefresh(p, b)
  BY <1>2, <1>4 DEF StartRefresh
<1>5. CASE StartLogout(p, b)
  BY <1>2, <1>5 DEF StartLogout
<1> QED
  BY <1>3, <1>4, <1>5

\* register: the account, unless the address is taken meanwhile, and its token.
LEMMA CreateKeeps ==
  ASSUME IInv, NEW p \in Procs, CreateUser(p)
  PROVE  IInv'
<1>1. TypeOK /\ job[p].user \in Users
  BY DEF IInv, TypeOK, CreateUser, At
<1>2. CASE job[p].user \in users
  BY <1>2, FinishKeeps DEF CreateUser, tables, tokens
<1>3. CASE job[p].user \notin users
  <2>1. /\ users' \subseteq Users /\ stored' \subseteq stored
        /\ Sign(p, job[p].user, Null) /\ UNCHANGED <<overdue, invalid, ended, cookie>>
    BY <1>1, <1>3 DEF CreateUser, TypeOK
  <2> QED
    BY <1>1, <2>1, SignKeeps DEF CreateUser, At
<1> QED
  BY <1>2, <1>3

\* login: the token, if the password is right.
LEMMA CompareKeeps ==
  ASSUME IInv, NEW p \in Procs, NEW isMatch \in BOOLEAN, ComparePassword(p, isMatch)
  PROVE  IInv'
<1>1. TypeOK /\ job[p].user \in Users
  BY DEF IInv, TypeOK, ComparePassword, At
<1>2. CASE ~ isMatch
  BY <1>2, FinishKeeps DEF ComparePassword, tables, tokens
<1>3. CASE isMatch
  <2>1. /\ users' \subseteq Users /\ stored' \subseteq stored
        /\ Sign(p, job[p].user, Null) /\ UNCHANGED <<overdue, invalid, ended, cookie>>
    BY <1>1, <1>3 DEF ComparePassword, TypeOK, tables
  <2> QED
    BY <1>1, <2>1, SignKeeps DEF ComparePassword, At
<1> QED
  BY <1>2, <1>3

\* refresh: the old row is deleted, and the next token signed.
LEMMA DeleteOldKeeps ==
  ASSUME IInv, NEW p \in Procs, DeleteOld(p)
  PROVE  IInv'
<1>1. TypeOK /\ job[p].token \in Signed
  BY DEF IInv, TypeOK, DeleteOld, At, Presented
<1>2. owner[job[p].token] \in Users
  BY <1>1 DEF TypeOK, Signed
<1>3. /\ users' \subseteq Users /\ stored' \subseteq stored
      /\ Sign(p, owner[job[p].token], job[p].token)
      /\ UNCHANGED <<overdue, invalid, ended, cookie>>
  BY <1>1 DEF DeleteOld, TypeOK
<1> QED
  BY <1>2, <1>3, SignKeeps DEF DeleteOld, At

\* refresh: only a token that has no row is suspected.
LEMMA FindKeeps ==
  ASSUME IInv, NEW p \in Procs, FindToken(p) \/ FindUser(p)
  PROVE  IInv'
<1>1. /\ TypeOK /\ job[p].token \in Signed /\ job[p].browser \in Browsers
  BY DEF IInv, TypeOK, FindToken, FindUser, At, Presented
<1>2. ASSUME NEW step \in {"revoke", "purge", "find_user", "rotate"}, Goto(p, step),
             step = "revoke" => job[p].token \notin stored,
             UNCHANGED <<tables, tokens, cookie>>
      PROVE  IInv'
  <2>1. step \in Steps
    BY DEF Steps
  <2>2. PICK j \in Job : /\ job' = [job EXCEPT ![p] = j]
                         /\ j.step = step
                         /\ j.browser = job[p].browser /\ j.user = job[p].user
                         /\ j.token = job[p].token /\ j.new = job[p].new
    BY <1>2, <2>1, GotoMoves
  <2> QED
    BY <1>1, <1>2, <2>2, QuietKeeps
<1>3. CASE FindToken(p)
  BY <1>2, <1>3 DEF FindToken
<1>4. CASE FindUser(p)
  BY <1>2, <1>4, FinishKeeps DEF FindUser
<1> QED
  BY <1>3, <1>4

\* Rows that are deleted before the call is refused.
LEMMA RevokeKeeps ==
  ASSUME IInv, NEW p \in Procs, RevokeAll(p) \/ PurgeToken(p)
  PROVE  IInv'
<1>1. TypeOK
  BY DEF IInv
<1>2. /\ users' = users /\ stored' \subseteq stored /\ UNCHANGED <<owner, parent>>
      /\ overdue' = overdue /\ invalid' = invalid /\ cookie' = cookie
      /\ job' = [job EXCEPT ![p] = Idle]
  BY DEF RevokeAll, PurgeToken, Finish, tokens
<1>3. ended' \in [Tokens -> {"no", "logout", "reuse"}]
  BY <1>1 DEF RevokeAll, PurgeToken, TypeOK, tokens
<1>4. /\ users' \subseteq Users /\ overdue' \subseteq Tokens /\ invalid' \subseteq Tokens
      /\ cookie' \in [Browsers -> Tokens \cup {Null}]
      /\ \A b \in Browsers : cookie'[b] \in {Null, cookie[b]}
  BY <1>1, <1>2 DEF TypeOK
<1> QED
  BY <1>2, <1>3, <1>4, IdleIsJob, MoveKeeps DEF Presented

\* The row of the cookie's token goes, and the cookie is cleared next.
LEMMA LogoutKeeps ==
  ASSUME IInv, NEW p \in Procs, Logout(p)
  PROVE  IInv'
<1>1. TypeOK /\ job[p].browser \in Browsers
  BY DEF IInv, TypeOK, Logout, At
<1>2. PICK j \in Job : /\ job' = [job EXCEPT ![p] = j]
                       /\ j.step = "clear"
                       /\ j.browser = job[p].browser /\ j.user = job[p].user
                       /\ j.token = job[p].token /\ j.new = job[p].new
  BY GotoMoves DEF Logout, Steps
<1>3. /\ users' = users /\ stored' \subseteq stored /\ UNCHANGED <<owner, parent>>
      /\ overdue' = overdue /\ invalid' = invalid /\ cookie' = cookie
  BY DEF Logout
<1>4. ended' \in [Tokens -> {"no", "logout", "reuse"}]
  BY <1>1 DEF Logout, TypeOK
<1>5. /\ users' \subseteq Users /\ overdue' \subseteq Tokens /\ invalid' \subseteq Tokens
      /\ cookie' \in [Browsers -> Tokens \cup {Null}]
      /\ \A b \in Browsers : cookie'[b] \in {Null, cookie[b]}
  BY <1>1, <1>3 DEF TypeOK
<1> QED
  BY <1>1, <1>2, <1>3, <1>4, <1>5, MoveKeeps DEF Presented

\* Responses that set or clear the cookie.
LEMMA RespondKeeps ==
  ASSUME IInv, NEW p \in Procs, NEW delivered \in BOOLEAN,
         Answer(p, delivered) \/ ClearCookie(p, delivered)
  PROVE  IInv'
<1>1. TypeOK
  BY DEF IInv
<1>2. /\ users' = users /\ stored' = stored /\ UNCHANGED <<owner, parent>>
      /\ overdue' = overdue /\ invalid' = invalid /\ ended' = ended
      /\ job' = [job EXCEPT ![p] = Idle]
  BY DEF Answer, ClearCookie, Finish, tables, tokens
<1>3. /\ cookie' \in [Browsers -> Tokens \cup {Null}]
      /\ \A b \in Browsers : \/ cookie'[b] \in {Null, cookie[b]}
                             \/ At(p, "answer") /\ cookie'[b] = job[p].new
  BY <1>1 DEF Answer, ClearCookie, TypeOK, Signed, At
<1>4. /\ users' \subseteq Users /\ overdue' \subseteq Tokens /\ invalid' \subseteq Tokens
      /\ stored' \subseteq stored /\ ended' \in [Tokens -> {"no", "logout", "reuse"}]
  BY <1>1, <1>2 DEF TypeOK
<1> QED
  BY <1>2, <1>3, <1>4, IdleIsJob, MoveKeeps DEF Presented

\* Time passes, for rows, tokens and cookies.
LEMMA TimeKeeps ==
  ASSUME IInv,
         \/ \E t \in Tokens : Overdue(t) \/ Invalid(t)
         \/ \E b \in Browsers : DropCookie(b)
         \/ UNCHANGED vars
  PROVE  IInv'
<1>1. /\ users' = users /\ stored' = stored /\ owner' = owner /\ parent' = parent
      /\ ended' = ended /\ job' = job /\ Signed' = Signed
  BY DEF Overdue, Invalid, DropCookie, vars, tables, tokens, Signed
<1>2. /\ overdue' \subseteq Tokens /\ invalid' \subseteq Tokens
      /\ cookie' \in [Browsers -> Tokens \cup {Null}]
      /\ \A b \in Browsers : cookie'[b] \in {Null, cookie[b]}
  BY DEF IInv, TypeOK, Overdue, Invalid, DropCookie, vars, tables, tokens, Signed
<1>3. TypeOK'
  BY <1>1, <1>2 DEF IInv, TypeOK
<1>4. Known'
  BY <1>1, <1>2 DEF IInv, Known
<1>5. FreshToken'
  BY <1>1, <1>2, NullAssumption DEF IInv, FreshToken, TypeOK, At, Signed
<1>6. ReuseIsReal'
  BY <1>1 DEF IInv, ReuseIsReal, At
<1> QED
  BY <1>3, <1>4, <1>5, <1>6 DEF IInv

\* Every step keeps the invariant.
LEMMA StepKeeps == IInv /\ [Next]_vars => IInv'
<1> SUFFICES ASSUME IInv, [Next]_vars PROVE IInv'
  OBVIOUS
<1>1. ASSUME NEW p \in Procs, Start(p) PROVE IInv'
  BY <1>1, StartKeeps DEF Start
<1>2. ASSUME NEW p \in Procs, Continue(p) PROVE IInv'
  BY <1>2, CreateKeeps, CompareKeeps, StoreKeeps, FindKeeps, RevokeKeeps, DeleteOldKeeps,
     LogoutKeeps, RespondKeeps DEF Continue
<1>3. ASSUME NEW p \in Procs, Refuse(p) \/ DbError(p) PROVE IInv'
  BY <1>3, FinishKeeps, TimeKeeps DEF Refuse, DbError
<1> QED
  BY <1>1, <1>2, <1>3, TimeKeeps DEF Next

\* So it always holds.
LEMMA Inductive == Spec => []IInv
  BY InitHolds, StepKeeps, PTL DEF Spec

-----------------------------------------------------------------------------

\* Accounts, tokens, cookies and handlers of AuthService always hold values of their types.
THEOREM TypeCorrect == Spec => []TypeOK
<1>1. IInv => TypeOK
  BY DEF IInv
<1> QED
  BY <1>1, Inductive, PTL

\* A token about to be stored is known to nobody else, however many calls of however
\* many browsers overlap, fail half way or lose their answers.
THEOREM NobodyKnowsIt == Spec => []FreshToken
<1>1. IInv => FreshToken
  BY DEF IInv
<1> QED
  BY <1>1, Inductive, PTL

\* Reuse is only suspected of a token that has lost its row, never of one that has not
\* been written yet.
THEOREM NoFalseAlarm == Spec => []ReuseIsReal
<1>1. IInv => ReuseIsReal
  BY DEF IInv
<1> QED
  BY <1>1, Inductive, PTL

-----------------------------------------------------------------------------
\* SessionIsolation: the history variable adds nothing to the behaviours, and tells
\* which users had a handler to themselves.

\* Whoever owns a token has an account, and so has whoever types a password; no
\* operation deletes an account.
Accounts == /\ \A t \in Signed : owner[t] \in users
            /\ \A p \in Procs : At(p, "compare") => job[p].user \in users

\* A token descends from one of the same user.
Descent == \A t \in Tokens : parent[t] # Null => t \in Signed /\ owner[parent[t]] = owner[t]

\* A token that was logged out or revoked was stored, and has lost its row for good.
EndedIsGone ==
  \A t \in Tokens : ended[t] # "no" =>
    /\ t \in Signed \ stored
    /\ \A p \in Procs : At(p, "store") => job[p].new # t

\* At most one handler serves a user whose calls have never overlapped.
Alone == \A u \in Users \ crowded : \A p, q \in Procs : Serves(p, u) /\ Serves(q, u) => p = q

\* A refresh that found its token still finds it when it rotates it, unless another
\* call of that user came between.
RotatesStored ==
  \A p \in Procs :
    job[p].step \in {"find_user", "rotate"} /\ owner[job[p].token] \notin crowded =>
      job[p].token \in stored

\* A replaced token was neither logged out nor revoked, unless calls overlapped.
ReplacedInPeace ==
  \A t \in Tokens : parent[t] # Null /\ owner[t] \notin crowded => ended[parent[t]] = "no"

Rotation == /\ Alone /\ RotatesStored
            /\ ReplacedInPeace /\ OneSuccessorAlone

SessionInv == /\ IInv
              /\ Accounts /\ Descent /\ EndedIsGone /\ ReplacedIsGone
              /\ Rotation

-----------------------------------------------------------------------------

\* No session, and nobody has been disturbed.
LEMMA InitIsPeaceful == IsolatedInit => SessionInv
<1> SUFFICES ASSUME IsolatedInit PROVE SessionInv
  OBVIOUS
<1>1. IInv
  BY InitHolds DEF IsolatedInit
<1>2. Signed = {} /\ \A p \in Procs : job[p] = Idle
  BY DEF IsolatedInit, Init, Signed
<1>3. /\ \A t \in Tokens : parent[t] = Null /\ ended[t] = "no"
      /\ stored = {}
  BY DEF IsolatedInit, Init
<1>4. Accounts /\ Descent /\ EndedIsGone /\ ReplacedIsGone
  BY <1>2, <1>3 DEF Accounts, Descent, EndedIsGone, ReplacedIsGone, At, Idle
<1>5. Alone
  BY <1>2, NullAssumption DEF Alone, Serves, Idle
<1>6. RotatesStored /\ ReplacedInPeace /\ OneSuccessorAlone
  BY <1>2, <1>3 DEF RotatesStored, ReplacedInPeace, OneSuccessorAlone, Idle
<1> QED
  BY <1>1, <1>4, <1>5, <1>6 DEF SessionInv, Rotation

\* What Observe is for: users only ever become crowded, and nobody else is served twice.
LEMMA ObserveKeepsAlone == Observe => Alone' /\ crowded \subseteq crowded'
  BY DEF Observe, Alone

\* A token is signed by register, by login, or by a refresh that has just deleted the
\* row of the token it replaces.  If nobody else served the user, that row was there.
LEMMA SignKeepsPeace ==
  ASSUME SessionInv, IInv', Observe,
         NEW p \in Procs, NEW u \in Users, NEW from \in {Null, job[p].token},
         Sign(p, u, from), job[p].step \notin {"idle", "store"},
         u \in users', users \subseteq users', stored' = stored \ {from}, ended' = ended,
         from # Null => At(p, "rotate") /\ u = owner[from]
  PROVE  SessionInv'
<1>0. /\ TypeOK /\ Known /\ FreshToken /\ Accounts /\ Descent /\ EndedIsGone
      /\ ReplacedIsGone /\ Alone /\ RotatesStored /\ ReplacedInPeace /\ OneSuccessorAlone
  BY DEF SessionInv, IInv, Rotation
<1> PICK t \in Tokens \ Signed :
           /\ owner' = [owner EXCEPT ![t] = u]
           /\ parent' = [parent EXCEPT ![t] = from]
           /\ job' = [job EXCEPT ![p] = [job[p] EXCEPT !.step = "store", !.new = t]]
  BY <1>0 DEF Sign, TypeOK
<1>1. /\ t # Null /\ Null \notin Signed /\ Signed' = Signed \cup {t}
      /\ owner'[t] = u /\ parent'[t] = from
      /\ \A s \in Tokens \ {t} : owner'[s] = owner[s] /\ parent'[s] = parent[s]
  BY <1>0, NullAssumption DEF Signed, TypeOK
<1>2. /\ t \notin stored /\ t # from
      /\ \A s \in Tokens : parent[s] # t /\ parent[s] \in Tokens \cup {Null}
      /\ \A q \in Procs : job[q].token # t /\ job[q].token \in Signed \cup {Null}
  BY <1>0, <1>1 DEF Known, TypeOK
<1>3. /\ job'[p].step = "store" /\ job'[p].new = t
      /\ job'[p].token = job[p].token /\ job'[p].user = job[p].user
      /\ \A q \in Procs \ {p} : job'[q] = job[q]
  <2>1. job \in [Procs -> Job] /\ job[p] \in Job
    BY <1>0 DEF TypeOK
  <2> QED
    BY <2>1 DEF Job
<1>4. Alone' /\ crowded \subseteq crowded'
  BY ObserveKeepsAlone
<1>5. from # Null => /\ from \in Signed /\ from \in Tokens /\ owner'[from] = owner[from]
                     /\ owner[from] = u /\ job[p].token = from
  BY <1>1, <1>2 DEF Signed
\* Whoever refreshed alone had the row in the table up to now.
<1>6. from # Null /\ u \notin crowded => from \in stored
  BY <1>0, <1>5 DEF RotatesStored, At
<1>7. Accounts'
  <2>1. \A s \in Signed' : owner'[s] \in users'
    BY <1>0, <1>1 DEF Accounts, Signed
  <2>2. \A q \in Procs : job'[q].step = "compare" => job'[q].user \in users'
    BY <1>0, <1>3 DEF Accounts, At
  <2> QED
    BY <2>1, <2>2 DEF Accounts, At
<1>8. Descent'
  <2>1. ASSUME NEW s \in Tokens, parent'[s] # Null
        PROVE  s \in Signed' /\ owner'[parent'[s]] = owner'[s]
    <3>1. CASE s = t
      BY <2>1, <3>1, <1>1, <1>5
    <3>2. CASE s # t
      BY <2>1, <3>2, <1>0, <1>1, <1>2 DEF Descent
    <3> QED
      BY <3>1, <3>2
  <2> QED
    BY <2>1 DEF Descent
<1>9. EndedIsGone'
  <2>1. ASSUME NEW s \in Tokens, ended[s] # "no"
        PROVE  /\ s \in Signed' \ stored'
               /\ \A q \in Procs : job'[q].step = "store" => job'[q].new # s
    BY <2>1, <1>0, <1>1, <1>3 DEF EndedIsGone, At
  <2> QED
    BY <2>1 DEF EndedIsGone, At
<1>10. ReplacedIsGone'
  BY <1>0, <1>1 DEF ReplacedIsGone
<1>11. RotatesStored'
  <2>1. ASSUME NEW q \in Procs, job'[q].step \in {"find_user", "rotate"},
               owner'[job'[q].token] \notin crowded'
        PROVE  job'[q].token \in stored'
    <3>1. q # p /\ job'[q] = job[q] /\ job[q].token \in Signed
      BY <1>0, <1>3, <2>1 DEF TypeOK, Presented
    <3>2. job[q].token \in Tokens \ {t} /\ owner[job[q].token] \in Users \ crowded
      BY <1>0, <1>1, <1>2, <1>4, <2>1, <3>1 DEF Signed, TypeOK
    <3>3. job[q].token \in stored
      BY <1>0, <2>1, <3>1, <3>2 DEF RotatesStored
    <3>4. job[q].token # from
      BY <1>0, <1>1, <1>5, <3>1, <3>2 DEF Alone, Serves
    <3> QED
      BY <3>1, <3>3, <3>4
  <2> QED
    BY <2>1 DEF RotatesStored
<1>12. ReplacedInPeace'
  <2>1. ASSUME NEW s \in Tokens, parent'[s] # Null, owner'[s] \notin crowded'
        PROVE  ended[parent'[s]] = "no"
    <3>1. CASE s = t
      BY <1>0, <1>1, <1>4, <1>5, <1>6, <2>1, <3>1 DEF EndedIsGone
    <3>2. CASE s # t
      BY <1>0, <1>1, <1>4, <2>1, <3>2 DEF ReplacedInPeace
    <3> QED
      BY <3>1, <3>2
  <2> QED
    BY <2>1 DEF ReplacedInPeace
<1>13. OneSuccessorAlone'
  <2>1. ASSUME from # Null, NEW s \in Tokens \ {t}, parent[s] = from
        PROVE  u \in crowded /\ owner[s] = u
    BY <1>0, <1>5, <1>6, <2>1 DEF ReplacedIsGone, Descent
  <2>2. ASSUME NEW r \in Tokens, NEW s \in Tokens,
               parent'[r] # Null, parent'[r] = parent'[s], owner'[r] \notin crowded'
        PROVE  r = s
    <3>1. CASE r # t /\ s # t
      BY <1>0, <1>1, <1>4, <2>2, <3>1 DEF OneSuccessorAlone
    <3>2. CASE r = t /\ s # t
      BY <1>1, <1>4, <2>1, <2>2, <3>2
    <3>3. CASE r # t /\ s = t
      BY <1>1, <1>4, <2>1, <2>2, <3>3
    <3> QED
      BY <3>1, <3>2, <3>3
  <2> QED
    BY <2>2 DEF OneSuccessorAlone
<1> QED
  BY <1>4, <1>7, <1>8, <1>9, <1>10, <1>11, <1>12, <1>13 DEF SessionInv, Rotation

\* createRefreshToken stores a token that has neither ended nor been replaced.
LEMMA StoreKeepsPeace ==
  ASSUME SessionInv, IInv', Observe, NEW p \in Procs, StoreToken(p)
  PROVE  SessionInv'
<1>0. /\ TypeOK /\ FreshToken /\ Accounts /\ Descent /\ EndedIsGone
      /\ ReplacedIsGone /\ RotatesStored /\ ReplacedInPeace /\ OneSuccessorAlone
  BY DEF SessionInv, IInv, Rotation
<1>1. /\ owner' = owner /\ parent' = parent /\ ended' = ended /\ users' = users
      /\ stored' = stored \cup {job[p].new} /\ Signed' = Signed /\ At(p, "store")
  BY DEF StoreToken, tokens, Signed
<1>2. job'[p].step = "answer" /\ \A q \in Procs \ {p} : job'[q] = job[q]
  BY <1>0 DEF StoreToken, Goto, TypeOK, Job
<1>3. Alone' /\ crowded \subseteq crowded'
  BY ObserveKeepsAlone
<1>4. Accounts' /\ Descent'
  BY <1>0, <1>1, <1>2 DEF Accounts, Descent, At
<1>5. EndedIsGone' /\ ReplacedIsGone'
  BY <1>0, <1>1, <1>2 DEF EndedIsGone, ReplacedIsGone, FreshToken, At
<1>6. RotatesStored' /\ ReplacedInPeace' /\ OneSuccessorAlone'
  BY <1>0, <1>1, <1>2, <1>3 DEF RotatesStored, ReplacedInPeace, OneSuccessorAlone
<1> QED
  BY <1>3, <1>4, <1>5, <1>6 DEF SessionInv, Rotation

\* Any other step of a handler.  Rows that go are rows of its own user, and only those
\* are recorded as ended; a refresh goes on to rotate only a token that has its row.
LEMMA MoveKeepsPeace ==
  ASSUME SessionInv, IInv', Observe, NEW p \in Procs, NEW j, job' = [job EXCEPT ![p] = j],
         UNCHANGED <<users, owner, parent>>, stored' \subseteq stored,
         \A t \in stored \ stored' :
           job[p].token # Null /\ owner[job[p].token] = owner[t],
         \A t \in Tokens : ended'[t] = ended[t] \/ t \in stored \ stored',
         j.step # "store",
         j.step = "compare" => j.user \in users,
         j.step \in {"find_user", "rotate"} =>
           /\ stored' = stored
           /\ \/ j.token \in stored
              \/ job[p].step \in {"find_user", "rotate"} /\ j.token = job[p].token
  PROVE  SessionInv'
<1>0. /\ TypeOK /\ Known /\ FreshToken /\ Accounts /\ Descent /\ EndedIsGone
      /\ ReplacedIsGone /\ Alone /\ RotatesStored /\ ReplacedInPeace /\ OneSuccessorAlone
  BY DEF SessionInv, IInv, Rotation
<1>1. /\ job'[p] = j /\ \A q \in Procs \ {p} : job'[q] = job[q]
      /\ Signed' = Signed
  BY <1>0 DEF TypeOK, Signed
<1>2. Alone' /\ crowded \subseteq crowded'
  BY ObserveKeepsAlone
<1>3. Accounts' /\ Descent'
  BY <1>0, <1>1 DEF Accounts, Descent, At
<1>4. EndedIsGone'
  <2>1. ASSUME NEW t \in Tokens, ended'[t] # "no"
        PROVE  /\ t \in Signed' \ stored'
               /\ \A q \in Procs : job'[q].step = "store" => job'[q].new # t
    <3>1. CASE ended'[t] = ended[t]
      BY <1>0, <1>1, <2>1, <3>1 DEF EndedIsGone, At
    <3>2. CASE t \in stored \ stored'
      BY <1>0, <1>1, <3>2 DEF Known, FreshToken, At
    <3> QED
      BY <3>1, <3>2
  <2> QED
    BY <2>1 DEF EndedIsGone, At
<1>5. ReplacedIsGone'
  BY <1>0 DEF ReplacedIsGone
<1>6. RotatesStored'
  <2>1. ASSUME NEW q \in Procs, job'[q].step \in {"find_user", "rotate"},
               owner[job'[q].token] \notin crowded'
        PROVE  job'[q].token \in stored'
    <3>1. CASE q = p
      BY <1>0, <1>1, <1>2, <2>1, <3>1 DEF RotatesStored
    <3>2. CASE q # p
      <4>1. job'[q] = job[q] /\ job[q].token \in stored
        BY <1>0, <1>1, <1>2, <2>1, <3>2 DEF RotatesStored
      <4>2. job[q].token # Null /\ owner[job[q].token] \in Users \ crowded
        BY <1>0, <1>2, <2>1, <4>1, NullAssumption DEF Known, Signed, TypeOK
      <4>3. ~ Serves(p, owner[job[q].token])
        BY <1>0, <3>2, <4>2 DEF Alone, Serves
      <4> QED
        BY <4>1, <4>3 DEF Serves
    <3> QED
      BY <3>1, <3>2
  <2> QED
    BY <2>1 DEF RotatesStored
<1>7. ReplacedInPeace'
  BY <1>0, <1>2 DEF ReplacedInPeace, ReplacedIsGone, TypeOK
<1>8. OneSuccessorAlone'
  BY <1>0, <1>2 DEF OneSuccessorAlone
<1> QED
  BY <1>2, <1>3, <1>4, <1>5, <1>6, <1>7, <1>8 DEF SessionInv, Rotation

\* Steps in which no handler moves.
LEMMA TimeKeepsPeace ==
  ASSUME SessionInv, IInv', Observe \/ crowded' = crowded,
         UNCHANGED <<users, stored, owner, parent, ended, job>>
  PROVE  SessionInv'
<1>0. /\ Accounts /\ Descent /\ EndedIsGone
      /\ ReplacedIsGone /\ Alone /\ RotatesStored /\ ReplacedInPeace /\ OneSuccessorAlone
  BY DEF SessionInv, Rotation
<1>1. Alone' /\ crowded \subseteq crowded'
  BY <1>0, ObserveKeepsAlone DEF Alone, Serves
<1>2. Accounts' /\ Descent' /\ EndedIsGone' /\ ReplacedIsGone'
  BY <1>0 DEF Accounts, Descent, EndedIsGone, ReplacedIsGone, Signed, At
<1>3. RotatesStored' /\ ReplacedInPeace' /\ OneSuccessorAlone'
  BY <1>0, <1>1 DEF RotatesStored, ReplacedInPeace, OneSuccessorAlone
<1> QED
  BY <1>1, <1>2, <1>3 DEF SessionInv, Rotation

\* A handler goes on or answers, and touches no row.
LEMMA QuietKeepsPeace ==
  ASSUME SessionInv, IInv', Observe, NEW p \in Procs, NEW j, job' = [job EXCEPT ![p] = j],
         UNCHANGED <<users, stored, owner, parent, ended>>,
         j.step # "store",
         j.step = "compare" => j.user \in users,
         j.step \in {"find_user", "rotate"} =>
           \/ j.token \in stored
           \/ job[p].step \in {"find_user", "rotate"} /\ j.token = job[p].token
  PROVE  SessionInv'
  BY MoveKeepsPeace

\* An answer ends the call, and with it what was recorded of it.
LEMMA FinishKeepsPeace ==
  ASSUME SessionInv, IInv', Observe, NEW p \in Procs, Finish(p),
         UNCHANGED <<users, stored, owner, parent, ended>>
  PROVE  SessionInv'
  BY IdleIsJob, QuietKeepsPeace DEF Finish

\* A call begins.
LEMMA StartKeepsPeace ==
  ASSUME SessionInv, IInv', Observe, NEW p \in Procs, NEW b \in Browsers,
         \/ \E u \in Users : StartRegister(p, b, u) \/ StartLogin(p, b, u)
         \/ StartRefresh(p, b) \/ StartLogout(p, b)
  PROVE  SessionInv'
<1>1. UNCHANGED <<users, stored, owner, parent, ended>>
  BY DEF StartRegister, StartLogin, StartRefresh, StartLogout, tables, tokens
<1>2. ASSUME NEW u \in Users, NEW step \in {"create_user", "compare"}, step = "compare" => u \in users,
             Begin(p, [Idle EXCEPT !.step = step, !.browser = b, !.user = u])
      PROVE  SessionInv'
  <2> DEFINE j == [Idle EXCEPT !.step = step, !.browser = b, !.user = u]
  <2>1. j.step = step /\ j.user = u /\ job' = [job EXCEPT ![p] = j]
    BY <1>2 DEF Idle, Begin
  <2> HIDE DEF j
  <2> QED
    BY <1>1, <1>2, <2>1, QuietKeepsPeace
<1>3. ASSUME NEW step \in {"find", "logout", "clear"},
             Begin(p, [Idle EXCEPT !.step = step, !.browser = b, !.token = cookie[b]])
      PROVE  SessionInv'
  <2> DEFINE j == [Idle EXCEPT !.step = step, !.browser = b, !.token = cookie[b]]
  <2>1. j.step = step /\ job' = [job EXCEPT ![p] = j]
    BY <1>3 DEF Idle, Begin
  <2> HIDE DEF j
  <2> QED
    BY <1>1, <2>1, QuietKeepsPeace
<1>4. CASE \E u \in Users : StartRegister(p, b, u) \/ StartLogin(p, b, u)
  BY <1>2, <1>4 DEF StartRegister, StartLogin
<1>5. CASE StartRefresh(p, b) \/ StartLogout(p, b)
  BY <1>3, <1>5 DEF StartRefresh, StartLogout
<1> QED
  BY <1>4, <1>5

\* The account is created, or the password compared, before a token is signed.
LEMMA CreateKeepsPeace ==
  ASSUME SessionInv, IInv', Observe, NEW p \in Procs,
         CreateUser(p) \/ \E isMatch \in BOOLEAN : ComparePassword(p, isMatch)
  PROVE  SessionInv'
<1>1. TypeOK /\ Accounts /\ job[p].user \in Users /\ Null \notin Tokens
  BY NullAssumption DEF SessionInv, IInv, TypeOK, CreateUser, ComparePassword, At
<1>2. CASE Finish(p) /\ UNCHANGED <<users, stored, owner, parent, ended>>
  BY <1>2, FinishKeepsPeace
<1>3. CASE /\ CreateUser(p) /\ users' = users \cup {job[p].user} /\ Sign(p, job[p].user, Null)
  <2>1. stored' = stored \ {Null} /\ ended' = ended
    BY <1>1, <1>3 DEF CreateUser, TypeOK
  <2> QED
    BY <1>1, <1>3, <2>1, SignKeepsPeace DEF CreateUser, At
<1>4. CASE \E isMatch \in BOOLEAN : ComparePassword(p, isMatch) /\ Sign(p, job[p].user, Null)
  <2>1. stored' = stored \ {Null} /\ ended' = ended /\ users' = users /\ At(p, "compare")
    BY <1>1, <1>4 DEF ComparePassword, TypeOK, tables
  <2>2. job[p].user \in users
    BY <1>1, <2>1 DEF Accounts
  <2> QED
    BY <1>1, <1>4, <2>1, <2>2, SignKeepsPeace DEF At
<1> QED
  BY <1>2, <1>3, <1>4 DEF CreateUser, ComparePassword, tables

\* The replaced token is gone before its successor is stored.
LEMMA DeleteOldKeepsPeace ==
  ASSUME SessionInv, IInv', Observe, NEW p \in Procs, DeleteOld(p)
  PROVE  SessionInv'
<1>1. TypeOK /\ Accounts /\ job[p].token \in Signed /\ At(p, "rotate")
  BY DEF SessionInv, IInv, TypeOK, DeleteOld, At, Presented
<1>2. owner[job[p].token] \in Users /\ owner[job[p].token] \in users
  BY <1>1 DEF TypeOK, Accounts, Signed
<1>3. /\ users' = users /\ ended' = ended /\ stored' = stored \ {job[p].token}
      /\ Sign(p, owner[job[p].token], job[p].token)
  BY DEF DeleteOld
<1> QED
  BY <1>1, <1>2, <1>3, SignKeepsPeace DEF At

\* What Goto leaves of a handler.
LEMMA GotoKeeps ==
  ASSUME TypeOK, NEW p \in Procs, NEW step, Goto(p, step)
  PROVE  \E j : /\ job' = [job EXCEPT ![p] = j]
                /\ j.step = step /\ j.token = job[p].token /\ j.user = job[p].user
<1> DEFINE j == [job[p] EXCEPT !.step = step]
<1>1. job' = [job EXCEPT ![p] = j]
  BY DEF Goto, TypeOK
<1>2. j.step = step /\ j.token = job[p].token /\ j.user = job[p].user
  BY DEF TypeOK, Job
<1> QED
  BY <1>1, <1>2

\* A lookup changes nothing but what its call has found.
LEMMA FindKeepsPeace ==
  ASSUME SessionInv, IInv', Observe, NEW p \in Procs, FindToken(p) \/ FindUser(p)
  PROVE  SessionInv'
<1>1. TypeOK /\ UNCHANGED <<users, stored, owner, parent, ended>>
  BY DEF SessionInv, IInv, FindToken, FindUser, tables, tokens
<1>2. CASE Finish(p)
  BY <1>1, <1>2, FinishKeepsPeace
<1>3. CASE \E step \in {"revoke", "purge", "find_user", "rotate"} :
             /\ Goto(p, step)
             /\ step = "find_user" => job[p].token \in stored
             /\ step = "rotate" => job[p].step = "find_user"
  <2>1. PICK step \in {"revoke", "purge", "find_user", "rotate"} :
               /\ Goto(p, step)
               /\ step = "find_user" => job[p].token \in stored
               /\ step = "rotate" => job[p].step = "find_user"
    BY <1>3
  <2>2. PICK j : /\ job' = [job EXCEPT ![p] = j]
                 /\ j.step = step /\ j.token = job[p].token /\ j.user = job[p].user
    BY <1>1, <2>1, GotoKeeps
  <2> QED
    BY <1>1, <2>1, <2>2, QuietKeepsPeace
<1> QED
  BY <1>2, <1>3 DEF FindToken, FindUser, At

\* Reuse deletes all tokens of the user, expiry the one presented.
LEMMA RevokeKeepsPeace ==
  ASSUME SessionInv, IInv', Observe, NEW p \in Procs, RevokeAll(p) \/ PurgeToken(p)
  PROVE  SessionInv'
<1>1. TypeOK /\ job[p].token \in Signed /\ job[p].token # Null
  BY NullAssumption
  DEF SessionInv, IInv, TypeOK, RevokeAll, PurgeToken, At, Presented, Signed
<1>2. /\ UNCHANGED <<users, owner, parent>> /\ stored' \subseteq stored
      /\ job' = [job EXCEPT ![p] = Idle]
      /\ \A t \in stored \ stored' : owner[job[p].token] = owner[t]
  BY DEF RevokeAll, PurgeToken, Finish, tokens
<1>3. \A t \in Tokens : ended'[t] = ended[t] \/ t \in stored \ stored'
  BY <1>1 DEF RevokeAll, PurgeToken, TypeOK, tokens
<1> QED
  BY <1>1, <1>2, <1>3, IdleIsJob, MoveKeepsPeace

\* Logout deletes the token it was handed.
LEMMA LogoutKeepsPeace ==
  ASSUME SessionInv, IInv', Observe, NEW p \in Procs, Logout(p)
  PROVE  SessionInv'
<1>1. TypeOK /\ job[p].token \in Signed /\ job[p].token # Null
  BY NullAssumption DEF SessionInv, IInv, TypeOK, Logout, At, Presented, Signed
<1>2. PICK j : job' = [job EXCEPT ![p] = j] /\ j.step = "clear"
  BY <1>1, GotoKeeps DEF Logout
<1>3. /\ UNCHANGED <<users, owner, parent>> /\ stored' \subseteq stored
      /\ \A t \in stored \ stored' : owner[job[p].token] = owner[t]
  BY DEF Logout
<1>4. \A t \in Tokens : ended'[t] = ended[t] \/ t \in stored \ stored'
  BY <1>1 DEF Logout, TypeOK
<1> QED
  BY <1>1, <1>2, <1>3, <1>4, MoveKeepsPeace

\* Every step keeps the invariant,
LEMMA StepKeepsPeace == SessionInv /\ [Next /\ Observe]_isolationVars => SessionInv'
<1> SUFFICES ASSUME SessionInv, [Next /\ Observe]_isolationVars PROVE SessionInv'
  OBVIOUS
<1>1. IInv'
  BY StepKeeps DEF SessionInv, isolationVars
<1>2. CASE UNCHANGED isolationVars
  BY <1>1, <1>2, TimeKeepsPeace DEF isolationVars, vars, tables, tokens
<1>3. ASSUME Observe, NEW p \in Procs, Start(p) PROVE SessionInv'
  BY <1>1, <1>3, StartKeepsPeace DEF Start
<1>4. ASSUME Observe, NEW p \in Procs, NEW delivered \in BOOLEAN,
             Answer(p, delivered) \/ ClearCookie(p, delivered)
      PROVE  SessionInv'
  BY <1>1, <1>4, FinishKeepsPeace DEF Answer, ClearCookie, tables, tokens
<1>5. ASSUME Observe, NEW p \in Procs, Continue(p) PROVE SessionInv'
  BY <1>1, <1>4, <1>5, CreateKeepsPeace, StoreKeepsPeace, FindKeepsPeace, RevokeKeepsPeace,
     DeleteOldKeepsPeace, LogoutKeepsPeace DEF Continue
<1>6. ASSUME Observe, NEW p \in Procs, DbError(p) PROVE SessionInv'
  BY <1>1, <1>6, FinishKeepsPeace DEF DbError, tables, tokens
<1>7. ASSUME Observe, \/ \E p \in Procs : Refuse(p)
                      \/ \E t \in Tokens : Overdue(t) \/ Invalid(t)
                      \/ \E b \in Browsers : DropCookie(b)
      PROVE  SessionInv'
  BY <1>1, <1>7, TimeKeepsPeace DEF Refuse, Overdue, Invalid, DropCookie, vars, tables, tokens
<1> QED
  BY <1>2, <1>3, <1>5, <1>6, <1>7 DEF Next

\* which therefore always holds.
LEMMA PeaceInductive == IsolatedSpec => []SessionInv
  BY InitIsPeaceful, StepKeepsPeace, PTL DEF IsolatedSpec

-----------------------------------------------------------------------------
\* AuthSessions implements SessionStore.

Sessions == [u \in Users |-> {t \in stored : owner[t] = u}]
Spent    == {t \in Signed : \A p \in Procs : At(p, "store") => job[p].new # t}

\* A step that changes none of what the tables mean.
LEMMA SameStore ==
  ASSUME users' = users, Sessions' = Sessions, Spent' = Spent
  PROVE  [Store!Next]_(Store!store)
  BY DEF Store!store, Sessions, Spent

\* A token that is signed is pending before it is spent.
LEMMA SignSpends ==
  ASSUME SessionInv, NEW p \in Procs, NEW u \in Users, NEW from, Sign(p, u, from), ~ At(p, "store")
  PROVE  Spent' = Spent /\ \A t \in stored : owner'[t] = owner[t]
<1>0. TypeOK /\ Known
  BY DEF SessionInv, IInv
<1> PICK t \in Tokens \ Signed :
           /\ owner' = [owner EXCEPT ![t] = u]
           /\ job' = [job EXCEPT ![p] = [job[p] EXCEPT !.step = "store", !.new = t]]
  BY <1>0 DEF Sign, TypeOK
<1>1. Signed' = Signed \cup {t} /\ \A s \in Tokens \ {t} : owner'[s] = owner[s]
  BY <1>0, NullAssumption DEF Signed, TypeOK
<1>2. /\ job'[p].step = "store" /\ job'[p].new = t
      /\ \A q \in Procs \ {p} : job'[q] = job[q]
  <2>1. job \in [Procs -> Job] /\ job[p] \in Job
    BY <1>0 DEF TypeOK
  <2> QED
    BY <2>1 DEF Job
<1>3. Spent' = {s \in Signed' : \A q \in Procs : job'[q].step = "store" => job'[q].new # s}
  BY DEF Spent, At
<1>4. Spent = {s \in Signed : \A q \in Procs : job[q].step = "store" => job[q].new # s}
  BY DEF Spent, At
<1>5. t \notin Spent'
  BY <1>2, <1>3
<1>6. ASSUME NEW s \in Signed PROVE s \in Spent <=> s \in Spent'
  BY <1>1, <1>2, <1>3, <1>4 DEF At
<1>7. Spent' = Spent
  BY <1>1, <1>3, <1>4, <1>5, <1>6
<1> QED
  BY <1>0, <1>1, <1>7 DEF Known, TypeOK

\* Nothing is spent or pending by a handler that neither signs nor stores.
LEMMA MoveSpends ==
  ASSUME TypeOK, NEW p \in Procs, NEW j, job' = [job EXCEPT ![p] = j], ~ At(p, "store"),
         j.step # "store", owner' = owner
  PROVE  Spent' = Spent
<1>1. job'[p] = j /\ \A q \in Procs \ {p} : job'[q] = job[q]
  BY DEF TypeOK
<1>2. Signed' = Signed
  BY DEF Signed
<1> QED
  BY <1>1, <1>2 DEF Spent, At

\* An account that appears is one registered in the abstract store.
LEMMA CreateIsRegister ==
  ASSUME SessionInv, NEW p \in Procs,
         CreateUser(p) \/ \E isMatch \in BOOLEAN : ComparePassword(p, isMatch)
  PROVE  [Store!Next]_(Store!store)
<1>1. TypeOK /\ job[p].user \in Users /\ ~ At(p, "store")
  BY DEF SessionInv, IInv, TypeOK, CreateUser, ComparePassword, At
<1>2. CASE Finish(p) /\ UNCHANGED <<users, stored, owner>>
  <2>1. Spent' = Spent
    BY <1>1, <1>2, IdleIsJob, MoveSpends DEF Finish
  <2> QED
    BY <1>2, <2>1, SameStore DEF Sessions
<1>3. CASE Sign(p, job[p].user, Null) /\ UNCHANGED stored
  <2>1. Spent' = Spent /\ Sessions' = Sessions
    BY <1>1, <1>3, SignSpends DEF Sessions
  <2>2. CASE users' = users
    BY <2>1, <2>2, SameStore
  <2>3. CASE job[p].user \notin users /\ users' = users \cup {job[p].user}
    BY <1>1, <2>1, <2>3 DEF Store!Next, Store!Register, Sessions, Spent
  <2> QED
    BY <2>2, <2>3 DEF CreateUser, ComparePassword, tables
<1> QED
  BY <1>2, <1>3 DEF CreateUser, ComparePassword, tables

\* A token that is stored is one opened there.
LEMMA StoreIsOpen ==
  ASSUME SessionInv, NEW p \in Procs, StoreToken(p)
  PROVE  [Store!Next]_(Store!store)
<1>0. TypeOK /\ FreshToken /\ Accounts /\ At(p, "store") /\ job[p].new \in Signed
  BY DEF SessionInv, IInv, TypeOK, StoreToken, At
<1>1. PICK t \in Signed, u \in Users : t = job[p].new /\ u = owner[t] /\ u \in users
  BY <1>0 DEF TypeOK, Accounts, Signed
<1>2. /\ users' = users /\ owner' = owner /\ Signed' = Signed
      /\ stored' = stored \cup {t}
      /\ job'[p].step = "answer" /\ \A q \in Procs \ {p} : job'[q] = job[q]
  BY <1>0, <1>1 DEF StoreToken, Goto, tokens, Signed, TypeOK, Job
<1>3. t \notin Spent /\ Spent' = Spent \cup {t}
  BY <1>0, <1>1, <1>2 DEF Spent, FreshToken, At
<1>4. Sessions' = [Sessions EXCEPT ![u] = Sessions[u] \cup {t}]
  BY <1>1, <1>2 DEF Sessions
<1>5. Store!Open(u, t)
  BY <1>1, <1>2, <1>3, <1>4 DEF Store!Open, Sessions, Spent
<1> QED
  BY <1>1, <1>5 DEF Store!Next, Signed

\* Rows are deleted one by one, or all those of a user.
LEMMA RemovalIsClose ==
  ASSUME SessionInv, NEW t \in Tokens, users' = users, stored' = stored \ {t},
         \A s \in stored : owner'[s] = owner[s], Spent' = Spent
  PROVE  [Store!Next]_(Store!store)
<1>1. CASE t \notin stored
  <2>1. Sessions' = Sessions
    BY <1>1 DEF Sessions
  <2> QED
    BY <2>1, SameStore
<1>2. CASE t \in stored
  <2>1. PICK u \in Users : u = owner[t]
    BY <1>2 DEF SessionInv, IInv, Known, Signed, TypeOK
  <2>2. Sessions' = [Sessions EXCEPT ![u] = Sessions[u] \ {t}] /\ t \in Sessions[u]
    BY <1>2, <2>1 DEF Sessions
  <2>3. Store!Close(u, t)
    BY <2>2 DEF Store!Close, Sessions, Spent
  <2> QED
    BY <2>1, <2>3 DEF Store!Next
<1> QED
  BY <1>1, <1>2

\* Tokens that are deleted are closed there.
LEMMA RevokeIsClose ==
  ASSUME SessionInv, NEW p \in Procs,
         RevokeAll(p) \/ PurgeToken(p) \/ Logout(p) \/ DeleteOld(p)
  PROVE  [Store!Next]_(Store!store)
<1>0. /\ TypeOK /\ Known /\ job[p].token \in Tokens /\ owner[job[p].token] \in Users
      /\ ~ At(p, "store")
  BY DEF SessionInv, IInv, TypeOK, RevokeAll, PurgeToken, Logout, DeleteOld, At, Presented, Signed
<1>1. CASE DeleteOld(p)
  <2>1. Spent' = Spent /\ \A t \in stored : owner'[t] = owner[t]
    BY <1>0, <1>1, SignSpends DEF DeleteOld
  <2> QED
    BY <1>0, <1>1, <2>1, RemovalIsClose DEF DeleteOld
<1>2. CASE RevokeAll(p) \/ PurgeToken(p) \/ Logout(p)
  <2>1. users' = users /\ owner' = owner
    BY <1>2 DEF RevokeAll, PurgeToken, Logout, tokens
  <2>2. \E j : job' = [job EXCEPT ![p] = j] /\ j.step # "store"
    BY <1>0, <1>2, IdleIsJob, GotoKeeps DEF RevokeAll, PurgeToken, Logout, Finish
  <2>3. Spent' = Spent
    BY <1>0, <2>1, <2>2, MoveSpends
  <2>4. CASE PurgeToken(p) \/ Logout(p)
    BY <1>0, <2>1, <2>3, <2>4, RemovalIsClose DEF PurgeToken, Logout
  <2>5. CASE RevokeAll(p)
    <3>1. PICK u \in Users : u = owner[job[p].token]
      BY <1>0
    <3>2. Sessions' = [Sessions EXCEPT ![u] = {}]
      BY <2>1, <2>5, <3>1 DEF RevokeAll, Sessions
    <3>3. Store!CloseAll(u)
      BY <2>1, <2>3, <3>2 DEF Store!CloseAll, Sessions, Spent
    <3> QED
      BY <3>3 DEF Store!Next
  <2> QED
    BY <1>2, <2>4, <2>5
<1> QED
  BY <1>1, <1>2

\* A handler that fails before it has stored its token leaves a token nobody will store.
LEMMA ErrorIsDiscard ==
  ASSUME SessionInv, NEW p \in Procs, DbError(p)
  PROVE  [Store!Next]_(Store!store)
<1>0. /\ TypeOK /\ FreshToken /\ users' = users /\ owner' = owner /\ Signed' = Signed
      /\ job' = [job EXCEPT ![p] = Idle] /\ Sessions' = Sessions
  BY DEF SessionInv, IInv, DbError, Finish, tables, tokens, Signed, Sessions
<1>1. CASE ~ At(p, "store")
  <2>1. Spent' = Spent
    BY <1>0, <1>1, IdleIsJob, MoveSpends
  <2> QED
    BY <1>0, <2>1, SameStore
<1>2. CASE At(p, "store")
  <2>1. PICK t \in Tokens, u \in Users : t = job[p].new /\ t \in Signed
    BY <1>0, <1>2 DEF TypeOK, Signed, At
  <2>2. job'[p].step = "idle" /\ \A q \in Procs \ {p} : job'[q] = job[q]
    BY <1>0 DEF TypeOK, Idle
  <2>3. t \notin Spent /\ Spent' = Spent \cup {t}
    BY <1>0, <1>2, <2>1, <2>2 DEF Spent, FreshToken, At
  <2>4. Store!Discard(t)
    BY <1>0, <2>3 DEF Store!Discard, Sessions, Spent
  <2> QED
    BY <2>1, <2>4 DEF Store!Next
<1> QED
  BY <1>1, <1>2

\* Steps of a handler that change no row.
LEMMA ReadingIsStutter ==
  ASSUME SessionInv, NEW p \in Procs,
         \/ Start(p) \/ FindToken(p) \/ FindUser(p)
         \/ \E delivered \in BOOLEAN : Answer(p, delivered) \/ ClearCookie(p, delivered)
  PROVE  [Store!Next]_(Store!store)
<1>0. TypeOK /\ users' = users /\ stored' = stored /\ owner' = owner /\ ~ At(p, "store")
  BY DEF SessionInv, IInv, Start, StartRegister, StartLogin, StartRefresh, StartLogout, Begin,
         FindToken, FindUser, Answer, ClearCookie, tables, tokens, At
<1>1. \E j : job' = [job EXCEPT ![p] = j] /\ j.step # "store"
  <2>1. CASE Start(p)
    <3>1. PICK b \in Browsers, step \in Steps \ {"store"} :
             \/ job' = [job EXCEPT ![p] = [Idle EXCEPT !.step = step, !.browser = b, !.token = cookie[b]]]
             \/ \E u \in Users :
                  job' = [job EXCEPT ![p] = [Idle EXCEPT !.step = step, !.browser = b, !.user = u]]
      BY <2>1 DEF Start, StartRegister, StartLogin, StartRefresh, StartLogout, Begin, Steps
    <3> DEFINE Bringing == [Idle EXCEPT !.step = step, !.browser = b, !.token = cookie[b]]
               Naming(u) == [Idle EXCEPT !.step = step, !.browser = b, !.user = u]
    <3>2. Bringing.step = step /\ \A u \in Users : Naming(u).step = step
      BY DEF Idle
    <3>3. job' = [job EXCEPT ![p] = Bringing] \/ \E u \in Users : job' = [job EXCEPT ![p] = Naming(u)]
      BY <3>1
    <3> HIDE DEF Bringing, Naming
    <3> QED
      BY <3>2, <3>3
  <2>2. CASE Finish(p)
    BY <2>2, IdleIsJob DEF Finish
  <2>3. CASE \E step \in Steps \ {"store"} : Goto(p, step)
    BY <1>0, <2>3, GotoKeeps
  <2> QED
    BY <2>1, <2>2, <2>3 DEF FindToken, FindUser, Answer, ClearCookie, Steps
<1>2. Spent' = Spent
  BY <1>0, <1>1, MoveSpends
<1> QED
  BY <1>0, <1>2, SameStore DEF Sessions

\* Every step is one of the abstract store, or leaves it alone.
LEMMA StepImplements == SessionInv /\ [Next /\ Observe]_isolationVars => [Store!Next]_(Store!store)
<1> SUFFICES ASSUME SessionInv, [Next /\ Observe]_isolationVars
             PROVE  [Store!Next]_(Store!store)
  OBVIOUS
<1>1. CASE UNCHANGED <<users, stored, owner, job>>
  BY <1>1, SameStore DEF Sessions, Spent, Signed, At
<1>2. ASSUME NEW p \in Procs, Start(p) \/ Continue(p) \/ DbError(p)
      PROVE  [Store!Next]_(Store!store)
  BY <1>2, CreateIsRegister, StoreIsOpen, RevokeIsClose, ErrorIsDiscard, ReadingIsStutter
  DEF Continue
<1> QED
  BY <1>1, <1>2 DEF Next, Refuse, Overdue, Invalid, DropCookie, isolationVars, vars, tables, tokens

\* Both begin with no session.
LEMMA InitImplements == IsolatedInit => Store!Init
<1> SUFFICES ASSUME IsolatedInit PROVE Store!Init
  OBVIOUS
<1>1. users \in SUBSET Users /\ stored = {} /\ \A t \in Tokens : owner[t] = Null
  BY DEF IsolatedInit, Init
<1>2. Sessions = [u \in Users |-> {}] /\ Spent = {}
  BY <1>1 DEF Sessions, Spent, Signed
<1> QED
  BY <1>1, <1>2 DEF Store!Init, Sessions, Spent

-----------------------------------------------------------------------------

\* Whatever refreshes compete for a token and wherever they fail, a token that has been
\* replaced is not in the table: it never buys another session without being noticed.
THEOREM RotationIsFinal == IsolatedSpec => []ReplacedIsGone
<1>1. SessionInv => ReplacedIsGone
  BY DEF SessionInv
<1> QED
  BY <1>1, PeaceInductive, PTL

\* A token is replaced once at most as long as the calls of its user do not overlap, with
\* any number of other users at work.
THEOREM ReplacedOnce == IsolatedSpec => []OneSuccessorAlone
<1>1. SessionInv => OneSuccessorAlone
  BY DEF SessionInv, Rotation
<1> QED
  BY <1>1, PeaceInductive, PTL

\* The 403 of a reused token ends every session of a user whose calls do not overlap, and
\* none of them comes back or lives on in a successor.
THEOREM ReuseEndsSessions == IsolatedSpec => []ReuseEndsSessionsAlone
<1>1. SessionInv => ReuseEndsSessionsAlone
  BY DEF SessionInv, IInv, TypeOK, Rotation, EndedIsGone, ReplacedInPeace, ReuseEndsSessionsAlone
<1> QED
  BY <1>1, PeaceInductive, PTL

\* So does logout for the one session.
THEOREM LogoutEndsSession == IsolatedSpec => []LogoutEndsSessionAlone
<1>1. SessionInv => LogoutEndsSessionAlone
  BY DEF SessionInv, IInv, TypeOK, Rotation, EndedIsGone, ReplacedInPeace, LogoutEndsSessionAlone
<1> QED
  BY <1>1, PeaceInductive, PTL

\* No call of one user ends a session of another, not even the revocation of all sessions.
THEOREM OthersAreSafe == Spec => OwnSessionsOnly
<1> DEFINE Own == \A t \in stored \ stored' :
                    \E p \in Procs : job[p].token # Null /\ owner[job[p].token] = owner[t]
<1>1. ASSUME IInv, [Next]_vars PROVE [Own]_vars
  <2>1. ASSUME NEW p \in Procs, RevokeAll(p) \/ PurgeToken(p) \/ DeleteOld(p) \/ Logout(p)
        PROVE  Own
    <3>1. job[p].token \in Signed /\ job[p].token # Null
      BY <1>1, <2>1, NullAssumption
      DEF IInv, TypeOK, RevokeAll, PurgeToken, DeleteOld, Logout, At, Presented, Signed
    <3>2. \A t \in stored \ stored' : owner[job[p].token] = owner[t]
      BY <2>1 DEF RevokeAll, PurgeToken, DeleteOld, Logout
    <3> QED
      BY <3>1, <3>2
  <2>2. CASE stored \subseteq stored'
    BY <2>2
  <2>3. ASSUME NEW p \in Procs, Start(p) \/ Refuse(p) \/ DbError(p)
        PROVE  stored \subseteq stored'
    BY <2>3 DEF Start, StartRegister, StartLogin, StartRefresh, StartLogout, Refuse, DbError,
                vars, tables
  <2>4. ASSUME NEW p \in Procs, Continue(p) PROVE Own
    <3>1. CASE RevokeAll(p) \/ PurgeToken(p) \/ DeleteOld(p) \/ Logout(p)
      BY <2>1, <3>1
    <3>2. CASE \/ CreateUser(p) \/ StoreToken(p) \/ FindToken(p) \/ FindUser(p)
               \/ \E isMatch \in BOOLEAN : ComparePassword(p, isMatch)
               \/ \E delivered \in BOOLEAN : Answer(p, delivered) \/ ClearCookie(p, delivered)
      BY <2>2, <3>2 DEF CreateUser, ComparePassword, StoreToken, FindToken, FindUser, Answer,
                        ClearCookie, tables
    <3> QED
      BY <2>4, <3>1, <3>2 DEF Continue
  <2>5. CASE \/ \E t \in Tokens : Overdue(t) \/ Invalid(t)
             \/ \E b \in Browsers : DropCookie(b)
             \/ UNCHANGED vars
    BY <2>2, <2>5 DEF Overdue, Invalid, DropCookie, vars, tables
  <2> QED
    BY <1>1, <2>2, <2>3, <2>4, <2>5 DEF Next
<1> QED
  BY <1>1, Inductive, PTL DEF Spec, OwnSessionsOnly

\* Without a single transaction, the handlers of AuthService implement SessionStore:
\* each statement is one of its atomic changes, or changes nothing of what it shows.
THEOREM SessionsImplementStore == IsolatedSpec => ImplementsStore
  BY InitImplements, StepImplements, PeaceInductive, PTL DEF IsolatedSpec, ImplementsStore, Store!Spec
=============================================================================
