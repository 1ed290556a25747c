-------------------------- MODULE SessionIsolation --------------------------
(***************************************************************************)
(* AuthSessions with a record of the users for whom two handlers were at   *)
(* work at once.  The rules of rotation, reuse and logout hold for all     *)
(* others, however the calls of different users overlap.  No action reads  *)
(* the history variable.                                                   *)
(***************************************************************************)
EXTENDS AuthSessions

VARIABLE crowded   \* users whose calls have overlapped

isolationVars == <<vars, crowded>>

IsolatedInit == Init /\ crowded = {}

\* p handles a call of u: somebody who registers or logs in as u, or brings a
\* token of u.
Serves(p, u) == \/ job[p].user = u
                \/ job[p].token # Null /\ owner[job[p].token] = u

Observe == crowded' = crowded \cup {u \in Users : \E p, q \in Procs :
                                      p # q /\ Serves(p, u)' /\ Serves(q, u)'}

IsolatedSpec == IsolatedInit /\ [][Next /\ Observe]_isolationVars

-----------------------------------------------------------------------------

\* Committed changes of users and refresh_tokens are those of SessionStore: every
\* token is opened once, for one user, and no call closes sessions of another user.
Store == INSTANCE SessionStore WITH
  Users    <- Users,
  Tokens   <- Tokens,
  accounts <- users,
  sessions <- [u \in Users |-> {t \in stored : owner[t] = u}],
  spent    <- {t \in Signed : \A p \in Procs : At(p, "store") => job[p].new # t}
ImplementsStore == Store!Spec

\* A token that has been replaced has no row, however many refreshes compete for it:
\* AuthService.refresh deletes it before it signs the next one.
ReplacedIsGone == \A t \in Tokens : parent[t] # Null => parent[t] \notin stored

\* A token is replaced at most once, unless calls of its user overlapped.
OneSuccessorAlone ==
  \A s, t \in Tokens :
    parent[s] # Null /\ parent[s] = parent[t] /\ owner[s] \notin crowded => s = t

\* Sessions revoked because a token was used again are over, with their successors,
\* unless calls of that user overlapped (AuthService.refresh, 403).
ReuseEndsSessionsAlone ==
  \A t \in stored : owner[t] \notin crowded =>
    ended[t] # "reuse" /\ (parent[t] # Null => ended[parent[t]] # "reuse")

\* A session that was logged out has no row and no live successor, unless calls of
\* its user overlapped (AuthService.logout).
LogoutEndsSessionAlone ==
  \A t \in stored : owner[t] \notin crowded =>
    ended[t] # "logout" /\ (parent[t] # Null => ended[parent[t]] # "logout")
=============================================================================
