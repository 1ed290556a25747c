---------------------------- MODULE SessionStore ----------------------------
(***************************************************************************)
(* What the tables users and refresh_tokens promise whatever handlers do   *)
(* concurrently: a session is opened once, for one user who has an         *)
(* account, and is closed alone or together with all others of its user.   *)
(* AuthSessions, where no statement shares a transaction with another,     *)
(* implements this module.                                                 *)
(***************************************************************************)
CONSTANTS Users, Tokens

VARIABLES accounts,   \* users with a row
          sessions,   \* live refresh tokens of a user
          spent       \* tokens that have been opened, or never will be

store == <<accounts, sessions, spent>>

Init == /\ accounts \in SUBSET Users
        /\ sessions = [u \in Users |-> {}]
        /\ spent = {}

Register(u) == /\ u \notin accounts
               /\ accounts' = accounts \cup {u}
               /\ UNCHANGED <<sessions, spent>>

Open(u, t) == /\ u \in accounts
              /\ t \notin spent
              /\ sessions' = [sessions EXCEPT ![u] = @ \cup {t}]
              /\ spent' = spent \cup {t}
              /\ UNCHANGED accounts

\* A token was signed, and its row was never written.
Discard(t) == /\ t \notin spent
              /\ spent' = spent \cup {t}
              /\ UNCHANGED <<accounts, sessions>>

Close(u, t) == /\ t \in sessions[u]
               /\ sessions' = [sessions EXCEPT ![u] = @ \ {t}]
               /\ UNCHANGED <<accounts, spent>>

CloseAll(u) == /\ sessions' = [sessions EXCEPT ![u] = {}]
               /\ UNCHANGED <<accounts, spent>>

Next == \E u \in Users :
          \/ Register(u)
          \/ \E t \in Tokens : Open(u, t) \/ Discard(t) \/ Close(u, t)
          \/ CloseAll(u)

Spec == Init /\ [][Next]_store
=============================================================================
