------------------------------- MODULE MCAuth -------------------------------
(* Symmetries of AuthSessions, for TLC. *)
EXTENDS SessionIsolation, TLC

SymAll == Permutations(Procs) \cup Permutations(Tokens) \cup Permutations(Browsers)
            \cup Permutations(Users)
=============================================================================
