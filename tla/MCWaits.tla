------------------------------ MODULE MCWaits ------------------------------
(* Instances of LockWaits for TLC. *)
EXTENDS LockWaits

CONSTANTS t1, t2, p1

\* Two bodies that name the same technicians in opposite orders.
Crews1 == {<<t1, t2>>, <<t2, t1>>}

\* Every call is answered, whatever it waits for: locks, circles, connections, or a
\* weather service that sends headers and then nothing (timeouts of the pool and of
\* WeatherService, deadlock detector of PostgreSQL).  Nothing in LockWaits tells one
\* handler from another, so that what holds of p1 holds of each.
EveryCallAnswered == Answered(p1)
=============================================================================
