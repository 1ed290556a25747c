-------------------------- MODULE ServerLifecycle --------------------------
(***************************************************************************)
(* One process of the API: server.js with waitForDatabase of lib/db.js.    *)
(* It waits for PostgreSQL, listens, serves keep-alive connections, and    *)
(* stops on a signal or on an error nobody caught.  startServer and        *)
(* gracefulShutdown are two coroutines that interleave at their awaits.    *)
(*                                                                         *)
(* A definition whose comment begins with "Slip:" is a mistake somebody    *)
(* could make in the definition after it; the specification uses none.     *)
(***************************************************************************)
EXTENDS Naturals

CONSTANTS Conns,        \* bound: TCP connections open at once
          MaxAttempts,  \* attempts of waitForDatabase, 10
          ForceAfter    \* the timer of gracefulShutdown, 25 s, in steps of the clock

VARIABLES boot,     \* where startServer is
          attempt,  \* of waitForDatabase
          conn,     \* state of each connection
          stop,     \* where gracefulShutdown is
          reason,   \* why it was called first
          served,   \* whether it found a server to close
          pool,     \* the connection pool of Sequelize
          elapsed,  \* clock since the timer was set
          exit      \* exit code of the process

vars == <<boot, attempt, conn, stop, reason, served, pool, elapsed, exit>>

ASSUME BoundsAssumption == /\ MaxAttempts \in Nat \ {0}
                           /\ ForceAfter \in Nat \ {0}

\* "doomed": authenticate was called on a closing pool; "opening": from app.listen
\* to its callback; "unbound": the port was taken, and nobody noticed.
Boots == {"connect", "doomed", "backoff", "opening", "open", "unbound", "closed"}

\* "left": the client is gone, and the handler does not know it.
ConnStates == {"none", "idle", "busy", "left"}

Init == /\ boot = "connect"
        /\ attempt = 1
        /\ conn = [c \in Conns |-> "none"]
        /\ stop = "no"
        /\ reason = "none"
        /\ served = FALSE
        /\ pool = "open"
        /\ elapsed = 0
        /\ exit = "running"

Running == exit = "running"

-----------------------------------------------------------------------------
\* startServer

\* sequelize.authenticate resolves, even if the pool has begun to drain meanwhile.
Connected == /\ Running
             /\ boot = "connect"
             /\ boot' = "opening"
             /\ UNCHANGED <<attempt, conn, stop, reason, served, pool, elapsed, exit>>

\* Slip: the last attempt is missed by one.
OneAttemptMore ==
  /\ Running
  /\ boot \in {"connect", "doomed"}
  /\ IF attempt > MaxAttempts
       THEN exit' = "failure" /\ UNCHANGED boot
       ELSE boot' = "backoff" /\ UNCHANGED exit
  /\ UNCHANGED <<attempt, conn, stop, reason, served, pool, elapsed>>

\* It rejects: another attempt after a delay, or process.exit(1).
NotConnected ==
  /\ Running
  /\ boot \in {"connect", "doomed"}
  /\ IF attempt = MaxAttempts
       THEN exit' = "failure" /\ UNCHANGED boot
       ELSE boot' = "backoff" /\ UNCHANGED exit
  /\ UNCHANGED <<attempt, conn, stop, reason, served, pool, elapsed>>

\* Slip: the attempts are not counted.
RetryForEver ==
  /\ Running
  /\ boot = "backoff"
  /\ boot' = IF pool = "open" THEN "connect" ELSE "doomed"
  /\ UNCHANGED <<attempt, conn, stop, reason, served, pool, elapsed, exit>>

\* A closing pool rejects every attempt at once.
Retry ==
  /\ Running
  /\ boot = "backoff"
  /\ boot' = IF pool = "open" THEN "connect" ELSE "doomed"
  /\ attempt' = attempt + 1
  /\ UNCHANGED <<conn, stop, reason, served, pool, elapsed, exit>>

Listening == /\ Running
             /\ boot = "opening"
             /\ boot' = "open"
             /\ UNCHANGED <<attempt, conn, stop, reason, served, pool, elapsed, exit>>

\* The port is taken.  app.listen of Express 5 hands that error to its callback too,
\* which logs that the server has started: the process lives on and does not listen.
PortTaken == /\ Running
             /\ boot = "opening"
             /\ boot' = "unbound"
             /\ UNCHANGED <<attempt, conn, stop, reason, served, pool, elapsed, exit>>

-----------------------------------------------------------------------------
\* gracefulShutdown(reason, err)

\* The variable `server` is set, whether the server listens or not.
HasServer == boot \in {"opening", "open", "unbound"}

\* Slip: the connections are not waited for.
ShutdownInHaste(why) ==
  /\ reason' = why
  /\ served' = HasServer
  /\ stop' = "pool"
  /\ pool' = "draining"
  /\ boot' = IF HasServer THEN "closed" ELSE boot
  /\ UNCHANGED conn

\* Up to its first await: the timer is set, and either the server stops accepting
\* and closes its idle connections, or there is no server yet and the pool is closed.
Shutdown(why) ==
  /\ reason' = why
  /\ served' = HasServer
  /\ IF HasServer
       THEN /\ stop' = "http"
            /\ boot' = "closed"
            /\ conn' = [c \in Conns |-> IF conn[c] = "idle" THEN "none" ELSE conn[c]]
            /\ UNCHANGED pool
       ELSE /\ stop' = "pool"
            /\ pool' = "draining"
            /\ UNCHANGED <<boot, conn>>

\* SIGTERM or SIGINT; every call after the first returns at once.
Signal == /\ Running
          /\ stop = "no"
          /\ Shutdown("signal")
          /\ UNCHANGED <<attempt, elapsed, exit>>

\* uncaughtException or unhandledRejection, from a handler or anywhere else.
Uncaught == /\ Running
            /\ stop = "no"
            /\ Shutdown("error")
            /\ UNCHANGED <<attempt, elapsed, exit>>

\* server.close calls back when no connection is left, whatever the handlers do.
HttpClosed == /\ Running
              /\ stop = "http"
              /\ \A c \in Conns : conn[c] \in {"none", "left"}
              /\ stop' = "pool"
              /\ pool' = "draining"
              /\ UNCHANGED <<boot, attempt, conn, reason, served, elapsed, exit>>

\* Slip: the process always reports success.
ExitSuccess == "success"

\* process.exit(err ? 1 : 0)
ExitCode == IF reason = "error" THEN "failure" ELSE "success"

\* sequelize.close resolves when every borrowed connection is back.
PoolClosed == /\ Running
              /\ stop = "pool"
              /\ pool' = "closed"
              /\ exit' = ExitCode
              /\ UNCHANGED <<boot, attempt, conn, stop, reason, served, elapsed>>

PoolError == /\ Running
             /\ stop = "pool"
             /\ exit' = "failure"
             /\ UNCHANGED <<boot, attempt, conn, stop, reason, served, pool, elapsed>>

-----------------------------------------------------------------------------
\* Connections and their handlers

\* A client, or nginx with its pool of keep-alive connections, connects.
Accept(c) == /\ Running
             /\ boot = "open"
             /\ conn[c] = "none"
             /\ conn' = [conn EXCEPT ![c] = "busy"]
             /\ UNCHANGED <<boot, attempt, stop, reason, served, pool, elapsed, exit>>

\* Another request on a connection kept alive, during a shutdown too.
Request(c) == /\ Running
              /\ conn[c] = "idle"
              /\ conn' = [conn EXCEPT ![c] = "busy"]
              /\ UNCHANGED <<boot, attempt, stop, reason, served, pool, elapsed, exit>>

\* The handler answers; the connection is kept alive or closed.
Respond(c, keep) == /\ Running
                    /\ conn[c] \in {"busy", "left"}
                    /\ conn' = [conn EXCEPT ![c] = IF keep /\ @ = "busy" THEN "idle" ELSE "none"]
                    /\ UNCHANGED <<boot, attempt, stop, reason, served, pool, elapsed, exit>>

\* The client closes the connection, with its request answered or not.
Leave(c) == /\ Running
            /\ conn[c] \in {"idle", "busy"}
            /\ conn' = [conn EXCEPT ![c] = IF @ = "busy" THEN "left" ELSE "none"]
            /\ UNCHANGED <<boot, attempt, stop, reason, served, pool, elapsed, exit>>

-----------------------------------------------------------------------------
\* Time

\* The clock of the timer: it is not past ForceAfter before the timer fires.
Tick == /\ Running
        /\ stop # "no"
        /\ elapsed < ForceAfter
        /\ elapsed' = elapsed + 1
        /\ UNCHANGED <<boot, attempt, conn, stop, reason, served, pool, exit>>

\* Slip: the timer is set after the connections have closed.
ForceLate == /\ Running
             /\ stop = "pool"
             /\ elapsed = ForceAfter
             /\ exit' = "failure"
             /\ UNCHANGED <<boot, attempt, conn, stop, reason, served, pool, elapsed>>

ForceExit == /\ Running
             /\ stop # "no"
             /\ elapsed = ForceAfter
             /\ exit' = "failure"
             /\ UNCHANGED <<boot, attempt, conn, stop, reason, served, pool, elapsed>>

\* The process has exited.
Exited == /\ ~ Running
          /\ UNCHANGED vars

StartServer == Connected \/ NotConnected \/ Retry

Next == \/ StartServer \/ Listening \/ PortTaken
        \/ Signal \/ Uncaught \/ HttpClosed \/ PoolClosed \/ PoolError
        \/ \E c \in Conns : Accept(c) \/ Request(c) \/ Leave(c)
                            \/ \E keep \in BOOLEAN : Respond(c, keep)
        \/ Tick \/ ForceExit \/ Exited

Spec == Init /\ [][Next]_vars

\* Time passes and timers fire; authenticate settles, and so does app.listen.
\* Handlers, clients and the pool owe nothing.
FairSpec == Spec /\ WF_vars(Tick) /\ WF_vars(ForceExit)
                 /\ WF_vars(StartServer) /\ WF_vars(Listening \/ PortTaken)

-----------------------------------------------------------------------------

\* Every part of the process holds a value of its type, and gracefulShutdown is
\* somewhere exactly when it has a reason and its timer may have run.
TypeOK == /\ boot \in Boots
          /\ attempt \in 1..MaxAttempts
          /\ conn \in [Conns -> ConnStates]
          /\ stop \in {"no", "http", "pool"}
          /\ reason \in {"none", "signal", "error"}
          /\ served \in BOOLEAN
          /\ pool \in {"open", "draining", "closed"}
          /\ elapsed \in 0..ForceAfter
          /\ exit \in {"running", "success", "failure"}
          /\ (stop = "no") <=> (reason = "none")
          /\ elapsed > 0 => stop # "no"

\* No client of a server that was closed waits for an answer when the database pool
\* is taken away: server.close is awaited before sequelize.close.
PoolOutlivesClients ==
  served /\ pool # "open" => \A c \in Conns : conn[c] \in {"none", "left"}

\* The process reports success only after a signal, with no client of a closed
\* server unanswered and the pool closed.
SuccessIsClean ==
  exit = "success" => /\ reason = "signal"
                      /\ pool = "closed"
                      /\ served => \A c \in Conns : conn[c] # "busy"

\* A process told to stop stops, even if handlers hang and clients keep their
\* connections: the timer of gracefulShutdown does not wait for anything.
StopsEventually == stop # "no" ~> ~ Running

\* Until app.listen is called.
WaitingForDatabase == Running /\ boot \in {"connect", "doomed", "backoff"}

\* A process never waits for the database for ever: waitForDatabase comes to its end,
\* connected or with its last attempt failed.
ConnectsOrGivesUp == WaitingForDatabase ~> ~ WaitingForDatabase

\* A process that is stopping accepts no connection.
NoAcceptWhileStopping ==
  [][\A c \in Conns : stop # "no" => ~ (conn[c] = "none" /\ conn'[c] # "none")]_vars
=============================================================================
