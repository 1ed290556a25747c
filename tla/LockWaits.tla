----------------------------- MODULE LockWaits -----------------------------
(***************************************************************************)
(* What the handlers wait for: a connection of the pool, a row lock of     *)
(* another transaction, the weather service.  RequestWorkflow says what    *)
(* the transactions on one request do; here they are taken apart into the  *)
(* locks they take, one by one, so that circles can form inside a          *)
(* statement.  PostgreSQL breaks a circle by aborting somebody in it.      *)
(*                                                                         *)
(* A definition whose comment begins with "Slip:" is a mistake somebody    *)
(* could make in the definition after it; the specification uses none.     *)
(***************************************************************************)
EXTENDS Naturals, FiniteSets, Sequences

CONSTANTS Procs,        \* handlers in flight
          Technicians,  \* who may be in the brigade of the request
          Crews,        \* bodies of POST /:id/assignees, in their order
          PoolMax       \* connections of the pool

VARIABLES exists,       \* whether the row of the request is there
          entries,      \* technicians in request_assignees, as committed
          job           \* each handler

vars == <<exists, entries, job>>

\* assignBrigadeSchema refuses a body that names nobody.
ASSUME WaitsAssumption == /\ PoolMax \in Nat \ {0}
                          /\ IsFiniteSet(Procs) /\ IsFiniteSet(Technicians)
                          /\ "row" \notin Technicians
                          /\ Crews \subseteq Seq(Technicians) \ {<<>>}

\* "read" is every handler that only reads, the forecast among them.
Ops == {"assign", "delete", "remove", "update", "read"}

Steps == {"idle", "ask", "connect", "read", "clear", "fill", "check", "lock", "cascade", "commit",
          "headers", "body"}

\* The row of the request, and the index entry of each technician in its brigade.
Locks == [what : {"row"} \cup Technicians, mode : {"exclusive", "share"}]

Idle == [op |-> "read", step |-> "idle", crew |-> <<>>, todo |-> <<>>, rows |-> {}, held |-> {}]

Init == /\ exists = TRUE
        /\ entries \in SUBSET Technicians
        /\ job = [p \in Procs |-> Idle]

-----------------------------------------------------------------------------

At(p, step) == job[p].step = step

\* With nothing left to do in its step, a transaction is at the next one.
Advance(j) ==
  IF j.todo # <<>> THEN j
  ELSE CASE j.step = "clear" /\ j.op = "assign" -> [j EXCEPT !.step = "fill", !.todo = j.crew]
         [] j.step = "clear" /\ j.op # "assign" -> [j EXCEPT !.step = "commit"]
         [] j.step = "fill"                     -> [j EXCEPT !.step = "check"]
         [] j.step = "cascade"                  -> [j EXCEPT !.step = "commit"]
         [] OTHER                               -> j

Become(p, j) == job' = [job EXCEPT ![p] = Advance(j)]

Goto(p, step) == Become(p, [job[p] EXCEPT !.step = step])

\* Slip: the transaction of a handler that gives up is left open.
AnswerOnly(p) == Goto(p, "idle")

\* The handler answers, with success or with an error: what it held is released.
Answer(p) == Become(p, Idle)

\* What is left of a scan without the rows in S.
Without(s, S) ==
  LET left[n \in 0 .. Len(s)] == IF n = 0 THEN <<>>
                                 ELSE IF s[n] \in S THEN left[n - 1]
                                 ELSE Append(left[n - 1], s[n])
  IN left[Len(s)]

\* Every order in which a scan may meet the rows.
Orders(S) == {s \in [1 .. Cardinality(S) -> S] : \A i, j \in DOMAIN s : s[i] = s[j] => i = j}

\* Slip: the forecast is fetched before the connection is given back.
ConnectedToTheEnd == {p \in Procs : job[p].step \notin {"idle", "ask", "connect"}}

\* A connection is taken for a statement or a transaction, and for nothing else.
Connected == {p \in Procs : job[p].step \notin {"idle", "ask", "connect", "headers", "body"}}

PoolIsFree == Cardinality(Connected) < PoolMax

\* The lock that the next move of p takes.
Wanted(p) ==
  CASE job[p].step \in {"clear", "fill", "cascade"} ->
         {[what |-> Head(job[p].todo), mode |-> "exclusive"]}
    [] At(p, "lock")  -> {[what |-> "row", mode |-> "exclusive"]}
    [] At(p, "check") -> {[what |-> "row", mode |-> "share"]}
    [] OTHER          -> {}

Conflict(a, b) == a.what = b.what /\ ~ (a.mode = "share" /\ b.mode = "share")

WaitsFor(p, q) == /\ p # q
                  /\ \E a \in Wanted(p), b \in job[q].held : Conflict(a, b)

Granted(p) == \A q \in Procs : ~ WaitsFor(p, q)

\* Everyone in S waits for somebody in S.
Circle(S) == /\ S # {}
             /\ \A p \in S : /\ \E q \in S : WaitsFor(p, q)
                             /\ \E q \in S : WaitsFor(q, p)

-----------------------------------------------------------------------------
\* A call gets as far as its first wait for a connection.  Those that write look up
\* first what they are about to change.

Call(p, op, crew) ==
  /\ At(p, "idle")
  /\ Become(p, [Idle EXCEPT !.op = op, !.crew = crew,
                            !.step = IF op = "read" THEN "connect" ELSE "ask"])
  /\ UNCHANGED <<exists, entries>>

Start(p) == \/ \E op \in {"delete", "update", "read"} : Call(p, op, <<>>)
            \/ \E crew \in Crews : Call(p, "assign", crew)
            \/ \E t \in Technicians : Call(p, "remove", <<t>>)

\* The look-up has a connection, which it gives back at once: it waits for nobody
\* ("read" is a SELECT that takes its time).  One look-up stands for all that a call
\* makes before it writes: of the request, of the assignee, of the technicians of the
\* body.  What it does not find is a 404.
LookUp(p) == /\ At(p, "ask")
             /\ PoolIsFree
             /\ IF exists /\ (job[p].op = "remove" => job[p].crew[1] \in entries)
                  THEN Goto(p, "connect")
                  ELSE Answer(p)
             /\ UNCHANGED <<exists, entries>>

\* The pool has a connection, and the first statement is issued: a DELETE of
\* assignees meets the rows that it sees, in some order.
Connect(p) ==
  /\ At(p, "connect")
  /\ PoolIsFree
  /\ CASE job[p].op = "read"                  -> Goto(p, "read")
       [] job[p].op \in {"update", "delete"}  -> Goto(p, "lock")
       [] job[p].op = "remove" ->
            Become(p, [job[p] EXCEPT !.step = "clear",
                         !.todo = Without(job[p].crew, Technicians \ entries)])
       [] job[p].op = "assign" ->
            \E order \in Orders(entries) :
              Become(p, [job[p] EXCEPT !.step = "clear", !.todo = order])
  /\ UNCHANGED <<exists, entries>>

\* The pool has had none for longer than `acquire`: 500.
AcquireTimeout(p) == /\ At(p, "ask") \/ At(p, "connect")
                     /\ ~ PoolIsFree
                     /\ Answer(p)
                     /\ UNCHANGED <<exists, entries>>

\* A SELECT, and the answer; only getWeather goes on, to the weather service.
Read(p) == /\ At(p, "read")
           /\ Answer(p) \/ Goto(p, "headers")
           /\ UNCHANGED <<exists, entries>>

-----------------------------------------------------------------------------
\* The transactions

Take(p, lock) == [job[p] EXCEPT !.held = @ \cup {lock}]

\* DELETE of assignees, by setAssignees, by removeAssignee or by the cascade, locks
\* one row more.
DeleteEntry(p) ==
  /\ job[p].step \in {"clear", "cascade"}
  /\ Granted(p)
  /\ LET t == Head(job[p].todo)
     IN Become(p, [Take(p, [what |-> t, mode |-> "exclusive"])
                     EXCEPT !.todo = Tail(@), !.rows = @ \cup {t}])
  /\ UNCHANGED <<exists, entries>>

\* One row of bulkCreate goes into the unique index; a technician who is there
\* already violates it: rollback.
InsertEntry(p) ==
  /\ At(p, "fill")
  /\ Granted(p)
  /\ LET t == Head(job[p].todo)
     IN IF t \in entries \ job[p].rows
          THEN Answer(p)
          ELSE Become(p, [Take(p, [what |-> t, mode |-> "exclusive"]) EXCEPT !.todo = Tail(@)])
  /\ UNCHANGED <<exists, entries>>

\* Slip: the column has no foreign key.
CheckNothing(p) == /\ At(p, "check")
                   /\ Goto(p, "commit")
                   /\ UNCHANGED <<exists, entries>>

\* At the end of the INSERT the foreign key takes the request FOR KEY SHARE.
CheckRequest(p) ==
  /\ At(p, "check")
  /\ Granted(p)
  /\ IF exists
       THEN Become(p, [Take(p, [what |-> "row", mode |-> "share"]) EXCEPT !.step = "commit"])
       ELSE Answer(p)
  /\ UNCHANGED <<exists, entries>>

\* Slip: the assignees are read FOR UPDATE together with the request.
LockAll(p) ==
  /\ At(p, "lock")
  /\ Granted(p)
  /\ IF ~ exists THEN Answer(p)
     ELSE \E order \in Orders(entries) :
            Become(p, [Take(p, [what |-> "row", mode |-> "exclusive"])
                         EXCEPT !.step = "cascade", !.todo = order])
  /\ UNCHANGED <<exists, entries>>

\* Slip: the assignees are deleted by a statement of their own, before the request.
LockChildrenFirst(p) ==
  /\ At(p, "lock")
  /\ IF job[p].op = "delete"
       THEN \E order \in Orders(entries) :
              Become(p, [job[p] EXCEPT !.step = "cascade", !.todo = order])
       ELSE /\ Granted(p)
            /\ Become(p, [Take(p, [what |-> "row", mode |-> "exclusive"]) EXCEPT !.step = "commit"])
  /\ UNCHANGED <<exists, entries>>

\* The row of the request: SELECT ... FOR UPDATE, or DELETE, whose foreign key then
\* cascades to the assignees it sees.
LockRequest(p) ==
  /\ At(p, "lock")
  /\ Granted(p)
  /\ LET locked == Take(p, [what |-> "row", mode |-> "exclusive"])
     IN IF ~ exists THEN Answer(p)
        ELSE IF job[p].op = "update" THEN Become(p, [locked EXCEPT !.step = "commit"])
        ELSE \E order \in Orders(entries) :
               Become(p, [locked EXCEPT !.step = "cascade", !.todo = order])
  /\ UNCHANGED <<exists, entries>>

\* Rows that p removed are gone for every DELETE that waits for them.
Commit(p) ==
  /\ At(p, "commit")
  /\ job' = [q \in Procs |->
               IF q = p THEN Idle
               ELSE IF job[q].step \in {"clear", "cascade"}
                 THEN Advance([job[q] EXCEPT !.todo = Without(@, job[p].rows)])
               ELSE job[q]]
  /\ exists' = (exists /\ job[p].op # "delete")
  /\ entries' = (entries \ job[p].rows)
                \cup (IF job[p].op = "assign" THEN {job[p].crew[i] : i \in DOMAIN job[p].crew} ELSE {})

\* The deadlock detector: 500.
Abort(p) == /\ \E S \in SUBSET Procs : p \in S /\ Circle(S)
            /\ Answer(p)
            /\ UNCHANGED <<exists, entries>>

-----------------------------------------------------------------------------
\* WeatherService.fetchWithTimeout

\* The service sends the headers; an error status is answered 502.
Headers(p, ok) == /\ At(p, "headers")
                  /\ IF ok THEN Goto(p, "body") ELSE Answer(p)
                  /\ UNCHANGED <<exists, entries>>

\* The body is there, or it is not JSON, or the connection broke (503).
Body(p) == /\ job[p].step \in {"headers", "body"}
           /\ Answer(p)
           /\ UNCHANGED <<exists, entries>>

\* Slip: the timer is cleared when fetch resolves, which it does at the headers.
AbortFetchOnly(p) == /\ At(p, "headers")
                     /\ Answer(p)
                     /\ UNCHANGED <<exists, entries>>

\* The timer aborts the fetch and the reading of the body: 504.
AbortFetch(p) == /\ job[p].step \in {"headers", "body"}
                 /\ Answer(p)
                 /\ UNCHANGED <<exists, entries>>

-----------------------------------------------------------------------------

Move(p) == \/ LookUp(p) \/ Connect(p) \/ Read(p)
           \/ DeleteEntry(p) \/ InsertEntry(p) \/ CheckRequest(p) \/ LockRequest(p) \/ Commit(p)

\* What ends a wait that nobody else ends.  At each step of p at most one of the
\* three can come.
GiveUp(p) == AcquireTimeout(p) \/ Abort(p) \/ AbortFetch(p)

Weather(p) == (\E ok \in BOOLEAN : Headers(p, ok)) \/ Body(p)

Next == \E p \in Procs : \/ Start(p) \/ Move(p) \/ Weather(p) \/ GiveUp(p)

Spec == Init /\ [][Next]_vars

\* A statement that can run does; a lock or a connection that is free again and
\* again is granted in the end, since both queues are in order; the timers and the
\* detector fire.  The weather service owes nothing.
FairSpec == Spec /\ \A p \in Procs : SF_vars(Move(p)) /\ WF_vars(GiveUp(p))

-----------------------------------------------------------------------------

\* Every handler is at a step of its operation, and locks are only held by one that
\* has a connection.
TypeOK == /\ exists \in BOOLEAN
          /\ entries \subseteq Technicians
          /\ \A p \in Procs : /\ job[p].op \in Ops
                              /\ job[p].step \in Steps
                              /\ job[p].crew \in Seq(Technicians)
                              /\ job[p].todo \in Seq(Technicians)
                              /\ job[p].rows \subseteq Technicians
                              /\ job[p].held \subseteq Locks
                              /\ job[p].held # {} => p \in Connected
          /\ Cardinality(Connected) <= PoolMax

\* No circle without a replacement of the brigade in it: DELETE of a request takes
\* the row before its assignees, so that deletions, removals and changes of status
\* only ever wait in line.  And a change of status or a removal is never the victim
\* of the deadlock detector: neither wants a lock when it has one.
CircleNeedsReplacement ==
  \A S \in SUBSET Procs : Circle(S) =>
    /\ \E p \in S : job[p].op = "assign"
    /\ \A p \in S : job[p].op \in {"assign", "delete"}

\* Whoever has a connection can go on by itself, or waits for somebody who has one
\* and is not in a circle that will be broken: a full pool empties again, whatever
\* the weather service does.  In particular no transaction needs a second connection.
Stuck(p) == At(p, "headers") \/ At(p, "body") \/ ~ Granted(p)
PoolMoves ==
  Cardinality(Connected) = PoolMax =>
    \/ \E p \in Connected : ~ Stuck(p)
    \/ \E S \in SUBSET Procs : Circle(S)

\* No assignee outlives the request, lock by lock: the INSERT that began before the
\* DELETE, or after it, finds the request locked or gone.
NoOrphans == ~ exists => entries = {}

\* A call of p is answered, whatever it waits for: locks, circles, connections, or a
\* weather service that sends headers and then nothing.
Answered(p) == ~ At(p, "idle") ~> At(p, "idle")
=============================================================================
