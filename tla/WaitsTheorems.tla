---------------------------- MODULE WaitsTheorems ----------------------------
(***************************************************************************)
(* What is proved of LockWaits for any number of handlers, technicians and *)
(* connections: the locks exclude each other, circles need a replacement   *)
(* of the brigade, a full pool moves, and no assignee outlives the request.*)
(***************************************************************************)
EXTENDS LockWaits, FiniteSetTheorems, TLAPS

Job == [op : Ops, step : Steps, crew : Seq(Technicians), todo : Seq(Technicians),
        rows : SUBSET Technicians, held : SUBSET Locks]

RowLock(mode) == [what |-> "row", mode |-> mode]

\* Steps that take one lock after another, until nothing is left to do.
Scanning == {"clear", "fill", "cascade"}

\* The steps of each operation.
Route(op) == CASE op = "assign" -> {"ask", "connect", "clear", "fill", "check", "commit"}
               [] op = "delete" -> {"ask", "connect", "lock", "cascade", "commit"}
               [] op = "remove" -> {"ask", "connect", "clear", "commit"}
               [] op = "update" -> {"ask", "connect", "lock", "commit"}
               [] op = "read"   -> {"idle", "connect", "read", "headers", "body"}

\* A handler on its route: what it has in hand at each step.
OnRoute(j) ==
  /\ j \in Job
  /\ j.step \in Route(j.op)
  /\ j.step \notin Scanning => j.todo = <<>>
  /\ j.op = "assign" => j.crew # <<>>
  /\ j.op = "remove" => Len(j.crew) = 1 /\ Len(j.todo) <= 1
  /\ j.step \in {"idle", "ask", "connect", "read", "lock", "headers", "body"} => j.held = {}
  /\ j.op = "remove" /\ j.step = "clear" /\ j.todo # <<>> => j.held = {}
  /\ j.op = "delete" /\ j.step \in {"cascade", "commit"} => RowLock("exclusive") \in j.held
  /\ j.op = "update" /\ j.step = "commit" => RowLock("exclusive") \in j.held
  /\ j.op = "assign" /\ j.step = "commit" => RowLock("share") \in j.held

\* A scan that has nothing left to do is over.
Routed(j) == OnRoute(j) /\ (j.step \in Scanning => j.todo # <<>>)

Left(j) == {j.todo[i] : i \in 1 .. Len(j.todo)}

\* A deletion that has locked the request has it until it commits, and has removed
\* the assignees that there are, or will.
Covers(j) == /\ j.op = "delete" /\ j.step \in {"cascade", "commit"} =>
                  exists /\ entries \subseteq j.rows \cup Left(j)
             /\ j.op = "assign" /\ j.step = "commit" => exists

\* What two handlers hold does not conflict.
Exclusion == \A p, q \in Procs : p # q =>
               \A a \in job[p].held, b \in job[q].held : ~ Conflict(a, b)

\* The inductive invariant.
IInv == /\ exists \in BOOLEAN
        /\ entries \subseteq Technicians
        /\ job \in [Procs -> Job]
        /\ Cardinality(Connected) <= PoolMax
        /\ \A p \in Procs : Routed(job[p])
        /\ \A p \in Procs : Covers(job[p])
        /\ Exclusion
        /\ NoOrphans

-----------------------------------------------------------------------------
\* What is left of a scan

\* Induction over the natural numbers, for a set: the least number outside would
\* have a predecessor inside.
LEMMA SetInduction ==
  ASSUME NEW S, 0 \in S, \A n \in Nat : n \in S => n + 1 \in S
  PROVE  Nat \subseteq S
<1> DEFINE T == Nat \ S
<1> SUFFICES ASSUME T # {} PROVE FALSE
  OBVIOUS
<1>1. PICK x \in T : \A y \in T : <<y, x>> \notin OpToRel(<, Nat)
  <2> HIDE DEF T
  <2> QED
    BY NatLessThanWellFounded, WFMin DEF T
<1>2. x \in Nat /\ x # 0 /\ x \notin S
  OBVIOUS
<1>3. x - 1 \in Nat /\ x - 1 < x /\ x - 1 + 1 = x
  BY <1>2
<1>4. x - 1 \notin T
  BY <1>1, <1>2, <1>3 DEF OpToRel
<1> QED
  BY <1>2, <1>3, <1>4

\* The body of the function in Without.
Filter(s, S, left, n) == IF n = 0 THEN <<>>
                         ELSE IF s[n] \in S THEN left[n - 1]
                         ELSE Append(left[n - 1], s[n])

\* There is a function that satisfies its definition.
LEMMA FilterExists ==
  ASSUME NEW s, NEW S, NEW n \in Nat
  PROVE  \E g : g = [m \in 0..n |-> Filter(s, S, g, m)]
<1> DEFINE Good == {k \in Nat : \E g : g = [m \in 0..k |-> Filter(s, S, g, m)]}
<1>1. 0 \in Good
  <2> DEFINE g == [m \in 0..0 |-> <<>>]
  <2>1. g = [m \in 0..0 |-> Filter(s, S, g, m)]
    BY DEF Filter
  <2> QED
    BY <2>1
<1>2. ASSUME NEW k \in Nat, k \in Good PROVE k + 1 \in Good
  <2>1. PICK g : g = [m \in 0..k |-> Filter(s, S, g, m)]
    BY <1>2
  <2> DEFINE h == [m \in 0 .. k+1 |-> IF m = k + 1 THEN Filter(s, S, g, m) ELSE g[m]]
  <2>2. ASSUME NEW m \in 0 .. k+1 PROVE h[m] = Filter(s, S, h, m)
    <3>1. m # 0 => h[m - 1] = g[m - 1]
      OBVIOUS
    <3>2. m # k + 1 => g[m] = Filter(s, S, g, m) /\ m \in 0..k
      BY <2>1
    <3>3. Filter(s, S, h, m) = Filter(s, S, g, m)
      BY <3>1 DEF Filter
    <3> QED
      BY <3>2, <3>3
  <2>3. h = [m \in 0 .. k+1 |-> Filter(s, S, h, m)]
    BY <2>2
  <2> HIDE DEF h
  <2> QED
    BY <2>3
<1> HIDE DEF Good
<1>3. n \in Good
  BY <1>1, <1>2, SetInduction
<1> QED
  BY <1>3 DEF Good

\* Without keeps what is not in the set, and makes nothing longer.
LEMMA WithoutKeeps ==
  ASSUME NEW T, NEW s \in Seq(T), NEW S
  PROVE  /\ Without(s, S) \in Seq(T)
         /\ Len(Without(s, S)) <= Len(s)
         /\ \A i \in 1 .. Len(s) : s[i] \notin S =>
              \E k \in 1 .. Len(Without(s, S)) : Without(s, S)[k] = s[i]
<1> DEFINE P(g) == g = [n \in 0 .. Len(s) |-> Filter(s, S, g, n)]
           left == CHOOSE g : P(g)
           Holds(n) == /\ left[n] \in Seq(T)
                       /\ Len(left[n]) <= n
                       /\ \A i \in 1..n : s[i] \notin S =>
                            \E k \in 1 .. Len(left[n]) : left[n][k] = s[i]
           Good == {n \in Nat : n <= Len(s) => Holds(n)}
<1>1. Len(s) \in Nat
  OBVIOUS
<1>2. P(left)
  <2>1. \E g : P(g)
    BY <1>1, FilterExists
  <2> HIDE DEF P
  <2> QED
    BY <2>1, Zenon
<1>3. Without(s, S) = left[Len(s)]
  BY DEF Without, Filter
<1>4. \A n \in 0 .. Len(s) : left[n] = Filter(s, S, left, n)
  <2> HIDE DEF left
  <2> QED
    BY <1>2
<1> HIDE DEF P, left
<1>5. 0 \in Good
  <2>1. left[0] = <<>>
    BY <1>1, <1>4 DEF Filter
  <2>2. Holds(0)
    BY <2>1
  <2> HIDE DEF Holds
  <2> QED
    BY <2>2
<1>6. ASSUME NEW n \in Nat, n \in Good PROVE n + 1 \in Good
  <2> SUFFICES ASSUME n + 1 <= Len(s) PROVE Holds(n + 1)
    OBVIOUS
  <2>1. Holds(n)
    BY <1>1, <1>6
  <2>2. left[n + 1] = IF s[n + 1] \in S THEN left[n] ELSE Append(left[n], s[n + 1])
    BY <1>1, <1>4 DEF Filter
  <2>3. s[n + 1] \in T
    BY <1>1
  <2> QED
    BY <2>1, <2>2, <2>3
<1>7. Len(s) \in Good
  <2> HIDE DEF Good
  <2> QED
    BY <1>1, <1>5, <1>6, SetInduction
<1> QED
  BY <1>1, <1>3, <1>7

-----------------------------------------------------------------------------
\* The steps of one handler

\* Steps that need no connection.
Off == {"idle", "ask", "connect", "headers", "body"}

\* Advance takes a handler on along its route, with what it holds.
LEMMA Advanced ==
  ASSUME NEW j, OnRoute(j)
  PROVE  /\ Routed(Advance(j))
         /\ Advance(j).held = j.held
         /\ Advance(j).step \in Off <=> j.step \in Off
         /\ Covers(j) => Covers(Advance(j))
         /\ Covers(j)' => Covers(Advance(j))'
<1> USE DEF OnRoute, Job
<1>1. CASE j.todo # <<>>
  BY <1>1 DEF Advance, Routed
<1>2. CASE j.todo = <<>> /\ j.step = "clear" /\ j.op = "assign"
  <2>1. Advance(j) = [j EXCEPT !.step = "fill", !.todo = j.crew]
    BY <1>2 DEF Advance
  <2> QED
    BY <1>2, <2>1 DEF Routed, Route, Scanning, Off, Covers, Steps
<1>3. CASE j.todo = <<>> /\ j.step = "fill"
  <2>1. Advance(j) = [j EXCEPT !.step = "check"]
    BY <1>3 DEF Advance
  <2>2. j.op = "assign"
    BY <1>3 DEF Route, Ops
  <2> QED
    BY <1>3, <2>1, <2>2 DEF Routed, Route, Scanning, Off, Covers, Steps
<1>4. CASE j.todo = <<>> /\ (j.step = "cascade" \/ (j.step = "clear" /\ j.op # "assign"))
  <2>1. Advance(j) = [j EXCEPT !.step = "commit"]
    BY <1>4 DEF Advance
  <2>2. j.op = IF j.step = "cascade" THEN "delete" ELSE "remove"
    BY <1>4 DEF Route, Ops
  <2> QED
    BY <1>4, <2>1, <2>2 DEF Routed, Route, Scanning, Off, Covers, Steps, Left
<1>5. CASE j.todo = <<>> /\ j.step \notin Scanning
  BY <1>5 DEF Advance, Routed, Scanning
<1> QED
  BY <1>1, <1>2, <1>3, <1>4, <1>5 DEF Scanning

\* A handler becomes j: it is on its route, has got no lock but the one it wanted,
\* and has a connection only if it had one or there was one.
Local(p, j) ==
  /\ UNCHANGED <<exists, entries>>
  /\ Become(p, j)
  /\ OnRoute(j) /\ Covers(j)
  /\ \/ j.held \subseteq job[p].held
     \/ Granted(p) /\ j.held = job[p].held \cup Wanted(p)
  /\ \/ j.step \in Off
     \/ p \in Connected
     \/ Cardinality(Connected) < PoolMax

\* Those who are connected are finitely many, and one more is one more.
LEMMA ConnectedIsFinite ==
  /\ IsFiniteSet(Connected)
  /\ Cardinality(Connected) \in Nat
  /\ \A S \in SUBSET Connected : Cardinality(S) \in Nat /\ Cardinality(S) <= Cardinality(Connected)
  /\ \A p \in Procs \ Connected : Cardinality(Connected \cup {p}) = Cardinality(Connected) + 1
<1>1. Connected \subseteq Procs
  BY DEF Connected
<1>2. IsFiniteSet(Connected)
  BY <1>1, WaitsAssumption, FS_Subset
<1>3. \A p \in Procs \ Connected : Cardinality(Connected \cup {p}) = Cardinality(Connected) + 1
  BY <1>2, FS_AddElement
<1> QED
  BY <1>2, <1>3, FS_Subset, FS_CardinalityType

\* Such a step keeps the invariant.
LEMMA LocalKeeps ==
  ASSUME IInv, NEW p \in Procs, NEW j, Local(p, j)
  PROVE  IInv'
<1> DEFINE k == Advance(j)
<1>1. /\ Routed(k) /\ k.held = j.held /\ (k.step \in Off <=> j.step \in Off) /\ Covers(k)
  BY Advanced DEF Local
<1>2. /\ job' = [job EXCEPT ![p] = k]
      /\ exists' = exists /\ entries' = entries
      /\ k \in Job
  BY <1>1 DEF Local, Become, Routed, OnRoute
<1> HIDE DEF k
<1>3. /\ job' \in [Procs -> Job]
      /\ job'[p] = k
      /\ \A q \in Procs \ {p} : job'[q] = job[q]
  BY <1>2 DEF IInv
<1>4. \A q \in Procs : Routed(job'[q])
  BY <1>1, <1>3 DEF IInv
<1>5. \A q \in Procs : Covers(job[q])'
  BY <1>1, <1>2, <1>3 DEF IInv, Covers, Left
<1>6. Exclusion'
  <2>1. ASSUME NEW q \in Procs \ {p}, NEW a \in k.held, NEW b \in job[q].held
        PROVE  ~ Conflict(a, b) /\ ~ Conflict(b, a)
    <3>1. CASE a \in job[p].held
      BY <2>1, <3>1 DEF IInv, Exclusion
    <3>2. CASE Granted(p) /\ a \in Wanted(p)
      BY <2>1, <3>2 DEF Granted, WaitsFor, Conflict
    <3> QED
      BY <1>1, <3>1, <3>2 DEF Local
  <2> QED
    BY <1>3, <2>1 DEF IInv, Exclusion, Conflict
<1>7. Cardinality(Connected)' <= PoolMax
  <2>1. \A q \in Procs : q \in Connected <=> job[q].step \notin Off
    BY DEF Connected, Off
  <2>2. \A q \in Procs : q \in Connected' <=> job'[q].step \notin Off
    BY DEF Connected, Off
  <2>3. Connected' \subseteq Procs /\ Connected \subseteq Procs
    BY DEF Connected
  <2>4. Cardinality(Connected) <= PoolMax
    BY DEF IInv
  <2>5. CASE k.step \in Off \/ p \in Connected
    <3>1. Connected' \subseteq Connected
      BY <1>3, <2>1, <2>2, <2>3, <2>5
    <3> QED
      BY <2>4, <3>1, ConnectedIsFinite, WaitsAssumption
  <2>6. CASE k.step \notin Off /\ p \notin Connected
    <3>1. Connected' = Connected \cup {p}
      BY <1>3, <2>1, <2>2, <2>3, <2>6
    <3>2. Cardinality(Connected) < PoolMax
      BY <1>1, <2>6 DEF Local
    <3> QED
      BY <2>6, <3>1, <3>2, ConnectedIsFinite, WaitsAssumption
  <2> QED
    BY <2>5, <2>6
<1> QED
  BY <1>2, <1>3, <1>4, <1>5, <1>6, <1>7 DEF IInv, NoOrphans

\* A scan in some order of S meets all of S.
LEMMA OrderMeetsAll ==
  ASSUME NEW S \in SUBSET Technicians, NEW s \in Orders(S)
  PROVE  s \in Seq(Technicians) /\ {s[i] : i \in 1 .. Len(s)} = S
<1>1. IsFiniteSet(S) /\ Cardinality(S) \in Nat
  BY WaitsAssumption, FS_Subset, FS_CardinalityType
<1> DEFINE n == Cardinality(S)
<1>2. s \in [1..n -> S] /\ \A i, j \in 1..n : s[i] = s[j] => i = j
  BY DEF Orders
<1>3. s \in Seq(Technicians) /\ Len(s) = n
  BY <1>1, <1>2
<1>4. s \in Injection(1..n, S)
  BY <1>2 DEF Injection, IsInjective
<1>5. Cardinality(1..n) = n
  BY <1>1, FS_Interval
<1>6. s \in Surjection(1..n, S)
  BY <1>1, <1>4, <1>5, FS_Injection
<1> QED
  BY <1>2, <1>3, <1>6 DEF Surjection

\* Facts about the handler that moves.
LEMMA Mover ==
  ASSUME IInv, NEW p \in Procs
  PROVE  /\ job[p] \in Job /\ Routed(job[p]) /\ OnRoute(job[p]) /\ Covers(job[p])
         /\ job[p].step \notin Off <=> p \in Connected
  BY DEF IInv, Routed, Connected, Off

\* Giving up is a step of its own for every handler.
LEMMA AnswerIsLocal ==
  ASSUME IInv, NEW p \in Procs, Answer(p), UNCHANGED <<exists, entries>>
  PROVE  Local(p, Idle)
  BY DEF Local, Answer, Idle, OnRoute, Job, Ops, Steps, Route, Scanning, Covers, Off, RowLock

\* A call that arrives.
LEMMA StartIsLocal ==
  ASSUME IInv, NEW p \in Procs, Start(p)
  PROVE  \E j : Local(p, j)
<1>1. PICK op \in Ops, crew \in Seq(Technicians) :
        /\ Call(p, op, crew)
        /\ op = "assign" => crew # <<>>
        /\ op = "remove" => Len(crew) = 1
  <2>1. CASE \E op \in {"delete", "update", "read"} : Call(p, op, <<>>)
    <3>1. PICK op \in {"delete", "update", "read"} : Call(p, op, <<>>)
      BY <2>1
    <3>2. <<>> \in Seq(Technicians)
      OBVIOUS
    <3> QED
      BY <3>1, <3>2 DEF Ops
  <2>2. CASE \E crew \in Crews : Call(p, "assign", crew)
    BY <2>2, WaitsAssumption DEF Ops
  <2>3. CASE \E t \in Technicians : Call(p, "remove", <<t>>)
    <3>1. PICK t \in Technicians : Call(p, "remove", <<t>>)
      BY <2>3
    <3>2. <<t>> \in Seq(Technicians) /\ Len(<<t>>) = 1
      OBVIOUS
    <3> QED
      BY <3>1, <3>2 DEF Ops
  <2> QED
    BY <2>1, <2>2, <2>3 DEF Start
<1> DEFINE step == IF op = "read" THEN "connect" ELSE "ask"
           j == [Idle EXCEPT !.op = op, !.crew = crew, !.step = step]
<1>2. Become(p, j) /\ UNCHANGED <<exists, entries>>
  BY <1>1 DEF Call
<1>3. Idle \in Job /\ Idle.todo = <<>> /\ Idle.held = {}
  BY DEF Idle, Job, Ops, Steps
<1>4. /\ j \in Job /\ j.op = op /\ j.step = step /\ j.crew = crew
      /\ j.todo = <<>> /\ j.held = {}
  BY <1>3 DEF Job, Steps
<1> HIDE DEF j
<1>5. OnRoute(j) /\ Covers(j) /\ j.step \in Off
  BY <1>1, <1>4 DEF OnRoute, Ops, Route, Scanning, Covers, Off
<1> QED
  BY <1>2, <1>4, <1>5 DEF Local

\* What is to be changed is looked up.
LEMMA LookUpIsLocal ==
  ASSUME IInv, NEW p \in Procs, LookUp(p)
  PROVE  \E j : Local(p, j)
<1>1. /\ job[p].step = "ask" /\ UNCHANGED <<exists, entries>>
      /\ Answer(p) \/ Goto(p, "connect")
  BY DEF LookUp, At
<1>2. CASE Answer(p)
  BY <1>1, <1>2, AnswerIsLocal
<1>3. CASE Goto(p, "connect")
  <2> DEFINE j == [job[p] EXCEPT !.step = "connect"]
  <2>1. job[p] \in Job /\ OnRoute(job[p])
    BY Mover
  <2>2. OnRoute(j) /\ Covers(j) /\ j.step \in Off /\ j.held = job[p].held
    BY <1>1, <2>1 DEF OnRoute, Job, Ops, Steps, Route, Scanning, Covers, Off
  <2> QED
    BY <1>1, <1>3, <2>2 DEF Local, Goto
<1> QED
  BY <1>1, <1>2, <1>3

\* The first statement is issued.
LEMMA ConnectIsLocal ==
  ASSUME IInv, NEW p \in Procs, Connect(p)
  PROVE  \E j : Local(p, j)
<1>1. /\ At(p, "connect") /\ UNCHANGED <<exists, entries>>
      /\ Cardinality(Connected) < PoolMax
      /\ job[p] \in Job /\ OnRoute(job[p]) /\ job[p].held = {} /\ job[p].todo = <<>>
  BY Mover DEF Connect, PoolIsFree, At, OnRoute, Scanning
<1>2. ASSUME NEW j, Become(p, j), OnRoute(j), Covers(j), j.held = {}
      PROVE  \E k : Local(p, k)
  BY <1>1, <1>2 DEF Local
<1>3. CASE job[p].op \in {"read", "update", "delete"}
  <2> DEFINE step == IF job[p].op = "read" THEN "read" ELSE "lock"
             j == [job[p] EXCEPT !.step = step]
  <2>1. Become(p, j)
    BY <1>3 DEF Connect, Goto
  <2>2. OnRoute(j) /\ Covers(j) /\ j.held = {}
    BY <1>1, <1>3 DEF OnRoute, Job, Ops, Steps, Route, Scanning, Covers
  <2> HIDE DEF j
  <2> QED
    BY <1>2, <2>1, <2>2
<1>4. CASE job[p].op = "remove"
  <2> DEFINE todo == Without(job[p].crew, Technicians \ entries)
             j == [job[p] EXCEPT !.step = "clear", !.todo = todo]
  <2>1. Become(p, j)
    BY <1>4 DEF Connect
  <2>2. todo \in Seq(Technicians) /\ Len(todo) <= 1
    <3>1. job[p].crew \in Seq(Technicians) /\ Len(job[p].crew) = 1
      BY <1>1, <1>4 DEF OnRoute, Job
    <3> QED
      BY <3>1, WithoutKeeps
  <2> HIDE DEF todo
  <2>3. OnRoute(j) /\ Covers(j) /\ j.held = {}
    BY <1>1, <1>4, <2>2 DEF OnRoute, Job, Ops, Steps, Route, Scanning, Covers
  <2> HIDE DEF j
  <2> QED
    BY <1>2, <2>1, <2>3
<1>5. CASE job[p].op = "assign"
  <2>1. PICK order \in Orders(entries) :
          Become(p, [job[p] EXCEPT !.step = "clear", !.todo = order])
    BY <1>5 DEF Connect
  <2> DEFINE j == [job[p] EXCEPT !.step = "clear", !.todo = order]
  <2>2. order \in Seq(Technicians)
    BY OrderMeetsAll DEF IInv
  <2>3. OnRoute(j) /\ Covers(j) /\ j.held = {}
    BY <1>1, <1>5, <2>2 DEF OnRoute, Job, Ops, Steps, Route, Scanning, Covers
  <2> HIDE DEF j
  <2> QED
    BY <1>2, <2>1, <2>3 DEF j
<1> QED
  BY <1>1, <1>3, <1>4, <1>5 DEF Job, Ops

\* The SELECTs and the weather service.
LEMMA ReadIsLocal ==
  ASSUME IInv, NEW p \in Procs,
         Read(p) \/ GiveUp(p) \/ Weather(p)
  PROVE  \E j : Local(p, j)
<1>1. UNCHANGED <<exists, entries>>
  BY DEF Read, GiveUp, AcquireTimeout, Abort, AbortFetch, Weather, Headers, Body
<1>2. CASE Answer(p)
  BY <1>1, <1>2, AnswerIsLocal
<1>3. CASE ~ Answer(p)
  <2>1. PICK step \in {"headers", "body"} : /\ Goto(p, step) /\ job[p].step \in {"read", "headers"}
                                            /\ job[p].op = "read"
    <3>1. CASE Read(p)
      BY <1>3, <3>1, Mover DEF Read, At, OnRoute, Job, Route, Ops
    <3>2. CASE Weather(p)
      BY <1>3, <3>2, Mover DEF Weather, Headers, Body, At, OnRoute, Job, Route, Ops
    <3> QED
      BY <1>3, <3>1, <3>2 DEF GiveUp, AcquireTimeout, Abort, AbortFetch
  <2> DEFINE j == [job[p] EXCEPT !.step = step]
  <2>2. job[p] \in Job /\ OnRoute(job[p])
    BY Mover
  <2>3. OnRoute(j) /\ Covers(j) /\ j.step \in Off /\ j.held = job[p].held
    BY <2>1, <2>2 DEF OnRoute, Job, Ops, Steps, Route, Scanning, Covers, Off
  <2> QED
    BY <1>1, <2>1, <2>3 DEF Local, Goto
<1> QED
  BY <1>2, <1>3

\* One lock more, and a handler that goes on with it.
LEMMA LockIsLocal ==
  ASSUME IInv, NEW p \in Procs, NEW lock \in Locks, NEW j,
         Granted(p), Wanted(p) = {lock}, p \in Connected, UNCHANGED <<exists, entries>>,
         Become(p, j), OnRoute(j), Covers(j), j.held = job[p].held \cup {lock}
  PROVE  Local(p, j)
  BY DEF Local

\* A row of the assignees is deleted.
LEMMA DeleteEntryIsLocal ==
  ASSUME IInv, NEW p \in Procs, DeleteEntry(p)
  PROVE  \E j : Local(p, j)
<1> DEFINE J == job[p]
           t == Head(J.todo)
           lock == [what |-> t, mode |-> "exclusive"]
           j == [Take(p, lock) EXCEPT !.todo = Tail(@), !.rows = @ \cup {t}]
<1>1. /\ J.step \in {"clear", "cascade"} /\ Granted(p) /\ UNCHANGED <<exists, entries>>
      /\ Become(p, j)
  BY DEF DeleteEntry
<1>2. J \in Job /\ Routed(J) /\ OnRoute(J) /\ Covers(J) /\ p \in Connected
  BY <1>1, Mover DEF Off
<1>3. J.todo \in Seq(Technicians) /\ J.todo # <<>>
  BY <1>1, <1>2 DEF Routed, Scanning, Job
<1>4. /\ t \in Technicians /\ Tail(J.todo) \in Seq(Technicians)
      /\ Len(Tail(J.todo)) = Len(J.todo) - 1 /\ Len(J.todo) \in Nat
      /\ \A i \in 1 .. Len(J.todo) : J.todo[i] = t \/
           \E k \in 1 .. Len(Tail(J.todo)) : Tail(J.todo)[k] = J.todo[i]
  BY <1>3
<1>5. lock \in Locks /\ Wanted(p) = {lock}
  BY <1>1, <1>4 DEF Locks, Wanted, At
<1>6. /\ j.op = J.op /\ j.step = J.step /\ j.crew = J.crew /\ j.todo = Tail(J.todo)
      /\ j.rows = J.rows \cup {t} /\ j.held = J.held \cup {lock} /\ j \in Job
  BY <1>2, <1>4, <1>5 DEF Take, Job
<1> HIDE DEF j, t, lock
<1>7. OnRoute(j)
  <2>1. Tail(J.todo) # <<>> => Len(Tail(J.todo)) # 0
    BY <1>4
  <2> QED
    BY <1>1, <1>2, <1>4, <1>6, <2>1 DEF OnRoute, Scanning
<1>8. Covers(j)
  <2>1. J.step # "commit"
    BY <1>1
  <2>2. Left(J) \subseteq {t} \cup Left(j)
    <3> HIDE DEF J
    <3> QED
      BY <1>4, <1>6 DEF Left
  <2> HIDE DEF J
  <2> QED
    BY <1>2, <1>6, <2>1, <2>2 DEF Covers
<1> QED
  BY <1>1, <1>2, <1>5, <1>6, <1>7, <1>8, LockIsLocal

\* A row of the assignees is inserted.
LEMMA InsertEntryIsLocal ==
  ASSUME IInv, NEW p \in Procs, InsertEntry(p)
  PROVE  \E j : Local(p, j)
<1> DEFINE J == job[p]
           t == Head(J.todo)
           lock == [what |-> t, mode |-> "exclusive"]
           j == [Take(p, lock) EXCEPT !.todo = Tail(@)]
<1>1. J.step = "fill" /\ Granted(p) /\ UNCHANGED <<exists, entries>> /\ (Answer(p) \/ Become(p, j))
  BY DEF InsertEntry, At
<1>2. J \in Job /\ Routed(J) /\ OnRoute(J) /\ p \in Connected
  BY <1>1, Mover DEF Off
<1>3. J.todo \in Seq(Technicians) /\ J.todo # <<>>
  BY <1>1, <1>2 DEF Routed, Scanning, Job
<1>4. t \in Technicians /\ Tail(J.todo) \in Seq(Technicians)
  BY <1>3
<1>5. lock \in Locks /\ Wanted(p) = {lock}
  BY <1>1, <1>4 DEF Locks, Wanted, At
<1>6. /\ j.op = J.op /\ j.step = J.step /\ j.crew = J.crew
      /\ j.held = J.held \cup {lock} /\ j \in Job
  BY <1>2, <1>4, <1>5 DEF Take, Job
<1>7. J.op = "assign"
  BY <1>1, <1>2 DEF OnRoute, Job, Ops, Route
<1> HIDE DEF j, t, lock
<1>8. OnRoute(j) /\ Covers(j)
  BY <1>1, <1>2, <1>6, <1>7 DEF OnRoute, Scanning, Covers
<1>9. CASE Answer(p)
  BY <1>1, <1>9, AnswerIsLocal
<1> QED
  BY <1>1, <1>2, <1>5, <1>6, <1>8, <1>9, LockIsLocal

\* The foreign key looks the request up.
LEMMA CheckRequestIsLocal ==
  ASSUME IInv, NEW p \in Procs, CheckRequest(p)
  PROVE  \E j : Local(p, j)
<1> DEFINE J == job[p]
           lock == RowLock("share")
           j == [Take(p, lock) EXCEPT !.step = "commit"]
<1>1. /\ J.step = "check" /\ Granted(p) /\ UNCHANGED <<exists, entries>>
      /\ Answer(p) \/ (exists /\ Become(p, j))
  BY DEF CheckRequest, At, RowLock
<1>2. J \in Job /\ OnRoute(J) /\ p \in Connected
  BY <1>1, Mover DEF Off
<1>3. lock \in Locks /\ Wanted(p) = {lock}
  BY <1>1 DEF Locks, Wanted, At, RowLock
<1>4. /\ j.op = J.op /\ j.step = "commit" /\ j.crew = J.crew /\ j.todo = J.todo
      /\ j.held = J.held \cup {lock} /\ j \in Job
  BY <1>2, <1>3 DEF Take, Job, Steps
<1>5. J.op = "assign" /\ J.todo = <<>>
  BY <1>1, <1>2 DEF OnRoute, Job, Ops, Route, Scanning
<1> HIDE DEF j, lock
<1>6. CASE exists
  <2>1. OnRoute(j) /\ Covers(j)
    BY <1>1, <1>2, <1>4, <1>5, <1>6 DEF OnRoute, Scanning, Covers, Route, lock
  <2> QED
    BY <1>1, <1>2, <1>3, <1>4, <2>1, AnswerIsLocal, LockIsLocal
<1>7. CASE Answer(p)
  BY <1>1, <1>7, AnswerIsLocal
<1> QED
  BY <1>1, <1>6, <1>7

\* The request is locked, for a change of status or to be deleted.
LEMMA LockRequestIsLocal ==
  ASSUME IInv, NEW p \in Procs, LockRequest(p)
  PROVE  \E j : Local(p, j)
<1> DEFINE J == job[p]
           lock == RowLock("exclusive")
<1>1. J.step = "lock" /\ Granted(p) /\ UNCHANGED <<exists, entries>>
  BY DEF LockRequest, At
<1>2. J \in Job /\ OnRoute(J) /\ p \in Connected
  BY <1>1, Mover DEF Off
<1>3. lock \in Locks /\ Wanted(p) = {lock}
  BY <1>1 DEF Locks, Wanted, At, RowLock
<1>4. J.op \in {"update", "delete"} /\ J.todo = <<>>
  BY <1>1, <1>2 DEF OnRoute, Job, Ops, Route, Scanning
<1>5. /\ Take(p, lock) \in Job /\ Take(p, lock).op = J.op /\ Take(p, lock).crew = J.crew
      /\ Take(p, lock).todo = <<>> /\ Take(p, lock).held = J.held \cup {lock}
  BY <1>2, <1>3, <1>4 DEF Take, Job
<1>6. CASE ~ exists
  BY <1>1, <1>6, AnswerIsLocal DEF LockRequest
<1>7. CASE exists /\ J.op = "update"
  <2> DEFINE j == [Take(p, lock) EXCEPT !.step = "commit"]
  <2>1. Become(p, j)
    BY <1>7 DEF LockRequest, RowLock
  <2> HIDE DEF lock
  <2>2. OnRoute(j) /\ Covers(j) /\ j.held = J.held \cup {lock}
    BY <1>2, <1>5, <1>7 DEF OnRoute, Job, Steps, Scanning, Covers, Route, lock
  <2> HIDE DEF j
  <2> QED
    BY <1>1, <1>2, <1>3, <2>1, <2>2, LockIsLocal
<1>8. CASE exists /\ J.op = "delete"
  <2>1. PICK order \in Orders(entries) :
          Become(p, [Take(p, lock) EXCEPT !.step = "cascade", !.todo = order])
    BY <1>8 DEF LockRequest, RowLock
  <2> DEFINE j == [Take(p, lock) EXCEPT !.step = "cascade", !.todo = order]
  <2> HIDE DEF lock
  <2>2. order \in Seq(Technicians) /\ {order[i] : i \in 1 .. Len(order)} = entries
    BY OrderMeetsAll DEF IInv
  <2>3. /\ j \in Job /\ j.op = "delete" /\ j.step = "cascade" /\ j.todo = order
        /\ j.held = J.held \cup {lock}
    BY <1>5, <1>8, <2>2 DEF Job, Steps
  <2> HIDE DEF j
  <2>4. OnRoute(j)
    BY <2>3 DEF OnRoute, Scanning, Route, lock
  <2>5. Covers(j)
    BY <1>8, <2>2, <2>3 DEF Covers, Left
  <2> QED
    BY <1>1, <1>2, <1>3, <2>1, <2>3, <2>4, <2>5, LockIsLocal DEF j
<1> QED
  BY <1>4, <1>6, <1>7, <1>8

\* Transactions that are about to commit have the request to themselves, or share it
\* with other replacements; a removal does not care.
LEMMA CommitAlone ==
  ASSUME IInv, NEW p \in Procs, NEW q \in Procs \ {p}, job[p].step = "commit",
         job[q].op = "delete" /\ job[q].step \in {"cascade", "commit"}
  PROVE  job[p].op = "remove"
<1>1. OnRoute(job[p]) /\ OnRoute(job[q])
  BY Mover
<1>2. RowLock("exclusive") \in job[q].held
  BY <1>1 DEF OnRoute
<1>3. RowLock("exclusive") \notin job[p].held /\ RowLock("share") \notin job[p].held
  BY <1>2 DEF IInv, Exclusion, Conflict, RowLock
<1> QED
  BY <1>1, <1>3 DEF OnRoute, Job, Ops, Route

\* A commit keeps the invariant.
LEMMA CommitKeeps ==
  ASSUME IInv, NEW p \in Procs, Commit(p)
  PROVE  IInv'
<1> DEFINE k(q) == [job[q] EXCEPT !.todo = Without(job[q].todo, job[p].rows)]
           Scans(q) == job[q].step \in {"clear", "cascade"}
<1>1. /\ job[p].step = "commit"
      /\ job'[p] = Idle
      /\ \A q \in Procs \ {p} : job'[q] = IF Scans(q) THEN Advance(k(q)) ELSE job[q]
      /\ exists' = (exists /\ job[p].op # "delete")
      /\ entries' = (entries \ job[p].rows)
                    \cup (IF job[p].op = "assign"
                            THEN {job[p].crew[i] : i \in DOMAIN job[p].crew} ELSE {})
      /\ job' = [q \in Procs |-> IF q = p THEN Idle
                                 ELSE IF Scans(q) THEN Advance(k(q)) ELSE job[q]]
  BY DEF Commit, At
<1>2. job[p] \in Job /\ OnRoute(job[p]) /\ Covers(job[p]) /\ job[p].todo = <<>> /\ p \in Connected
  BY <1>1, Mover DEF OnRoute, Scanning, Off
<1>3. ASSUME NEW q \in Procs \ {p}, Scans(q)
      PROVE  /\ OnRoute(k(q)) /\ k(q).held = job[q].held /\ k(q).step = job[q].step
             /\ k(q).op = job[q].op /\ k(q).rows = job[q].rows
             /\ Left(job[q]) \ job[p].rows \subseteq Left(k(q))
  <2> DEFINE todo == Without(job[q].todo, job[p].rows)
  <2>1. job[q] \in Job /\ OnRoute(job[q]) /\ Routed(job[q]) /\ job[q].todo \in Seq(Technicians)
    BY Mover DEF Job
  <2>2. /\ todo \in Seq(Technicians) /\ Len(todo) <= Len(job[q].todo)
        /\ \A i \in 1 .. Len(job[q].todo) : job[q].todo[i] \notin job[p].rows =>
             \E m \in 1 .. Len(todo) : todo[m] = job[q].todo[i]
    BY <2>1, WithoutKeeps
  <2> HIDE DEF todo
  <2>3. /\ k(q) \in Job /\ k(q).held = job[q].held /\ k(q).step = job[q].step
        /\ k(q).op = job[q].op /\ k(q).rows = job[q].rows /\ k(q).crew = job[q].crew
        /\ k(q).todo = todo
    BY <2>1, <2>2 DEF Job, todo
  <2> HIDE DEF k
  <2>4. Len(todo) \in Nat /\ Len(job[q].todo) \in Nat
    BY <2>1, <2>2
  <2>5. job[q].todo # <<>>
    BY <1>3, <2>1 DEF Routed, Scanning
  <2>6. OnRoute(k(q))
    BY <1>3, <2>1, <2>2, <2>3, <2>4, <2>5 DEF OnRoute, Scanning
  <2>7. Left(job[q]) \ job[p].rows \subseteq Left(k(q))
    BY <2>2, <2>3 DEF Left
  <2> QED
    BY <2>3, <2>6, <2>7
<1> HIDE DEF k
<1>4. exists' \in BOOLEAN /\ entries' \subseteq Technicians
  <2>1. \A i \in DOMAIN job[p].crew : job[p].crew[i] \in Technicians
    BY <1>2 DEF Job
  <2> QED
    BY <1>1, <2>1 DEF IInv
<1>5. ASSUME NEW q \in Procs
      PROVE  /\ Routed(job'[q])
             /\ job'[q].held \subseteq job[q].held
             /\ q \in Connected' => q \in Connected
  <2>1. CASE q = p
    <3>1. Routed(Idle) /\ Idle.held = {}
      BY DEF Idle, Routed, OnRoute, Job, Ops, Steps, Route, Scanning
    <3> QED
      BY <1>1, <1>2, <2>1, <3>1
  <2>2. CASE q # p /\ Scans(q)
    BY <1>1, <1>3, <2>2, Advanced DEF Connected, Off
  <2>3. CASE q # p /\ ~ Scans(q)
    BY <1>1, <2>3, Mover DEF Connected
  <2> QED
    BY <2>1, <2>2, <2>3
<1>6. Exclusion'
  BY <1>5 DEF IInv, Exclusion
<1>7. Cardinality(Connected)' <= PoolMax
  <2>1. Connected' \subseteq Connected
    BY <1>5 DEF Connected
  <2> QED
    BY <2>1, ConnectedIsFinite, WaitsAssumption DEF IInv
<1>8. ASSUME NEW q \in Procs
      PROVE  Covers(job[q])'
  <2>1. CASE q = p
    BY <1>1, <2>1 DEF Covers, Idle
  <2>2. CASE q # p
    <3> DEFINE j == IF Scans(q) THEN k(q) ELSE job[q]
    <3>1. job'[q] = (IF Scans(q) THEN Advance(j) ELSE j) /\ (Scans(q) => OnRoute(j))
      BY <1>1, <1>3, <2>2
    <3>2. /\ j.op = job[q].op /\ j.step = job[q].step /\ j.rows = job[q].rows
          /\ Left(job[q]) \ job[p].rows \subseteq Left(j)
      BY <1>3, <2>2
    <3>3. Covers(job[q])
      BY Mover
    <3> HIDE DEF j
    <3>4. ASSUME job[q].op = "delete", job[q].step \in {"cascade", "commit"}
          PROVE  exists' /\ entries' \subseteq j.rows \cup Left(j)
      <4>1. job[p].op = "remove"
        BY <1>1, <2>2, <3>4, CommitAlone
      <4>2. exists' = exists /\ entries' = entries \ job[p].rows
        BY <1>1, <4>1 DEF IInv
      <4> QED
        BY <3>2, <3>3, <3>4, <4>2 DEF Covers
    <3>5. ASSUME job[q].op = "assign", job[q].step = "commit"
          PROVE  exists'
      <4>1. OnRoute(job[q])
        BY Mover
      <4>2. RowLock("share") \in job[q].held
        BY <3>5, <4>1 DEF OnRoute
      <4>3. RowLock("exclusive") \notin job[p].held
        BY <2>2, <4>2 DEF IInv, Exclusion, Conflict, RowLock
      <4>4. job[p].op # "delete"
        BY <1>1, <1>2, <4>3 DEF OnRoute
      <4> QED
        BY <1>1, <3>3, <3>5, <4>4 DEF Covers
    <3>6. /\ j.op = "delete" /\ j.step \in {"cascade", "commit"} =>
               exists' /\ entries' \subseteq j.rows \cup Left(j)
          /\ j.op = "assign" /\ j.step = "commit" => exists'
      BY <3>2, <3>4, <3>5
    <3>7. CASE ~ Scans(q)
      BY <3>1, <3>6, <3>7 DEF Covers, Left
    <3>8. CASE Scans(q)
      BY <3>1, <3>6, <3>8, Advanced DEF Covers, Left
    <3> QED
      BY <3>7, <3>8
  <2> QED
    BY <2>1, <2>2
<1>9. NoOrphans'
  <2>1. CASE ~ exists
    BY <1>1, <1>2, <2>1 DEF IInv, NoOrphans, Covers
  <2>2. CASE exists /\ job[p].op = "delete"
    <3>1. Left(job[p]) = {}
      BY <1>2 DEF Left
    <3> QED
      BY <1>1, <1>2, <2>2, <3>1 DEF NoOrphans, Covers
  <2>3. CASE exists /\ job[p].op # "delete"
    BY <1>1, <2>3 DEF NoOrphans
  <2> QED
    BY <2>1, <2>2, <2>3
<1>10. job' \in [Procs -> Job]
  BY <1>1, <1>5 DEF Routed, OnRoute
<1> QED
  BY <1>4, <1>5, <1>6, <1>7, <1>8, <1>9, <1>10 DEF IInv

\* No handler is there at first.
LEMMA InitHolds == Init => IInv
<1> SUFFICES ASSUME Init PROVE IInv
  OBVIOUS
<1>1. Routed(Idle) /\ Covers(Idle) /\ Idle.held = {} /\ Idle \in Job
  BY DEF Idle, Routed, OnRoute, Covers, Job, Ops, Steps, Route, Scanning
<1>2. \A p \in Procs : job[p] = Idle
  BY DEF Init
<1>3. Connected = {}
  BY <1>2 DEF Connected, Idle
<1>4. Cardinality(Connected) <= PoolMax
  BY <1>3, FS_EmptySet, WaitsAssumption
<1> QED
  BY <1>1, <1>2, <1>4 DEF Init, IInv, Exclusion, NoOrphans

\* Every step keeps the invariant.
LEMMA StepKeeps == IInv /\ [Next]_vars => IInv'
<1> SUFFICES ASSUME IInv, [Next]_vars PROVE IInv'
  OBVIOUS
<1>1. CASE UNCHANGED vars
  BY <1>1 DEF vars, IInv, Covers, Exclusion, NoOrphans, Connected, Left
<1>2. ASSUME NEW p \in Procs, NEW j, Local(p, j) PROVE IInv'
  BY <1>2, LocalKeeps
<1>3. ASSUME NEW p \in Procs, Start(p) PROVE IInv'
  BY <1>2, <1>3, StartIsLocal
<1>4. ASSUME NEW p \in Procs, Move(p) PROVE IInv'
  BY <1>2, <1>4, LookUpIsLocal, ConnectIsLocal, ReadIsLocal, DeleteEntryIsLocal,
     InsertEntryIsLocal, CheckRequestIsLocal, LockRequestIsLocal, CommitKeeps DEF Move
<1>5. ASSUME NEW p \in Procs, Weather(p) \/ GiveUp(p)
      PROVE  IInv'
  BY <1>2, <1>5, ReadIsLocal
<1> QED
  BY <1>1, <1>3, <1>4, <1>5 DEF Next

\* So it always holds.
LEMMA Inductive == Spec => []IInv
  BY InitHolds, StepKeeps, PTL DEF Spec

-----------------------------------------------------------------------------
\* Circles

\* Who waits and is waited for is in a statement that takes one lock after another.
LEMMA InCircle ==
  ASSUME IInv, NEW p \in Procs, Wanted(p) # {}, job[p].held # {}
  PROVE  \/ job[p].op = "assign"
         \/ job[p].op = "delete" /\ RowLock("exclusive") \in job[p].held
<1>1. Routed(job[p]) /\ job[p] \in Job
  BY Mover
<1>2. job[p].step \in {"clear", "fill", "cascade", "check"}
  BY <1>1 DEF Wanted, At, Routed, OnRoute
<1> QED
  BY <1>1, <1>2 DEF Routed, OnRoute, Job, Ops, Route, Scanning

\* No circle without a replacement in it, and nobody else but deletions.
LEMMA CirclesNeedReplacement == IInv => CircleNeedsReplacement
<1> SUFFICES ASSUME IInv, NEW S \in SUBSET Procs, Circle(S)
             PROVE  /\ \E p \in S : job[p].op = "assign"
                    /\ \A p \in S : job[p].op \in {"assign", "delete"}
  BY DEF CircleNeedsReplacement
<1>1. ASSUME NEW p \in S
      PROVE  \/ job[p].op = "assign"
             \/ job[p].op = "delete" /\ RowLock("exclusive") \in job[p].held
  <2>1. Wanted(p) # {} /\ job[p].held # {}
    BY <1>1 DEF Circle, WaitsFor
  <2> QED
    BY <2>1, InCircle
<1>2. PICK p \in S, q \in S : p # q
  BY DEF Circle, WaitsFor
<1>3. job[p].op = "assign" \/ job[q].op = "assign"
  BY <1>1, <1>2 DEF IInv, Exclusion, Conflict, RowLock
<1> QED
  BY <1>1, <1>3

\* Among finitely many who all wait for one another, some go round in a circle: in the
\* smallest such set, whoever is not waited for could be left out.
LEMMA SomeCircle ==
  ASSUME NEW W \in SUBSET Procs, W # {}, \A p \in W : \E q \in W : WaitsFor(p, q)
  PROVE  \E S \in SUBSET Procs : Circle(S)
<1> DEFINE Closed == {T \in SUBSET Procs : T # {} /\ \A p \in T : \E q \in T : WaitsFor(p, q)}
<1>1. IsWellFoundedOn(StrictSubsetOrdering(Procs), SUBSET Procs)
  BY WaitsAssumption, FS_FiniteSubsetsOfFinite, FS_StrictSubsetOrderingWellFounded
<1>2. Closed \subseteq SUBSET Procs /\ Closed # {}
  OBVIOUS
<1>3. PICK T \in Closed : \A U \in Closed : <<U, T>> \notin StrictSubsetOrdering(Procs)
  <2> HIDE DEF Closed
  <2> QED
    BY <1>1, <1>2, WFMin
<1> DEFINE U == {q \in T : \E p \in T : WaitsFor(p, q)}
<1>4. U \in Closed /\ U \subseteq T
  OBVIOUS
<1>5. U = T
  BY <1>2, <1>3, <1>4 DEF StrictSubsetOrdering
<1>6. \A p \in T : (\E q \in T : WaitsFor(p, q)) /\ \E q \in T : WaitsFor(q, p)
  BY <1>5
<1>7. Circle(T) /\ T \in SUBSET Procs
  BY <1>6 DEF Circle
<1> QED
  BY <1>7

\* A full pool moves.
LEMMA FullPoolMoves == IInv => PoolMoves
<1> SUFFICES ASSUME IInv, Cardinality(Connected) = PoolMax, \A p \in Connected : Stuck(p)
             PROVE  \E S \in SUBSET Procs : Circle(S)
  BY DEF PoolMoves
<1>1. Connected \subseteq Procs /\ Connected # {}
  BY FS_EmptySet, WaitsAssumption DEF Connected
<1>2. ASSUME NEW p \in Connected PROVE \E q \in Connected : WaitsFor(p, q)
  <2>1. PICK q \in Procs : WaitsFor(p, q)
    BY <1>2 DEF Stuck, Connected, At, Granted
  <2>2. q \in Connected
    BY <2>1, Mover DEF WaitsFor, OnRoute, Off
  <2> QED
    BY <2>1, <2>2
<1> QED
  BY <1>1, <1>2, SomeCircle

-----------------------------------------------------------------------------

\* Every handler is at a step of its operation, and only one with a connection holds
\* a lock, for any number of handlers and connections.
THEOREM TypeCorrect == Spec => []TypeOK
<1>1. ASSUME IInv PROVE TypeOK
  <2>1. \A p \in Procs : job[p] \in Job /\ (job[p].held # {} => p \in Connected)
    BY <1>1, Mover DEF OnRoute, Off
  <2> QED
    BY <1>1, <2>1 DEF IInv, TypeOK, Job
<1> QED
  BY <1>1, Inductive, PTL

\* Deletions, removals and changes of status never deadlock among themselves: the
\* request is always locked before its assignees.
THEOREM DeadlocksNeedReplacement == Spec => []CircleNeedsReplacement
  BY Inductive, CirclesNeedReplacement, PTL

\* Handlers that fill the pool never wait for anything outside it, but for one
\* another in a circle, which PostgreSQL breaks.
THEOREM PoolAlwaysMoves == Spec => []PoolMoves
  BY Inductive, FullPoolMoves, PTL

\* No assignee outlives its request, whatever the order of the locks.
THEOREM NeverOrphans == Spec => []NoOrphans
<1>1. IInv => NoOrphans
  BY DEF IInv
<1> QED
  BY <1>1, Inductive, PTL
=============================================================================
