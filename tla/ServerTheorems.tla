--------------------------- MODULE ServerTheorems ---------------------------
(***************************************************************************)
(* What is proved of ServerLifecycle for any number of connections, any    *)
(* number of attempts and any time limit, and then of Container, which     *)
(* starts one process after another, for any number of faults as well.     *)
(***************************************************************************)
EXTENDS Container, SequenceTheorems, TLAPS

-----------------------------------------------------------------------------
\* The process

\* gracefulShutdown closes the server, if there is one, before the pool: stop tells
\* which of the two has begun.
Order == /\ stop = "no"   => pool = "open" /\ ~ served
         /\ stop = "http" => pool = "open" /\ served
         /\ stop = "pool" => pool # "open"
         /\ served => boot = "closed"

\* waitForDatabase waits only before an attempt that it may still make.
MoreAttempts == boot = "backoff" => attempt < MaxAttempts

IInv == TypeOK /\ Order /\ MoreAttempts /\ PoolOutlivesClients /\ SuccessIsClean

-----------------------------------------------------------------------------

\* A process that starts satisfies the invariant.
LEMMA InitHolds == Init => IInv
<1> SUFFICES ASSUME Init PROVE IInv
  OBVIOUS
<1>1. served = FALSE /\ served \in BOOLEAN
  BY DEF Init
<1>2. /\ boot \in Boots /\ attempt \in 1..MaxAttempts /\ conn \in [Conns -> ConnStates]
      /\ elapsed \in 0..ForceAfter /\ elapsed = 0
  BY BoundsAssumption DEF Init, Boots, ConnStates
<1>3. TypeOK
  BY <1>1, <1>2, BoundsAssumption DEF Init, TypeOK
<1>4. Order /\ MoreAttempts /\ PoolOutlivesClients /\ SuccessIsClean
  BY <1>1 DEF Init, Order, MoreAttempts, PoolOutlivesClients, SuccessIsClean
<1> QED
  BY <1>3, <1>4 DEF IInv

\* So it does when gracefulShutdown begins.
LEMMA ShutdownKeeps ==
  ASSUME IInv, Running, stop = "no", NEW why \in {"signal", "error"}, Shutdown(why),
         UNCHANGED <<attempt, elapsed, exit>>
  PROVE  IInv'
<1> USE DEF IInv, Running, HasServer, Shutdown
<1>1. TypeOK'
  BY DEF TypeOK, Boots, ConnStates
<1>2. Order' /\ MoreAttempts' /\ SuccessIsClean'
  BY DEF Order, MoreAttempts, SuccessIsClean
<1>3. PoolOutlivesClients'
  BY DEF Order, PoolOutlivesClients
<1> QED
  BY <1>1, <1>2, <1>3

\* Steps of startServer.
LEMMA BootKeeps ==
  ASSUME IInv, StartServer \/ Listening \/ PortTaken
  PROVE  IInv'
<1> USE DEF IInv, Running, StartServer, Connected, NotConnected, Retry, Listening, PortTaken
<1>1. TypeOK'
  BY BoundsAssumption DEF TypeOK, Boots, MoreAttempts
<1>2. Order' /\ PoolOutlivesClients' /\ SuccessIsClean'
  BY DEF Order, PoolOutlivesClients, SuccessIsClean
<1>3. MoreAttempts'
  BY BoundsAssumption DEF MoreAttempts, TypeOK
<1> QED
  BY <1>1, <1>2, <1>3

\* The rest of gracefulShutdown: the pool is taken only after the last client, and
\* success is reported only when the pool is closed.
LEMMA StopKeeps ==
  ASSUME IInv, HttpClosed \/ PoolClosed \/ PoolError \/ Tick \/ ForceExit
  PROVE  IInv'
<1> USE DEF IInv, Running, HttpClosed, PoolClosed, PoolError, Tick, ForceExit
<1>1. TypeOK'
  BY BoundsAssumption DEF TypeOK, ExitCode
<1>2. Order' /\ MoreAttempts'
  BY DEF Order, MoreAttempts
<1>3. PoolOutlivesClients'
  BY DEF Order, PoolOutlivesClients
<1>4. SuccessIsClean'
  BY DEF Order, PoolOutlivesClients, SuccessIsClean, ExitCode, TypeOK
<1> QED
  BY <1>1, <1>2, <1>3, <1>4

\* A connection is opened only by a server that is open, and a request comes only on a
\* connection that is kept alive; a closed server has none when the pool goes.
LEMMA ConnectionKeeps ==
  ASSUME IInv, NEW c \in Conns,
         Accept(c) \/ Request(c) \/ Leave(c) \/ \E keep \in BOOLEAN : Respond(c, keep)
  PROVE  IInv'
<1>0. PICK to \in ConnStates :
        /\ conn' = [conn EXCEPT ![c] = to]
        /\ to \in {"idle", "busy"} => conn[c] \in {"idle", "busy"} \/ boot = "open"
  BY DEF IInv, TypeOK, ConnStates, Accept, Request, Leave, Respond
<1>1. UNCHANGED <<boot, attempt, stop, reason, served, pool, elapsed, exit>> /\ Running
  BY DEF Accept, Request, Leave, Respond
<1>2. TypeOK' /\ Order' /\ MoreAttempts' /\ SuccessIsClean'
  BY <1>0, <1>1 DEF IInv, TypeOK, Order, MoreAttempts, SuccessIsClean, Running
<1>3. PoolOutlivesClients'
  BY <1>0, <1>1 DEF IInv, Order, PoolOutlivesClients, TypeOK, ConnStates
<1> QED
  BY <1>2, <1>3 DEF IInv

\* Every step of the process keeps the invariant.
LEMMA StepKeeps == IInv /\ [Next]_vars => IInv'
<1> SUFFICES ASSUME IInv, [Next]_vars PROVE IInv'
  OBVIOUS
<1>1. CASE Exited \/ UNCHANGED vars
  BY <1>1 DEF Exited, vars, IInv, TypeOK, Order, MoreAttempts, PoolOutlivesClients, SuccessIsClean
<1>2. CASE Signal \/ Uncaught
  BY <1>2, ShutdownKeeps DEF Signal, Uncaught
<1> QED
  BY <1>1, <1>2, BootKeeps, StopKeeps, ConnectionKeeps DEF Next

\* So it always holds.
LEMMA Inductive == Spec => []IInv
  BY InitHolds, StepKeeps, PTL DEF Spec

-----------------------------------------------------------------------------

\* Every part of the process always holds a value of its type; in particular
\* waitForDatabase never makes more than MaxAttempts attempts.
THEOREM TypeCorrect == Spec => []TypeOK
<1>1. IInv => TypeOK
  BY DEF IInv
<1> QED
  BY <1>1, Inductive, PTL

\* No client of a closed server waits for an answer once the pool is being taken away,
\* whenever the signal, the error or the clients' requests come.
THEOREM PoolGoesLast == Spec => []PoolOutlivesClients
<1>1. IInv => PoolOutlivesClients
  BY DEF IInv
<1> QED
  BY <1>1, Inductive, PTL

\* Exit code 0 is only given for a signal, with the pool closed and no client unanswered.
THEOREM SuccessMeansClean == Spec => []SuccessIsClean
<1>1. IInv => SuccessIsClean
  BY DEF IInv
<1> QED
  BY <1>1, Inductive, PTL

-----------------------------------------------------------------------------
\* The container

\* What the running migration has done is there, although nothing records it yet.
DoneSoFar == phase = "migrate" /\ meta < Len(Migrations) =>
               \A i \in 1..at : Migrations[meta + 1][i].makes \in schema

\* Nothing is seeded or served before the last migration is recorded.
MigratedFirst == phase \in {"seed", "serve"} => meta = Len(Migrations)

\* The sites are the first rows to be seeded and no route deletes one.  They tell
\* whether any seeder ever ran: a second run fails on them, at its first statement.
SitesTell == /\ rows["sites"] # "gone"
             /\ rows["sites"] = "none" => \A t \in Seeded : rows[t] = "none"
             /\ phase = "seed" /\ at > 0 =>
                  /\ rows["sites"] = "demo"
                  /\ \A i \in at + 1 .. Len(Seeders) : rows[Seeders[i]] = "none"

\* The inductive invariant of the container.
CInv == IInv /\ ContainerTypeOK /\ DoneSoFar /\ MigratedFirst /\ MetaIsTrue /\ SitesTell

-----------------------------------------------------------------------------
\* The migrations and the seeders

\* There are nine migrations and eight tables to seed.
LEMMA Counts == Len(Migrations) = 9 /\ Len(Seeders) = 8
<1>1. Len(Migrations) = 9
  BY DEF Migrations
<1> DEFINE Names == {"sites", "equipment", "equipment_passports", "technicians",
                     "maintenance_requests", "request_assignees", "request_status_history",
                     "users"}
<1>2. /\ SeedDemoData \in Seq(Names) /\ SeedDemoUsers \in Seq(Names)
      /\ Len(SeedDemoData) = 7 /\ Len(SeedDemoUsers) = 1
  BY DEF SeedDemoData, SeedDemoUsers
<1> HIDE DEF Names
<1>3. Len(Seeders) = Len(SeedDemoData) + Len(SeedDemoUsers)
  BY <1>2, ConcatProperties, Zenon DEF Seeders
<1> QED
  BY <1>1, <1>2, <1>3

\* A migration has one statement or two.
LEMMA MigrationSizes ==
  \A m \in 1..9 : Len(Migrations[m]) \in {1, 2} /\ DOMAIN Migrations[m] = 1 .. Len(Migrations[m])
<1>1. \A m \in 1..9 : Migrations[m] \in
        {CreateSites, CreateEquipment, CreatePassports, CreateRequests, CreateTechnicians,
         CreateAssignees, CreateStatusHistory, CreateUsers, CreateRefreshTokens}
  BY DEF Migrations
<1>2. ASSUME NEW x PROVE Len(<<x>>) = 1 /\ DOMAIN <<x>> = 1..1
  OBVIOUS
<1>3. ASSUME NEW x, NEW y PROVE Len(<<x, y>>) = 2 /\ DOMAIN <<x, y>> = 1..2
  OBVIOUS
<1>4. Len(CreateAssignees) = 2 /\ DOMAIN CreateAssignees = 1..2
  BY <1>3 DEF CreateAssignees
<1>5. ASSUME NEW s \in {CreateSites, CreateEquipment, CreatePassports, CreateRequests,
                        CreateTechnicians, CreateStatusHistory, CreateUsers, CreateRefreshTokens}
      PROVE  Len(s) = 1 /\ DOMAIN s = 1..1
  <2>1. PICK x : s = <<x>>
    BY DEF CreateSites, CreateEquipment, CreatePassports, CreateRequests, CreateTechnicians,
           CreateStatusHistory, CreateUsers, CreateRefreshTokens
  <2> QED
    BY <1>2, <2>1
<1>6. ASSUME NEW m \in 1..9
      PROVE  Len(Migrations[m]) \in {1, 2} /\ DOMAIN Migrations[m] = 1 .. Len(Migrations[m])
  <2>1. CASE Migrations[m] = CreateAssignees
    BY <1>4, <2>1
  <2>2. CASE Migrations[m] # CreateAssignees
    BY <1>1, <1>5, <2>2
  <2> QED
    BY <2>1, <2>2
<1> QED
  BY <1>1, <1>6

\* The next migration after m recorded ones.
LEMMA NextSize == ASSUME NEW m \in 0..8 PROVE Len(Migrations[m + 1]) \in {1, 2}
<1>1. m + 1 \in 1..9
  OBVIOUS
<1> QED
  BY <1>1, MigrationSizes

\* The seeders insert into eight different tables, the sites first.
LEMMA SeedersAre ==
  /\ \A i \in 1..8 : Seeders[i] \in Seeded
  /\ \A i, j \in 1..8 : Seeders[i] = Seeders[j] => i = j
  /\ Seeders[1] = "sites"
  /\ {"maintenance_requests", "request_assignees", "equipment"} \subseteq Seeded
<1> DEFINE Names == {"sites", "equipment", "equipment_passports", "technicians",
                     "maintenance_requests", "request_assignees", "request_status_history",
                     "users"}
<1>1. /\ SeedDemoData \in Seq(Names) /\ Len(SeedDemoData) = 7
      /\ SeedDemoUsers \in Seq(Names) /\ Len(SeedDemoUsers) = 1
  BY DEF SeedDemoData, SeedDemoUsers
<1>2. /\ DOMAIN Seeders = 1..8
      /\ \A i \in 1..7 : Seeders[i] = SeedDemoData[i]
      /\ Seeders[8] = SeedDemoUsers[1]
  <2> HIDE DEF Names
  <2>1. /\ Seeders \in Seq(Names)
        /\ Len(Seeders) = Len(SeedDemoData) + Len(SeedDemoUsers)
        /\ \A i \in 1 .. Len(SeedDemoData) + Len(SeedDemoUsers) :
             Seeders[i] = IF i <= Len(SeedDemoData) THEN SeedDemoData[i]
                          ELSE SeedDemoUsers[i - Len(SeedDemoData)]
    BY <1>1, ConcatProperties, Zenon DEF Seeders
  <2> QED
    BY <1>1, <2>1
<1>3. /\ Seeders[1] = "sites" /\ Seeders[2] = "equipment" /\ Seeders[3] = "equipment_passports"
      /\ Seeders[4] = "technicians" /\ Seeders[5] = "maintenance_requests"
      /\ Seeders[6] = "request_assignees" /\ Seeders[7] = "request_status_history"
      /\ Seeders[8] = "users"
  BY <1>2 DEF SeedDemoData, SeedDemoUsers
<1> QED
  BY <1>2, <1>3 DEF Seeded

\* The statements of one more migration are all that its record adds.
LEMMA MadeGrows ==
  ASSUME NEW n \in Nat
  PROVE  /\ Made(n + 1) = Made(n) \cup {Migrations[n + 1][i].makes : i \in DOMAIN Migrations[n + 1]}
         /\ \A m \in 1..n : \A i \in DOMAIN Migrations[m] : Migrations[m][i].makes \in Made(n)
<1>1. 1 .. n + 1 = (1..n) \cup {n + 1}
  OBVIOUS
<1> QED
  BY <1>1 DEF Made

-----------------------------------------------------------------------------
\* The steps of the container

\* Process 1 may be killed at any moment: a process that was not there reports no
\* success.
LEMMA ExitKeeps == ASSUME IInv, ExitShell PROVE IInv'
  BY DEF ExitShell, IInv, TypeOK, Order, MoreAttempts, PoolOutlivesClients, SuccessIsClean

\* The next process begins as the first one did.
LEMMA BegunKeeps == ASSUME Begun PROVE IInv'
<1>1. Init'
  BY DEF Begun, Init
<1>2. (Init => IInv)'
  BY InitHolds, PTL
<1> QED
  BY <1>1, <1>2

\* The process keeps its invariant, whatever the container does to it.
LEMMA ProcessKept == ASSUME IInv, [ContainerNext]_containerVars PROVE IInv'
<1>1. CASE ExitShell
  BY <1>1, ExitKeeps
<1>2. CASE Begun
  BY <1>2, BegunKeeps
<1>3. CASE [Next]_vars
  BY <1>3, StepKeeps
<1>4. Signal => Next
  BY DEF Next
<1> QED
  BY <1>1, <1>2, <1>3, <1>4
     DEF ContainerNext, containerVars, Shell, PortOpen, ApplyStatement, RecordMigration, Migrated,
         SeedStatement, SeedsDone, MigrateBreaks, SeedBreaks, Serve, Serving, DeleteDemo, Kill,
         Restart, DockerStop, GraceOver, DockerStart

\* Steps that neither move the script nor touch the database.
Aside == \/ Serve \/ MigrateBreaks \/ Kill \/ DockerStop \/ GraceOver

\* Before exec they leave the server where it has not begun.
LEMMA AsideKeeps ==
  ASSUME CInv, Aside
  PROVE  /\ UNCHANGED <<phase, at, seeding, database>>
         /\ stopped' \in {"no", "heard", "ignored"}
         /\ faults' \in 0..MaxFaults
         /\ phase # "serve" => UNCHANGED <<boot, stop, conn>>
<1> USE DEF CInv, ContainerTypeOK
<1>1. CASE Serve
  BY <1>1 DEF Serve, Serving, shellVars, database
<1>2. CASE MigrateBreaks \/ Kill
  BY <1>2, ContainerAssumption
     DEF MigrateBreaks, Kill, Fault, ExitShell, In, shellVars, database
<1>3. CASE DockerStop
  BY <1>3 DEF DockerStop, shellVars, database, vars
<1>4. CASE GraceOver
  BY <1>4 DEF GraceOver, ExitShell, shellVars, database
<1> QED
  BY <1>1, <1>2, <1>3, <1>4 DEF Aside

\* ContainerTypeOK in parts: the process, the cursor, and the rest.
CursorInside ==
  /\ at \in Nat
  /\ phase = "migrate" /\ meta < 9 => at <= Len(Migrations[meta + 1])
  /\ phase = "seed" => at <= 8
  /\ phase # "seed" /\ ~ (phase = "migrate" /\ meta < 9) => at = 0

RestTyped ==
  /\ phase \in {"wait", "migrate", "seed", "serve"}
  /\ seeding \in {"unasked", "applied", "skipped"}
  /\ stopped \in {"no", "heard", "ignored"}
  /\ meta \in 0..9
  /\ schema \subseteq Made(9)
  /\ rows \in [Seeded -> {"none", "demo", "gone"}]
  /\ faults \in 0 .. MaxFaults
  /\ phase # "serve" => boot = "connect" /\ stop = "no" /\ \A c \in Conns : conn[c] = "none"

\* Together they are ContainerTypeOK.
LEMMA TypeInParts == ContainerTypeOK <=> TypeOK /\ CursorInside /\ RestTyped
<1> DEFINE bound == CASE phase = "migrate" /\ meta < Len(Migrations) -> Len(Migrations[meta + 1])
                      [] phase = "seed" -> Len(Seeders)
                      [] OTHER -> 0
<1>1. ASSUME RestTyped PROVE at \in 0 .. bound <=> CursorInside
  <2>1. CASE phase = "migrate" /\ meta < 9
    <3>1. Len(Migrations[meta + 1]) \in {1, 2}
      <4> HIDE DEF bound
      <4>1. meta \in 0..8
        BY <1>1, <2>1 DEF RestTyped
      <4> QED
        BY <4>1, NextSize
    <3>2. bound = Len(Migrations[meta + 1])
      BY <2>1, Counts
    <3> HIDE DEF bound
    <3> QED
      BY <2>1, <3>1, <3>2 DEF CursorInside
  <2>2. CASE phase = "seed"
    <3>1. bound = 8
      BY <2>2, Counts
    <3> HIDE DEF bound
    <3> QED
      BY <2>2, <3>1 DEF CursorInside
  <2>3. CASE phase # "seed" /\ ~ (phase = "migrate" /\ meta < 9)
    <3>1. bound = 0
      BY <2>3, Counts
    <3> HIDE DEF bound
    <3> QED
      BY <2>3, <3>1 DEF CursorInside
  <2> QED
    BY <2>1, <2>2, <2>3
<1>2. ContainerTypeOK <=> TypeOK /\ at \in 0 .. bound /\ RestTyped
  <2> HIDE DEF bound
  <2> QED
    BY Counts DEF ContainerTypeOK, RestTyped, bound
<1> QED
  BY <1>1, <1>2

\* What the steps of the script do to the cursor.
LEMMA ScriptMoves ==
  /\ PortOpen => /\ phase = "wait" /\ phase' = "migrate"
                 /\ UNCHANGED <<at, meta, schema, rows>>
  /\ ApplyStatement =>
       /\ phase = "migrate" /\ meta < 9 /\ at < Len(Migrations[meta + 1])
       /\ UNCHANGED <<phase, meta, rows>>
       /\ \/ at' = at /\ schema' = schema
          \/ at' = at + 1 /\ schema' = schema \cup {Migrations[meta + 1][at + 1].makes}
  /\ RecordMigration =>
       /\ phase = "migrate" /\ meta < 9 /\ at = Len(Migrations[meta + 1])
       /\ phase' = phase /\ meta' = meta + 1 /\ at' = 0
       /\ UNCHANGED <<schema, rows>>
  /\ Migrated => /\ phase = "migrate" /\ phase' \in {"seed", "serve"} /\ meta = 9
                 /\ UNCHANGED <<at, meta, schema, rows>>
  /\ SeedStatement =>
       /\ phase = "seed" /\ at < 8
       /\ UNCHANGED <<meta, schema>>
       /\ \/ phase' = "serve" /\ at' = 0 /\ rows' = rows
          \/ /\ phase' = phase /\ at' = at + 1
             /\ rows[Seeders[at + 1]] # "demo"
             /\ rows' = [rows EXCEPT ![Seeders[at + 1]] = "demo"]
  /\ SeedBreaks \/ SeedsDone =>
       /\ phase = "seed" /\ phase' = "serve" /\ at' = 0
       /\ UNCHANGED <<meta, schema, rows>>
  /\ Begun => /\ phase' = "wait" /\ at' = 0
              /\ UNCHANGED <<meta, schema, rows>>
  BY Counts DEF PortOpen, ApplyStatement, RecordMigration, Migrated, SeedStatement, SeedBreaks,
                SeedsDone, Begun, In, Launch, database

\* The others leave it where it is.
LEMMA OtherMoves ==
  ASSUME CInv
  PROVE  /\ Aside \/ UNCHANGED containerVars => UNCHANGED <<phase, at, meta, schema, rows>>
         /\ \A t : DeleteDemo(t) => phase = "serve" /\ UNCHANGED <<phase, at, meta, schema>>
<1>1. \A t : DeleteDemo(t) => phase = "serve" /\ UNCHANGED <<phase, at, meta, schema>>
  BY DEF DeleteDemo, In, shellVars
<1> QED
  BY <1>1, AsideKeeps DEF database, containerVars, shellVars

\* The steps of the container, sorted.
LEMMA ContainerSteps ==
  ASSUME [ContainerNext]_containerVars
  PROVE  \/ Aside \/ UNCHANGED containerVars
         \/ \E t \in {"maintenance_requests", "request_assignees", "equipment"} : DeleteDemo(t)
         \/ PortOpen \/ ApplyStatement \/ RecordMigration \/ Migrated
         \/ SeedStatement \/ SeedBreaks \/ SeedsDone \/ Begun
  BY DEF ContainerNext, Shell, Aside, Restart, DockerStart

\* The cursor stays inside what sequelize-cli is doing.
LEMMA CursorKept ==
  ASSUME CInv, [ContainerNext]_containerVars
  PROVE  CursorInside'
<1>0. CursorInside /\ meta \in 0..9 /\ (phase \in {"seed", "serve"} => meta = 9)
  BY TypeInParts, Counts DEF CInv, RestTyped, MigratedFirst
<1> USE DEF CursorInside
<1>1. CASE UNCHANGED <<phase, at, meta>>
  BY <1>0, <1>1
<1>2. CASE at' = 0 /\ meta' \in 0..9
  <2>1. meta' < 9 => 0 <= Len(Migrations[meta' + 1])
    BY <1>2, NextSize
  <2> QED
    BY <1>2, <2>1
<1>3. CASE ApplyStatement
  <2>1. Len(Migrations[meta + 1]) \in Nat
    BY <1>0, <1>3, ScriptMoves, NextSize
  <2> QED
    BY <1>0, <1>3, <2>1, ScriptMoves
<1>4. CASE SeedStatement \/ SeedBreaks \/ SeedsDone
  BY <1>0, <1>4, ScriptMoves
<1>5. PortOpen \/ RecordMigration \/ Migrated \/ Begun => at' = 0 /\ meta' \in 0..9
  BY <1>0, ScriptMoves
<1> HIDE DEF CursorInside
<1> QED
  BY <1>1, <1>2, <1>3, <1>4, <1>5, OtherMoves, ContainerSteps

\* So do the types of the rest.
LEMMA RestKept == ASSUME CInv, [ContainerNext]_containerVars PROVE RestTyped'
<1>0. CursorInside /\ RestTyped /\ (phase \in {"seed", "serve"} => meta = 9)
  BY TypeInParts, Counts DEF CInv, MigratedFirst
<1> USE DEF RestTyped
<1>1. CASE Aside
  BY <1>0, <1>1, AsideKeeps DEF database
<1>2. CASE Begun
  BY <1>0, <1>2 DEF Begun, database
<1>3. CASE PortOpen \/ RecordMigration \/ Migrated
  BY <1>0, <1>3, ScriptMoves DEF PortOpen, RecordMigration, Migrated, vars
<1>4. CASE ApplyStatement
  <2>1. UNCHANGED <<seeding, stopped, faults, boot, stop, conn>>
    BY <1>4 DEF ApplyStatement, ExitShell, vars
  <2>2. Migrations[meta + 1][at + 1].makes \in Made(9)
    <3>1. phase = "migrate" /\ meta < 9 /\ at < Len(Migrations[meta + 1])
      BY <1>4, ScriptMoves
    <3>2. meta + 1 \in 1..9
      BY <1>0, <3>1
    <3> DEFINE statements == Migrations[meta + 1]
    <3>3. Len(statements) \in Nat /\ DOMAIN statements = 1 .. Len(statements)
      BY <3>2, MigrationSizes
    <3>4. at \in Nat
      BY <1>0 DEF CursorInside
    <3> HIDE DEF statements
    <3>5. at < Len(statements)
      BY <3>1 DEF statements
    <3>6. at + 1 \in DOMAIN statements
      BY <3>3, <3>4, <3>5
    <3> QED
      BY <3>2, <3>6, MadeGrows DEF statements
  <2> QED
    BY <1>0, <1>4, <2>1, <2>2, ScriptMoves
<1>5. CASE SeedStatement
  <2>1. /\ seeding' \in {seeding, "skipped"}
        /\ UNCHANGED <<stopped, faults, boot, stop, conn>>
    BY <1>5 DEF SeedStatement, Launch, vars
  <2>2. rows' \in [Seeded -> {"none", "demo", "gone"}]
    BY <1>0, <1>5, ScriptMoves
  <2> QED
    BY <1>0, <1>5, <2>1, <2>2, ScriptMoves
<1>6. CASE SeedBreaks \/ SeedsDone
  <2>1. /\ seeding' \in {"applied", "skipped"} /\ faults' \in 0..MaxFaults
        /\ UNCHANGED <<stopped, boot, stop, conn>>
    BY <1>0, <1>6, ContainerAssumption DEF SeedBreaks, SeedsDone, Launch, Fault, vars
  <2> QED
    BY <1>0, <1>6, <2>1, ScriptMoves
<1>7. ASSUME NEW t \in {"maintenance_requests", "request_assignees", "equipment"}, DeleteDemo(t)
      PROVE  RestTyped'
  <2>1. rows' \in [Seeded -> {"none", "demo", "gone"}]
    BY <1>0, <1>7 DEF DeleteDemo
  <2> QED
    BY <1>0, <1>7, <2>1 DEF DeleteDemo, In, shellVars, vars
<1>8. CASE UNCHANGED containerVars
  BY <1>0, <1>8 DEF containerVars, vars, shellVars, database
<1> QED
  BY <1>1, <1>2, <1>3, <1>4, <1>5, <1>6, <1>7, <1>8, ContainerSteps

\* The types are kept.
LEMMA ContainerTyped == ASSUME CInv, [ContainerNext]_containerVars PROVE ContainerTypeOK'
<1>1. TypeOK'
  BY ProcessKept DEF CInv, IInv
<1>2. (ContainerTypeOK <=> TypeOK /\ CursorInside /\ RestTyped)'
  BY TypeInParts, PTL
<1> QED
  BY <1>1, <1>2, CursorKept, RestKept

\* A migration is recorded when all of its statements are done, and nothing undoes one.
LEMMA MigrationsKept ==
  ASSUME CInv, [ContainerNext]_containerVars
  PROVE  DoneSoFar' /\ MigratedFirst' /\ MetaIsTrue'
<1>0. /\ DoneSoFar /\ MigratedFirst /\ MetaIsTrue /\ CursorInside
      /\ meta \in 0..9 /\ phase \in {"wait", "migrate", "seed", "serve"}
  BY TypeInParts DEF CInv, RestTyped
<1> USE DEF DoneSoFar, MigratedFirst, MetaIsTrue
<1>1. CASE UNCHANGED <<phase, at, meta, schema>>
  BY <1>0, <1>1
<1>2. CASE Begun \/ PortOpen
  <2>1. at' = 0 /\ phase' \in {"wait", "migrate"}
    BY <1>0, <1>2, ScriptMoves DEF CursorInside
  <2> QED
    BY <1>0, <1>2, <2>1, ScriptMoves
<1>3. CASE ApplyStatement
  <2>1. /\ phase = "migrate" /\ phase' = phase /\ meta' = meta /\ schema \subseteq schema'
        /\ \/ at' = at
           \/ at' = at + 1 /\ Migrations[meta + 1][at + 1].makes \in schema'
    BY <1>3, ScriptMoves
  <2>2. ASSUME NEW i \in 1 .. at' PROVE Migrations[meta + 1][i].makes \in schema'
    <3>1. i \in 1..at \/ (at' = at + 1 /\ i = at + 1)
      BY <1>0, <2>1 DEF CursorInside
    <3>2. meta < Len(Migrations)
      BY <1>3, ScriptMoves, Counts
    <3> QED
      BY <1>0, <2>1, <3>1, <3>2
  <2> QED
    BY <1>0, <2>1, <2>2
<1>4. CASE RecordMigration
  <2>1. \A i \in DOMAIN Migrations[meta + 1] : Migrations[meta + 1][i].makes \in schema
    <3>1. DOMAIN Migrations[meta + 1] = 1..at
      BY <1>0, <1>4, ScriptMoves, MigrationSizes
    <3>2. phase = "migrate" /\ meta < Len(Migrations)
      BY <1>4, ScriptMoves, Counts
    <3> QED
      BY <1>0, <3>1, <3>2
  <2>2. Made(meta + 1) \subseteq schema
    BY <1>0, <2>1, MadeGrows
  <2> QED
    BY <1>0, <1>4, <2>2, ScriptMoves
<1>5. CASE Migrated \/ SeedStatement \/ SeedBreaks \/ SeedsDone
  <2>1. UNCHANGED <<meta, schema>> /\ phase' \in {"seed", "serve"} /\ meta = Len(Migrations)
    BY <1>0, <1>5, ScriptMoves, Counts
  <2> QED
    BY <1>0, <2>1
<1> HIDE DEF DoneSoFar, MigratedFirst, MetaIsTrue
<1> QED
  BY <1>1, <1>2, <1>3, <1>4, <1>5, OtherMoves, ContainerSteps

\* Rows are seeded into empty tables only, and what was deleted is not seeded again.
LEMMA SitesKept ==
  ASSUME CInv, [ContainerNext]_containerVars
  PROVE  SitesTell' /\ \A t \in Seeded : rows[t] = "gone" => rows'[t] = "gone"
<1> DEFINE Goal ==
      /\ rows'["sites"] # "gone"
      /\ rows'["sites"] = "none" => \A t \in Seeded : rows'[t] = "none"
      /\ phase' = "seed" /\ at' > 0 => /\ rows'["sites"] = "demo"
                                        /\ \A i \in at' + 1 .. 8 : rows'[Seeders[i]] = "none"
      /\ \A t \in Seeded : rows[t] = "gone" => rows'[t] = "gone"
<1> SUFFICES Goal
  BY Counts DEF SitesTell
<1>0. /\ rows \in [Seeded -> {"none", "demo", "gone"}]
      /\ at \in Nat /\ "sites" \in Seeded
      /\ phase # "seed" /\ phase # "migrate" => at = 0
      /\ phase = "migrate" /\ meta = 9 => at = 0
  BY TypeInParts, SeedersAre DEF CInv, CursorInside, RestTyped
<1>1. /\ rows["sites"] # "gone"
      /\ rows["sites"] = "none" => \A t \in Seeded : rows[t] = "none"
      /\ phase = "seed" /\ at > 0 => /\ rows["sites"] = "demo"
                                      /\ \A i \in at + 1 .. 8 : rows[Seeders[i]] = "none"
  BY Counts DEF CInv, SitesTell
<1>2. CASE UNCHANGED <<phase, at, rows>>
  BY <1>1, <1>2
<1>3. CASE rows' = rows /\ (phase' # "seed" \/ at' = 0)
  BY <1>1, <1>3
<1>4. CASE /\ phase = "seed" /\ at < 8 /\ phase' = phase /\ at' = at + 1
           /\ rows[Seeders[at + 1]] # "demo"
           /\ rows' = [rows EXCEPT ![Seeders[at + 1]] = "demo"]
  <2> DEFINE t == Seeders[at + 1]
  <2>1. t \in Seeded /\ (at = 0 => t = "sites")
    BY <1>0, <1>4, SeedersAre
  <2>2. ASSUME NEW i \in at + 1 .. 8 PROVE rows[Seeders[i]] = "none"
    <3>1. CASE at = 0
      <4>1. rows["sites"] = "none"
        BY <1>0, <1>1, <1>4, <2>1, <3>1
      <4> QED
        BY <1>0, <1>1, <4>1, <3>1, SeedersAre
    <3>2. CASE at # 0
      BY <1>0, <1>1, <1>4, <3>2
    <3> QED
      BY <3>1, <3>2
  <2>3. rows[t] = "none" /\ at + 1 \in 1..8
    BY <1>0, <1>4, <2>2
  <2>4. ASSUME NEW i \in at' + 1 .. 8 PROVE rows'[Seeders[i]] = "none"
    <3>1. i \in at + 1 .. 8 /\ i # at + 1 /\ i \in 1..8
      BY <1>0, <1>4
    <3>2. Seeders[i] # t /\ Seeders[i] \in Seeded
      BY <2>3, <3>1, SeedersAre
    <3> HIDE DEF t
    <3> QED
      BY <1>0, <1>4, <2>2, <3>1, <3>2 DEF t
  <2>5. rows'["sites"] = "demo"
    <3>1. CASE at = 0
      BY <1>0, <1>4, <2>1, <3>1
    <3>2. CASE at # 0
      BY <1>0, <1>1, <1>4, <2>1, <3>2
    <3> QED
      BY <3>1, <3>2
  <2> HIDE DEF t
  <2> QED
    BY <1>0, <1>4, <2>1, <2>3, <2>4, <2>5 DEF t
<1>5. ASSUME NEW t \in {"maintenance_requests", "request_assignees", "equipment"}, DeleteDemo(t)
      PROVE  Goal
  <2>1. /\ phase = "serve" /\ phase' = "serve" /\ rows[t] = "demo"
        /\ rows' = [u \in Seeded |-> IF u \in Cascade(t) /\ rows[u] = "demo" THEN "gone"
                                     ELSE rows[u]]
    BY <1>5 DEF DeleteDemo, In, shellVars
  <2>2. "sites" \notin Cascade(t)
    BY <1>5 DEF Cascade
  <2>3. t \in Seeded
    BY <1>5, SeedersAre
  <2>4. rows'["sites"] = rows["sites"] /\ rows["sites"] # "none"
    BY <1>0, <1>1, <2>1, <2>2, <2>3
  <2> QED
    BY <1>0, <1>1, <2>1, <2>4
<1>6. Begun \/ PortOpen \/ Migrated \/ SeedBreaks \/ SeedsDone \/ ApplyStatement \/ RecordMigration =>
        rows' = rows /\ (phase' # "seed" \/ at' = 0)
  BY <1>0, ScriptMoves
<1>7. SeedStatement => \/ rows' = rows /\ phase' # "seed"
                       \/ /\ phase = "seed" /\ at < 8 /\ phase' = phase /\ at' = at + 1
                          /\ rows[Seeders[at + 1]] # "demo"
                          /\ rows' = [rows EXCEPT ![Seeders[at + 1]] = "demo"]
  BY ScriptMoves
<1> HIDE DEF Goal
<1> QED
  BY <1>2, <1>3, <1>4, <1>5, <1>6, <1>7, OtherMoves, ContainerSteps

\* A container that starts for the first time, on an empty database.
LEMMA InitContainer == ASSUME ContainerInit PROVE CInv
<1>1. IInv
  BY InitHolds DEF ContainerInit
<1>2. CursorInside /\ RestTyped
  BY MigrationSizes, ContainerAssumption DEF ContainerInit, CursorInside, RestTyped, Init
<1>3. MetaIsTrue
  BY DEF ContainerInit, MetaIsTrue, Made
<1>4. DoneSoFar /\ MigratedFirst /\ SitesTell
  BY SeedersAre DEF ContainerInit, DoneSoFar, MigratedFirst, SitesTell
<1> QED
  BY <1>1, <1>2, <1>3, <1>4, TypeInParts DEF CInv, IInv

\* Every step of the container keeps its invariant.
LEMMA ContainerKept == ASSUME CInv, [ContainerNext]_containerVars PROVE CInv'
<1>1. IInv
  BY DEF CInv
<1>2. SitesTell'
  BY SitesKept
<1> QED
  BY <1>1, <1>2, ProcessKept, ContainerTyped, MigrationsKept DEF CInv

\* So it always holds.
LEMMA ContainerInductive == ContainerSpec => []CInv
  BY InitContainer, ContainerKept, PTL DEF ContainerSpec

-----------------------------------------------------------------------------

\* The cursor of sequelize-cli never leaves the migration or the seeders it works on,
\* and the server has not begun before exec, whatever is killed and whenever.
THEOREM ContainerTypeCorrect == ContainerSpec => []ContainerTypeOK
<1>1. CInv => ContainerTypeOK
  BY DEF CInv
<1> QED
  BY <1>1, ContainerInductive, PTL

\* A migration that SequelizeMeta records has done all of its statements, after any
\* number of kills between them.
THEOREM RecordsAreTrue == ContainerSpec => []MetaIsTrue
<1>1. CInv => MetaIsTrue
  BY DEF CInv
<1> QED
  BY <1>1, ContainerInductive, PTL

\* The server is launched on the whole schema and on nothing beside it.
THEOREM WholeSchema == ContainerSpec => []LaunchedComplete
<1>1. ASSUME CInv, phase = "serve" PROVE meta = Len(Migrations) /\ schema = Made(Len(Migrations))
  <2>1. meta = Len(Migrations) /\ Made(meta) \subseteq schema
    BY <1>1 DEF CInv, MigratedFirst, MetaIsTrue
  <2>2. schema \subseteq Made(Len(Migrations))
    BY <1>1 DEF CInv, ContainerTypeOK
  <2> QED
    BY <2>1, <2>2
<1>2. CInv => LaunchedComplete
  BY <1>1 DEF LaunchedComplete
<1> QED
  BY <1>2, ContainerInductive, PTL

\* No step of the container brings back demo rows that a user deleted, although the
\* seeders run again at every start.
THEOREM DeletedStaysDeleted == ContainerSpec => NeverResurrected
<1>1. CInv /\ [ContainerNext]_containerVars =>
        [\A t \in Seeded : rows[t] = "gone" => rows'[t] = "gone"]_containerVars
  BY SitesKept
<1> QED
  BY <1>1, ContainerInductive, PTL DEF ContainerSpec, NeverResurrected

\* The pool still goes last when docker kills, stops and restarts the process around it.
THEOREM PoolGoesLastInContainer == ContainerSpec => []PoolOutlivesClients
<1>1. CInv => PoolOutlivesClients
  BY DEF CInv, IInv
<1> QED
  BY <1>1, ContainerInductive, PTL

\* Exit code 0 stays the mark of a clean end among kills and restarts.
THEOREM SuccessMeansCleanInContainer == ContainerSpec => []SuccessIsClean
<1>1. CInv => SuccessIsClean
  BY DEF CInv, IInv
<1> QED
  BY <1>1, ContainerInductive, PTL
=============================================================================
