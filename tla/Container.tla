----------------------------- MODULE Container -----------------------------
(***************************************************************************)
(* The api container, over its whole life: docker-entrypoint.sh waits for  *)
(* the port of PostgreSQL, migrates, seeds and becomes the server, which   *)
(* is ServerLifecycle; docker kills it, stops it and starts it again.  The *)
(* database outlives all of that.  sequelize-cli runs one statement after  *)
(* another, in no transaction, and records a migration when it is over; it *)
(* keeps no record of seeders.                                             *)
(*                                                                         *)
(* A definition whose comment begins with "Slip:" is a mistake somebody    *)
(* could make in the definition after it; the specification uses none.     *)
(***************************************************************************)
EXTENDS ServerLifecycle, Sequences

CONSTANTS Grace,     \* docker stop sends SIGKILL after 10 s, in steps of the clock
          MaxFaults  \* bound: kills and failed statements

VARIABLES phase,     \* where the entrypoint is
          at,        \* statements the running sequelize-cli has done
          seeding,   \* what the entrypoint thinks of the seeders
          stopped,   \* whether docker stop was called, and whether anybody heard it
          meta,      \* rows of SequelizeMeta
          schema,    \* tables and constraints that exist
          rows,      \* demo rows of each table
          faults

shellVars == <<phase, at, seeding>>
database  == <<meta, schema, rows>>
containerVars == <<vars, shellVars, stopped, database, faults>>

ASSUME ContainerAssumption == Grace \in Nat /\ MaxFaults \in Nat

-----------------------------------------------------------------------------
\* The migrations, in the order of their file names

\* Slip: CREATE TABLE without IF NOT EXISTS.
TableOnce(name, references) == [makes |-> name, needs |-> references, again |-> FALSE]

\* createTable is CREATE TABLE IF NOT EXISTS, and may be done again.
Table(name, references) == [makes |-> name, needs |-> references, again |-> TRUE]

\* addConstraint may not: the name is taken.
Constraint(name, table) == [makes |-> name, needs |-> {table}, again |-> FALSE]

CreateSites         == <<Table("sites", {})>>
CreateEquipment     == <<Table("equipment", {"sites"})>>
CreatePassports     == <<Table("equipment_passports", {"equipment"})>>
CreateRequests      == <<Table("maintenance_requests", {"equipment"})>>
CreateTechnicians   == <<Table("technicians", {})>>
CreateAssignees     == <<Table("request_assignees", {"maintenance_requests", "technicians"}),
                         Constraint("unique_request_technician", "request_assignees")>>
CreateStatusHistory == <<Table("request_status_history", {"maintenance_requests"})>>
CreateUsers         == <<Table("users", {"technicians"})>>
CreateRefreshTokens == <<Table("refresh_tokens", {"users"})>>

Migrations == <<CreateSites, CreateEquipment, CreatePassports, CreateRequests,
                CreateTechnicians, CreateAssignees, CreateStatusHistory, CreateUsers,
                CreateRefreshTokens>>

\* What the migrations before the n-th leave behind.
Made(n) == UNION {{Migrations[m][i].makes : i \in DOMAIN Migrations[m]} : m \in 1..n}

\* The seeders: one INSERT per table.
SeedDemoData  == <<"sites", "equipment", "equipment_passports", "technicians",
                   "maintenance_requests", "request_assignees", "request_status_history">>
SeedDemoUsers == <<"users">>
Seeders       == SeedDemoData \o SeedDemoUsers
Seeded        == {Seeders[i] : i \in DOMAIN Seeders}

-----------------------------------------------------------------------------

ContainerInit == /\ Init
                 /\ phase = "wait"
                 /\ at = 0
                 /\ seeding = "unasked"
                 /\ stopped = "no"
                 /\ meta = 0
                 /\ schema = {}
                 /\ rows = [t \in Seeded |-> "none"]
                 /\ faults = 0

In(p) == Running /\ phase = p

\* Process 1 is the shell until exec, and sh exits with what failed (set -e).
ExitShell == /\ exit' = "failure"
             /\ UNCHANGED <<boot, attempt, conn, stop, reason, served, pool, elapsed>>

Fault == /\ faults < MaxFaults
         /\ faults' = faults + 1

\* The loop around nc.
PortOpen == /\ In("wait")
            /\ phase' = "migrate"
            /\ UNCHANGED <<vars, at, seeding, stopped, database, faults>>

Applies(s) == s.needs \subseteq schema /\ (s.again \/ s.makes \notin schema)

\* The next statement of the first migration that is not recorded.
ApplyStatement ==
  /\ In("migrate")
  /\ meta < Len(Migrations)
  /\ at < Len(Migrations[meta + 1])
  /\ LET s == Migrations[meta + 1][at + 1]
     IN IF Applies(s)
          THEN /\ schema' = schema \cup {s.makes}
               /\ at' = at + 1
               /\ UNCHANGED vars
          ELSE /\ ExitShell
               /\ UNCHANGED <<schema, at>>
  /\ UNCHANGED <<phase, seeding, stopped, meta, rows, faults>>

\* Slip: a migration is recorded when its table is there.
RecordEarly ==
  /\ In("migrate")
  /\ meta < Len(Migrations)
  /\ at > 0
  /\ meta' = meta + 1
  /\ at' = 0
  /\ UNCHANGED <<vars, phase, seeding, stopped, schema, rows, faults>>

\* Slip: the next migration is entered where this one ended.
RecordOnly ==
  /\ In("migrate")
  /\ meta < Len(Migrations)
  /\ at = Len(Migrations[meta + 1])
  /\ meta' = meta + 1
  /\ UNCHANGED <<vars, shellVars, stopped, schema, rows, faults>>

\* INSERT into SequelizeMeta.
RecordMigration ==
  /\ In("migrate")
  /\ meta < Len(Migrations)
  /\ at = Len(Migrations[meta + 1])
  /\ meta' = meta + 1
  /\ at' = 0
  /\ UNCHANGED <<vars, phase, seeding, stopped, schema, rows, faults>>

\* Slip: a failed migration is taken as calmly as a failed seeder.
MigrateAnyway == /\ In("migrate")
                 /\ Fault
                 /\ phase' = "seed"
                 /\ at' = 0
                 /\ UNCHANGED <<vars, seeding, stopped, database>>

\* A statement fails for a reason of its own, or the database goes away.
MigrateBreaks == /\ In("migrate")
                 /\ Fault
                 /\ ExitShell
                 /\ UNCHANGED <<shellVars, stopped, database>>

\* RUN_SEEDS, which is the container's and may differ from one to the next.
Migrated == /\ In("migrate")
            /\ meta = Len(Migrations)
            /\ phase' \in {"seed", "serve"}
            /\ UNCHANGED <<vars, at, seeding, stopped, database, faults>>

\* exec: node becomes process 1.
Launch(outcome) == /\ phase' = "serve"
                   /\ at' = 0
                   /\ seeding' = outcome

\* Slip: rows that are there already are passed over.
SeedAround ==
  /\ In("seed")
  /\ at < Len(Seeders)
  /\ rows' = [rows EXCEPT ![Seeders[at + 1]] = "demo"]
  /\ at' = at + 1
  /\ UNCHANGED <<vars, phase, seeding, stopped, meta, schema, faults>>

\* An INSERT of rows that are there violates a primary key: the command fails, and
\* the shell goes on ("already applied or skipped").
SeedStatement ==
  /\ In("seed")
  /\ at < Len(Seeders)
  /\ LET t == Seeders[at + 1]
     IN IF rows[t] = "demo"
          THEN /\ Launch("skipped")
               /\ UNCHANGED rows
          ELSE /\ rows' = [rows EXCEPT ![t] = "demo"]
               /\ at' = at + 1
               /\ UNCHANGED <<phase, seeding>>
  /\ UNCHANGED <<vars, stopped, meta, schema, faults>>

SeedBreaks == /\ In("seed")
              /\ Fault
              /\ Launch("skipped")
              /\ UNCHANGED <<vars, stopped, database>>

SeedsDone == /\ In("seed")
             /\ at = Len(Seeders)
             /\ Launch("applied")
             /\ UNCHANGED <<vars, stopped, database, faults>>

-----------------------------------------------------------------------------
\* The server, and what its clients do to the demo rows

Serving(Action) == /\ phase = "serve"
                   /\ Action
                   /\ UNCHANGED <<shellVars, stopped, database, faults>>

Serve == Serving(Next)

\* Tables that lose rows when t does: the route deletes, the foreign keys cascade.
\* No route deletes a site, a technician or an account.
Cascade(t) == CASE t = "maintenance_requests" ->
                     {t, "request_assignees", "request_status_history"}
                [] t = "request_assignees" -> {t}
                [] t = "equipment" -> {t, "equipment_passports"}

\* A handler deletes the last of them; requests RESTRICT the deletion of equipment.
DeleteDemo(t) ==
  /\ In("serve")
  /\ \E c \in Conns : conn[c] \in {"busy", "left"}
  /\ rows[t] = "demo"
  /\ t = "equipment" => rows["maintenance_requests"] # "demo"
  /\ rows' = [u \in Seeded |-> IF u \in Cascade(t) /\ rows[u] = "demo" THEN "gone" ELSE rows[u]]
  /\ UNCHANGED <<vars, shellVars, stopped, meta, schema, faults>>

-----------------------------------------------------------------------------
\* Docker

\* The kernel, out of memory, or the host kills process 1.
Kill == /\ Running
        /\ Fault
        /\ ExitShell
        /\ UNCHANGED <<shellVars, stopped, database>>

\* A new process 1: ServerLifecycle's Init again.
Begun == /\ boot' = "connect"
         /\ attempt' = 1
         /\ conn' = [c \in Conns |-> "none"]
         /\ stop' = "no"
         /\ reason' = "none"
         /\ served' = FALSE
         /\ pool' = "open"
         /\ elapsed' = 0
         /\ exit' = "running"
         /\ phase' = "wait"
         /\ at' = 0
         /\ seeding' = "unasked"
         /\ stopped' = "no"
         /\ UNCHANGED <<database, faults>>

\* restart: unless-stopped, whatever the exit code.
Restart == /\ ~ Running
           /\ stopped = "no"
           /\ Begun

\* SIGTERM; a shell that is process 1 ignores it, and so does a server that is
\* stopping already.
DockerStop == /\ stopped = "no"
              /\ \/ /\ phase = "serve"
                    /\ Signal
                    /\ stopped' = "heard"
                 \/ /\ Running /\ phase = "serve" => stop # "no"
                    /\ stopped' = "ignored"
                    /\ UNCHANGED vars
              /\ UNCHANGED <<shellVars, database, faults>>

\* SIGKILL.  The clock of gracefulShutdown runs from the SIGTERM it heard.
GraceOver == /\ Running
             /\ \/ stopped = "ignored"
                \/ stopped = "heard" /\ elapsed >= Grace
             /\ ExitShell
             /\ UNCHANGED <<shellVars, stopped, database, faults>>

DockerStart == /\ ~ Running
               /\ stopped # "no"
               /\ Begun

-----------------------------------------------------------------------------

Shell == \/ PortOpen \/ ApplyStatement \/ RecordMigration \/ Migrated
         \/ SeedStatement \/ SeedsDone

ContainerNext == \/ Shell \/ MigrateBreaks \/ SeedBreaks
                 \/ Serve
                 \/ \E t \in {"maintenance_requests", "request_assignees", "equipment"} : DeleteDemo(t)
                 \/ Kill \/ Restart \/ DockerStop \/ GraceOver \/ DockerStart

ContainerSpec == ContainerInit /\ [][ContainerNext]_containerVars

\* The server's part is that of FairSpec.  The script goes on, docker restarts what
\* it may restart and kills what it has stopped; nobody owes a DockerStart.
FairContainerSpec ==
  /\ ContainerSpec
  /\ WF_containerVars(Shell) /\ WF_containerVars(Restart) /\ WF_containerVars(GraceOver)
  /\ WF_containerVars(Serving(Tick)) /\ WF_containerVars(Serving(ForceExit))
  /\ WF_containerVars(Serving(StartServer)) /\ WF_containerVars(Serving(Listening \/ PortTaken))

-----------------------------------------------------------------------------

\* Everything has its type, the cursor of sequelize-cli is inside the migration or
\* the seeders it works on, and the server has not begun before exec, however often
\* the container was killed.
ContainerTypeOK ==
  /\ TypeOK
  /\ phase \in {"wait", "migrate", "seed", "serve"}
  /\ at \in 0 .. CASE phase = "migrate" /\ meta < Len(Migrations) -> Len(Migrations[meta + 1])
                   [] phase = "seed" -> Len(Seeders)
                   [] OTHER -> 0
  /\ seeding \in {"unasked", "applied", "skipped"}
  /\ stopped \in {"no", "heard", "ignored"}
  /\ meta \in 0 .. Len(Migrations)
  /\ schema \subseteq Made(Len(Migrations))
  /\ rows \in [Seeded -> {"none", "demo", "gone"}]
  /\ faults \in 0 .. MaxFaults
  /\ phase # "serve" => boot = "connect" /\ stop = "no" /\ \A c \in Conns : conn[c] = "none"

\* A migration recorded in SequelizeMeta has done all of its statements, however
\* often the container was killed between them: what is recorded is never done again.
MetaIsTrue == Made(meta) \subseteq schema

\* The server never runs on a part of the schema: set -e lets nothing past a failed
\* migration, although the same script shrugs off a failed seeder.
LaunchedComplete == phase = "serve" => meta = Len(Migrations) /\ schema = Made(Len(Migrations))

\* Demo rows that a user deleted stay deleted, although the seeders run at every
\* start and nothing records that they ran.
NeverResurrected == [][\A t \in Seeded : rows[t] = "gone" => rows'[t] = "gone"]_containerVars

\* The constraint of migration 06 exists and the migration is not recorded.
Wedged == "unique_request_technician" \in schema /\ meta < 6

\* A container that starts gets as far as the server, through kills and failures in
\* any of its steps, unless somebody stops it, or one of them fell between the last
\* statement of migration 06 and its record: then every later start fails.
LaunchesUnlessWedged ==
  phase = "wait" ~> (phase = "serve" \/ stopped # "no" \/ []Wedged)

\* When the seeders fail they were applied already, as the entrypoint reports: each
\* of their tables has had its demo rows.
SkippedMeansApplied ==
  phase = "serve" /\ seeding = "skipped" => \A t \in Seeded : rows[t] # "none"
=============================================================================
