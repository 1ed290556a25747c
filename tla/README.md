# Verification of the equipment maintenance API

TLA+ models of the Node.js service in this repository (Express, Sequelize,
PostgreSQL): maintenance requests with their brigades and status history,
equipment, accounts with refresh tokens, what the service waits for, its metrics
and reports, and the life of its container. TLC checks them on small instances;
TLAPS proves every safety property and both refinements that the passing runs check, for every
size of an instance; liveness stays with TLC.

## The system

The API is one Node process. Every HTTP call runs as an asynchronous handler;
another handler may run at each `await`, and nearly every `await` is one SQL
statement. There is no state in memory that handlers share, except the pool, the
gauges and counters of metrics, and rate limits: they meet in the database. PostgreSQL runs READ COMMITTED,
and only three operations use a transaction (`RequestRepository.create`,
`update` and `setAssignees`). What is hard about this program is therefore what
a handler may still believe, at its second statement, of what it read in its first.

| component | state | operations | what is hard | what makes it correct |
|---|---|---|---|---|
| Request workflow: `services/request.service.js`, `repositories/request.repository.js` | `maintenance_requests`, `request_assignees`, `request_status_history` | create, update, updateStatus, delete, setAssignees, removeAssignee | checks before the transaction that acts on them; row locks; overlapping replacements of a brigade; deletion with cascade | history agrees with status; a closing date for closed requests; no dangling row; no technician twice; the transitions and the brigade rules as long as handlers do not overlap |
| Equipment: `services/equipment.service.js`, `repositories/equipment.repository.js` | `equipment` | create, update, delete | check-then-insert of serial numbers; read-modify-write without a transaction; deletion while a request is created | serial numbers unique; no lost update; no request without equipment |
| Sessions: `services/auth.service.js`, `repositories/user.repository.js`, `lib/jwt.js` | `users`, `refresh_tokens`, the browser's cookie | register, login, refresh, logout, me | rotation in two statements; reuse detection racing a refresh; lost answers; two expiries | one successor per token; reuse and logout end what they should, and nobody else's session; no false alarm |
| Server: `server.js`, `lib/db.js` | server, `isShuttingDown`, timer, connections, pool | start, signals, uncaught errors, graceful shutdown | two coroutines; hanging handlers; kept-alive connections; a signal before the server exists | the process stops; the pool outlives the clients; the exit code is true |
| Business metrics: `lib/metrics.js` | gauges, `lastBusinessMetricsUpdate` | refresh at a scrape | a timestamp taken before the queries; overlapping refreshes; swallowed failures; labels that two rows share | gauges agree with the tables after a refresh that nothing came into, and in the end, as long as no two pieces of equipment share a label |
| Connection pool: `lib/db.js` | borrowed connections | connect, release, acquire timeout | transactions that wait for each other while they hold connections | a full pool empties again; every call is answered |
| Weather: `services/weather.service.js` | none (a timer per call) | forecast | headers that come and a body that does not | the call ends, and holds no connection |
| Sites and reports: `services/site.service.js`, `services/report.service.js` | none | summary, load report | several queries, several moments; joins that multiply rows | each request counted once; the two services agree |
| Access control: `middlewares/auth.middleware.js`, `routes/` | none (claims of the access token) | authenticate, requireRole | claims older than the tables | who may call what |
| Validators and errors: `validators/`, `middlewares/`, `errors/` | none | parse, map errors | stripped fields, defaults | inputs the services may rely on |
| Container: `docker-entrypoint.sh`, `migrations/`, `seeders/`, `docker-compose.yaml` | `SequelizeMeta`, the schema, the demo rows | wait, migrate, seed, exec; kill, restart, stop | kills between two statements; seeders that run again at every start; set -e and `\|\|` | a server on a whole schema; demo rows that stay deleted |
| Legacy import: `scripts/migrate-case2-data.js` | all tables | one import | run twice | no row twice |
| Around it: nginx, Prometheus, Grafana, OpenAPI, Postman, load tests | configuration, documents | | | |

The services call the repositories and not each other:
`EquipmentService.delete` asks the request repository for active requests and
`RequestService.create` asks the equipment repository for the equipment, and
`EquipmentService.getWeather` asks the weather service. The handlers, the server and
the clients meet in `ServerLifecycle` only as connections that are busy or not;
`Container` runs that server as its process 1.

## Modules

| module | what it is |
|---|---|
| `RequestTables` | the tables of the workflow with their seeded contents: constants, variables, helpers |
| `RequestLedger` | abstract specification: the committed changes the tables may undergo, each atomic, with no handler in sight |
| `RequestContract` | the ledger with the documented workflow rules on every change (`ALLOWED_TRANSITIONS`, a brigade before the work starts, brigades replaced whole) |
| `RequestWorkflow` | the handlers, one action per database statement |
| `RequestProperties` | the properties of `RequestWorkflow`, and its refinement of the ledger |
| `RequestIsolation` | `RequestWorkflow` with a record of which handlers met another one of their request; the contract for all others |
| `RequestWorkflowProofs`, `RequestTheorems` | the proofs of the workflow |
| `IsolationTheorems` | the proofs of `RequestIsolation`, upon those of the workflow |
| `LockWaits` | the same transactions taken apart into their locks, with the pool and the weather service: what handlers wait for |
| `SessionStore` | abstract specification: sessions that are opened once and closed alone or all together |
| `AuthSessions` | accounts, refresh tokens, cookies, one action per statement |
| `SessionIsolation` | `AuthSessions` with a record of the users whose calls overlapped; its refinement of `SessionStore` |
| `EquipmentRegistry` | the equipment table |
| `ServerLifecycle` | the process |
| `Container` | the entrypoint, sequelize-cli, docker and the database around `ServerLifecycle` |
| `ReportTables` | the tables the readers read, and the changes others commit |
| `BusinessMetrics` | the gauges and the scrapes that refresh them |
| `SiteReports` | the summary of a site and the load report |
| `Reporting` | `BusinessMetrics` and `SiteReports` over the same tables, and their properties |
| `SessionTheorems` | the proofs of `AuthSessions` and `SessionIsolation` |
| `EquipmentTheorems` | the proofs of `EquipmentRegistry` |
| `ServerTheorems` | the proofs of `ServerLifecycle` and `Container` |
| `WaitsTheorems` | the proofs of `LockWaits` |
| `ReportingTheorems` | the proofs of `Reporting`, with a small theory of sums over finite sets |
| `MCRequests`, `MCAuth`, `MCEquipment`, `MCReporting`, `MCWaits` | instances for TLC: seeds, crews, symmetries |

In several modules some definitions have a comment that begins with "Slip:".
Each is a mistake somebody could make in the definition that follows it. No specification
uses them; putting one in the place of its neighbour makes one of the properties
fail, which shows that the property says something about the code.

### Request workflow

A handler is a record `job[p]`: the `step` it is at and the local variables of the
code (`id`, `seen` for `current.status` and `previousStatus`, `to` for
`newStatus`, `who` for the caller or the technician of the route, `crew` for the
body, `rows` for the row versions a DELETE has found). `Start...` actions are the
handler up to its first `await`; each other action is one statement with
what the code decides upon its result:

| code | actions |
|---|---|
| `POST /requests` | `StartCreate`, `InsertRequest` |
| `PATCH /requests/:id` | `StartUpdate`, `LockRequest`, `CommitUpdate` or `AnswerEmpty` |
| `PATCH /requests/:id/status` | `StartUpdateStatus`, `Authorise` (technicians), `CountAssignees` (to `in_progress`), `LockRequest`, `CommitUpdate` or `AnswerEmpty` |
| `DELETE /requests/:id` | `StartDelete`, `DestroyRequest` |
| `POST /requests/:id/assignees` | `StartSetAssignees`, `LookupTechnicians`, `ClearBrigade`, `FillBrigade`, `CommitBrigade` |
| `DELETE /requests/:id/assignees/:technicianId` | `StartRemoveAssignee`, `FindAssignee`, `IssueRemove`, `RemoveAssignee` |
| `DELETE /equipment/:id` | `StartDropEquipment`, `CheckActive`, `DropEquipment` |
| refused at the first read, by a middleware or a schema | `Refuse` |
| a statement fails (connection, pool, deadlock detector) | `DbError`: rollback, 500 |

A transaction shows nothing before it commits; what it has locked follows from the
step of its job (`Updating`, `Filling`, `Cleared`), and the `May...` operators are the lock
conflicts: `FOR UPDATE` against the `KEY SHARE` of a foreign key, row locks of deleted
assignees, the unique index `unique_request_technician`. A DELETE under READ
COMMITTED removes the row versions it saw when it was issued (`rows`) and no row
inserted later, which is how two replacements of a brigade come to add up.

Data is abstracted to what decisions depend on: ids are model values, a history
entry is its two statuses, `closedAt` counts how often `closed_at` was written, a
title or a priority does not exist. The seeded rows (`SeededRows`) are those of
`seeders/01-demo-data.cjs` and `scripts/migrate-case2-data.js`, among which requests without
history or with a jump in it occur.

Overlapping handlers break some of the documented rules (see the violated runs below), and
one handler alone keeps them. `RequestIsolation` says where the line is: a history
variable `disturbed` holds the handlers that have met, between two of their statements,
another handler of the same request, and `UndisturbedKeepsContract` says that a handler
outside it answers with a step of `RequestContract`. What other handlers do to other
requests, or did before it began, is no excuse.

### Sessions

Each handler of `AuthService` advances by one statement, none in a transaction. `owner` and
`parent` record what a token was signed for; `ended` and `parent` are history variables
that no action reads. Browsers are cookie jars; an answer may be lost
(`Answer(p, FALSE)`), and a statement may fail at any point, with what was written
left as it is (`DbError`). `expires_at` and the `exp` claim pass independently
(`Overdue`, `Invalid`), because the first is seven days in the code and the second is configured.

`SessionIsolation` does for users what `RequestIsolation` does for requests: a user is
`crowded` once two handlers have worked for that user at once. `SessionStore` is what the
two tables promise in spite of overlaps. Its refinement maps a session to a token with a row, and
counts a token as `spent` once it has been signed, except while its INSERT is under way.

### Equipment

Serial number and "the rest" are two columns, which is enough to tell apart a patch that
writes its own columns from one that writes the instance back.

### Server

`boot` is where `startServer` is, `stop` where `gracefulShutdown` is. A connection is
idle, busy, or left by its client while the handler still runs. The timer is a
count of steps of the clock (`ForceAfter`). `boot = "unbound"` is a process whose port was taken
(`PortTaken`): Express 5 hands the error of `listen` to the callback of `app.listen` as well, so that nothing throws,
the start is logged, and the process lives on without listening. Handlers may hang for ever and the pool may never close, so that nothing but
the timer can be relied on.

### Container

`phase` is the line of `docker-entrypoint.sh`; the server is `ServerLifecycle!Next` from
`exec` on. `sequelize-cli` runs a migration as the sequence of its statements
(`Migrations`) and records it afterwards, in no transaction; `meta` counts the recorded ones,
`at` the statements of the one under way. `createTable` is `CREATE TABLE IF NOT EXISTS` and may be
repeated, `addConstraint` (migration 06) may not. The seeders are the sequence of their
INSERTs, one per table, and have no record at all: they run at every start, and fail at the first
row that is there. `rows` is a table's demo rows, not inserted yet, there, or deleted by users (`DeleteDemo`).
A kill may fall between any two steps and leaves the database as it is. `docker stop`
sends SIGTERM, which a shell that is process 1 ignores and the server handles, and SIGKILL
after its grace period.

### Metrics and reports

A scrape is at one of the six queries of `updateBusinessMetrics`. A query takes effect when
PostgreSQL runs it (`Query`), and its result is written to the gauge later (`Write`), after whatever
other scrapes have written. `LIMIT` without `ORDER BY` gives any rows (`AnyOf`); a label that
two rows share shows the one written last (`Labels`). Names and types of the equipment are a constant of the model
(`LabelOf`), so that an instance may give every piece its own label or not: the passing run has `UniqueLabels`,
which `LoadShown` ("each piece of equipment is shown with its active requests") needs, and the run
`shared_label` shows what happens without. The summary of a site is four queries at
four moments, two of which count the same equipment by status and by type; the load report is one query,
written as table expressions (a LEFT JOIN with a GROUP BY, then another).

### Waits

`LockWaits` keeps of the transactions only the locks they take, in their order, one per step: DELETE of
assignees locks its rows one after another in any order, an INSERT its entries of the unique index
and, at its end, the request `FOR KEY SHARE`; UPDATE and DELETE of the request lock its row, and the
DELETE goes on to the assignees. `Abort` is the deadlock detector. A handler that writes waits for a connection
twice: for what it looks up first (`ask`, `LookUp`; one look-up stands for all that come before the write) and
for the write (`connect`, `Connect`). Calls that only read wait once, and `getWeather` is one of these: it has given its
connection back before it waits for the weather service (`headers`, `body`). `GiveUp` is what ends a wait that nobody else
ends: the acquire timeout, the detector, the timer of the weather call.

## What the runs show

Passing runs:

| run | instance | result |
|---|---|---|
| `race` | 2 handlers, 1 request, 2 technicians, crews of up to 2, a database that is empty or has one of the seeded kinds of row (550 435 states up to symmetry) | `TypeOK`, `AuditTrail`, `ClosedIsDated`, `ReferentialIntegrity`, `UniqueAssignment`, `InFlight`, refinement of the ledger; the contract for undisturbed handlers; an empty success only for disturbed ones |
| `sessions` | 2 handlers, 2 users, 1 browser, 3 tokens, 1 expiry (`MaxExpired`) (1 687 580 states up to symmetry) | `FreshToken`, `ReuseIsReal`, `ReplacedIsGone`, `OwnSessionsOnly`, refinement of the session store; rotation, reuse detection and logout for users whose calls did not overlap |
| `equipment` | 2 handlers, 2 rows, 2 serial numbers, 2 values | `UniqueSerial`, `NoLostUpdate` |
| `life` | 9 migrations, 8 seeded tables, 2 connections, 2 attempts, a timer of 3 and a grace of 1 step of the clock, 2 faults (`MaxFaults`) (626 817 states) | `MetaIsTrue`, `LaunchedComplete`, `NeverResurrected`, `PoolOutlivesClients`, `SuccessIsClean`; `StopsEventually`, `ConnectsOrGivesUp`, `LaunchesUnlessWedged` |
| `reports` | 2 scrapes, a summary, 2 requests, 2 pieces of equipment with labels of their own, one of them without a site, 1 change of the tables (`MaxChanges`), 1 failed query (`MaxFaults`), two readers at once (`MaxReaders`) (637 397 states) | `RefreshIsExact`, `OverlapNeedsSlowRefresh`, `GaugesConverge`, `ReportIsExact`, `SummaryMatchesReport` |
| `waits` | 3 handlers, 2 connections, 2 technicians, bodies that name them in opposite orders (186 214 states) | `CircleNeedsReplacement`, `PoolMoves`, `NoOrphans`, `EveryCallAnswered` |

Why the bounds are enough: every interference in this code is between one handler's
read and its later write, and takes one other handler in between; two handlers are the
smallest number at which each can be in the other's way, and a handler that has
finished can start again, so that a third call may fall between two steps of the first. One
request is enough because every property but those of `InFlight` about new ids speaks of one request, and
requests interact only through equipment; the proofs hold for any number of them. Crews of two and two technicians
give crews that are equal, disjoint or overlapping. Three tokens are a login and two
refreshes, or two logins and a refresh; the second user has calls of its own, so that an innocent user's
sessions are at stake, and the one browser may carry either's cookie. In `life` two faults are a kill and a second one while the
first is being recovered from; two connections tell one that hangs from one that is idle; two attempts
have a first and a last one; the timer and the grace keep the order of 25 s and 10 s. In `reports` one
change may fall before, between or after any two queries, and a second one could only repeat that; two scrapes are one that is
slow and one that overtakes it, and with one failed query a refresh can break off at each of its
six queries; two readers at once are two scrapes, or a scrape and the summary, which share nothing but the tables. In `waits` a circle of two, a
third party that waits behind it, and one more handler than connections all occur; `EveryCallAnswered` is
checked of one of the three handlers, as nothing in `LockWaits` tells them apart. The proofs remove the
bounds where there are any.

Violated runs, each a disagreement between the code and what the repository says of it:

| run | what happens |
|---|---|
| `terminal` | two calls read `in_progress`; one sets `done`, the other `rejected` afterwards. The row lock serialises the two, but the transition is not checked again under it (`request.service.js:118`, `request.repository.js:209`) |
| `two_leads` | two administrators assign different brigades at once to a request; both commit, and the brigade has two leads (`request.repository.js:258`) |
| `rotation` | two refreshes with one token each get a successor (`auth.service.js:86`) |
| `shared_label` | two pieces of equipment have the same name and type: the load gauge has one value for both, that of the row set last, and the requests of the other are not shown (`metrics.js:179`, against `README.md:162`) |
| `half_seeded` | a kill between two INSERTs of the seeders: the next start fails at the first INSERT, says "already applied or skipped", and the later tables stay empty for ever (`docker-entrypoint.sh:18`) |
| `late_listen` | a signal while the database is not reached yet: the server listens while the process stops (`server.js:50`) |

`UndisturbedKeepsContract`, `OneSuccessorAlone`, `ReuseEndsSessionsAlone` and `LogoutEndsSessionAlone` show
that the first three, and the following, need overlapping handlers. Without the condition these
properties fail too, for the same reasons:

* the last assignee can be removed between the count and the transaction that starts the work
  (`request.service.js:126`);
* a request deleted before the transaction makes the answer 200 `{data: null}`
  (`request.repository.js:207`);
* a token stored just after the revocation of all sessions stays valid (`auth.service.js:88`);
* a refresh under way at the logout stores its token after it (`auth.service.js:119`).

Some observations that are no violation of anything the repository says, or need no model:

* a kill between `addConstraint` of migration 06 and its record leaves a database on which every later start
  fails, because the constraint cannot be created twice. `LaunchesUnlessWedged` says that it is the only
  such point: all other statements may be repeated;
* two overlapping replacements of a brigade, or a replacement and the deletion of its request, may wait for each
  other in a circle; PostgreSQL aborts one, whose client sees 500 (`CircleNeedsReplacement`);
* the timer of the shutdown is 25 s (`server.js:42`), the README of the service says 10 s
  (`README.md:191`), and `docker stop` kills after 10 s, as `docker-compose.yaml` sets no `stop_grace_period`: after
  a `docker stop` the timer never fires;
* the defaults of `DB_POOL_ACQUIRE` and `DB_POOL_IDLE` are 5000 and 30000 (`config/index.js:58`), the README has
  30000 and 10000 (`README.md:84`);
* a refresh whose INSERT fails after its DELETE leaves the user without any token, because the rotation runs in no
  transaction although `README.md:240` says so (`auth.service.js:102`); the user has to log in again. The finding of
  `rotation` is about the same missing transaction;
* a server whose port is taken logs that it has started and stays alive without serving anybody (`server.js:15`);
* `maintenance_mttr_hours` is the average of at most 500 closed requests, in no particular order (`metrics.js:132`);
* a summary that changes come into may show totals and distributions of different moments (`site.service.js:29`);
* equipment created through the API has no site, so that neither the summary nor the load report ever counts it
  (`report.service.js:45`).

### Fairness

`LockWaits!FairSpec` is strong fairness of each handler's next step in the database (`Move`), and weak fairness
of what ends its waits (`GiveUp`): the acquire timeout, the deadlock detector, the timer of the weather call, of
which at most one can come at each step.
Weak fairness would not do for locks: a statement that waits for one is enabled and disabled again while others take
the lock. PostgreSQL queues waiting transactions and sequelize-pool waiting
acquisitions, so that each is served in its turn. Of the weather service nothing is assumed.

`ServerLifecycle!FairSpec` lets time pass and timers fire, and lets `authenticate` and
`app.listen` settle. Nothing is assumed of handlers, clients or the pool. `FairContainerSpec` has the same of
the server inside the container; the script goes on, docker restarts what it may restart and
kills what it has stopped (`restart: unless-stopped`, the grace period). Nobody owes a `docker start`.

`Reporting!FairSpec` lets time pass, Prometheus scrape and PostgreSQL answer.

## What is proved

`RequestTheorems` proves, for any sets of handlers, requests, equipment and technicians and any
`MaxCrew`:

| theorem | statement |
|---|---|
| `TypeCorrect` | `Spec => []TypeOK` |
| `HistoryIsTruthful` | `Spec => []AuditTrail` |
| `ClosingIsDated` | `Spec => []ClosedIsDated` |
| `NothingDangles` | `Spec => []ReferentialIntegrity` |
| `NobodyTwice` | `Spec => []UniqueAssignment` |
| `LocksSuffice` | `Spec => []InFlight` |
| `WorkflowImplementsLedger` | `Spec => ImplementsLedger` |

The assumptions are those of the modules: ids are not `Null` (`IdsAssumption`), seeded rows are
rows the two scripts produce (`SeedsAssumption`), the caller `Admin` and the id `Unknown` are not
technicians (`ActorsAssumption`). TLC evaluates them in every run of `MCRequests`.

None of the properties is inductive alone. The history is only extended correctly if the status
a handler has read under its lock is still the status of the row when it commits; a
crew only fits into the brigade if no other transaction has brought one of its technicians since the unique
index was asked. What a handler relies on between two statements is `InFlight`:

* `IdsValid`: the id being created is nobody else's and has no row; every other
  handler works on an id that had a row;
* `StatusesValid`: a target status is one a transition may have, and `seen` equals the status
  from the lock to the commit;
* `CrewsValid`: a crew past its checks has one lead and no duplicate, and at the commit shares no technician with what stays in
  the brigade;
* `LocksExclude`: two handlers never both hold a request, nor insert the same technician.

The inductive invariant is `IInv == TypeOK /\ InFlight /\ LedgerInv`, `LedgerInv` being the
conjunction of the four properties of the tables. `RequestWorkflowProofs` shows that every step
keeps types and `InFlight`; the lemmas there first say what any step can do to a job
other than its own (`OthersKept`), to a status (`StatusWrites`), to a brigade (`BrigadeWrites`) and how a
handler got to its step (`OwnMove`, `Origins`), and the conjuncts follow from these rather
than from the actions one by one. `RequestTheorems` shows, action by action, that under
`IInv` each step is a step of the ledger or leaves the tables alone, and then that steps of
the ledger keep the four properties, so that these are proved of the short specification and carried over.

The other components are proved in the same way:

| module | theorem | statement |
|---|---|---|
| `IsolationTheorems` | `EmptyNeedsAMeeting`, `UndisturbedHandlersKeepContract` | `IsolatedSpec => []EmptyOnlyIfDisturbed`, `UndisturbedKeepsContract` |
| `SessionTheorems` | `TypeCorrect`, `NobodyKnowsIt`, `NoFalseAlarm` | `Spec => []TypeOK`, `[]FreshToken`, `[]ReuseIsReal` |
| | `OthersAreSafe` | `Spec => OwnSessionsOnly` |
| | `RotationIsFinal`, `ReplacedOnce` | `IsolatedSpec => []ReplacedIsGone`, `[]OneSuccessorAlone` |
| | `ReuseEndsSessions`, `LogoutEndsSession` | `IsolatedSpec => []ReuseEndsSessionsAlone`, `[]LogoutEndsSessionAlone` |
| | `SessionsImplementStore` | `IsolatedSpec => ImplementsStore` |
| `EquipmentTheorems` | `TypeCorrect`, `SerialsUnique`, `NothingLost` | `Spec => []TypeOK`, `[]UniqueSerial`, `NoLostUpdate` |
| `ServerTheorems` | `TypeCorrect`, `PoolGoesLast`, `SuccessMeansClean` | `Spec => []TypeOK`, `[]PoolOutlivesClients`, `[]SuccessIsClean` |
| | `ContainerTypeCorrect`, `RecordsAreTrue`, `WholeSchema` | `ContainerSpec => []ContainerTypeOK`, `[]MetaIsTrue`, `[]LaunchedComplete` |
| | `DeletedStaysDeleted` | `ContainerSpec => NeverResurrected` |
| | `PoolGoesLastInContainer`, `SuccessMeansCleanInContainer` | `ContainerSpec => []PoolOutlivesClients`, `[]SuccessIsClean` |
| `WaitsTheorems` | `TypeCorrect`, `DeadlocksNeedReplacement` | `Spec => []TypeOK`, `[]CircleNeedsReplacement` |
| | `PoolAlwaysMoves`, `NeverOrphans` | `Spec => []PoolMoves`, `[]NoOrphans` |
| `ReportingTheorems` | `OverlapIsSlow` | `Spec => []OverlapNeedsSlowRefresh` |
| | `RefreshLeavesTruth` | `UniqueLabels` implies `Spec => RefreshIsExact` |
| | `ReportCountsOnce`, `TwoServicesAgree` | `Spec => []ReportIsExact`, `[]SummaryMatchesReport` |

The inductive invariants were checked by TLC on the instances of the runs before they were proved.

* Undisturbed handlers: `IsolationInv` adds to `IInv` that handlers which meet are marked (`MeetingIsNoted`)
  and that what an undisturbed handler has read or checked is what the tables say now
  (`NothingStale`). Both are needed: what was read stays true because only handlers of the same request
  could change it, and each of them would have marked it.
* Sessions: `FreshToken` is kept when a token is signed because rows, cookies, locals and
  ancestors hold only tokens that were signed before (`Known`), and `ReuseIsReal` is kept when one
  is stored because of `FreshToken`. Three lemmas cover the steps: one that signs (`SignKeeps`), the one
  that stores (`StoreKeeps`), and all others (`MoveKeeps`).
* Uncrowded users: `SessionInv` adds that tokens belong to accounts (`Accounts`) and descend from
  tokens of the same user (`Descent`), that a row once taken away never comes back (`EndedIsGone`,
  `ReplacedIsGone`), and of users whose calls never overlapped that one handler at most serves them and that
  the token it is about to rotate still has its row (`Alone`, `RotatesStored`). The
  refinement of `SessionStore` follows step by step: signing a token and storing it are one
  opening, at the INSERT.
* Equipment: an INSERT overwrites nothing because the new id is nobody else's (`FreshId`);
  `SavedColumn` says which value `item.update` gives a column, and is what `NoLostUpdate` rests on.
* Server: `Order` ties the progress of `gracefulShutdown` to the pool and to the server,
  `MoreAttempts` bounds the attempts.
* Container: `CInv` adds to the invariant of the server what a migration has done before anything records it
  (`DoneSoFar`), that nothing is seeded or served before the last record (`MigratedFirst`), and that the
  demo sites tell whether the seeders ever ran (`SitesTell`): they are inserted first and no route deletes
  them, so that a second run fails before it reaches a table whose rows a user has deleted. A seeder
  that began with another table, or a route that deleted sites, would bring rows back.
* Waits: each handler is on the route of its operation (`Routed`), a scan that has nothing left is
  over, what two handlers hold does not conflict (`Exclusion`), and a deletion that has locked the request
  will have removed every assignee there is (`Covers`), which `NoOrphans` needs at its commit. Each member of
  a circle holds a lock and wants another, which only replacements and deletions ever do; and
  deletions among themselves exclude each other at the row of the request, before they want anything else.
* Metrics: `Throttle` compares the age of the last refresh with the time the running ones have taken,
  `AloneIsAlone` keeps the mark of a lone refresh true, and `ExactSoFar` says of it, query by query, which
  gauges already agree with the tables. The last gauge agrees because requests refer to equipment that is there
  (`Attached`), so that distinct labels tell its rows apart (`LabelsTell`).
* Report and summary: `SummarySoFar` says the same of the four queries of the summary. That the joins count
  everything once is a calculation with finite sums: a sum over groups is the sum over their
  members (`SumOfGroups`), a sum over joined rows is that of their sums (`SumOfRows`), and two sums may
  change places (`SumSwaps`). These hold for every finite set of rows.

The lemmas about sums, and `WithoutKeeps` about a scan in `LockWaits`, are proved by induction over data. The
theorem of natural induction takes an operator, which no prover here instantiates; but the induction may be
stated of a set of numbers (`SetInduction`), whose least missing member would contradict that the numbers are well founded
(`WFMin`), and this one the provers use. `FiniteInduction` is the same for finite sets. `MapThenSumSet` of the
community modules is recursive over a set and takes its elements in an order that CHOOSE
fixes; `SumTakes` shows that any element may be taken first, and the rest is algebra.

Assumptions, each named in its module and evaluated by TLC in the runs: ids are not `Null` (`NullAssumption`), attempts
and time are bounded by positive numbers (`BoundsAssumption`), counts are natural numbers (`ContainerAssumption`,
`MetricsAssumption`, `HoursAssumption`, `ReadersAssumption`); in `LockWaits`, handlers and technicians are finite sets, the
pool has a connection, and a brigade names somebody (`WaitsAssumption`, for `assignBrigadeSchema`); in
`ReportTables`, the tables are finite (`ReportAssumption`).

The proofs changed the models in one place where these were wrong, and none of the properties: two arms of
`Advance` in `LockWaits` overlapped, so that their CASE, of which TLC takes the first true arm, left open what an
assignment does after its DELETE. The arms now exclude each other.

Only model-checked: liveness (`StopsEventually`, `ConnectsOrGivesUp`, `LaunchesUnlessWedged`, `GaugesConverge`,
`EveryCallAnswered`), because the prover has no rule for ENABLED and so none for fairness.
The six violated properties are refuted by TLC; there is nothing in them to prove.

## Not modelled

Lists, filters and pages of the reads change nothing; the texts, codes and documents of answers are not
the subject of any property; logging, the counters of HTTP calls, rate limits, health probes, nginx, Prometheus
and Grafana are configuration, counters or stateless. Access tokens are stateless, and no operation
changes the role they carry. Whether a day is suitable for work outdoors is a comparison of numbers. The import of
legacy data runs once, by hand, in one transaction; its rows are among the initial states.
Undoing migrations and seeders is nobody's routine.

## Plan

Done: all components with state that handlers, processes or scrapes share; the proofs of every safety property,
action property and refinement of the passing runs. Left, in this order:

1. The safety half of the liveness properties, as theorems: what each step of `gracefulShutdown`, of
   `updateBusinessMetrics` and of a transaction brings nearer to its end, and that nothing takes it back.
2. Theorems that join two modules: the locks that `RequestWorkflow` takes for granted in its `May...` operators
   are those that `LockWaits` takes one by one.
3. The lemmas about sums in a module of their own, once another component needs them.
