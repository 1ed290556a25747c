-------------------------- MODULE RequestWorkflow --------------------------
(***************************************************************************)
(* The HTTP handlers of RequestService, with RequestRepository under them, *)
(* and EquipmentService.delete.  Node runs many handlers at once and lets  *)
(* another one run at every await, so a handler is a job that advances one *)
(* database statement at a time and acts later on what it read earlier.    *)
(*                                                                         *)
(* A transaction is invisible until it commits: the rows it has changed    *)
(* are only locked, and which rows those are follows from the job's step.  *)
(* PostgreSQL runs READ COMMITTED, the default of Sequelize: a DELETE      *)
(* removes the row versions that were there when it was issued.            *)
(*                                                                         *)
(* A definition whose comment begins with "Slip:" is a mistake somebody    *)
(* could make in the definition after it.  The specification uses none of  *)
(* them: they serve to see that the properties notice.                     *)
(***************************************************************************)
EXTENDS RequestTables

CONSTANTS Procs,     \* handlers in flight
          Admin,     \* the caller of a handler when it is not a technician
          Unknown,   \* a technician id that no row has
          MaxCrew    \* bound: entries in the body of POST /:id/assignees

VARIABLE job         \* step and local variables of each handler

vars == <<equipment, status, equipmentId, closedAt, history, brigade, job>>

ASSUME ActorsAssumption == /\ Admin \notin Technicians
                           /\ Unknown \notin Technicians
                           /\ MaxCrew \in Nat

Steps == {"idle", "authorise", "count", "lock", "commit", "insert", "destroy",
          "lookup", "clear", "fill", "commit_crew", "find", "issue", "unassign",
          "check_active", "drop", "empty"}

\* The steps of a handler that works on a request.
OnRequest == Steps \ {"idle", "check_active", "drop"}

Job == [step : Steps,
        id   : Requests \cup {Null},                \* the request of the route
        eq   : Equipment \cup {Null},               \* the equipment of the route or body
        to   : Statuses \cup {Null},                \* newStatus
        seen : Statuses \cup {Null},                \* status as this handler read it
        who  : Technicians \cup {Admin, Null},      \* currentUser, or the assignee of the route
        crew : SUBSET [technicianId : Technicians \cup {Unknown}, role : Roles],
        rows : SUBSET Assignee]                     \* row versions a DELETE removes

Idle == [step |-> "idle", id |-> Null, eq |-> Null, to |-> Null, seen |-> Null,
         who |-> Null, crew |-> {}, rows |-> {}]

Init == /\ TablesInit
        /\ job = [p \in Procs |-> Idle]

-----------------------------------------------------------------------------

At(p, step) == job[p].step = step

Become(p, j) == job' = [job EXCEPT ![p] = j]

\* A call arrives at p and its handler gets as far as the first await.  A call
\* refused before that changes nothing: see Refuse.
Begin(p, j) == /\ At(p, "idle")
               /\ Become(p, j)

Goto(p, step) == Become(p, [job[p] EXCEPT !.step = step])

\* The handler answers; its transaction, if any, is over.
Finish(p) == Become(p, Idle)

\* The handler answers, and the rows it removed are gone for every DELETE that
\* still waits for them.
FinishRemoving(p, r, dead) ==
  job' = [q \in Procs |->
            IF q = p THEN Idle
            ELSE IF job[q].id = r THEN [job[q] EXCEPT !.rows = @ \ dead] ELSE job[q]]

\* q holds the row of request r FOR UPDATE.
Updating(q, r) == At(q, "commit") /\ job[q].id = r

\* q has inserted assignees of r: its foreign keys hold r FOR KEY SHARE.
Filling(q, r) == At(q, "commit_crew") /\ job[q].id = r

\* Assignee rows of r that q has deleted and not yet committed.
Cleared(q, r) == IF job[q].id = r /\ job[q].step \in {"fill", "commit_crew"}
                 THEN job[q].rows ELSE {}

Others(p) == Procs \ {p}

-----------------------------------------------------------------------------
\* POST /requests

\* RequestService.create up to the lookup of the equipment.  The id is drawn
\* from the ids no row has had.
StartCreate(p, r, e) ==
  /\ status[r] = "unborn"
  /\ \A q \in Procs : job[q].id # r
  /\ e \in equipment
  /\ Begin(p, [Idle EXCEPT !.step = "insert", !.id = r, !.eq = e])
  /\ UNCHANGED tables

\* RequestRepository.create: the request and its first history entry, in one
\* transaction, with status 'new' whatever the body says.
InsertRequest(p) ==
  /\ At(p, "insert")
  /\ LET r == job[p].id
         e == job[p].eq
     IN IF e \in equipment
          THEN /\ status' = [status EXCEPT ![r] = "new"]
               /\ equipmentId' = [equipmentId EXCEPT ![r] = e]
               /\ history' = [history EXCEPT ![r] = <<[prev |-> Null, new |-> "new"]>>]
               /\ Finish(p)
               /\ UNCHANGED <<equipment, closedAt, brigade>>
          ELSE /\ Finish(p)      \* foreign key violation, 409
               /\ UNCHANGED tables

-----------------------------------------------------------------------------
\* PATCH /requests/:id and PATCH /requests/:id/status

\* Slip: the repository's null for an unknown id is not turned into a 404.
StartUpdateUnchecked(p, r) ==
  /\ Begin(p, [Idle EXCEPT !.step = "lock", !.id = r])
  /\ UNCHANGED tables

\* RequestService.update: the patch has no status (the schema strips it).
StartUpdate(p, r) ==
  /\ Exists(r)
  /\ Begin(p, [Idle EXCEPT !.step = "lock", !.id = r])
  /\ UNCHANGED tables

ALLOWED_TRANSITIONS == [new         |-> {"in_progress", "rejected"},
                        in_progress |-> {"done", "rejected"},
                        done        |-> {},
                        rejected    |-> {}]

\* The step after the checks of updateStatus that need no other read, or Null
\* when the transition is refused.
AfterTransitionCheck(seen, to) ==
  IF to \notin ALLOWED_TRANSITIONS[seen] THEN Null
  ELSE IF to = "in_progress" THEN "count" ELSE "lock"

\* RequestService.updateStatus reads the request and keeps it as `current`.
StartUpdateStatus(p, r, to, by) ==
  /\ Exists(r)
  /\ LET next == IF by = Admin THEN AfterTransitionCheck(status[r], to) ELSE "authorise"
     IN /\ next # Null
        /\ Begin(p, [Idle EXCEPT !.step = next, !.id = r, !.to = to,
                                 !.seen = status[r], !.who = by])
  /\ UNCHANGED tables

\* isTechnicianAssigned, then the transition is checked against `current`.
Authorise(p) ==
  /\ At(p, "authorise")
  /\ LET next == AfterTransitionCheck(job[p].seen, job[p].to)
     IN IF job[p].who \in Techs(brigade[job[p].id]) /\ next # Null
          THEN Goto(p, next)
          ELSE Finish(p)
  /\ UNCHANGED tables

\* Slip: the result of the count is not looked at.
CountForNothing(p) ==
  /\ At(p, "count")
  /\ Goto(p, "lock")
  /\ UNCHANGED tables

\* countAssignees before a transition to in_progress.
CountAssignees(p) ==
  /\ At(p, "count")
  /\ IF brigade[job[p].id] # {} THEN Goto(p, "lock") ELSE Finish(p)
  /\ UNCHANGED tables

\* Slip: the row is read without FOR UPDATE.
MayRead(p, r) == TRUE

\* Nothing prevents p from taking request r FOR UPDATE.
MayLock(p, r) == \A q \in Others(p) : ~ Updating(q, r) /\ ~ Filling(q, r)

\* Slip: previousStatus is the status the service read before the transaction.
LockWithOldStatus(p) ==
  /\ At(p, "lock")
  /\ MayLock(p, job[p].id)
  /\ Goto(p, IF Exists(job[p].id) THEN "commit" ELSE "empty")
  /\ UNCHANGED tables

\* RequestRepository.update: BEGIN, SELECT ... FOR UPDATE, previousStatus.  A row
\* deleted meanwhile makes update return null, and the controller answer 200.
LockRequest(p) ==
  /\ At(p, "lock")
  /\ LET r == job[p].id
     IN /\ MayLock(p, r)
        /\ IF Exists(r)
             THEN Become(p, [job[p] EXCEPT !.step = "commit", !.seen = status[r]])
             ELSE Goto(p, "empty")
  /\ UNCHANGED tables

\* The controller sends 200 with the null that the repository returned.
AnswerEmpty(p) == /\ At(p, "empty")
                  /\ Finish(p)
                  /\ UNCHANGED tables

\* Slip: a rejected request is not dated.
StampDone(at, to) == IF to = "done" THEN at + 1 ELSE at

\* closed_at is written whenever the patch closes the request.
Stamp(at, to) == IF to \in Closing THEN at + 1 ELSE at

\* Slip: an entry is written even if the status stays what it was.
LogAlways(h, previous, to) == Append(h, [prev |-> previous, new |-> to])

\* A history entry is written if the status changes.
Log(h, previous, to) ==
  IF to = previous THEN h ELSE Append(h, [prev |-> previous, new |-> to])

\* The rest of the transaction: UPDATE, the history entry, COMMIT.
CommitUpdate(p) ==
  /\ At(p, "commit")
  /\ LET r == job[p].id
         to == job[p].to
     IN IF to = Null THEN UNCHANGED <<status, closedAt, history>>
        ELSE /\ status' = [status EXCEPT ![r] = to]
             /\ closedAt' = [closedAt EXCEPT ![r] = Stamp(@, to)]
             /\ history' = [history EXCEPT ![r] = Log(@, job[p].seen, to)]
  /\ Finish(p)
  /\ UNCHANGED <<equipment, equipmentId, brigade>>

-----------------------------------------------------------------------------
\* DELETE /requests/:id

StartDelete(p, r) ==
  /\ Exists(r)
  /\ Begin(p, [Idle EXCEPT !.step = "destroy", !.id = r])
  /\ UNCHANGED tables

\* DELETE of the row; the foreign keys cascade to assignees and history.  It
\* waits for every transaction that holds one of those rows.
DestroyRequest(p) ==
  /\ At(p, "destroy")
  /\ LET r == job[p].id
     IN /\ MayLock(p, r)
        /\ \A q \in Others(p) : Cleared(q, r) = {}
        /\ IF Exists(r)
             THEN /\ status' = [status EXCEPT ![r] = "gone"]
                  /\ equipmentId' = [equipmentId EXCEPT ![r] = Null]
                  /\ closedAt' = [closedAt EXCEPT ![r] = 0]
                  /\ history' = [history EXCEPT ![r] = <<>>]
                  /\ brigade' = [brigade EXCEPT ![r] = {}]
                  /\ UNCHANGED equipment
             ELSE UNCHANGED tables
        /\ FinishRemoving(p, r, brigade[r])

-----------------------------------------------------------------------------
\* POST /requests/:id/assignees

\* Bodies the validator lets through: one entry or more.
Bodies == UNION {[1..n -> [technicianId : Technicians \cup {Unknown}, role : Roles]] :
                   n \in 1..MaxCrew}

Entries(body) == {body[i] : i \in DOMAIN body}

\* Slip: a second lead is let through.
StartSetLeads(p, r, body) ==
  /\ Exists(r)
  /\ \E i \in DOMAIN body : body[i].role = "lead"
  /\ \A i, j \in DOMAIN body : body[i].technicianId = body[j].technicianId => i = j
  /\ Begin(p, [Idle EXCEPT !.step = "lookup", !.id = r, !.crew = Entries(body)])
  /\ UNCHANGED tables

\* RequestService.setAssignees: the request exists, one entry is the lead (422),
\* no technician is named twice (409).
StartSetAssignees(p, r, body) ==
  /\ Exists(r)
  /\ \E i \in DOMAIN body : \A j \in DOMAIN body : (body[j].role = "lead") <=> (j = i)
  /\ \A i, j \in DOMAIN body : body[i].technicianId = body[j].technicianId => i = j
  /\ Begin(p, [Idle EXCEPT !.step = "lookup", !.id = r, !.crew = Entries(body)])
  /\ UNCHANGED tables

\* Slip: the technicians are not looked up.
LookupNobody(p) ==
  /\ At(p, "lookup")
  /\ Become(p, [job[p] EXCEPT !.step = "clear", !.rows = brigade[job[p].id]])
  /\ UNCHANGED tables

\* Each technician is looked up (that table does not change), the transaction
\* begins and DELETE is issued: it sees the rows committed by now.
LookupTechnicians(p) ==
  /\ At(p, "lookup")
  /\ IF Techs(job[p].crew) \subseteq Technicians
       THEN Become(p, [job[p] EXCEPT !.step = "clear", !.rows = brigade[job[p].id]])
       ELSE Finish(p)
  /\ UNCHANGED tables

\* No other transaction is about to remove a row that p's DELETE has to remove.
MayRemove(p) == \A q \in Others(p) : Cleared(q, job[p].id) \cap job[p].rows = {}

ClearBrigade(p) == /\ At(p, "clear")
                   /\ MayRemove(p)
                   /\ Goto(p, "fill")
                   /\ UNCHANGED tables

\* The unique index and the foreign key make the INSERT wait for transactions
\* that hold the request row or an entry of one of the same technicians.
MayFill(p) ==
  \A q \in Others(p) :
    /\ ~ Updating(q, job[p].id)
    /\ Techs(Cleared(q, job[p].id)) \cap Techs(job[p].crew) = {}
    /\ Filling(q, job[p].id) => Techs(job[q].crew) \cap Techs(job[p].crew) = {}

\* Slip: the table has no unique index.
FillUnindexed(p) ==
  /\ At(p, "fill")
  /\ MayFill(p)
  /\ IF Exists(job[p].id) THEN Goto(p, "commit_crew") ELSE Finish(p)
  /\ UNCHANGED tables

\* bulkCreate; a technician another brigade has brought meanwhile, or a request
\* deleted meanwhile, violates a constraint: rollback and 409.
FillBrigade(p) ==
  /\ At(p, "fill")
  /\ MayFill(p)
  /\ LET r == job[p].id
         left == brigade[r] \ job[p].rows
     IN IF Exists(r) /\ Techs(left) \cap Techs(job[p].crew) = {}
          THEN Goto(p, "commit_crew")
          ELSE Finish(p)
  /\ UNCHANGED tables

CommitBrigade(p) ==
  /\ At(p, "commit_crew")
  /\ LET r == job[p].id
     IN /\ brigade' = [brigade EXCEPT ![r] = (@ \ job[p].rows) \cup job[p].crew]
        /\ FinishRemoving(p, r, job[p].rows)
  /\ UNCHANGED <<equipment, status, equipmentId, closedAt, history>>

-----------------------------------------------------------------------------
\* DELETE /requests/:id/assignees/:technicianId

StartRemoveAssignee(p, r, t) ==
  /\ Exists(r)
  /\ Begin(p, [Idle EXCEPT !.step = "find", !.id = r, !.who = t])
  /\ UNCHANGED tables

FindAssignee(p) ==
  /\ At(p, "find")
  /\ IF job[p].who \in Techs(brigade[job[p].id])
       THEN Goto(p, "issue")
       ELSE Finish(p)
  /\ UNCHANGED tables

\* DELETE is issued: it sees the row if it is still there.
IssueRemove(p) ==
  /\ At(p, "issue")
  /\ LET found == {a \in brigade[job[p].id] : a.technicianId = job[p].who}
     IN Become(p, [job[p] EXCEPT !.step = "unassign", !.rows = found])
  /\ UNCHANGED tables

\* 204, also when the row was gone and nothing was removed.
RemoveAssignee(p) ==
  /\ At(p, "unassign")
  /\ MayRemove(p)
  /\ LET r == job[p].id
     IN /\ brigade' = [brigade EXCEPT ![r] = @ \ job[p].rows]
        /\ FinishRemoving(p, r, job[p].rows)
  /\ UNCHANGED <<equipment, status, equipmentId, closedAt, history>>

-----------------------------------------------------------------------------
\* DELETE /equipment/:id

StartDropEquipment(p, e) ==
  /\ e \in equipment
  /\ Begin(p, [Idle EXCEPT !.step = "check_active", !.eq = e])
  /\ UNCHANGED tables

\* findActiveByEquipmentId
CheckActive(p) ==
  /\ At(p, "check_active")
  /\ IF \E r \in Requests : status[r] \in Active /\ equipmentId[r] = job[p].eq
       THEN Finish(p)
       ELSE Goto(p, "drop")
  /\ UNCHANGED tables

\* Slip: the foreign key does not restrict.
DropUnrestricted(p) ==
  /\ At(p, "drop")
  /\ equipment' = equipment \ {job[p].eq}
  /\ Finish(p)
  /\ UNCHANGED <<status, equipmentId, closedAt, history, brigade>>

\* The foreign key of maintenance_requests is RESTRICT: any request keeps the
\* equipment, and the violation is answered 409.
DropEquipment(p) ==
  /\ At(p, "drop")
  /\ IF \E r \in Requests : equipmentId[r] = job[p].eq
       THEN /\ Finish(p)
            /\ UNCHANGED equipment
       ELSE /\ equipment' = equipment \ {job[p].eq}
            /\ Finish(p)
  /\ UNCHANGED <<status, equipmentId, closedAt, history, brigade>>

-----------------------------------------------------------------------------

\* A call refused at its first read (404, 409, 422) or by the middlewares.
Refuse(p) == /\ At(p, "idle")
             /\ UNCHANGED vars

\* A statement fails: connection lost, no connection from the pool in time, or
\* the deadlock detector chose this transaction.  Rollback and 500.
DbError(p) == /\ ~ At(p, "idle")
              /\ Finish(p)
              /\ UNCHANGED tables

Start(p) ==
  \/ \E r \in Requests :
       \/ \E e \in Equipment : StartCreate(p, r, e)
       \/ StartUpdate(p, r)
       \/ \E to \in Statuses, by \in Technicians \cup {Admin} : StartUpdateStatus(p, r, to, by)
       \/ StartDelete(p, r)
       \/ \E body \in Bodies : StartSetAssignees(p, r, body)
       \/ \E t \in Technicians : StartRemoveAssignee(p, r, t)
  \/ \E e \in Equipment : StartDropEquipment(p, e)

Continue(p) ==
  \/ InsertRequest(p)
  \/ Authorise(p) \/ CountAssignees(p) \/ LockRequest(p) \/ CommitUpdate(p) \/ AnswerEmpty(p)
  \/ DestroyRequest(p)
  \/ LookupTechnicians(p) \/ ClearBrigade(p) \/ FillBrigade(p) \/ CommitBrigade(p)
  \/ FindAssignee(p) \/ IssueRemove(p) \/ RemoveAssignee(p)
  \/ CheckActive(p) \/ DropEquipment(p)

Next == \E p \in Procs : Start(p) \/ Refuse(p) \/ Continue(p) \/ DbError(p)

Spec == Init /\ [][Next]_vars
=============================================================================
