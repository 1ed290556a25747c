------------------------- MODULE RequestProperties -------------------------
(***************************************************************************)
(* What must hold of RequestWorkflow.  The first part holds however the    *)
(* handlers overlap.  The second is what the documentation says; overlaps  *)
(* break it, and RequestIsolation says who keeps it all the same.          *)
(***************************************************************************)
EXTENDS RequestWorkflow

\* Every table and every handler holds values of its type (request.repository.js
\* and the migrations).
TypeOK == /\ equipment \subseteq Equipment
          /\ status \in [Requests -> Statuses \cup {"unborn", "gone"}]
          /\ equipmentId \in [Requests -> Equipment \cup {Null}]
          /\ closedAt \in [Requests -> Nat]
          /\ history \in [Requests -> Seq(Entry)]
          /\ brigade \in [Requests -> SUBSET Assignee]
          /\ job \in [Procs -> Job]
          /\ \A p \in Procs : job[p].step \in OnRequest => job[p].id \in Requests

\* The recorded history of a request ends in the status the request has, and
\* every entry starts where the one before it ended: what RequestRepository.update
\* writes in its transaction is never contradicted by another handler.
AuditTrail ==
  \A r \in Requests :
    LET h == history[r]
    IN /\ h # <<>> => h[Len(h)].new = status[r]
       /\ \A i \in 1 .. Len(h) - 1 : h[i + 1].prev = h[i].new

\* A closed request has a closing date: RequestRepository.update stamps it
\* whatever race led to the status.
ClosedIsDated == \A r \in Requests : status[r] \in Closing => closedAt[r] > 0

\* Nothing refers to a row that is gone: assignees and history belong to an
\* existing request and a request to existing equipment, although the services
\* check existence long before they write.
ReferentialIntegrity ==
  \A r \in Requests :
    IF Exists(r) THEN equipmentId[r] \in equipment
    ELSE equipmentId[r] = Null /\ brigade[r] = {} /\ history[r] = <<>>

\* Replacements of one brigade that overlap never leave a technician in it twice.
UniqueAssignment == \A r \in Requests : NoDuplicate(brigade[r])

\* Every committed change is one of RequestLedger: status and history together,
\* a brigade replaced as a whole, a request deleted with all that hangs on it.
Ledger == INSTANCE RequestLedger WITH
  Requests <- Requests, Equipment <- Equipment, Technicians <- Technicians, Null <- Null,
  SeededRows <- SeededRows, equipment <- equipment, status <- status, history <- history,
  equipmentId <- equipmentId, closedAt <- closedAt, brigade <- brigade
ImplementsLedger == Ledger!Spec

-----------------------------------------------------------------------------
\* What a handler may still rely on between two of its statements.  Together
\* with the invariants above it is inductive.

\* The id of POST /requests stays unused until it is inserted; any other
\* handler works on an id that had a row when it started.
IdsValid ==
  \A p \in Procs :
    /\ job[p].step \notin OnRequest => job[p].id = Null
    /\ job[p].step \in OnRequest \ {"insert"} => status[job[p].id] # "unborn"
    /\ At(p, "insert") => /\ job[p].eq \in Equipment
                          /\ status[job[p].id] = "unborn"
                          /\ \A q \in Others(p) : job[q].id # job[p].id

\* A status on its way to the database is a target of the workflow, and from
\* SELECT ... FOR UPDATE to COMMIT the row keeps the status that was read.
StatusesValid ==
  \A p \in Procs :
    /\ At(p, "authorise") => job[p].seen \in Statuses /\ job[p].to \in Statuses
    /\ job[p].step \in {"count", "lock", "commit"} => job[p].to # "new"
    /\ At(p, "commit") => job[p].seen \in Statuses /\ job[p].seen = status[job[p].id]

\* A crew that passed the checks has one lead and no duplicate, a crew in the
\* table is made of technicians and of none the brigade keeps, and the DELETE of
\* one technician removes one row at most.
CrewsValid ==
  \A p \in Procs :
    /\ job[p].step \in {"lookup", "clear", "fill", "commit_crew"} =>
         OneLead(job[p].crew) /\ NoDuplicate(job[p].crew)
    /\ job[p].step \in {"clear", "fill", "commit_crew"} => job[p].crew \subseteq Assignee
    /\ At(p, "commit_crew") =>
         /\ Exists(job[p].id)
         /\ Techs(brigade[job[p].id] \ job[p].rows) \cap Techs(job[p].crew) = {}
    /\ At(p, "unassign") => \A a, b \in job[p].rows : a = b

\* A row held FOR UPDATE is held by nobody else, and brigades inserted by two
\* transactions share no technician.
LocksExclude ==
  \A p, q \in Procs : p # q /\ job[p].id = job[q].id =>
    /\ At(p, "commit") => job[q].step \notin {"commit", "commit_crew"}
    /\ At(p, "commit_crew") /\ At(q, "commit_crew") =>
         Techs(job[p].crew) \cap Techs(job[q].crew) = {}

\* Between its statements a handler keeps what it checked under its locks:
\* the states of update and setAssignees are never stale once they hold a row.
InFlight == IdsValid /\ StatusesValid /\ CrewsValid /\ LocksExclude

-----------------------------------------------------------------------------

\* The workflow that the documentation promises; RequestIsolation says who keeps it.
Contract == INSTANCE RequestContract

\* A request in done or rejected stays there until it is deleted.
TerminalIsFinal ==
  [][\A r \in Requests : status[r] \in Closing => status'[r] \in {status[r], "gone"}]_vars

\* A brigade has at most one lead.
AtMostOneLead ==
  \A r \in Requests : \A a, b \in brigade[r] : a.role = "lead" /\ b.role = "lead" => a = b
=============================================================================
