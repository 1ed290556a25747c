--------------------------- MODULE RequestTables ---------------------------
(***************************************************************************)
(* The PostgreSQL tables behind the maintenance requests, as the           *)
(* migrations declare them, and the content they may have when the API     *)
(* starts: nothing, or rows of the demo seeders and of the legacy import.  *)
(***************************************************************************)
EXTENDS Naturals, Sequences

CONSTANTS Requests,     \* ids of maintenance requests (UUIDs)
          Equipment,    \* ids of equipment rows
          Technicians,  \* ids of technician rows; no operation removes one
          Null,         \* the SQL NULL
          SeededRows    \* request rows, with what hangs on them, found at start

VARIABLES equipment,    \* the equipment rows that exist
          status,       \* status of a request, "unborn" or "gone" without a row
          equipmentId,  \* foreign key of a request
          closedAt,     \* how many times closed_at was written, 0 while NULL
          history,      \* request_status_history of a request, oldest first
          brigade       \* request_assignees of a request

tables == <<equipment, status, equipmentId, closedAt, history, brigade>>

Statuses == {"new", "in_progress", "done", "rejected"}
Active   == {"new", "in_progress"}
Closing  == {"done", "rejected"}
Roles    == {"lead", "member"}
Assignee == [technicianId : Technicians, role : Roles]
Entry    == [prev : Statuses \cup {Null}, new : Statuses]

Exists(r) == status[r] \in Statuses

Techs(rows) == {a.technicianId : a \in rows}

\* Exactly one member of the crew leads it.
OneLead(crew) == \E a \in crew : /\ a.role = "lead"
                                 /\ \A b \in crew : b.role = "lead" => b = a

\* No technician appears twice: the constraint unique_request_technician.
NoDuplicate(rows) == \A a, b \in rows : a.technicianId = b.technicianId => a = b

\* History of a seeded or imported row: none, one entry with its status, the
\* creation followed by a jump to its status, or the whole way to done.
SeededHistory(s) ==
  {<<>>, <<[prev |-> Null, new |-> s]>>}
  \cup (IF s = "new" THEN {} ELSE {<<[prev |-> Null, new |-> "new"], [prev |-> "new", new |-> s]>>})
  \cup (IF s # "done" THEN {} ELSE {<<[prev |-> Null, new |-> "new"],
                                      [prev |-> "new", new |-> "in_progress"],
                                      [prev |-> "in_progress", new |-> s]>>})

Seed == [status : Statuses, equipmentId : Equipment,
         history : UNION {SeededHistory(s) : s \in Statuses},
         brigade : SUBSET Assignee]

LegalSeed(row) == /\ row.history \in SeededHistory(row.status)
                  /\ NoDuplicate(row.brigade)
                  /\ row.brigade # {} => OneLead(row.brigade)

\* The ids are values of their own, and the seeds are rows of those scripts.
ASSUME IdsAssumption == Null \notin Requests \cup Equipment \cup Technicians \cup Statuses

ASSUME SeedsAssumption == \A row \in SeededRows : row \in Seed /\ LegalSeed(row)

NoRow == [status |-> "unborn", equipmentId |-> Null, history |-> <<>>, brigade |-> {}]

TablesInit ==
  /\ equipment = Equipment
  /\ \E row \in [Requests -> SeededRows \cup {NoRow}] :
       /\ status      = [r \in Requests |-> row[r].status]
       /\ equipmentId = [r \in Requests |-> row[r].equipmentId]
       /\ closedAt    = [r \in Requests |-> IF row[r].status \in Closing THEN 1 ELSE 0]
       /\ history     = [r \in Requests |-> row[r].history]
       /\ brigade     = [r \in Requests |-> row[r].brigade]
=============================================================================
