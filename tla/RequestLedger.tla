--------------------------- MODULE RequestLedger ---------------------------
(***************************************************************************)
(* What the request tables promise whatever the handlers do concurrently.  *)
(* There are no handlers here: each action is one committed change of the  *)
(* tables maintenance_requests, request_assignees, request_status_history  *)
(* and equipment.  RequestWorkflow, where handlers interleave at every     *)
(* await, implements this module.                                          *)
(***************************************************************************)
EXTENDS RequestTables

Init == TablesInit

\* A request is born with its first history entry.
Create(r, e) == /\ status[r] = "unborn"
                /\ e \in equipment
                /\ status' = [status EXCEPT ![r] = "new"]
                /\ equipmentId' = [equipmentId EXCEPT ![r] = e]
                /\ history' = [history EXCEPT ![r] = <<[prev |-> Null, new |-> "new"]>>]
                /\ UNCHANGED <<equipment, closedAt, brigade>>

\* The status and its history entry change together, and the entry names the
\* status that was really there.
ChangeStatus(r, s) ==
  /\ Exists(r)
  /\ s \in Statuses \ {"new", status[r]}
  /\ status' = [status EXCEPT ![r] = s]
  /\ history' = [history EXCEPT ![r] = Append(@, [prev |-> status[r], new |-> s])]
  /\ closedAt' = [closedAt EXCEPT ![r] = IF s \in Closing THEN @ + 1 ELSE @]
  /\ UNCHANGED <<equipment, equipmentId, brigade>>

\* A closed request may have its closing date written again.
Reclose(r) == /\ status[r] \in Closing
              /\ closedAt' = [closedAt EXCEPT ![r] = @ + 1]
              /\ UNCHANGED <<equipment, status, equipmentId, history, brigade>>

\* A brigade is replaced by a whole crew with one lead; rows of a concurrent
\* replacement may survive beside it, never a second row of one technician.
Replace(r, crew, kept) ==
  /\ Exists(r)
  /\ crew \subseteq Assignee
  /\ OneLead(crew)
  /\ NoDuplicate(crew)
  /\ kept \subseteq brigade[r]
  /\ Techs(kept) \cap Techs(crew) = {}
  /\ brigade' = [brigade EXCEPT ![r] = kept \cup crew]
  /\ UNCHANGED <<equipment, status, equipmentId, closedAt, history>>

Unassign(r, a) == /\ a \in brigade[r]
                  /\ brigade' = [brigade EXCEPT ![r] = @ \ {a}]
                  /\ UNCHANGED <<equipment, status, equipmentId, closedAt, history>>

\* A request disappears with everything that refers to it, and its id is never
\* used again.
Delete(r) == /\ Exists(r)
             /\ status' = [status EXCEPT ![r] = "gone"]
             /\ equipmentId' = [equipmentId EXCEPT ![r] = Null]
             /\ closedAt' = [closedAt EXCEPT ![r] = 0]
             /\ history' = [history EXCEPT ![r] = <<>>]
             /\ brigade' = [brigade EXCEPT ![r] = {}]
             /\ UNCHANGED equipment

\* Equipment is only removed when no request, open or closed, refers to it.
DropEquipment(e) == /\ e \in equipment
                    /\ \A r \in Requests : equipmentId[r] # e
                    /\ equipment' = equipment \ {e}
                    /\ UNCHANGED <<status, equipmentId, closedAt, history, brigade>>

Next == \/ \E r \in Requests :
             \/ \E e \in Equipment : Create(r, e)
             \/ \E s \in Statuses : ChangeStatus(r, s)
             \/ Reclose(r)
             \/ \E crew \in SUBSET Assignee, kept \in SUBSET brigade[r] : Replace(r, crew, kept)
             \/ \E a \in brigade[r] : Unassign(r, a)
             \/ Delete(r)
        \/ \E e \in Equipment : DropEquipment(e)

Spec == Init /\ [][Next]_tables
=============================================================================
