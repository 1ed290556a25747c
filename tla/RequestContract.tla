-------------------------- MODULE RequestContract --------------------------
(***************************************************************************)
(* The contract the documentation and the tests state for maintenance      *)
(* requests: the ledger of RequestLedger, with the workflow rules of       *)
(* ALLOWED_TRANSITIONS and of the brigade enforced on every committed      *)
(* change.  RequestWorkflow keeps it when handlers do not overlap.         *)
(***************************************************************************)
EXTENDS RequestLedger

ALLOWED_TRANSITIONS == [new         |-> {"in_progress", "rejected"},
                        in_progress |-> {"done", "rejected"},
                        done        |-> {},
                        rejected    |-> {}]

\* Work starts only with somebody assigned, and a closed request stays closed.
AllowedChange(r, s) == /\ Exists(r)
                       /\ s \in ALLOWED_TRANSITIONS[status[r]]
                       /\ s = "in_progress" => brigade[r] # {}
                       /\ ChangeStatus(r, s)

ContractNext ==
  \/ \E r \in Requests :
       \/ \E e \in Equipment : Create(r, e)
       \/ \E s \in Statuses : AllowedChange(r, s)
       \/ \E crew \in SUBSET Assignee : Replace(r, crew, {})
       \/ \E a \in brigade[r] : Unassign(r, a)
       \/ Delete(r)
  \/ \E e \in Equipment : DropEquipment(e)

ContractSpec == Init /\ [][ContractNext]_tables
=============================================================================
