---------------------------- MODULE ReportTables ----------------------------
(***************************************************************************)
(* What the metrics, the summary of a site and the load report read of the *)
(* database, and how it changes under them: by the committed transactions  *)
(* of the other handlers, one after another.  Each query sees the tables   *)
(* of one moment; two queries of one handler may see different ones.       *)
(***************************************************************************)
EXTENDS Naturals, FiniteSets

CONSTANTS Requests, Equipment, Technicians, Sites,  \* ids
          Null,        \* the SQL NULL
          SiteOf,      \* site_id of a piece of equipment, Null for one made by the API
          LabelOf,     \* its name and type, which are not unique
          InitialRows, \* equipment and requests the demo data or a legacy import left
          Crews,       \* brigades a body may name
          MaxChanges   \* bound: changes of the tables

VARIABLES kit,         \* state of each piece of equipment
          request,     \* status, equipment, due date and brigade of each request
          changes      \* how often the tables have changed

tables == <<kit, request, changes>>

Statuses == {"new", "in_progress", "done", "rejected"}
Active   == {"new", "in_progress"}

Request == [status    : Statuses \cup {"unborn", "gone"},
            equipment : Equipment \cup {Null},
            late      : BOOLEAN,              \* planned_at has passed
            crew      : SUBSET Technicians]

NoRequest == [status |-> "unborn", equipment |-> Null, late |-> FALSE, crew |-> {}]

ASSUME ReportAssumption == /\ IsFiniteSet(Requests) /\ IsFiniteSet(Equipment)
                           /\ IsFiniteSet(Technicians)
                           /\ SiteOf \in [Equipment -> Sites \cup {Null}]
                           /\ DOMAIN LabelOf = Equipment
                           /\ Null \notin Equipment \cup Sites
                           /\ InitialRows \subseteq [kit : [Equipment -> {"unborn", "here"}],
                                              request : [Requests -> Request]]
                           /\ Crews \subseteq SUBSET Technicians
                           /\ MaxChanges \in Nat

Here == {e \in Equipment : kit[e] = "here"}

In(S) == {r \in Requests : request[r].status \in S}

Of(e, S) == {r \in In(S) : request[r].equipment = e}

TablesInit == /\ \E rows \in InitialRows : kit = rows.kit /\ request = rows.request
              /\ \A r \in In(Statuses) : request[r].equipment \in Here
              /\ changes = 0

-----------------------------------------------------------------------------

Changing == /\ changes < MaxChanges
            /\ changes' = changes + 1

Put(r, row) == /\ Changing
               /\ row # request[r]
               /\ request' = [request EXCEPT ![r] = row]
               /\ UNCHANGED kit

CreateRequest(r, e, late) ==
  /\ request[r].status = "unborn"
  /\ e \in Here
  /\ Put(r, [status |-> "new", equipment |-> e, late |-> late, crew |-> {}])

\* updateStatus; two that overlap may end in any status but the first.
ChangeStatus(r, s) ==
  /\ r \in In(Statuses)
  /\ Put(r, [request[r] EXCEPT !.status = s])

\* planned_at passes, or a PATCH moves it.
ChangeLate(r) ==
  /\ r \in In(Statuses)
  /\ Put(r, [request[r] EXCEPT !.late = ~ @])

DeleteRequest(r) ==
  /\ r \in In(Statuses)
  /\ Put(r, [NoRequest EXCEPT !.status = "gone"])

SetCrew(r, crew) ==
  /\ r \in In(Statuses)
  /\ Put(r, [request[r] EXCEPT !.crew = crew])

CreateEquipment(e) == /\ kit[e] = "unborn"
                      /\ Changing
                      /\ kit' = [kit EXCEPT ![e] = "here"]
                      /\ UNCHANGED request

DeleteEquipment(e) == /\ e \in Here
                      /\ Of(e, Statuses) = {}
                      /\ Changing
                      /\ kit' = [kit EXCEPT ![e] = "gone"]
                      /\ UNCHANGED request

Change ==
  \/ \E r \in Requests :
       \/ \E e \in Equipment, late \in BOOLEAN : CreateRequest(r, e, late)
       \/ \E s \in Statuses \ {"new"} : ChangeStatus(r, s)
       \/ ChangeLate(r) \/ DeleteRequest(r)
       \/ \E crew \in Crews : SetCrew(r, crew)
  \/ \E e \in Equipment : CreateEquipment(e) \/ DeleteEquipment(e)
=============================================================================
