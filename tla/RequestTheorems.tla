--------------------------- MODULE RequestTheorems ---------------------------
(***************************************************************************)
(* What is proved of RequestWorkflow for any number of handlers, requests, *)
(* technicians and pieces of equipment, and any seeded rows.               *)
(*                                                                         *)
(* The handlers are only compared with RequestLedger, one statement at a   *)
(* time (StepImplementsLedger); what holds of the tables is then shown of  *)
(* the seven actions of RequestLedger (LedgerKept), not of the handlers.   *)
(***************************************************************************)
EXTENDS RequestWorkflowProofs

\* The part of the inductive invariant that speaks of the tables alone.
LedgerInv == AuditTrail /\ ClosedIsDated /\ ReferentialIntegrity /\ UniqueAssignment

\* The inductive invariant.
IInv == TypeOK /\ InFlight /\ LedgerInv

-----------------------------------------------------------------------------
\* The words of RequestLedger mean what they mean here: both modules extend
\* RequestTables.
LEMMA SameWords ==
  /\ Ledger!Statuses = Statuses /\ Ledger!Closing = Closing /\ Ledger!Assignee = Assignee
  /\ Ledger!tables = tables
  /\ \A r : Ledger!Exists(r) <=> Exists(r)
  /\ \A rows : Ledger!Techs(rows) = Techs(rows)
  /\ \A crew : Ledger!OneLead(crew) <=> OneLead(crew)
  /\ \A rows : Ledger!NoDuplicate(rows) <=> NoDuplicate(rows)
  BY DEF Ledger!Statuses, Statuses, Ledger!Closing, Closing, Ledger!Assignee, Assignee,
         Ledger!Roles, Roles, Ledger!tables, tables, Ledger!Exists, Exists, Ledger!Techs, Techs,
         Ledger!OneLead, OneLead, Ledger!NoDuplicate, NoDuplicate

\* What each statement that writes does to the tables, as an action of the ledger:
\* the handler, its request or equipment and its locals say which one.
LEMMA StatementOnLedger ==
  ASSUME TypeOK, InFlight, NEW p \in Procs, Continue(p)
  PROVE  \/ UNCHANGED tables
         \/ InsertRequest(p) /\ \E r \in Requests, e \in Equipment : Ledger!Create(r, e)
         \/ CommitUpdate(p) /\ \E r \in Requests, to \in Statuses :
                                 /\ r = job[p].id /\ to = job[p].to
                                 /\ \/ Ledger!ChangeStatus(r, to)
                                    \/ Ledger!Reclose(r) /\ to = status[r]
         \/ DestroyRequest(p) /\ \E r \in Requests : Ledger!Delete(r)
         \/ CommitBrigade(p) /\ \E r \in Requests, crew \in SUBSET Assignee :
                                  \E kept \in SUBSET brigade[r] :
                                    /\ r = job[p].id /\ kept = brigade[r] \ job[p].rows
                                    /\ Ledger!Replace(r, crew, kept)
         \/ RemoveAssignee(p) /\ \E r \in Requests : \E a \in brigade[r] : Ledger!Unassign(r, a)
         \/ DropEquipment(p) /\ \E e \in Equipment : Ledger!DropEquipment(e)
<1> DEFINE r == job[p].id
<1>0. /\ IdsValid /\ StatusesValid /\ CrewsValid
      /\ job[p].step \in OnRequest => r \in Requests
  BY DEF InFlight, TypeOK
<1>1. CASE InsertRequest(p)
  <2>1. r \in Requests /\ status[r] = "unborn"
    BY <1>0, <1>1 DEF InsertRequest, At, IdsValid, OnRequest, Steps
  <2>2. CASE job[p].eq \in equipment
    <3>1. Ledger!Create(r, job[p].eq)
      BY SameWords, <1>1, <2>1, <2>2 DEF InsertRequest, Ledger!Create
    <3>2. job[p].eq \in Equipment
      BY <2>2 DEF TypeOK
    <3> QED
      BY <1>1, <2>1, <3>1, <3>2
  <2>3. CASE job[p].eq \notin equipment
    BY <1>1, <2>3 DEF InsertRequest
  <2> QED
    BY <2>2, <2>3
<1>2. CASE CommitUpdate(p)
  <2> DEFINE to == job[p].to
  <2>1. /\ r \in Requests /\ Exists(r) /\ job[p].seen = status[r] /\ to # "new"
        /\ to \in Statuses \cup {Null}
    BY <1>0, <1>2 DEF CommitUpdate, At, StatusesValid, OnRequest, Steps, Exists, TypeOK, Job
  <2>2. CASE to = Null
    BY <1>2, <2>2 DEF CommitUpdate, tables
  <2>3. CASE to # Null /\ to = status[r]
    <3>1. /\ status' = [status EXCEPT ![r] = to]
          /\ closedAt' = [closedAt EXCEPT ![r] = IF to \in Closing THEN @ + 1 ELSE @]
          /\ history' = [history EXCEPT ![r] = @]
          /\ UNCHANGED <<equipment, equipmentId, brigade>>
      BY <1>2, <2>1, <2>3 DEF Stamp, Log, CommitUpdate
    <3>2. status' = status /\ history' = history
      BY <2>1, <2>3, <3>1 DEF TypeOK
    <3>3. CASE to \in Closing
      <4>1. Ledger!Reclose(r)
        BY SameWords, <2>3, <3>1, <3>2, <3>3 DEF Ledger!Reclose
      <4> QED
        BY <1>2, <2>1, <2>3, <4>1
    <3>4. CASE to \notin Closing
      <4>1. closedAt' = closedAt
        BY <2>1, <3>1, <3>4 DEF TypeOK
      <4> QED
        BY <3>1, <3>2, <4>1 DEF tables
    <3> QED
      BY <3>3, <3>4
  <2>4. CASE to # Null /\ to # status[r]
    <3>1. Ledger!ChangeStatus(r, to)
      BY SameWords, <1>2, <2>1, <2>4 DEF Stamp, Log, CommitUpdate, Ledger!ChangeStatus
    <3> QED
      BY <1>2, <2>1, <2>4, <3>1
  <2> QED
    BY <2>2, <2>3, <2>4
<1>3. CASE DestroyRequest(p)
  <2>1. r \in Requests
    BY <1>0, <1>3 DEF DestroyRequest, At, OnRequest, Steps
  <2>2. CASE Exists(r) /\ ~ UNCHANGED tables
    <3>1. Ledger!Delete(r)
      BY SameWords, <1>3, <2>2 DEF DestroyRequest, Ledger!Delete
    <3> QED
      BY <1>3, <2>1, <3>1
  <2> QED
    BY <1>3, <2>2 DEF DestroyRequest
<1>4. CASE CommitBrigade(p)
  <2> DEFINE kept == brigade[r] \ job[p].rows
  <2>1. At(p, "commit_crew") /\ r \in Requests
    BY <1>0, <1>4 DEF CommitBrigade, At, OnRequest, Steps
  <2>2. /\ Exists(r) /\ job[p].crew \subseteq Assignee
        /\ OneLead(job[p].crew) /\ NoDuplicate(job[p].crew)
        /\ Techs(kept) \cap Techs(job[p].crew) = {}
    BY <1>0, <2>1 DEF CrewsValid, At
  <2>3. /\ brigade' = [brigade EXCEPT ![r] = kept \cup job[p].crew]
        /\ UNCHANGED <<equipment, status, equipmentId, closedAt, history>>
    BY <1>4 DEF CommitBrigade
  <2>4. kept \in SUBSET brigade[r] /\ kept = brigade[r] \ job[p].rows
    OBVIOUS
  <2> HIDE DEF kept
  <2>5. Ledger!Replace(r, job[p].crew, kept)
    BY SameWords, <2>2, <2>3, <2>4 DEF Ledger!Replace
  <2> QED
    BY <1>4, <2>1, <2>2, <2>4, <2>5
<1>5. CASE RemoveAssignee(p)
  <2>1. /\ r \in Requests /\ \A a, b \in job[p].rows : a = b
        /\ brigade' = [brigade EXCEPT ![r] = brigade[r] \ job[p].rows]
        /\ UNCHANGED <<equipment, status, equipmentId, closedAt, history>>
    BY <1>0, <1>5 DEF RemoveAssignee, At, CrewsValid, OnRequest, Steps
  <2>2. CASE brigade[r] \cap job[p].rows = {}
    <3>1. brigade[r] \ job[p].rows = brigade[r]
      BY <2>2
    <3>2. brigade' = brigade
      BY <2>1, <3>1 DEF TypeOK
    <3> QED
      BY <2>1, <3>2 DEF tables
  <2>3. ASSUME NEW a \in brigade[r] \cap job[p].rows
        PROVE  \E x \in Requests : \E b \in brigade[x] : Ledger!Unassign(x, b)
    <3>1. brigade[r] \ job[p].rows = brigade[r] \ {a}
      BY <2>1, <2>3
    <3>2. Ledger!Unassign(r, a)
      BY SameWords, <2>1, <2>3, <3>1 DEF Ledger!Unassign
    <3> QED
      BY <2>1, <2>3, <3>2
  <2> QED
    BY <1>5, <2>2, <2>3
<1>6. CASE DropEquipment(p)
  <2>1. CASE \E q \in Requests : equipmentId[q] = job[p].eq
    BY <1>6, <2>1 DEF DropEquipment, tables
  <2>2. CASE job[p].eq \notin equipment /\ ~ \E q \in Requests : equipmentId[q] = job[p].eq
    <3>1. equipment \ {job[p].eq} = equipment
      BY <2>2
    <3> QED
      BY <1>6, <2>2, <3>1 DEF DropEquipment, tables
  <2>3. CASE job[p].eq \in equipment /\ ~ \E q \in Requests : equipmentId[q] = job[p].eq
    <3>1. job[p].eq \in Equipment
      BY <2>3 DEF TypeOK
    <3>2. Ledger!DropEquipment(job[p].eq)
      BY SameWords, <1>6, <2>3 DEF DropEquipment, Ledger!DropEquipment
    <3> QED
      BY <1>6, <3>1, <3>2
  <2> QED
    BY <2>1, <2>2, <2>3
<1>7. CASE UNCHANGED tables
  BY <1>7
<1> QED
  BY <1>1, <1>2, <1>3, <1>4, <1>5, <1>6, <1>7
     DEF Continue, Authorise, CountAssignees, LockRequest, AnswerEmpty, LookupTechnicians,
         ClearBrigade, FillBrigade, FindAssignee, IssueRemove, CheckActive

\* The first statement of a handler only reads.
LEMMA StartReads ==
  ASSUME NEW p \in Procs, Start(p)
  PROVE  UNCHANGED tables /\ At(p, "idle")
  BY DEF Start, StartCreate, StartUpdate, StartUpdateStatus, StartDelete, StartSetAssignees,
         StartRemoveAssignee, StartDropEquipment, Begin

\* Every statement is a step of the ledger or changes no table.
LEMMA StepImplementsLedger ==
  ASSUME TypeOK, InFlight, [Next]_vars
  PROVE  [Ledger!Next]_tables
<1>1. ASSUME NEW p \in Procs, Continue(p) PROVE [Ledger!Next]_tables
  BY SameWords, <1>1, StatementOnLedger DEF Ledger!Next
<1>2. CASE UNCHANGED tables
  BY <1>2
<1> QED
  BY <1>1, <1>2, StartReads DEF Next, Refuse, DbError, vars, tables

-----------------------------------------------------------------------------
\* What holds of the tables at start.

\* The seeded rows are consistent, and there is nothing else.
LEMMA InitLedger == ASSUME Init PROVE LedgerInv
<1>1. PICK row \in [Requests -> SeededRows \cup {NoRow}] :
         /\ status      = [r \in Requests |-> row[r].status]
         /\ equipmentId = [r \in Requests |-> row[r].equipmentId]
         /\ closedAt    = [r \in Requests |-> IF row[r].status \in Closing THEN 1 ELSE 0]
         /\ history     = [r \in Requests |-> row[r].history]
         /\ brigade     = [r \in Requests |-> row[r].brigade]
  BY DEF Init, TablesInit
<1>2. equipment = Equipment
  BY DEF Init, TablesInit
<1>3. ASSUME NEW r \in Requests, row[r] \in SeededRows
      PROVE  /\ row[r].status \in Statuses /\ row[r].equipmentId \in Equipment
             /\ row[r].history \in SeededHistory(row[r].status) /\ NoDuplicate(row[r].brigade)
  BY <1>3, SeedsAssumption DEF Seed, LegalSeed
<1>4. AuditTrail
  <2>1. ASSUME NEW r \in Requests
        PROVE  LET h == history[r]
               IN /\ h # <<>> => h[Len(h)].new = status[r]
                  /\ \A i \in 1 .. Len(h) - 1 : h[i + 1].prev = h[i].new
    <3> DEFINE h == history[r]
    <3>1. CASE row[r] = NoRow
      BY <1>1, <3>1 DEF NoRow
    <3>2. CASE row[r] \in SeededRows
      <4>1. h \in SeededHistory(status[r])
        BY <1>1, <1>3, <3>2
      <4>2. CASE h = <<>>
        BY <4>2
      <4>3. CASE h = <<[prev |-> Null, new |-> status[r]]>>
        BY <4>3
      <4>4. CASE h = <<[prev |-> Null, new |-> "new"], [prev |-> "new", new |-> status[r]]>>
        BY <4>4
      <4>5. CASE h = <<[prev |-> Null, new |-> "new"], [prev |-> "new", new |-> "in_progress"],
                       [prev |-> "in_progress", new |-> status[r]]>>
        BY <4>5
      <4> QED
        BY <4>1, <4>2, <4>3, <4>4, <4>5 DEF SeededHistory
    <3> QED
      BY <3>1, <3>2
  <2> QED
    BY <2>1 DEF AuditTrail
<1>5. ClosedIsDated
  BY <1>1 DEF ClosedIsDated
<1>6. ReferentialIntegrity
  <2>1. ASSUME NEW r \in Requests, row[r] = NoRow
        PROVE  ~ Exists(r) /\ equipmentId[r] = Null /\ brigade[r] = {} /\ history[r] = <<>>
    BY <1>1, <2>1 DEF NoRow, Exists, Statuses
  <2>2. ASSUME NEW r \in Requests, row[r] \in SeededRows
        PROVE  Exists(r) /\ equipmentId[r] \in equipment
    BY <1>1, <1>2, <1>3, <2>2 DEF Exists
  <2> QED
    BY <2>1, <2>2 DEF ReferentialIntegrity
<1>7. UniqueAssignment
  <2>1. ASSUME NEW r \in Requests PROVE NoDuplicate(brigade[r])
    BY <1>1, <1>3 DEF NoRow, NoDuplicate
  <2> QED
    BY <2>1 DEF UniqueAssignment
<1> QED
  BY <1>4, <1>5, <1>6, <1>7 DEF LedgerInv

\* No handler runs yet.
LEMMA InitInFlight == ASSUME Init PROVE InFlight
<1>1. \A p \in Procs : job[p].step = "idle" /\ job[p].id = Null
  BY DEF Init, Idle
<1>2. IdsValid
  BY <1>1 DEF IdsValid, At, OnRequest
<1>3. StatusesValid
  BY <1>1 DEF StatusesValid, At
<1>4. CrewsValid
  BY <1>1 DEF CrewsValid, At
<1>5. LocksExclude
  BY <1>1 DEF LocksExclude, At
<1> QED
  BY <1>2, <1>3, <1>4, <1>5 DEF InFlight

-----------------------------------------------------------------------------
\* The actions of the ledger keep the tables consistent.

\* A history that ends in the status of the request goes on from there.
LEMMA ChainGrows ==
  ASSUME NEW h \in Seq(Entry), NEW s, NEW x \in Entry, x.prev = s,
         h # <<>> => h[Len(h)].new = s,
         \A i \in 1 .. Len(h) - 1 : h[i + 1].prev = h[i].new,
         NEW g, g = Append(h, x)
  PROVE  /\ g[Len(g)].new = x.new
         /\ \A i \in 1 .. Len(g) - 1 : g[i + 1].prev = g[i].new
<1>1. /\ Len(g) = Len(h) + 1 /\ g[Len(h) + 1] = x
      /\ \A i \in 1 .. Len(h) : g[i] = h[i]
  BY AppendProperties
<1>2. Len(h) \in Nat
  BY LenProperties
<1>3. ASSUME NEW i \in 1 .. Len(g) - 1 PROVE g[i + 1].prev = g[i].new
  <2>1. CASE i = Len(h)
    <3>1. h # <<>>
      BY <1>1, <1>3, <2>1
    <3> QED
      BY <1>1, <1>2, <1>3, <2>1, <3>1
  <2>2. CASE i # Len(h)
    BY <1>1, <1>2, <1>3, <2>2
  <2> QED
    BY <2>1, <2>2
<1> QED
  BY <1>1, <1>2, <1>3

\* A change of status appends one entry, which goes on from the one before it.
LEMMA AuditTrailKept ==
  ASSUME TypeOK, AuditTrail, ReferentialIntegrity, [Ledger!Next]_tables
  PROVE  AuditTrail'
<1> USE SameWords
<1> DEFINE Chain(h) == \A i \in 1 .. Len(h) - 1 : h[i + 1].prev = h[i].new
           Good(h, s) == (h # <<>> => h[Len(h)].new = s) /\ Chain(h)
<1>0. \A r \in Requests : Good(history[r], status[r])
  BY DEF AuditTrail
<1>1. SUFFICES ASSUME NEW r \in Requests PROVE Good(history'[r], status'[r])
  BY <1>1 DEF AuditTrail
<1>2. ASSUME history'[r] = history[r], status'[r] = status[r] \/ history[r] = <<>>
      PROVE  Good(history'[r], status'[r])
  BY <1>0, <1>2
<1>3. Good(<<>>, status'[r])
  OBVIOUS
<1>4. ASSUME NEW x \in Requests, NEW e \in Equipment, Ledger!Create(x, e)
      PROVE  Good(history'[r], status'[r])
  <2>1. CASE x = r
    <3>1. history'[r] = <<[prev |-> Null, new |-> "new"]>> /\ status'[r] = "new"
      BY <1>4, <2>1 DEF Ledger!Create, TypeOK
    <3> QED
      BY <3>1
  <2>2. CASE x # r
    <3>1. history'[r] = history[r] /\ status'[r] = status[r]
      BY <1>4, <2>2 DEF Ledger!Create, TypeOK
    <3> QED
      BY <1>2, <3>1
  <2> QED
    BY <2>1, <2>2
<1>5. ASSUME NEW x \in Requests, NEW s \in Statuses, Ledger!ChangeStatus(x, s)
      PROVE  Good(history'[r], status'[r])
  <2>1. CASE x = r
    <3> DEFINE entry == [prev |-> status[r], new |-> s]
    <3>1. history'[r] = Append(history[r], entry) /\ status'[r] = s
      BY <1>5, <2>1 DEF Ledger!ChangeStatus, TypeOK
    <3>2. entry \in Entry /\ entry.prev = status[r] /\ entry.new = s
      BY <1>5, <2>1 DEF Ledger!ChangeStatus, Exists, Entry
    <3>3. history[r] \in Seq(Entry) /\ Good(history[r], status[r])
      BY <1>0 DEF TypeOK
    <3> HIDE DEF entry
    <3> QED
      BY <3>1, <3>2, <3>3, ChainGrows
  <2>2. CASE x # r
    <3>1. history'[r] = history[r] /\ status'[r] = status[r]
      BY <1>5, <2>2 DEF Ledger!ChangeStatus, TypeOK
    <3> QED
      BY <1>2, <3>1
  <2> QED
    BY <2>1, <2>2
<1>6. ASSUME NEW x \in Requests, Ledger!Delete(x) PROVE Good(history'[r], status'[r])
  <2>1. CASE x = r
    BY <1>3, <1>6, <2>1 DEF Ledger!Delete, TypeOK
  <2>2. CASE x # r
    <3>1. history'[r] = history[r] /\ status'[r] = status[r]
      BY <1>6, <2>2 DEF Ledger!Delete, TypeOK
    <3> QED
      BY <1>2, <3>1
  <2> QED
    BY <2>1, <2>2
<1>7. CASE UNCHANGED <<status, history>>
  BY <1>2, <1>7
<1> HIDE DEF Good, Chain
<1> QED
  BY <1>4, <1>5, <1>6, <1>7
     DEF Ledger!Next, tables, Ledger!Reclose, Ledger!Replace, Ledger!Unassign,
         Ledger!DropEquipment

\* A request is dated in the step that closes it, and the date only goes with it.
LEMMA ClosedIsDatedKept ==
  ASSUME TypeOK, ClosedIsDated, [Ledger!Next]_tables
  PROVE  ClosedIsDated'
<1> USE SameWords
<1>1. SUFFICES ASSUME NEW r \in Requests, status'[r] \in Closing PROVE closedAt'[r] > 0
  BY DEF ClosedIsDated
<1>2. closedAt[r] \in Nat /\ (status[r] \in Closing => closedAt[r] > 0)
  BY DEF TypeOK, ClosedIsDated
<1>3. ASSUME NEW x \in Requests, NEW e \in Equipment, Ledger!Create(x, e) PROVE closedAt'[r] > 0
  <2>1. x # r /\ status'[r] = status[r] /\ closedAt' = closedAt
    BY <1>1, <1>3 DEF Ledger!Create, TypeOK, Closing
  <2> QED
    BY <1>1, <1>2, <2>1
<1>4. ASSUME NEW x \in Requests, NEW s \in Statuses, Ledger!ChangeStatus(x, s)
      PROVE  closedAt'[r] > 0
  <2>1. CASE x = r
    <3>1. status'[r] = s /\ closedAt'[r] = IF s \in Closing THEN closedAt[r] + 1 ELSE closedAt[r]
      BY <1>4, <2>1 DEF Ledger!ChangeStatus, TypeOK
    <3> QED
      BY <1>1, <1>2, <3>1
  <2>2. CASE x # r
    <3>1. status'[r] = status[r] /\ closedAt'[r] = closedAt[r]
      BY <1>4, <2>2 DEF Ledger!ChangeStatus, TypeOK
    <3> QED
      BY <1>1, <1>2, <3>1
  <2> QED
    BY <2>1, <2>2
<1>5. ASSUME NEW x \in Requests, Ledger!Reclose(x) PROVE closedAt'[r] > 0
  <2>1. status'[r] = status[r] /\ closedAt'[r] = IF x = r THEN closedAt[r] + 1 ELSE closedAt[r]
    BY <1>5 DEF Ledger!Reclose, TypeOK
  <2> QED
    BY <1>1, <1>2, <2>1
<1>6. ASSUME NEW x \in Requests, Ledger!Delete(x) PROVE closedAt'[r] > 0
  <2>1. x # r /\ status'[r] = status[r] /\ closedAt'[r] = closedAt[r]
    BY <1>1, <1>6 DEF Ledger!Delete, TypeOK, Closing
  <2> QED
    BY <1>1, <1>2, <2>1
<1>7. CASE UNCHANGED <<status, closedAt>>
  BY <1>1, <1>2, <1>7
<1> QED
  BY <1>3, <1>4, <1>5, <1>6, <1>7
     DEF Ledger!Next, tables, Ledger!Replace, Ledger!Unassign, Ledger!DropEquipment

\* Rows only refer to what exists, and what is removed takes its rows with it.
LEMMA ReferentialIntegrityKept ==
  ASSUME TypeOK, ReferentialIntegrity, [Ledger!Next]_tables
  PROVE  ReferentialIntegrity'
<1> USE SameWords
<1> DEFINE Empty(r) == equipmentId[r] = Null /\ brigade[r] = {} /\ history[r] = <<>>
<1>1. SUFFICES ASSUME NEW r \in Requests
               PROVE  IF Exists(r)' THEN equipmentId'[r] \in equipment' ELSE Empty(r)'
  BY DEF ReferentialIntegrity, Exists
<1>2. IF Exists(r) THEN equipmentId[r] \in equipment ELSE Empty(r)
  BY DEF ReferentialIntegrity
<1> DEFINE Goal == IF Exists(r)' THEN equipmentId'[r] \in equipment' ELSE Empty(r)'
           Same == /\ status'[r] = status[r] /\ equipmentId'[r] = equipmentId[r]
                   /\ brigade'[r] = brigade[r] /\ history'[r] = history[r]
                   /\ equipment' = equipment
<1>3. ASSUME Same PROVE Goal
  BY <1>2, <1>3 DEF Exists
<1>4. ASSUME NEW x \in Requests, NEW e \in Equipment, Ledger!Create(x, e) PROVE Goal
  <2>1. CASE x = r
    <3>1. status'[r] = "new" /\ equipmentId'[r] = e /\ e \in equipment /\ equipment' = equipment
      BY <1>4, <2>1 DEF Ledger!Create, TypeOK
    <3> QED
      BY <3>1 DEF Exists, Statuses
  <2>2. CASE x # r
    <3>1. Same
      BY <1>4, <2>2 DEF Ledger!Create, TypeOK
    <3> QED
      BY <1>3, <3>1
  <2> QED
    BY <2>1, <2>2
<1>5. ASSUME NEW x \in Requests, NEW s \in Statuses, Ledger!ChangeStatus(x, s) PROVE Goal
  <2>1. CASE x = r
    <3>1. Exists(r) /\ status'[r] = s
      BY <1>5, <2>1 DEF Ledger!ChangeStatus, TypeOK
    <3>2. equipmentId' = equipmentId /\ equipment' = equipment
      BY <1>5 DEF Ledger!ChangeStatus
    <3> QED
      BY <1>2, <1>5, <3>1, <3>2 DEF Exists
  <2>2. CASE x # r
    <3>1. Same
      BY <1>5, <2>2 DEF Ledger!ChangeStatus, TypeOK
    <3> QED
      BY <1>3, <3>1
  <2> QED
    BY <2>1, <2>2
<1>6. ASSUME NEW x \in Requests, Ledger!Delete(x) PROVE Goal
  <2>1. CASE x = r
    <3>1. status'[r] = "gone" /\ Empty(r)'
      BY <1>6, <2>1 DEF Ledger!Delete, TypeOK
    <3> QED
      BY <3>1 DEF Exists, Statuses
  <2>2. CASE x # r
    <3>1. Same
      BY <1>6, <2>2 DEF Ledger!Delete, TypeOK
    <3> QED
      BY <1>3, <3>1
  <2> QED
    BY <2>1, <2>2
<1>7. ASSUME NEW x \in Requests, NEW crew, NEW kept, Ledger!Replace(x, crew, kept) PROVE Goal
  <2>1. CASE x = r
    <3>1. Exists(r) /\ UNCHANGED <<equipment, status, equipmentId>>
      BY <1>7, <2>1 DEF Ledger!Replace
    <3> QED
      BY <1>2, <3>1 DEF Exists
  <2>2. CASE x # r
    <3>1. Same
      BY <1>7, <2>2 DEF Ledger!Replace, TypeOK
    <3> QED
      BY <1>3, <3>1
  <2> QED
    BY <2>1, <2>2
<1>8. ASSUME NEW x \in Requests, NEW a \in brigade[x], Ledger!Unassign(x, a) PROVE Goal
  <2>1. CASE x = r
    <3>1. Exists(r) /\ UNCHANGED <<equipment, status, equipmentId>>
      BY <1>2, <1>8, <2>1 DEF Ledger!Unassign
    <3> QED
      BY <1>2, <3>1 DEF Exists
  <2>2. CASE x # r
    <3>1. Same
      BY <1>8, <2>2 DEF Ledger!Unassign, TypeOK
    <3> QED
      BY <1>3, <3>1
  <2> QED
    BY <2>1, <2>2
<1>9. ASSUME NEW e \in Equipment, Ledger!DropEquipment(e) PROVE Goal
  <2>1. /\ UNCHANGED <<status, equipmentId, brigade, history>>
        /\ equipment' = equipment \ {e} /\ equipmentId[r] # e
    BY <1>9 DEF Ledger!DropEquipment
  <2> QED
    BY <1>2, <2>1 DEF Exists
<1>10. ASSUME UNCHANGED <<equipment, status, equipmentId, history, brigade>> PROVE Goal
  <2>1. Same
    BY <1>10
  <2> QED
    BY <1>3, <2>1
<1> HIDE DEF Goal, Same, Empty
<1>11. ASSUME NEW x \in Requests, Ledger!Reclose(x) PROVE Goal
  BY <1>10, <1>11 DEF Ledger!Reclose
<1>12. UNCHANGED tables => Goal
  BY <1>10 DEF tables
<1>13. Ledger!Next => Goal
  BY <1>4, <1>5, <1>6, <1>7, <1>8, <1>9, <1>11 DEF Ledger!Next
<1> QED
  BY <1>12, <1>13 DEF Goal

\* A crew comes without duplicates and beside rows of other technicians.
LEMMA UniqueAssignmentKept ==
  ASSUME TypeOK, UniqueAssignment, [Ledger!Next]_tables
  PROVE  UniqueAssignment'
<1> USE SameWords
<1>1. SUFFICES ASSUME NEW r \in Requests PROVE NoDuplicate(brigade'[r])
  BY DEF UniqueAssignment
<1>2. NoDuplicate(brigade[r])
  BY DEF UniqueAssignment
<1>3. ASSUME brigade'[r] \subseteq brigade[r] PROVE NoDuplicate(brigade'[r])
  BY <1>2, <1>3 DEF NoDuplicate
<1>4. ASSUME NEW x \in Requests, NEW crew, NEW kept, Ledger!Replace(x, crew, kept)
      PROVE  NoDuplicate(brigade'[r])
  <2>1. CASE x = r
    <3>1. /\ brigade'[r] = kept \cup crew /\ kept \subseteq brigade[r]
          /\ NoDuplicate(crew) /\ Techs(kept) \cap Techs(crew) = {}
      BY <1>4, <2>1 DEF Ledger!Replace, TypeOK
    <3> QED
      BY <1>2, <3>1 DEF NoDuplicate, Techs
  <2>2. CASE x # r
    BY <1>3, <1>4, <2>2 DEF Ledger!Replace, TypeOK
  <2> QED
    BY <2>1, <2>2
<1>5. ASSUME NEW x \in Requests, NEW a \in brigade[x], Ledger!Unassign(x, a)
      PROVE  NoDuplicate(brigade'[r])
  BY <1>3, <1>5 DEF Ledger!Unassign, TypeOK
<1>6. ASSUME NEW x \in Requests, Ledger!Delete(x) PROVE NoDuplicate(brigade'[r])
  BY <1>3, <1>6 DEF Ledger!Delete, TypeOK
<1>7. CASE UNCHANGED brigade
  BY <1>3, <1>7
<1> QED
  BY <1>4, <1>5, <1>6, <1>7
     DEF Ledger!Next, tables, Ledger!Create, Ledger!ChangeStatus, Ledger!Reclose,
         Ledger!DropEquipment

-----------------------------------------------------------------------------
\* The inductive invariant, and the theorems.

\* The inductive invariant holds at start.
LEMMA InitIInv == ASSUME Init PROVE IInv
  BY InitTyped, InitInFlight, InitLedger DEF IInv

\* Every statement keeps the inductive invariant: the handlers by InFlightKept, the
\* tables because the statement is a step of the ledger.
LEMMA NextIInv == ASSUME IInv, [Next]_vars PROVE IInv'
<1>1. TypeOK /\ InFlight /\ LedgerInv
  BY DEF IInv
<1>2. [Ledger!Next]_tables
  BY <1>1, StepImplementsLedger
<1>3. TypeOK'
  <2>1. JobsTyped' /\ TablesTyped'
    BY <1>1, JobsStayTyped, TablesStayTyped DEF InFlight
  <2> QED
    BY <2>1 DEF TypeOK, JobsTyped, TablesTyped
<1>4. InFlight'
  BY <1>1, InFlightKept DEF LedgerInv
<1>5. LedgerInv'
  BY <1>1, <1>2, AuditTrailKept, ClosedIsDatedKept, ReferentialIntegrityKept,
     UniqueAssignmentKept DEF LedgerInv
<1> QED
  BY <1>3, <1>4, <1>5 DEF IInv

\* The inductive invariant always holds.
LEMMA Inductive == Spec => []IInv
  BY InitIInv, NextIInv, PTL DEF Spec

\* Every table and every handler always holds values of its type.
THEOREM TypeCorrect == Spec => []TypeOK
<1>1. IInv => TypeOK
  BY DEF IInv
<1> QED
  BY <1>1, Inductive, PTL

\* The history of a request always ends in its status, each entry starting where
\* the one before it ended, however the updates of RequestRepository interleave.
THEOREM HistoryIsTruthful == Spec => []AuditTrail
<1>1. IInv => AuditTrail
  BY DEF IInv, LedgerInv
<1> QED
  BY <1>1, Inductive, PTL

\* A request in done or rejected always has a closing date.
THEOREM ClosingIsDated == Spec => []ClosedIsDated
<1>1. IInv => ClosedIsDated
  BY DEF IInv, LedgerInv
<1> QED
  BY <1>1, Inductive, PTL

\* No row refers to a missing request or to missing equipment, although the
\* services check existence in one statement and write in a later one.
THEOREM NothingDangles == Spec => []ReferentialIntegrity
<1>1. IInv => ReferentialIntegrity
  BY DEF IInv, LedgerInv
<1> QED
  BY <1>1, Inductive, PTL

\* No brigade ever has a technician twice, however replacements overlap.
THEOREM NobodyTwice == Spec => []UniqueAssignment
<1>1. IInv => UniqueAssignment
  BY DEF IInv, LedgerInv
<1> QED
  BY <1>1, Inductive, PTL

\* Between two of its statements a handler keeps what it locked or checked under
\* its locks.
THEOREM LocksSuffice == Spec => []InFlight
<1>1. IInv => InFlight
  BY DEF IInv
<1> QED
  BY <1>1, Inductive, PTL

\* The handlers implement the ledger: every statement of every handler is one
\* committed change of RequestLedger, or changes no table.
THEOREM WorkflowImplementsLedger == Spec => ImplementsLedger
<1>1. Init => Ledger!Init
  BY DEF Init, TablesInit, Ledger!Init, Ledger!TablesInit, Ledger!NoRow, NoRow, Ledger!Closing,
         Closing
<1>2. IInv /\ [Next]_vars => [Ledger!Next]_tables
  BY StepImplementsLedger DEF IInv
<1>3. Ledger!tables = tables
  BY SameWords
<1>4. [Ledger!Next]_tables => [Ledger!Next]_(Ledger!tables)
  BY DEF Ledger!tables, tables
<1> QED
  BY <1>1, <1>2, <1>4, Inductive, PTL DEF Spec, ImplementsLedger, Ledger!Spec
=============================================================================
