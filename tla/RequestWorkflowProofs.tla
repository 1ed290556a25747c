----------------------- MODULE RequestWorkflowProofs -----------------------
(***************************************************************************)
(* Proofs about RequestWorkflow for any number of handlers, requests,      *)
(* technicians and pieces of equipment, and any seeded rows.               *)
(***************************************************************************)
EXTENDS RequestProperties, SequenceTheorems, TLAPS

-----------------------------------------------------------------------------
\* How the moves of a handler type its locals.

JobsTyped == /\ job \in [Procs -> Job]
             /\ \A p \in Procs : job[p].step \in OnRequest => job[p].id \in Requests

\* Locals that name a request when they have to.
Sound(j) == j \in Job /\ (j.step \in OnRequest => j.id \in Requests)

\* A handler that is not running has typed locals.
LEMMA IdleTyped == Sound(Idle)
  BY DEF Sound, OnRequest, Idle, Job, Steps

\* Replacing the locals of a handler by typed ones keeps all of them typed.
LEMMA BecomeTyped ==
  ASSUME NEW p \in Procs, NEW j, Sound(j), JobsTyped, Become(p, j)
  PROVE  JobsTyped'
  BY DEF JobsTyped, Become, Sound

\* So does the arrival of a call.
LEMMA BeginTyped ==
  ASSUME NEW p \in Procs, NEW j, Sound(j), JobsTyped, Begin(p, j)
  PROVE  JobsTyped'
  BY BecomeTyped DEF Begin

\* So does going on to a later step of the same handler.
LEMMA GotoTyped ==
  ASSUME NEW p \in Procs, NEW s \in OnRequest \cup {"drop"}, JobsTyped, Goto(p, s),
         s = "drop" \/ job[p].step \in OnRequest
  PROVE  JobsTyped'
<1>1. Sound([job[p] EXCEPT !.step = s])
  BY DEF Sound, JobsTyped, Job, OnRequest, Steps
<1> QED
  BY <1>1, BecomeTyped DEF Goto

\* So does an answer.
LEMMA FinishTyped ==
  ASSUME NEW p \in Procs, JobsTyped, Finish(p)
  PROVE  JobsTyped'
  BY IdleTyped, BecomeTyped DEF Finish

\* So does an answer that also takes removed rows from the other handlers.
LEMMA FinishRemovingTyped ==
  ASSUME NEW p \in Procs, NEW r, NEW dead, JobsTyped, FinishRemoving(p, r, dead)
  PROVE  JobsTyped'
<1>1. ASSUME NEW q \in Procs PROVE Sound([job[q] EXCEPT !.rows = @ \ dead])
  BY DEF JobsTyped, Job, Sound
<1> QED
  BY <1>1, IdleTyped DEF JobsTyped, FinishRemoving, Sound

\* The locals stay typed in every step.
LEMMA JobsStayTyped == ASSUME TypeOK, [Next]_vars PROVE JobsTyped'
<1> USE DEF Steps
<1>0. JobsTyped
  BY DEF TypeOK, JobsTyped
<1>1. ASSUME NEW p \in Procs, Start(p) PROVE JobsTyped'
  <2>1. ASSUME NEW r \in Requests, NEW e \in Equipment, StartCreate(p, r, e) PROVE JobsTyped'
    <3>1. Sound([Idle EXCEPT !.step = "insert", !.id = r, !.eq = e])
      BY DEF Idle, Job, Sound, OnRequest
    <3> QED
      BY <1>0, <2>1, <3>1, BeginTyped DEF StartCreate
  <2>2. ASSUME NEW r \in Requests, StartUpdate(p, r) PROVE JobsTyped'
    <3>1. Sound([Idle EXCEPT !.step = "lock", !.id = r])
      BY DEF Idle, Job, Sound, OnRequest
    <3> QED
      BY <1>0, <2>2, <3>1, BeginTyped DEF StartUpdate
  <2>3. ASSUME NEW r \in Requests, NEW to \in Statuses, NEW by \in Technicians \cup {Admin},
               StartUpdateStatus(p, r, to, by)
        PROVE  JobsTyped'
    <3> DEFINE next == IF by = Admin THEN AfterTransitionCheck(status[r], to) ELSE "authorise"
               j == [Idle EXCEPT !.step = next, !.id = r, !.to = to,
                                 !.seen = status[r], !.who = by]
    <3>1. Exists(r) /\ next # Null /\ Begin(p, j)
      BY <2>3 DEF StartUpdateStatus
    <3>2. next \in Steps
      BY <3>1 DEF AfterTransitionCheck
    <3>3. status[r] \in Statuses
      BY <3>1 DEF Exists
    <3> HIDE DEF next
    <3>4. Sound(j)
      BY <3>2, <3>3 DEF Idle, Job, Sound, OnRequest
    <3> QED
      BY <1>0, <3>1, <3>4, BeginTyped
  <2>4. ASSUME NEW r \in Requests, StartDelete(p, r) PROVE JobsTyped'
    <3>1. Sound([Idle EXCEPT !.step = "destroy", !.id = r])
      BY DEF Idle, Job, Sound, OnRequest
    <3> QED
      BY <1>0, <2>4, <3>1, BeginTyped DEF StartDelete
  <2>5. ASSUME NEW r \in Requests, NEW body \in Bodies, StartSetAssignees(p, r, body)
        PROVE  JobsTyped'
    <3>1. Entries(body) \in SUBSET [technicianId : Technicians \cup {Unknown}, role : Roles]
      BY DEF Bodies, Entries
    <3>2. Sound([Idle EXCEPT !.step = "lookup", !.id = r, !.crew = Entries(body)])
      BY <3>1 DEF Idle, Job, Sound, OnRequest
    <3> QED
      BY <1>0, <2>5, <3>2, BeginTyped DEF StartSetAssignees
  <2>6. ASSUME NEW r \in Requests, NEW t \in Technicians, StartRemoveAssignee(p, r, t)
        PROVE  JobsTyped'
    <3>1. Sound([Idle EXCEPT !.step = "find", !.id = r, !.who = t])
      BY DEF Idle, Job, Sound, OnRequest
    <3> QED
      BY <1>0, <2>6, <3>1, BeginTyped DEF StartRemoveAssignee
  <2>7. ASSUME NEW e \in Equipment, StartDropEquipment(p, e) PROVE JobsTyped'
    <3>1. Sound([Idle EXCEPT !.step = "check_active", !.eq = e])
      BY DEF Idle, Job, Sound, OnRequest
    <3> QED
      BY <1>0, <2>7, <3>1, BeginTyped DEF StartDropEquipment
  <2> QED
    BY <1>1, <2>1, <2>2, <2>3, <2>4, <2>5, <2>6, <2>7 DEF Start
<1>2. ASSUME NEW p \in Procs, Continue(p) PROVE JobsTyped'
  <2>0. ASSUME NEW s \in Steps, At(p, s), s \in OnRequest PROVE job[p].id \in Requests
    BY <1>0, <2>0 DEF JobsTyped, At
  <2>1. CASE Authorise(p)
    BY <1>0, <2>1, GotoTyped, FinishTyped DEF Authorise, AfterTransitionCheck, At, OnRequest
  <2>2. CASE LockRequest(p)
    <3>1. CASE Goto(p, "empty")
      BY <1>0, <2>2, <3>1, GotoTyped DEF LockRequest, At, OnRequest
    <3>2. CASE /\ Exists(job[p].id)
               /\ Become(p, [job[p] EXCEPT !.step = "commit", !.seen = status[job[p].id]])
      <4>1. job[p].id \in Requests
        BY <2>0, <2>2 DEF LockRequest, OnRequest
      <4>2. status[job[p].id] \in Statuses
        BY <3>2 DEF Exists
      <4> DEFINE j == [job[p] EXCEPT !.step = "commit", !.seen = status[job[p].id]]
      <4>3. job[p] \in Job
        BY <1>0 DEF JobsTyped
      <4>4. j \in Job
        BY <4>2, <4>3 DEF Job
      <4>5. j.id \in Requests
        BY <4>1, <4>3 DEF Job
      <4>6. Sound(j)
        BY <4>4, <4>5 DEF Sound
      <4> HIDE DEF j
      <4>7. Become(p, j)
        BY <3>2 DEF j
      <4> QED
        BY <1>0, <4>6, <4>7, BecomeTyped
    <3> QED
      BY <2>2, <3>1, <3>2 DEF LockRequest
  <2>3. CASE LookupTechnicians(p)
    <3>1. CASE Finish(p)
      BY <1>0, <3>1, FinishTyped
    <3>2. CASE Become(p, [job[p] EXCEPT !.step = "clear", !.rows = brigade[job[p].id]])
      <4>1. job[p].id \in Requests
        BY <2>0, <2>3 DEF LookupTechnicians, OnRequest
      <4>2. brigade[job[p].id] \in SUBSET Assignee
        BY <4>1 DEF TypeOK
      <4>3. Sound([job[p] EXCEPT !.step = "clear", !.rows = brigade[job[p].id]])
        <5>1. job[p] \in Job
          BY <1>0 DEF JobsTyped
        <5> DEFINE j == [job[p] EXCEPT !.step = "clear", !.rows = brigade[job[p].id]]
        <5>2. j \in Job
          BY <4>2, <5>1 DEF Job, OnRequest, Steps
        <5>3. j.id \in Requests
          BY <4>1, <5>1 DEF Job
        <5> QED
          BY <5>2, <5>3 DEF Sound
      <4> QED
        BY <1>0, <3>2, <4>3, BecomeTyped
    <3> QED
      BY <2>3, <3>1, <3>2 DEF LookupTechnicians
  <2>4. CASE IssueRemove(p)
    <3> DEFINE found == {a \in brigade[job[p].id] : a.technicianId = job[p].who}
    <3>1. job[p].id \in Requests /\ Become(p, [job[p] EXCEPT !.step = "unassign", !.rows = found])
      BY <2>0, <2>4 DEF IssueRemove, OnRequest
    <3>2. found \in SUBSET Assignee
      BY <3>1 DEF TypeOK
    <3> HIDE DEF found
    <3>3. Sound([job[p] EXCEPT !.step = "unassign", !.rows = found])
      <4>1. job[p] \in Job
        BY <1>0 DEF JobsTyped
      <4> DEFINE j == [job[p] EXCEPT !.step = "unassign", !.rows = found]
      <4>2. j \in Job
        BY <3>2, <4>1 DEF Job, OnRequest, Steps
      <4>3. j.id \in Requests
        BY <3>1, <4>1 DEF Job
      <4> QED
        BY <4>2, <4>3 DEF Sound
    <3> QED
      BY <1>0, <3>1, <3>3, BecomeTyped
  <2>5. CASE DestroyRequest(p) \/ CommitBrigade(p) \/ RemoveAssignee(p)
    BY <1>0, <2>5, FinishRemovingTyped DEF DestroyRequest, CommitBrigade, RemoveAssignee
  <2>6. CASE \/ CountAssignees(p) \/ ClearBrigade(p) \/ FillBrigade(p) \/ FindAssignee(p)
             \/ CheckActive(p)
    BY <1>0, <2>6, GotoTyped, FinishTyped
       DEF CountAssignees, ClearBrigade, FillBrigade, FindAssignee, CheckActive, At, OnRequest
  <2>7. CASE InsertRequest(p) \/ CommitUpdate(p) \/ AnswerEmpty(p) \/ DropEquipment(p)
    BY <1>0, <2>7, FinishTyped DEF InsertRequest, CommitUpdate, AnswerEmpty, DropEquipment
  <2> QED
    BY <1>2, <2>1, <2>2, <2>3, <2>4, <2>5, <2>6, <2>7 DEF Continue
<1>3. ASSUME NEW p \in Procs, DbError(p) PROVE JobsTyped'
  BY <1>0, <1>3, FinishTyped DEF DbError
<1>4. CASE UNCHANGED vars
  BY <1>0, <1>4 DEF vars, JobsTyped
<1> QED
  BY <1>1, <1>2, <1>3, <1>4 DEF Next, Refuse

-----------------------------------------------------------------------------
\* Type correctness.

\* The tables hold typed rows when the API starts, and no handler runs.
LEMMA InitTyped == ASSUME Init PROVE TypeOK
<1>1. PICK row \in [Requests -> SeededRows \cup {NoRow}] :
         /\ status      = [r \in Requests |-> row[r].status]
         /\ equipmentId = [r \in Requests |-> row[r].equipmentId]
         /\ closedAt    = [r \in Requests |-> IF row[r].status \in Closing THEN 1 ELSE 0]
         /\ history     = [r \in Requests |-> row[r].history]
         /\ brigade     = [r \in Requests |-> row[r].brigade]
  BY DEF Init, TablesInit
<1>2. ASSUME NEW s \in Statuses PROVE SeededHistory(s) \subseteq Seq(Entry)
  <2>1. [prev |-> Null, new |-> s] \in Entry /\ [prev |-> Null, new |-> "new"] \in Entry
    BY DEF Entry, Statuses
  <2>2. [prev |-> "new", new |-> s] \in Entry
    BY DEF Entry, Statuses
  <2>3. /\ <<>> \in Seq(Entry)
        /\ <<[prev |-> Null, new |-> s]>> \in Seq(Entry)
        /\ <<[prev |-> Null, new |-> "new"], [prev |-> "new", new |-> s]>> \in Seq(Entry)
    BY <2>1, <2>2
  <2>4. <<[prev |-> Null, new |-> "new"], [prev |-> "new", new |-> "in_progress"],
          [prev |-> "in_progress", new |-> s]>> \in Seq(Entry)
    <3>1. /\ [prev |-> "new", new |-> "in_progress"] \in Entry
          /\ [prev |-> "in_progress", new |-> s] \in Entry
      BY DEF Entry, Statuses
    <3> QED
      BY <2>1, <3>1
  <2> QED
    BY <2>3, <2>4 DEF SeededHistory
<1>3. ASSUME NEW r \in Requests
      PROVE  /\ row[r].status \in Statuses \cup {"unborn", "gone"}
             /\ row[r].equipmentId \in Equipment \cup {Null}
             /\ row[r].history \in Seq(Entry)
             /\ row[r].brigade \in SUBSET Assignee
  <2>1. CASE row[r] = NoRow
    BY <2>1 DEF NoRow
  <2>2. CASE row[r] \in SeededRows
    <3>1. row[r] \in Seed /\ LegalSeed(row[r])
      BY <2>2, SeedsAssumption
    <3>2. row[r].status \in Statuses /\ row[r].history \in SeededHistory(row[r].status)
      BY <3>1 DEF Seed, LegalSeed
    <3> QED
      BY <3>1, <3>2, <1>2 DEF Seed
  <2> QED
    BY <2>1, <2>2
<1>4. JobsTyped
  BY IdleTyped DEF Init, JobsTyped, Sound
<1>5. equipment = Equipment
  BY DEF Init, TablesInit
<1>6. closedAt \in [Requests -> Nat]
  BY <1>1
<1> QED
  BY <1>1, <1>3, <1>4, <1>5, <1>6 DEF TypeOK, JobsTyped

TablesTyped == /\ equipment \subseteq Equipment
               /\ status \in [Requests -> Statuses \cup {"unborn", "gone"}]
               /\ equipmentId \in [Requests -> Equipment \cup {Null}]
               /\ closedAt \in [Requests -> Nat]
               /\ history \in [Requests -> Seq(Entry)]
               /\ brigade \in [Requests -> SUBSET Assignee]

\* Every write puts a typed value into its column.
LEMMA TablesStayTyped == ASSUME TypeOK, CrewsValid, [Next]_vars PROVE TablesTyped'
<1>0. TablesTyped
  BY DEF TypeOK, TablesTyped
<1> USE DEF TablesTyped, tables
<1>1. ASSUME NEW p \in Procs, Start(p) PROVE TablesTyped'
  <2>1. UNCHANGED tables
    BY <1>1 DEF Start, StartCreate, StartUpdate, StartUpdateStatus, StartDelete,
                StartSetAssignees, StartRemoveAssignee, StartDropEquipment
  <2> QED
    BY <1>0, <2>1
<1>2. ASSUME NEW p \in Procs, Continue(p) PROVE TablesTyped'
  <2>1. CASE InsertRequest(p)
    <3>1. <<[prev |-> Null, new |-> "new"]>> \in Seq(Entry)
      <4>1. [prev |-> Null, new |-> "new"] \in Entry
        BY DEF Entry, Statuses
      <4> QED
        BY <4>1
    <3>2. CASE /\ status' = [status EXCEPT ![job[p].id] = "new"]
               /\ equipmentId' = [equipmentId EXCEPT ![job[p].id] = job[p].eq]
               /\ history' = [history EXCEPT ![job[p].id] = <<[prev |-> Null, new |-> "new"]>>]
               /\ job[p].eq \in equipment
               /\ UNCHANGED <<equipment, closedAt, brigade>>
      <4>1. status' \in [Requests -> Statuses \cup {"unborn", "gone"}]
        BY <1>0, <3>2 DEF Statuses
      <4>2. equipmentId' \in [Requests -> Equipment \cup {Null}]
        BY <1>0, <3>2
      <4>3. history' \in [Requests -> Seq(Entry)]
        BY <1>0, <3>1, <3>2
      <4> QED
        BY <1>0, <3>2, <4>1, <4>2, <4>3
    <3>3. CASE UNCHANGED tables
      BY <1>0, <3>3
    <3> QED
      BY <2>1, <3>2, <3>3 DEF InsertRequest
  <2>2. CASE CommitUpdate(p)
    <3>1. job[p].to \in Statuses \cup {Null} /\ job[p].seen \in Statuses \cup {Null}
      BY DEF TypeOK, Job
    <3>2. CASE job[p].to = Null
      BY <1>0, <2>2, <3>2 DEF CommitUpdate
    <3>3. CASE job[p].to \in Statuses /\ job[p].to # Null
      <4>1. [prev |-> job[p].seen, new |-> job[p].to] \in Entry
        BY <3>1, <3>3 DEF Entry
      <4>2. ASSUME NEW h \in Seq(Entry)
            PROVE  Append(h, [prev |-> job[p].seen, new |-> job[p].to]) \in Seq(Entry)
        BY <4>1, AppendProperties
      <4>3. history' \in [Requests -> Seq(Entry)]
        <5> DEFINE entry == [prev |-> job[p].seen, new |-> job[p].to]
        <5>1. history' = [history EXCEPT ![job[p].id] =
                            IF job[p].to = job[p].seen THEN @ ELSE Append(@, entry)]
          BY <2>2, <3>3 DEF Log, CommitUpdate
        <5>2. \A h \in Seq(Entry) : Append(h, entry) \in Seq(Entry)
          BY <4>2
        <5> HIDE DEF entry
        <5> QED
          BY <1>0, <5>1, <5>2
      <4>4. status' \in [Requests -> Statuses \cup {"unborn", "gone"}]
        BY <1>0, <2>2, <3>3 DEF CommitUpdate
      <4>5. closedAt' \in [Requests -> Nat]
        <5>1. closedAt' = [closedAt EXCEPT ![job[p].id] =
                             IF job[p].to \in Closing THEN @ + 1 ELSE @]
          BY <2>2, <3>3 DEF Stamp, CommitUpdate
        <5>2. closedAt \in [Requests -> Nat]
          BY <1>0
        <5>3. job[p].id \in Requests
          BY <2>2 DEF CommitUpdate, At, TypeOK, OnRequest, Steps
        <5>4. closedAt[job[p].id] + 1 \in Nat
          BY <5>2, <5>3
        <5> QED
          BY <5>1, <5>2, <5>3, <5>4
      <4>6. UNCHANGED <<equipment, equipmentId, brigade>>
        BY <2>2 DEF CommitUpdate
      <4> QED
        BY <1>0, <4>3, <4>4, <4>5, <4>6
    <3> QED
      BY <3>1, <3>2, <3>3
  <2>3. CASE DestroyRequest(p)
    <3>1. CASE UNCHANGED tables
      BY <1>0, <3>1
    <3>2. CASE /\ status' = [status EXCEPT ![job[p].id] = "gone"]
               /\ equipmentId' = [equipmentId EXCEPT ![job[p].id] = Null]
               /\ closedAt' = [closedAt EXCEPT ![job[p].id] = 0]
               /\ history' = [history EXCEPT ![job[p].id] = <<>>]
               /\ brigade' = [brigade EXCEPT ![job[p].id] = {}]
               /\ UNCHANGED equipment
      <4>1. status' \in [Requests -> Statuses \cup {"unborn", "gone"}]
        BY <1>0, <3>2
      <4>2. equipmentId' \in [Requests -> Equipment \cup {Null}]
        BY <1>0, <3>2
      <4>3. history' \in [Requests -> Seq(Entry)]
        <5>1. <<>> \in Seq(Entry)
          OBVIOUS
        <5> QED
          BY <1>0, <3>2, <5>1
      <4>4. closedAt' \in [Requests -> Nat]
        BY <1>0, <3>2
      <4>5. brigade' \in [Requests -> SUBSET Assignee]
        BY <1>0, <3>2
      <4> QED
        BY <1>0, <3>2, <4>1, <4>2, <4>3, <4>4, <4>5
    <3> QED
      BY <2>3, <3>1, <3>2 DEF DestroyRequest
  <2>4. CASE CommitBrigade(p)
    <3>1. job[p].crew \subseteq Assignee
      BY <2>4 DEF CommitBrigade, CrewsValid, At
    <3> QED
      BY <1>0, <2>4, <3>1 DEF CommitBrigade
  <2>5. CASE RemoveAssignee(p)
    BY <1>0, <2>5 DEF RemoveAssignee
  <2>6. CASE DropEquipment(p)
    BY <1>0, <2>6 DEF DropEquipment
  <2>7. CASE UNCHANGED tables
    BY <1>0, <2>7
  <2> QED
    BY <1>2, <2>1, <2>2, <2>3, <2>4, <2>5, <2>6, <2>7
       DEF Continue, Authorise, CountAssignees, LockRequest, AnswerEmpty, LookupTechnicians,
           ClearBrigade, FillBrigade, FindAssignee, IssueRemove, CheckActive
<1>3. CASE UNCHANGED tables
  BY <1>0, <1>3
<1> QED
  BY <1>1, <1>2, <1>3 DEF Next, Refuse, DbError, vars

-----------------------------------------------------------------------------
\* Frames: what a step of p leaves alone.

StepOf(p) == Start(p) \/ Continue(p) \/ DbError(p)

\* A step of p changes nothing in another handler, except that rows removed by
\* p leave the rows the other one is about to remove.
LEMMA OthersKept ==
  ASSUME TypeOK, NEW p \in Procs, StepOf(p), NEW q \in Procs, q # p
  PROVE  /\ job'[q].step = job[q].step
         /\ job'[q].id = job[q].id
         /\ job'[q].eq = job[q].eq
         /\ job'[q].to = job[q].to
         /\ job'[q].seen = job[q].seen
         /\ job'[q].crew = job[q].crew
         /\ job'[q].rows \subseteq job[q].rows
<1> DEFINE Kept == /\ job'[q].step = job[q].step
                   /\ job'[q].id = job[q].id
                   /\ job'[q].eq = job[q].eq
                   /\ job'[q].to = job[q].to
                   /\ job'[q].seen = job[q].seen
                   /\ job'[q].crew = job[q].crew
                   /\ job'[q].rows \subseteq job[q].rows
<1> SUFFICES Kept
  OBVIOUS
<1>1. ASSUME NEW j, Become(p, j) PROVE Kept
  BY <1>1 DEF Become, TypeOK
<1>2. ASSUME NEW r, NEW dead, FinishRemoving(p, r, dead) PROVE Kept
  BY <1>2 DEF FinishRemoving, TypeOK, Job
<1> HIDE DEF Kept
<1>3. CASE Start(p)
  BY <1>1, <1>3 DEF Start, StartCreate, StartUpdate, StartUpdateStatus, StartDelete,
                    StartSetAssignees, StartRemoveAssignee, StartDropEquipment, Begin
<1>4. CASE Continue(p)
  <2>1. CASE DestroyRequest(p) \/ CommitBrigade(p) \/ RemoveAssignee(p)
    BY <1>2, <2>1 DEF DestroyRequest, CommitBrigade, RemoveAssignee
  <2>2. CASE \/ InsertRequest(p) \/ Authorise(p) \/ CountAssignees(p) \/ LockRequest(p)
             \/ CommitUpdate(p) \/ AnswerEmpty(p)
    BY <1>1, <2>2 DEF InsertRequest, Authorise, CountAssignees, LockRequest, CommitUpdate,
                      AnswerEmpty, Goto, Finish
  <2>3. CASE \/ LookupTechnicians(p) \/ ClearBrigade(p) \/ FillBrigade(p) \/ FindAssignee(p)
             \/ IssueRemove(p) \/ CheckActive(p) \/ DropEquipment(p)
    BY <1>1, <2>3 DEF LookupTechnicians, ClearBrigade, FillBrigade, FindAssignee, IssueRemove,
                      CheckActive, DropEquipment, Goto, Finish
  <2> QED
    BY <1>4, <2>1, <2>2, <2>3 DEF Continue
<1>5. CASE DbError(p)
  BY <1>1, <1>5 DEF DbError, Finish
<1> QED
  BY <1>3, <1>4, <1>5 DEF StepOf

\* A status is written by three statements only, each on the handler's request.
LEMMA StatusWrites ==
  ASSUME TypeOK, NEW p \in Procs, StepOf(p), NEW r \in Requests, status'[r] # status[r]
  PROVE  /\ r = job[p].id
         /\ \/ At(p, "insert") /\ InsertRequest(p) /\ status'[r] = "new"
            \/ At(p, "commit") /\ CommitUpdate(p) /\ status'[r] = job[p].to /\ job[p].to # Null
            \/ At(p, "destroy") /\ DestroyRequest(p) /\ Exists(r) /\ status'[r] = "gone"
<1>1. status' # status
  OBVIOUS
<1>2. UNCHANGED tables => status' = status
  BY DEF tables
<1>3. ASSUME NEW a, NEW v, status' = [status EXCEPT ![a] = v] PROVE r = a /\ status'[r] = v
  BY <1>3 DEF TypeOK
<1>4. CASE Start(p)
  <2>1. UNCHANGED tables
    BY <1>4 DEF Start, StartCreate, StartUpdate, StartUpdateStatus, StartDelete,
                StartSetAssignees, StartRemoveAssignee, StartDropEquipment
  <2> QED
    BY <1>1, <1>2, <2>1
<1>5. CASE Continue(p)
  <2>1. CASE InsertRequest(p)
    <3>1. At(p, "insert") /\ status' = [status EXCEPT ![job[p].id] = "new"]
      BY <1>1, <1>2, <2>1 DEF InsertRequest
    <3> QED
      BY <1>3, <2>1, <3>1
  <2>2. CASE CommitUpdate(p)
    <3>1. /\ At(p, "commit") /\ job[p].to # Null
          /\ status' = [status EXCEPT ![job[p].id] = job[p].to]
      BY <1>1, <2>2 DEF CommitUpdate
    <3> QED
      BY <1>3, <2>2, <3>1
  <2>3. CASE DestroyRequest(p)
    <3>1. /\ At(p, "destroy") /\ Exists(job[p].id)
          /\ status' = [status EXCEPT ![job[p].id] = "gone"]
      BY <1>1, <1>2, <2>3 DEF DestroyRequest
    <3> QED
      BY <1>3, <2>3, <3>1
  <2>4. CASE CommitBrigade(p) \/ RemoveAssignee(p) \/ DropEquipment(p)
    BY <1>1, <2>4 DEF CommitBrigade, RemoveAssignee, DropEquipment
  <2>5. CASE \/ Authorise(p) \/ CountAssignees(p) \/ LockRequest(p) \/ AnswerEmpty(p)
             \/ LookupTechnicians(p) \/ ClearBrigade(p) \/ FillBrigade(p) \/ FindAssignee(p)
             \/ IssueRemove(p) \/ CheckActive(p)
    <3>1. UNCHANGED tables
      BY <2>5 DEF Authorise, CountAssignees, LockRequest, AnswerEmpty, LookupTechnicians,
                  ClearBrigade, FillBrigade, FindAssignee, IssueRemove, CheckActive
    <3> QED
      BY <1>1, <1>2, <3>1
  <2> QED
    BY <1>5, <2>1, <2>2, <2>3, <2>4, <2>5 DEF Continue
<1>6. CASE DbError(p)
  BY <1>1, <1>2, <1>6 DEF DbError
<1> QED
  BY <1>4, <1>5, <1>6 DEF StepOf

\* The ways a step of p moves its own locals: it is over, it starts on an unused
\* id, on an existing request or on no request, or it goes on with its request.
LEMMA OwnMove ==
  ASSUME TypeOK, NEW p \in Procs, StepOf(p)
  PROVE  \/ job'[p] = Idle
         \/ /\ job'[p].step = "insert" /\ job'[p].eq \in Equipment /\ UNCHANGED tables
            /\ job'[p].id \in Requests /\ status[job'[p].id] = "unborn"
            /\ \A q \in Procs : job[q].id # job'[p].id
         \/ /\ job'[p].step \in OnRequest \ {"insert"} /\ UNCHANGED tables
            /\ At(p, "idle") /\ job'[p].id \in Requests /\ Exists(job'[p].id)
         \/ /\ job'[p].step \in {"check_active", "drop"} /\ UNCHANGED tables
            /\ At(p, "idle") \/ At(p, "check_active")
            /\ job'[p].id = IF At(p, "idle") THEN Null ELSE job[p].id
         \/ /\ job'[p].step \in OnRequest \ {"insert"} /\ UNCHANGED tables
            /\ job[p].step \in OnRequest \ {"insert"} /\ job'[p].id = job[p].id
<1> DEFINE A == job'[p] = Idle
           B == /\ job'[p].step = "insert" /\ job'[p].eq \in Equipment /\ UNCHANGED tables
                /\ job'[p].id \in Requests /\ status[job'[p].id] = "unborn"
                /\ \A q \in Procs : job[q].id # job'[p].id
           C == /\ job'[p].step \in OnRequest \ {"insert"} /\ UNCHANGED tables
                /\ At(p, "idle") /\ job'[p].id \in Requests /\ Exists(job'[p].id)
           D == /\ job'[p].step \in {"check_active", "drop"} /\ UNCHANGED tables
                /\ At(p, "idle") \/ At(p, "check_active")
                /\ job'[p].id = IF At(p, "idle") THEN Null ELSE job[p].id
           E == /\ job'[p].step \in OnRequest \ {"insert"} /\ UNCHANGED tables
                /\ job[p].step \in OnRequest \ {"insert"} /\ job'[p].id = job[p].id
<1> SUFFICES A \/ B \/ C \/ D \/ E
  OBVIOUS
<1>1. ASSUME NEW j, Become(p, j) PROVE job'[p] = j
  BY <1>1 DEF Become, TypeOK
<1>2. ASSUME NEW s, Goto(p, s)
      PROVE  job'[p].step = s /\ job'[p].id = job[p].id
  BY <1>2, <1>1 DEF Goto, TypeOK, Job
<1>3. ASSUME NEW r, NEW dead, FinishRemoving(p, r, dead) PROVE A
  BY <1>3 DEF FinishRemoving
<1>4. ASSUME Finish(p) PROVE A
  BY <1>4, <1>1 DEF Finish
<1>5. CASE Start(p)
  <2>1. ASSUME NEW r \in Requests, NEW e \in Equipment, StartCreate(p, r, e) PROVE B
    BY <2>1, <1>1 DEF StartCreate, Begin, Idle
  <2>2. ASSUME NEW r \in Requests, StartUpdate(p, r) PROVE C
    BY <2>2, <1>1 DEF StartUpdate, Begin, Idle, OnRequest, Steps
  <2>3. ASSUME NEW r \in Requests, NEW to \in Statuses, NEW by \in Technicians \cup {Admin},
               StartUpdateStatus(p, r, to, by)
        PROVE  C
    <3> DEFINE next == IF by = Admin THEN AfterTransitionCheck(status[r], to) ELSE "authorise"
    <3>1. /\ Exists(r) /\ next # Null /\ At(p, "idle") /\ UNCHANGED tables
          /\ job'[p] = [Idle EXCEPT !.step = next, !.id = r, !.to = to,
                                    !.seen = status[r], !.who = by]
      BY <2>3, <1>1 DEF StartUpdateStatus, Begin
    <3>2. next \in OnRequest \ {"insert"}
      BY <3>1 DEF AfterTransitionCheck, OnRequest, Steps
    <3> HIDE DEF next
    <3>3. job'[p].step = next /\ job'[p].id = r
      BY <3>1 DEF Idle
    <3> QED
      BY <3>1, <3>2, <3>3
  <2>4. ASSUME NEW r \in Requests, StartDelete(p, r) PROVE C
    BY <2>4, <1>1 DEF StartDelete, Begin, Idle, OnRequest, Steps
  <2>5. ASSUME NEW r \in Requests, NEW body \in Bodies, StartSetAssignees(p, r, body) PROVE C
    BY <2>5, <1>1 DEF StartSetAssignees, Begin, Idle, OnRequest, Steps
  <2>6. ASSUME NEW r \in Requests, NEW t \in Technicians, StartRemoveAssignee(p, r, t) PROVE C
    BY <2>6, <1>1 DEF StartRemoveAssignee, Begin, Idle, OnRequest, Steps
  <2>7. ASSUME NEW e \in Equipment, StartDropEquipment(p, e) PROVE D
    BY <2>7, <1>1 DEF StartDropEquipment, Begin, Idle
  <2> HIDE DEF B, C, D
  <2> QED
    BY <1>5, <2>1, <2>2, <2>3, <2>4, <2>5, <2>6, <2>7 DEF Start
<1>6. CASE Continue(p)
  <2>1. CASE InsertRequest(p) \/ CommitUpdate(p) \/ AnswerEmpty(p) \/ DropEquipment(p)
    BY <1>4, <2>1 DEF InsertRequest, CommitUpdate, AnswerEmpty, DropEquipment
  <2>2. CASE DestroyRequest(p) \/ CommitBrigade(p) \/ RemoveAssignee(p)
    BY <1>3, <2>2 DEF DestroyRequest, CommitBrigade, RemoveAssignee
  <2>3. CASE Authorise(p) \/ CountAssignees(p) \/ ClearBrigade(p) \/ FillBrigade(p) \/ FindAssignee(p)
    <3>1. CASE Finish(p)
      BY <1>4, <3>1
    <3>2. CASE \E s \in OnRequest \ {"insert"} :
                 Goto(p, s) /\ job[p].step \in OnRequest \ {"insert"} /\ UNCHANGED tables
      BY <1>2, <3>2
    <3> QED
      BY <2>3, <3>1, <3>2 DEF Authorise, AfterTransitionCheck, CountAssignees, ClearBrigade,
         FillBrigade, FindAssignee, At, OnRequest, Steps
  <2>4. CASE LockRequest(p)
    <3>1. At(p, "lock") /\ UNCHANGED tables
      BY <2>4 DEF LockRequest
    <3>2. CASE Goto(p, "empty")
      BY <1>2, <3>1, <3>2 DEF At, OnRequest, Steps
    <3>3. CASE Become(p, [job[p] EXCEPT !.step = "commit", !.seen = status[job[p].id]])
      BY <1>1, <3>1, <3>3 DEF At, OnRequest, Steps, TypeOK, Job
    <3> QED
      BY <2>4, <3>2, <3>3 DEF LockRequest
  <2>5. CASE LookupTechnicians(p)
    <3>1. At(p, "lookup") /\ UNCHANGED tables
      BY <2>5 DEF LookupTechnicians
    <3>2. CASE Finish(p)
      BY <1>4, <3>2
    <3>3. CASE Become(p, [job[p] EXCEPT !.step = "clear", !.rows = brigade[job[p].id]])
      BY <1>1, <3>1, <3>3 DEF At, OnRequest, Steps, TypeOK, Job
    <3> QED
      BY <2>5, <3>2, <3>3 DEF LookupTechnicians
  <2>6. CASE IssueRemove(p)
    <3> DEFINE found == {a \in brigade[job[p].id] : a.technicianId = job[p].who}
    <3>1. At(p, "issue") /\ UNCHANGED tables
      BY <2>6 DEF IssueRemove
    <3>2. Become(p, [job[p] EXCEPT !.step = "unassign", !.rows = found])
      BY <2>6 DEF IssueRemove
    <3> HIDE DEF found
    <3> QED
      BY <1>1, <3>1, <3>2 DEF At, OnRequest, Steps, TypeOK, Job
  <2>7. CASE CheckActive(p)
    <3>1. At(p, "check_active") /\ UNCHANGED tables /\ (Finish(p) \/ Goto(p, "drop"))
      BY <2>7 DEF CheckActive
    <3> QED
      BY <1>2, <1>4, <3>1 DEF At
  <2> QED
    BY <1>6, <2>1, <2>2, <2>3, <2>4, <2>5, <2>6, <2>7 DEF Continue
<1>7. CASE DbError(p)
  BY <1>4, <1>7 DEF DbError
<1> QED
  BY <1>5, <1>6, <1>7 DEF StepOf

\* The action behind the step a handler has just reached.
LEMMA Origins ==
  ASSUME TypeOK, NEW p \in Procs, StepOf(p)
  PROVE  /\ job'[p].step = "commit" => LockRequest(p)
         /\ job'[p].step = "empty" => LockRequest(p)
         /\ job'[p].step = "commit_crew" => FillBrigade(p)
         /\ job'[p].step = "unassign" => IssueRemove(p)
         /\ job'[p].step = "clear" => LookupTechnicians(p)
         /\ job'[p].step = "fill" => ClearBrigade(p)
         /\ job'[p].step = "lookup" =>
              \E r \in Requests, body \in Bodies : StartSetAssignees(p, r, body)
         /\ job'[p].step = "authorise" =>
              \E r \in Requests, to \in Statuses, by \in Technicians \cup {Admin} :
                StartUpdateStatus(p, r, to, by)
         /\ job'[p].step \in {"count", "lock"} =>
              \/ \E r \in Requests : StartUpdate(p, r)
              \/ \E r \in Requests, to \in Statuses, by \in Technicians \cup {Admin} :
                   StartUpdateStatus(p, r, to, by)
              \/ Authorise(p)
              \/ CountAssignees(p)
<1>1. ASSUME NEW j, Become(p, j) PROVE job'[p] = j
  BY <1>1 DEF Become, TypeOK
<1>2. ASSUME NEW s, Goto(p, s) PROVE job'[p].step = s
  BY <1>2, <1>1 DEF Goto, TypeOK, Job
<1>3. ASSUME Finish(p) \/ \E r, dead : FinishRemoving(p, r, dead) PROVE job'[p].step = "idle"
  BY <1>3, <1>1 DEF Finish, FinishRemoving, Idle
<1>4. CASE Start(p)
  <2>1. ASSUME NEW r \in Requests, NEW e \in Equipment, StartCreate(p, r, e)
        PROVE  job'[p].step = "insert"
    BY <2>1, <1>1 DEF StartCreate, Begin, Idle
  <2>2. ASSUME NEW r \in Requests, StartUpdate(p, r) PROVE job'[p].step = "lock"
    BY <2>2, <1>1 DEF StartUpdate, Begin, Idle
  <2>3. ASSUME NEW r \in Requests, NEW to \in Statuses, NEW by \in Technicians \cup {Admin},
               StartUpdateStatus(p, r, to, by)
        PROVE  job'[p].step \in {"authorise", "count", "lock"}
    <3> DEFINE next == IF by = Admin THEN AfterTransitionCheck(status[r], to) ELSE "authorise"
    <3>1. /\ next # Null
          /\ job'[p] = [Idle EXCEPT !.step = next, !.id = r, !.to = to,
                                    !.seen = status[r], !.who = by]
      BY <2>3, <1>1 DEF StartUpdateStatus, Begin
    <3>2. next \in {"authorise", "count", "lock"}
      BY <3>1 DEF AfterTransitionCheck
    <3> HIDE DEF next
    <3> QED
      BY <3>1, <3>2 DEF Idle
  <2>4. ASSUME NEW r \in Requests, StartDelete(p, r) PROVE job'[p].step = "destroy"
    BY <2>4, <1>1 DEF StartDelete, Begin, Idle
  <2>5. ASSUME NEW r \in Requests, NEW body \in Bodies, StartSetAssignees(p, r, body)
        PROVE  job'[p].step = "lookup"
    <3> DEFINE entries == Entries(body)
    <3>1. Begin(p, [Idle EXCEPT !.step = "lookup", !.id = r, !.crew = entries])
      BY <2>5 DEF StartSetAssignees
    <3> HIDE DEF entries
    <3> QED
      BY <3>1, <1>1 DEF Begin, Idle
  <2>6. ASSUME NEW r \in Requests, NEW t \in Technicians, StartRemoveAssignee(p, r, t)
        PROVE  job'[p].step = "find"
    BY <2>6, <1>1 DEF StartRemoveAssignee, Begin, Idle
  <2>7. ASSUME NEW e \in Equipment, StartDropEquipment(p, e) PROVE job'[p].step = "check_active"
    BY <2>7, <1>1 DEF StartDropEquipment, Begin, Idle
  <2> QED
    BY <1>4, <2>1, <2>2, <2>3, <2>4, <2>5, <2>6, <2>7 DEF Start
<1>5. CASE Continue(p)
  <2>1. CASE \/ InsertRequest(p) \/ CommitUpdate(p) \/ AnswerEmpty(p) \/ DropEquipment(p)
             \/ DestroyRequest(p) \/ CommitBrigade(p) \/ RemoveAssignee(p)
    <3>1. job'[p].step = "idle"
      BY <1>3, <2>1 DEF InsertRequest, CommitUpdate, AnswerEmpty, DropEquipment, DestroyRequest,
                        CommitBrigade, RemoveAssignee
    <3> QED
      BY <3>1
  <2>2. CASE Authorise(p) \/ CountAssignees(p)
    <3>1. job'[p].step \in {"idle", "count", "lock"}
      BY <1>2, <1>3, <2>2 DEF Authorise, CountAssignees, AfterTransitionCheck
    <3> QED
      BY <2>2, <3>1
  <2>3. CASE ClearBrigade(p)
    BY <1>2, <2>3 DEF ClearBrigade
  <2>4. CASE FillBrigade(p)
    <3>1. job'[p].step \in {"idle", "commit_crew"}
      BY <1>2, <1>3, <2>4 DEF FillBrigade
    <3> QED
      BY <2>4, <3>1
  <2>5. CASE FindAssignee(p) \/ CheckActive(p)
    <3>1. job'[p].step \in {"idle", "issue", "drop"}
      BY <1>2, <1>3, <2>5 DEF FindAssignee, CheckActive
    <3> QED
      BY <3>1
  <2>6. CASE LockRequest(p)
    <3>1. job'[p].step \in {"empty", "commit"}
      <4>1. CASE Goto(p, "empty")
        BY <1>2, <4>1
      <4>2. CASE Become(p, [job[p] EXCEPT !.step = "commit", !.seen = status[job[p].id]])
        BY <1>1, <4>2 DEF TypeOK, Job
      <4> QED
        BY <2>6, <4>1, <4>2 DEF LockRequest
    <3> QED
      BY <2>6, <3>1
  <2>7. CASE LookupTechnicians(p)
    <3>1. job'[p].step \in {"idle", "clear"}
      <4>1. CASE Finish(p)
        BY <1>3, <4>1
      <4>2. CASE Become(p, [job[p] EXCEPT !.step = "clear", !.rows = brigade[job[p].id]])
        BY <1>1, <4>2 DEF TypeOK, Job
      <4> QED
        BY <2>7, <4>1, <4>2 DEF LookupTechnicians
    <3> QED
      BY <2>7, <3>1
  <2>8. CASE IssueRemove(p)
    <3> DEFINE found == {a \in brigade[job[p].id] : a.technicianId = job[p].who}
    <3>1. Become(p, [job[p] EXCEPT !.step = "unassign", !.rows = found])
      BY <2>8 DEF IssueRemove
    <3> HIDE DEF found
    <3>2. job'[p].step = "unassign"
      BY <1>1, <3>1 DEF TypeOK, Job
    <3> QED
      BY <2>8, <3>2
  <2> QED
    BY <1>5, <2>1, <2>2, <2>3, <2>4, <2>5, <2>6, <2>7, <2>8 DEF Continue
<1>6. CASE DbError(p)
  <2>1. job'[p].step = "idle"
    BY <1>3, <1>6 DEF DbError
  <2> QED
    BY <2>1
<1> QED
  BY <1>4, <1>5, <1>6 DEF StepOf

-----------------------------------------------------------------------------
\* What is in flight stays valid.

\* IdsValid is kept: only POST /requests uses an id without a row, and it alone.
LEMMA IdsStayValid ==
  ASSUME TypeOK, IdsValid, NEW p \in Procs, StepOf(p)
  PROVE  IdsValid'
<1>1. ASSUME NEW r \in Requests, status[r] # "unborn" PROVE status'[r] # "unborn"
  <2>1. "unborn" \notin Statuses
    BY DEF Statuses
  <2>2. job[p].to \in Statuses \cup {Null}
    BY DEF TypeOK, Job
  <2> QED
    BY <1>1, <2>1, <2>2, StatusWrites
<1>2. ASSUME NEW q \in Procs
      PROVE  /\ job'[q].step \notin OnRequest => job'[q].id = Null
             /\ job'[q].step \in OnRequest \ {"insert"} => status'[job'[q].id] # "unborn"
             /\ job'[q].step = "insert" =>
                  /\ job'[q].eq \in Equipment
                  /\ status'[job'[q].id] = "unborn"
                  /\ \A o \in Others(q) : job'[o].id # job'[q].id
  <2>1. CASE q = p
    <3>1. CASE job'[p] = Idle
      BY <2>1, <3>1 DEF Idle, OnRequest
    <3>2. CASE /\ job'[p].step = "insert" /\ job'[p].eq \in Equipment /\ UNCHANGED tables
               /\ job'[p].id \in Requests /\ status[job'[p].id] = "unborn"
               /\ \A o \in Procs : job[o].id # job'[p].id
      <4>1. \A o \in Others(p) : job'[o].id = job[o].id
        BY OthersKept DEF Others
      <4> QED
        BY <2>1, <3>2, <4>1 DEF OnRequest, tables, Steps, Others
    <3>3. CASE /\ job'[p].step \in OnRequest \ {"insert"} /\ UNCHANGED tables
               /\ At(p, "idle") /\ job'[p].id \in Requests /\ Exists(job'[p].id)
      BY <2>1, <3>3 DEF tables, Exists, Statuses
    <3>4. CASE /\ job'[p].step \in {"check_active", "drop"} /\ UNCHANGED tables
               /\ At(p, "idle") \/ At(p, "check_active")
               /\ job'[p].id = IF At(p, "idle") THEN Null ELSE job[p].id
      BY <2>1, <3>4 DEF IdsValid, OnRequest, At
    <3>5. CASE /\ job'[p].step \in OnRequest \ {"insert"} /\ UNCHANGED tables
               /\ job[p].step \in OnRequest \ {"insert"} /\ job'[p].id = job[p].id
      BY <2>1, <3>5 DEF IdsValid, tables
    <3> QED
      BY <3>1, <3>2, <3>3, <3>4, <3>5, OwnMove
  <2>2. CASE q # p
    <3>1. job'[q].step = job[q].step /\ job'[q].id = job[q].id /\ job'[q].eq = job[q].eq
      BY <2>2, OthersKept
    <3>2. CASE job[q].step \notin OnRequest
      BY <3>1, <3>2 DEF IdsValid, OnRequest, Steps
    <3>3. CASE job[q].step \in OnRequest \ {"insert"}
      BY <1>1, <3>1, <3>3 DEF IdsValid, TypeOK
    <3>4. CASE job[q].step = "insert"
      <4>1. job[q].id \in Requests /\ status[job[q].id] = "unborn" /\ job[p].id # job[q].id
        BY <2>2, <3>4 DEF IdsValid, TypeOK, At, Others, OnRequest, Steps
      <4>2. status'[job[q].id] = "unborn"
        BY <4>1, StatusWrites
      <4>3. job'[p].id # job[q].id
        <5>1. CASE job'[p] = Idle
          BY <4>1, <5>1, IdsAssumption DEF Idle
        <5>2. CASE \A o \in Procs : job[o].id # job'[p].id
          BY <5>2
        <5>3. CASE job'[p].id \in Requests /\ Exists(job'[p].id)
          BY <4>1, <5>3 DEF Exists, Statuses
        <5>4. CASE job'[p].id \in {Null, job[p].id}
          BY <4>1, <5>4, IdsAssumption
        <5> QED
          BY <5>1, <5>2, <5>3, <5>4, OwnMove
      <4>4. \A o \in Others(q) : job'[o].id # job[q].id
        <5>1. ASSUME NEW o \in Others(q), o # p PROVE job'[o].id # job[q].id
          BY <3>4, <5>1, OthersKept DEF IdsValid, Others, At
        <5> QED
          BY <4>3, <5>1
      <4> QED
        BY <3>1, <3>4, <4>2, <4>4 DEF IdsValid, At, OnRequest, Steps
    <3> QED
      BY <3>2, <3>3, <3>4
  <2> QED
    BY <2>1, <2>2
<1> QED
  BY <1>2 DEF IdsValid, At, Others

\* StatusesValid is kept: what updateStatus decided to write stays a target of the
\* workflow, and the lock keeps the status that was read under it.
LEMMA StatusesStayValid ==
  ASSUME TypeOK, IdsValid, StatusesValid, LocksExclude, NEW p \in Procs, StepOf(p),
         NEW q \in Procs
  PROVE  /\ job'[q].step = "authorise" => job'[q].seen \in Statuses /\ job'[q].to \in Statuses
         /\ job'[q].step \in {"count", "lock", "commit"} => job'[q].to # "new"
         /\ job'[q].step = "commit" => /\ job'[q].seen \in Statuses
                                       /\ job'[q].seen = status'[job'[q].id]
<1>1. CASE q # p
  <2>1. /\ job'[q].step = job[q].step /\ job'[q].id = job[q].id
        /\ job'[q].to = job[q].to /\ job'[q].seen = job[q].seen
    BY <1>1, OthersKept
  <2>2. ASSUME job[q].step = "commit" PROVE status'[job[q].id] = status[job[q].id]
    <3>1. job[q].id \in Requests /\ status[job[q].id] # "unborn"
      BY <2>2 DEF TypeOK, IdsValid, OnRequest, Steps
    <3>2. ASSUME job[p].id = job[q].id
          PROVE  /\ ~ At(p, "insert")
                 /\ ~ At(p, "commit")
                 /\ ~ DestroyRequest(p)
      BY <1>1, <2>2, <3>1, <3>2 DEF IdsValid, LocksExclude, DestroyRequest, MayLock, Updating,
                                    Others, At
    <3> QED
      BY <3>1, <3>2, StatusWrites
  <2> QED
    BY <2>1, <2>2 DEF StatusesValid, At
<1>2. CASE q = p
  <2>1. ASSUME NEW j, Become(p, j) PROVE job'[p] = j
    BY <2>1 DEF Become, TypeOK
  <2>2. ASSUME NEW s, Goto(p, s) PROVE job'[p].to = job[p].to
    BY <2>2, <2>1 DEF Goto, TypeOK, Job
  <2>3. CASE job'[p].step = "commit"
    <3>1. LockRequest(p)
      BY <2>3, Origins
    <3>2. /\ At(p, "lock") /\ UNCHANGED tables /\ Exists(job[p].id)
          /\ job'[p] = [job[p] EXCEPT !.step = "commit", !.seen = status[job[p].id]]
      <4>1. ~ Goto(p, "empty")
        BY <2>1, <2>3 DEF Goto, TypeOK, Job
      <4> QED
        BY <2>1, <3>1, <4>1 DEF LockRequest
    <3>3. /\ job'[p].seen = status[job[p].id] /\ job'[p].id = job[p].id
          /\ job'[p].to = job[p].to
      BY <3>2 DEF TypeOK, Job
    <3> QED
      BY <1>2, <2>3, <3>2, <3>3 DEF StatusesValid, Exists, tables, At
  <2>4. CASE job'[p].step \in {"authorise", "count", "lock"}
    <3>1. CASE \E r \in Requests : StartUpdate(p, r)
      <4>1. PICK r \in Requests : job'[p] = [Idle EXCEPT !.step = "lock", !.id = r]
        BY <2>1, <3>1 DEF StartUpdate, Begin
      <4>2. job'[p].step = "lock" /\ job'[p].to = Null
        BY <4>1 DEF Idle
      <4> QED
        BY <1>2, <4>2, IdsAssumption DEF Statuses
    <3>2. ASSUME NEW r \in Requests, NEW to \in Statuses, NEW by \in Technicians \cup {Admin},
                 StartUpdateStatus(p, r, to, by)
          PROVE  /\ job'[p].to \in Statuses /\ job'[p].seen \in Statuses
                 /\ job'[p].step \in {"count", "lock"} => job'[p].to # "new"
      <4> DEFINE next == IF by = Admin THEN AfterTransitionCheck(status[r], to)
                                       ELSE "authorise"
      <4>1. /\ Exists(r) /\ next # Null
            /\ job'[p] = [Idle EXCEPT !.step = next, !.id = r, !.to = to,
                                      !.seen = status[r], !.who = by]
        BY <2>1, <3>2 DEF StartUpdateStatus, Begin
      <4>2. next \in {"count", "lock"} => to # "new"
        BY <4>1 DEF AfterTransitionCheck, ALLOWED_TRANSITIONS, Exists, Statuses
      <4> HIDE DEF next
      <4>3. job'[p].step = next /\ job'[p].to = to /\ job'[p].seen = status[r]
        BY <4>1 DEF Idle
      <4> QED
        BY <4>1, <4>2, <4>3 DEF Exists
    <3>3. CASE Authorise(p)
      <4>1. /\ job[p].seen \in Statuses /\ job[p].to \in Statuses
            /\ job'[p].step # "idle"
        BY <2>4, <3>3 DEF Authorise, StatusesValid
      <4>2. ~ Finish(p)
        BY <2>1, <4>1 DEF Finish, Idle
      <4>3. /\ Goto(p, AfterTransitionCheck(job[p].seen, job[p].to))
            /\ AfterTransitionCheck(job[p].seen, job[p].to) # Null
        BY <3>3, <4>2 DEF Authorise
      <4>4. job[p].to # "new"
        BY <4>1, <4>3 DEF AfterTransitionCheck, ALLOWED_TRANSITIONS, Statuses
      <4>5. job'[p].to = job[p].to
        BY <2>2, <4>3
      <4>6. job'[p].step \in {"count", "lock"}
        BY <3>3, <4>1, <4>3, <2>1 DEF AfterTransitionCheck, Goto, TypeOK, Job
      <4> QED
        BY <1>2, <4>4, <4>5, <4>6
    <3>4. CASE CountAssignees(p)
      <4>1. ~ Finish(p)
        BY <2>1, <2>4 DEF Finish, Idle
      <4>2. Goto(p, "lock") /\ At(p, "count")
        BY <3>4, <4>1 DEF CountAssignees
      <4>3. job'[p].to = job[p].to /\ job'[p].step = "lock"
        BY <2>1, <4>2 DEF Goto, TypeOK, Job
      <4> QED
        BY <1>2, <4>2, <4>3 DEF StatusesValid, At
    <3> QED
      BY <1>2, <2>4, <3>1, <3>2, <3>3, <3>4, Origins
  <2> QED
    BY <1>2, <2>3, <2>4
<1> QED
  BY <1>1, <1>2

\* LocksExclude is kept: a row lock is granted to one transaction at a time.
LEMMA LocksStayExclusive ==
  ASSUME TypeOK, LocksExclude, NEW p \in Procs, StepOf(p)
  PROVE  LocksExclude'
<1>1. ASSUME NEW a \in Procs, NEW b \in Procs, a # b, job'[a].id = job'[b].id
      PROVE  /\ job'[a].step = "commit" => job'[b].step \notin {"commit", "commit_crew"}
             /\ job'[a].step = "commit_crew" /\ job'[b].step = "commit_crew" =>
                  Techs(job'[a].crew) \cap Techs(job'[b].crew) = {}
  <2>1. ASSUME NEW j, Become(p, j) PROVE job'[p] = j
    BY <2>1 DEF Become, TypeOK
  <2>2. ASSUME NEW s, Goto(p, s)
        PROVE  job'[p].step = s /\ job'[p].id = job[p].id /\ job'[p].crew = job[p].crew
    BY <2>2, <2>1 DEF Goto, TypeOK, Job
  <2>3. ASSUME NEW q \in Procs, q # p, job'[p].step = "commit", job'[q].id = job'[p].id
        PROVE  job'[q].step \notin {"commit", "commit_crew"}
    <3>1. LockRequest(p)
      BY <2>3, Origins
    <3>2. CASE Goto(p, "empty")
      BY <2>2, <2>3, <3>2
    <3>3. CASE Become(p, [job[p] EXCEPT !.step = "commit", !.seen = status[job[p].id]])
      <4>1. job'[p].id = job[p].id
        BY <2>1, <3>3 DEF TypeOK, Job
      <4> QED
        BY <2>3, <3>1, <4>1, OthersKept
           DEF LockRequest, MayLock, Updating, Filling, At, Others
    <3> QED
      BY <3>1, <3>2, <3>3 DEF LockRequest
  <2>4. ASSUME NEW q \in Procs, q # p, job'[p].step = "commit_crew", job'[q].id = job'[p].id
        PROVE  /\ job'[q].step # "commit"
               /\ job'[q].step = "commit_crew" =>
                    Techs(job'[q].crew) \cap Techs(job'[p].crew) = {}
    <3>1. FillBrigade(p)
      BY <2>4, Origins
    <3>2. ~ Finish(p)
      BY <2>1, <2>4 DEF Finish, Idle
    <3>3. Goto(p, "commit_crew") /\ MayFill(p)
      BY <3>1, <3>2 DEF FillBrigade
    <3>4. job'[p].id = job[p].id /\ job'[p].crew = job[p].crew
      BY <2>2, <3>3
    <3>5. q \in Others(p)
      BY <2>4 DEF Others
    <3>6. /\ job'[q].step = job[q].step /\ job'[q].id = job[q].id
          /\ job'[q].crew = job[q].crew
      BY <2>4, OthersKept
    <3> QED
      BY <2>4, <3>3, <3>4, <3>5, <3>6 DEF MayFill, Updating, Filling, At
  <2>5. CASE a = p
    BY <1>1, <2>3, <2>4, <2>5
  <2>6. CASE b = p
    BY <1>1, <2>3, <2>4, <2>6
  <2>7. CASE a # p /\ b # p
    <3>1. /\ job'[a].step = job[a].step /\ job'[a].id = job[a].id
          /\ job'[a].crew = job[a].crew
      BY <2>7, OthersKept
    <3>2. /\ job'[b].step = job[b].step /\ job'[b].id = job[b].id
          /\ job'[b].crew = job[b].crew
      BY <2>7, OthersKept
    <3> QED
      BY <1>1, <3>1, <3>2 DEF LocksExclude, At
  <2> QED
    BY <2>5, <2>6, <2>7
<1> QED
  BY <1>1 DEF LocksExclude, At

\* A brigade is written by three statements only, each on the handler's request.
LEMMA BrigadeWrites ==
  ASSUME TypeOK, NEW p \in Procs, StepOf(p), NEW r \in Requests, brigade'[r] # brigade[r]
  PROVE  /\ r = job[p].id
         /\ \/ /\ At(p, "commit_crew") /\ CommitBrigade(p)
               /\ brigade'[r] = (brigade[r] \ job[p].rows) \cup job[p].crew
            \/ /\ At(p, "unassign") /\ RemoveAssignee(p)
               /\ brigade'[r] = brigade[r] \ job[p].rows
            \/ DestroyRequest(p) /\ Exists(r) /\ brigade'[r] = {}
<1>1. brigade' # brigade
  OBVIOUS
<1>2. UNCHANGED tables => brigade' = brigade
  BY DEF tables
<1>3. ASSUME NEW a, NEW v, brigade' = [brigade EXCEPT ![a] = v] PROVE r = a /\ brigade'[r] = v
  BY <1>3 DEF TypeOK
<1>4. CASE Start(p)
  <2>1. UNCHANGED tables
    BY <1>4 DEF Start, StartCreate, StartUpdate, StartUpdateStatus, StartDelete,
                StartSetAssignees, StartRemoveAssignee, StartDropEquipment
  <2> QED
    BY <1>1, <1>2, <2>1
<1>5. CASE Continue(p)
  <2>1. CASE CommitBrigade(p)
    <3>1. /\ At(p, "commit_crew")
          /\ brigade' = [brigade EXCEPT ![job[p].id] =
                           (brigade[job[p].id] \ job[p].rows) \cup job[p].crew]
      BY <2>1 DEF CommitBrigade
    <3> QED
      BY <1>3, <2>1, <3>1
  <2>2. CASE RemoveAssignee(p)
    <3>1. /\ At(p, "unassign")
          /\ brigade' = [brigade EXCEPT ![job[p].id] = brigade[job[p].id] \ job[p].rows]
      BY <2>2 DEF RemoveAssignee
    <3> QED
      BY <1>3, <2>2, <3>1
  <2>3. CASE DestroyRequest(p)
    <3>1. Exists(job[p].id) /\ brigade' = [brigade EXCEPT ![job[p].id] = {}]
      BY <1>1, <1>2, <2>3 DEF DestroyRequest
    <3> QED
      BY <1>3, <2>3, <3>1
  <2>4. CASE InsertRequest(p) \/ CommitUpdate(p) \/ DropEquipment(p)
    BY <1>1, <1>2, <2>4 DEF InsertRequest, CommitUpdate, DropEquipment
  <2>5. CASE \/ Authorise(p) \/ CountAssignees(p) \/ LockRequest(p) \/ AnswerEmpty(p)
             \/ LookupTechnicians(p) \/ ClearBrigade(p) \/ FillBrigade(p) \/ FindAssignee(p)
             \/ IssueRemove(p) \/ CheckActive(p)
    <3>1. UNCHANGED tables
      BY <2>5 DEF Authorise, CountAssignees, LockRequest, AnswerEmpty, LookupTechnicians,
                  ClearBrigade, FillBrigade, FindAssignee, IssueRemove, CheckActive
    <3> QED
      BY <1>1, <1>2, <3>1
  <2> QED
    BY <1>5, <2>1, <2>2, <2>3, <2>4, <2>5 DEF Continue
<1>6. CASE DbError(p)
  BY <1>1, <1>2, <1>6 DEF DbError
<1> QED
  BY <1>4, <1>5, <1>6 DEF StepOf

\* A row leaves the rows that q is about to remove only because p removed it.
LEMMA RowsLost ==
  ASSUME TypeOK, NEW p \in Procs, StepOf(p), NEW q \in Procs, q # p,
         NEW a \in job[q].rows, a \notin job'[q].rows
  PROVE  /\ job[q].id = job[p].id
         /\ \/ (CommitBrigade(p) \/ RemoveAssignee(p)) /\ a \in job[p].rows
            \/ DestroyRequest(p)
<1>1. ASSUME NEW j, Become(p, j) PROVE FALSE
  BY <1>1 DEF Become, TypeOK
<1>2. ASSUME NEW r, NEW dead, FinishRemoving(p, r, dead)
      PROVE  job[q].id = r /\ a \in dead
  BY <1>2 DEF FinishRemoving, TypeOK, Job
<1>3. CASE Start(p)
  BY <1>1, <1>3 DEF Start, StartCreate, StartUpdate, StartUpdateStatus, StartDelete,
                    StartSetAssignees, StartRemoveAssignee, StartDropEquipment, Begin
<1>4. CASE Continue(p)
  <2>1. CASE DestroyRequest(p) \/ CommitBrigade(p) \/ RemoveAssignee(p)
    BY <1>2, <2>1 DEF DestroyRequest, CommitBrigade, RemoveAssignee
  <2>2. CASE \/ InsertRequest(p) \/ Authorise(p) \/ CountAssignees(p) \/ LockRequest(p)
             \/ CommitUpdate(p) \/ AnswerEmpty(p)
    BY <1>1, <2>2 DEF InsertRequest, Authorise, CountAssignees, LockRequest, CommitUpdate,
                      AnswerEmpty, Goto, Finish
  <2>3. CASE \/ LookupTechnicians(p) \/ ClearBrigade(p) \/ FillBrigade(p) \/ FindAssignee(p)
             \/ IssueRemove(p) \/ CheckActive(p) \/ DropEquipment(p)
    BY <1>1, <2>3 DEF LookupTechnicians, ClearBrigade, FillBrigade, FindAssignee, IssueRemove,
                      CheckActive, DropEquipment, Goto, Finish
  <2> QED
    BY <1>4, <2>1, <2>2, <2>3 DEF Continue
<1>5. CASE DbError(p)
  BY <1>1, <1>5 DEF DbError, Finish
<1> QED
  BY <1>3, <1>4, <1>5 DEF StepOf

\* The first two parts of CrewsValid and the last one, for the handler q.
CrewChecked(q) ==
  /\ job[q].step \in {"lookup", "clear", "fill", "commit_crew"} =>
       OneLead(job[q].crew) /\ NoDuplicate(job[q].crew)
  /\ job[q].step \in {"clear", "fill", "commit_crew"} => job[q].crew \subseteq Assignee
  /\ job[q].step = "unassign" => \A a, b \in job[q].rows : a = b

\* The part of CrewsValid about a crew that is in the table.
CrewFits(q) ==
  job[q].step = "commit_crew" =>
    /\ Exists(job[q].id)
    /\ Techs(brigade[job[q].id] \ job[q].rows) \cap Techs(job[q].crew) = {}

\* A crew stays checked: the body had one lead and no duplicate, and the lookups
\* found its technicians.
LEMMA CrewsStayChecked ==
  ASSUME TypeOK, CrewsValid, UniqueAssignment, NEW p \in Procs, StepOf(p), NEW q \in Procs
  PROVE  CrewChecked(q)'
<1>1. CrewChecked(q)
  BY DEF CrewsValid, CrewChecked, At
<1>2. CASE q # p
  BY <1>1, <1>2, OthersKept DEF CrewChecked
<1>3. CASE q = p
  <2>1. ASSUME NEW j, Become(p, j) PROVE job'[p] = j
    BY <2>1 DEF Become, TypeOK
  <2>2. ASSUME NEW s, Goto(p, s) PROVE job'[p].step = s /\ job'[p].crew = job[p].crew
    BY <2>2, <2>1 DEF Goto, TypeOK, Job
  <2>3. CASE job'[p].step = "lookup"
    <3>1. PICK r \in Requests, body \in Bodies : StartSetAssignees(p, r, body)
      BY <2>3, Origins
    <3>2. job'[p].crew = Entries(body)
      BY <2>1, <3>1 DEF StartSetAssignees, Begin, Idle
    <3>3. OneLead(Entries(body))
      <4>1. PICK i \in DOMAIN body : \A k \in DOMAIN body : (body[k].role = "lead") <=> (k = i)
        BY <3>1 DEF StartSetAssignees
      <4>2. body[i] \in Entries(body) /\ body[i].role = "lead"
        BY <4>1 DEF Entries
      <4>3. \A b \in Entries(body) : b.role = "lead" => b = body[i]
        BY <4>1 DEF Entries
      <4> QED
        BY <4>2, <4>3 DEF OneLead
    <3>4. NoDuplicate(Entries(body))
      BY <3>1 DEF StartSetAssignees, NoDuplicate, Entries
    <3> QED
      BY <1>3, <2>3, <3>2, <3>3, <3>4 DEF CrewChecked
  <2>4. CASE job'[p].step = "clear"
    <3>1. LookupTechnicians(p)
      BY <2>4, Origins
    <3>2. ~ Finish(p)
      BY <2>1, <2>4 DEF Finish, Idle
    <3>3. /\ Techs(job[p].crew) \subseteq Technicians /\ At(p, "lookup")
          /\ Become(p, [job[p] EXCEPT !.step = "clear", !.rows = brigade[job[p].id]])
      BY <3>1, <3>2 DEF LookupTechnicians
    <3>4. job'[p].crew = job[p].crew
      BY <2>1, <3>3 DEF TypeOK, Job
    <3>5. job[p].crew \subseteq Assignee
      BY <3>3 DEF TypeOK, Job, Techs, Assignee
    <3> QED
      BY <1>1, <1>3, <2>4, <3>3, <3>4, <3>5 DEF CrewChecked, At
  <2>5. CASE job'[p].step = "fill"
    <3>1. ClearBrigade(p)
      BY <2>5, Origins
    <3> QED
      BY <1>1, <1>3, <2>2, <2>5, <3>1 DEF ClearBrigade, CrewChecked, At
  <2>6. CASE job'[p].step = "commit_crew"
    <3>1. FillBrigade(p)
      BY <2>6, Origins
    <3>2. ~ Finish(p)
      BY <2>1, <2>6 DEF Finish, Idle
    <3>3. Goto(p, "commit_crew") /\ At(p, "fill")
      BY <3>1, <3>2 DEF FillBrigade
    <3> QED
      BY <1>1, <1>3, <2>2, <2>6, <3>3 DEF CrewChecked, At
  <2>7. CASE job'[p].step = "unassign"
    <3> DEFINE found == {a \in brigade[job[p].id] : a.technicianId = job[p].who}
    <3>1. IssueRemove(p)
      BY <2>7, Origins
    <3>2. Become(p, [job[p] EXCEPT !.step = "unassign", !.rows = found])
      BY <3>1 DEF IssueRemove
    <3>3. job[p].id \in Requests
      BY <3>1 DEF IssueRemove, At, TypeOK, OnRequest, Steps
    <3>4. \A a, b \in found : a = b
      BY <3>3 DEF UniqueAssignment, NoDuplicate
    <3> HIDE DEF found
    <3>5. job'[p].rows = found
      BY <2>1, <3>2 DEF TypeOK, Job
    <3> QED
      BY <1>3, <2>7, <3>4, <3>5 DEF CrewChecked
  <2> QED
    BY <1>3, <2>3, <2>4, <2>5, <2>6, <2>7 DEF CrewChecked
<1> QED
  BY <1>2, <1>3

\* A crew that is in the table stays compatible with the rest of its brigade
\* until it is committed: the request cannot be deleted, and what other handlers
\* commit shares no technician with it.
LEMMA CrewsStayFitting ==
  ASSUME TypeOK, IdsValid, StatusesValid, CrewsValid, LocksExclude,
         NEW p \in Procs, StepOf(p), NEW q \in Procs
  PROVE  CrewFits(q)'
<1>1. CASE q = p
  <2>1. SUFFICES ASSUME job'[p].step = "commit_crew"
                 PROVE  /\ Exists(job[p].id)'
                        /\ Techs(brigade'[job'[p].id] \ job'[p].rows) \cap Techs(job'[p].crew) = {}
    BY <1>1 DEF CrewFits
  <2>2. FillBrigade(p)
    BY <2>1, Origins
  <2>3. ASSUME NEW j, Become(p, j) PROVE job'[p] = j
    BY <2>3 DEF Become, TypeOK
  <2>4. ~ Finish(p)
    BY <2>1, <2>3 DEF Finish, Idle
  <2>5. /\ Exists(job[p].id) /\ Goto(p, "commit_crew") /\ UNCHANGED tables
        /\ Techs(brigade[job[p].id] \ job[p].rows) \cap Techs(job[p].crew) = {}
    BY <2>2, <2>4 DEF FillBrigade
  <2>6. /\ job'[p].id = job[p].id /\ job'[p].crew = job[p].crew
        /\ job'[p].rows = job[p].rows
    BY <2>3, <2>5 DEF Goto, TypeOK, Job
  <2> QED
    BY <2>5, <2>6 DEF Exists, tables
<1>2. CASE q # p
  <2>1. SUFFICES ASSUME job'[q].step = "commit_crew"
                 PROVE  /\ Exists(job[q].id)'
                        /\ Techs(brigade'[job'[q].id] \ job'[q].rows) \cap Techs(job'[q].crew) = {}
    BY DEF CrewFits
  <2> DEFINE r == job[q].id
  <2>2. /\ job[q].step = "commit_crew" /\ job'[q].id = r /\ job'[q].crew = job[q].crew
    BY <1>2, <2>1, OthersKept
  <2>3. /\ r \in Requests /\ Exists(r)
        /\ Techs(brigade[r] \ job[q].rows) \cap Techs(job[q].crew) = {}
    BY <2>2 DEF TypeOK, CrewsValid, At, OnRequest, Steps
  <2>4. job[p].id = r => ~ DestroyRequest(p)
    BY <1>2, <2>2 DEF DestroyRequest, MayLock, Filling, Others, At
  <2>5. status'[r] \in Statuses
    <3>1. job[p].to \in Statuses \cup {Null}
      BY DEF TypeOK, Job
    <3>2. "new" \in Statuses
      BY DEF Statuses
    <3> QED
      BY <2>3, <2>4, <3>1, <3>2, StatusWrites DEF Exists
  <2>6. ASSUME NEW a \in brigade'[r], a \notin job'[q].rows
        PROVE  a \in brigade[r] \ job[q].rows \/ a.technicianId \notin Techs(job[q].crew)
    <3>1. ASSUME CommitBrigade(p), r = job[p].id, a \in job[p].crew
          PROVE  a.technicianId \notin Techs(job[q].crew)
      <4>1. Techs(job[p].crew) \cap Techs(job[q].crew) = {}
        BY <1>2, <2>2, <3>1 DEF CommitBrigade, LocksExclude, At
      <4> QED
        BY <3>1, <4>1 DEF Techs
    <3>2. CASE a \in job[q].rows
      <4>1. /\ r = job[p].id /\ a \in job[p].rows
            /\ CommitBrigade(p) \/ RemoveAssignee(p)
        BY <1>2, <2>4, <2>6, <3>2, RowsLost
      <4>2. CASE CommitBrigade(p)
        <5>1. brigade' = [brigade EXCEPT ![r] = (brigade[r] \ job[p].rows) \cup job[p].crew]
          BY <4>1, <4>2 DEF CommitBrigade
        <5>2. a \in job[p].crew
          BY <2>3, <2>6, <4>1, <5>1 DEF TypeOK
        <5> QED
          BY <3>1, <4>1, <4>2, <5>2
      <4>3. CASE RemoveAssignee(p)
        <5>1. brigade' = [brigade EXCEPT ![r] = brigade[r] \ job[p].rows]
          BY <4>1, <4>3 DEF RemoveAssignee
        <5> QED
          BY <2>3, <2>6, <4>1, <5>1 DEF TypeOK
      <4> QED
        BY <4>1, <4>2, <4>3
    <3>3. CASE a \notin job[q].rows /\ a \notin brigade[r]
      <4>1. /\ r = job[p].id /\ CommitBrigade(p)
            /\ brigade'[r] = (brigade[r] \ job[p].rows) \cup job[p].crew
        BY <2>3, <2>6, <3>3, BrigadeWrites
      <4> QED
        BY <2>6, <3>1, <3>3, <4>1
    <3> QED
      BY <2>6, <3>2, <3>3
  <2> QED
    BY <2>2, <2>3, <2>5, <2>6 DEF Exists, Techs
<1> QED
  BY <1>1, <1>2

\* CrewsValid is kept.
LEMMA CrewsStayValid ==
  ASSUME TypeOK, UniqueAssignment, InFlight, NEW p \in Procs, StepOf(p)
  PROVE  CrewsValid'
<1>1. ASSUME NEW q \in Procs PROVE CrewChecked(q)' /\ CrewFits(q)'
  BY <1>1, CrewsStayChecked, CrewsStayFitting DEF InFlight
<1> QED
  BY <1>1 DEF CrewsValid, CrewChecked, CrewFits, At

\* What the handlers rely on between two statements survives every statement of
\* every handler.
LEMMA InFlightKept ==
  ASSUME TypeOK, UniqueAssignment, InFlight, [Next]_vars
  PROVE  InFlight'
<1>1. ASSUME NEW p \in Procs, StepOf(p) PROVE InFlight'
  <2>1. IdsValid' /\ LocksExclude' /\ CrewsValid'
    BY <1>1, IdsStayValid, LocksStayExclusive, CrewsStayValid DEF InFlight
  <2>2. StatusesValid'
    BY <1>1, StatusesStayValid DEF InFlight, StatusesValid, At
  <2> QED
    BY <2>1, <2>2 DEF InFlight
<1>2. CASE UNCHANGED vars
  <2>1. IdsValid'
    BY <1>2 DEF InFlight, IdsValid, vars, At
  <2>2. StatusesValid'
    BY <1>2 DEF InFlight, StatusesValid, vars, At
  <2>3. CrewsValid'
    BY <1>2 DEF InFlight, CrewsValid, vars, At, Exists
  <2>4. LocksExclude'
    BY <1>2 DEF InFlight, LocksExclude, vars, At
  <2> QED
    BY <2>1, <2>2, <2>3, <2>4 DEF InFlight
<1> QED
  BY <1>1, <1>2 DEF Next, StepOf, Refuse
=============================================================================
