-------------------------- MODULE IsolationTheorems --------------------------
(***************************************************************************)
(* What is proved of RequestIsolation for any number of handlers: one that *)
(* never met another handler of its own request keeps the documented       *)
(* workflow, whatever the handlers of other requests do meanwhile.         *)
(*                                                                         *)
(* Everything such a handler has read is still true when it commits        *)
(* (NothingStale): only handlers of its own request could have changed it, *)
(* and each of those would have disturbed it (MeetingIsNoted).             *)
(***************************************************************************)
EXTENDS RequestTheorems, RequestIsolation

\* Two handlers at work on one request are both marked.
MeetingIsNoted ==
  \A p, q \in Procs : /\ p # q
                      /\ ~ At(p, "idle") /\ ~ At(q, "idle")
                      /\ job[p].id = job[q].id
                      /\ job[p].id # Null
                      => p \in disturbed /\ q \in disturbed

\* What p has read or checked so far is what the tables say now.
NothingStale(p) ==
  LET r == job[p].id
  IN /\ job[p].step \in OnRequest \ {"insert"} => Exists(r) /\ ~ At(p, "empty")
     /\ At(p, "authorise") => job[p].seen = status[r]
     /\ job[p].step \in {"count", "lock", "commit"} /\ job[p].to # Null =>
          job[p].to \in ALLOWED_TRANSITIONS[status[r]]
     /\ job[p].step \in {"lock", "commit"} /\ job[p].to = "in_progress" => brigade[r] # {}
     /\ job[p].step \in {"clear", "fill", "commit_crew"} => job[p].rows = brigade[r]

\* The inductive invariant, beside that of RequestTheorems.
IsolationInv == /\ IInv
                /\ MeetingIsNoted
                /\ \A p \in Procs \ disturbed : NothingStale(p)

-----------------------------------------------------------------------------
\* The words of RequestContract mean what they mean here.
LEMMA ContractWords ==
  /\ Contract!Statuses = Statuses /\ Contract!Closing = Closing /\ Contract!Assignee = Assignee
  /\ Contract!tables = tables
  /\ Contract!ALLOWED_TRANSITIONS = ALLOWED_TRANSITIONS
  /\ \A r : Contract!Exists(r) <=> Exists(r)
  /\ \A rows : Contract!Techs(rows) = Techs(rows)
  /\ \A crew : Contract!OneLead(crew) <=> OneLead(crew)
  /\ \A rows : Contract!NoDuplicate(rows) <=> NoDuplicate(rows)
  BY DEF Contract!Statuses, Statuses, Contract!Closing, Closing, Contract!Assignee, Assignee,
         Contract!Roles, Roles, Contract!tables, tables, Contract!Exists, Exists, Contract!Techs,
         Techs, Contract!OneLead, OneLead, Contract!NoDuplicate, NoDuplicate,
         Contract!ALLOWED_TRANSITIONS, ALLOWED_TRANSITIONS

\* The contract has the ledger's actions; it asks more of a change of status, and
\* lets a new crew keep no row of the old one.
LEMMA LedgerAndContract ==
  /\ \A r, e : Ledger!Create(r, e) => Contract!Create(r, e)
  /\ \A r, s : /\ Ledger!ChangeStatus(r, s)
               /\ s \in ALLOWED_TRANSITIONS[status[r]]
               /\ s = "in_progress" => brigade[r] # {}
               => Contract!AllowedChange(r, s)
  /\ \A r : Ledger!Delete(r) => Contract!Delete(r)
  /\ \A r, crew, kept : Ledger!Replace(r, crew, kept) => Contract!Replace(r, crew, kept)
  /\ \A r, a : Ledger!Unassign(r, a) => Contract!Unassign(r, a)
  /\ \A e : Ledger!DropEquipment(e) => Contract!DropEquipment(e)
<1> USE SameWords, ContractWords
<1>1. \A r, e : Ledger!Create(r, e) => Contract!Create(r, e)
  BY DEF Ledger!Create, Contract!Create
<1>2. \A r, s : /\ Ledger!ChangeStatus(r, s)
                /\ s \in ALLOWED_TRANSITIONS[status[r]]
                /\ s = "in_progress" => brigade[r] # {}
                => Contract!AllowedChange(r, s)
  BY DEF Ledger!ChangeStatus, Contract!ChangeStatus, Contract!AllowedChange
<1>3. \A r : Ledger!Delete(r) => Contract!Delete(r)
  BY DEF Ledger!Delete, Contract!Delete
<1>4. \A r, crew, kept : Ledger!Replace(r, crew, kept) => Contract!Replace(r, crew, kept)
  BY DEF Ledger!Replace, Contract!Replace
<1>5. \A r, a : Ledger!Unassign(r, a) => Contract!Unassign(r, a)
  BY DEF Ledger!Unassign, Contract!Unassign
<1>6. \A e : Ledger!DropEquipment(e) => Contract!DropEquipment(e)
  BY DEF Ledger!DropEquipment, Contract!DropEquipment
<1> QED
  BY <1>1, <1>2, <1>3, <1>4, <1>5, <1>6

-----------------------------------------------------------------------------
\* NothingStale is kept by the statements of others, and by its own.

\* Nobody else works on the request of an undisturbed handler.
LEMMA AloneOnItsRequest ==
  ASSUME IInv, MeetingIsNoted, NEW p \in Procs \ disturbed, job[p].step \in OnRequest,
         NEW q \in Procs, q # p
  PROVE  job[q].id # job[p].id
<1>1. job[p].id \in Requests /\ ~ At(p, "idle")
  BY DEF IInv, TypeOK, At, OnRequest
<1>2. At(q, "idle") => job[q].id = Null
  BY DEF IInv, InFlight, IdsValid, At, OnRequest
<1> QED
  BY <1>1, <1>2, IdsAssumption DEF MeetingIsNoted

\* A statement of a handler elsewhere leaves the request of p and its locals alone.
LEMMA OthersAreElsewhere ==
  ASSUME IInv, NEW p \in Procs, job[p].id \in Requests,
         NEW q \in Procs, q # p, StepOf(q), job[q].id # job[p].id
  PROVE  /\ status'[job[p].id] = status[job[p].id]
         /\ brigade'[job[p].id] = brigade[job[p].id]
         /\ job'[p].step = job[p].step /\ job'[p].id = job[p].id
         /\ job'[p].to = job[p].to /\ job'[p].seen = job[p].seen
         /\ job'[p].rows = job[p].rows
<1>0. TypeOK
  BY DEF IInv
<1>1. status'[job[p].id] = status[job[p].id]
  BY <1>0, StatusWrites
<1>2. brigade'[job[p].id] = brigade[job[p].id]
  BY <1>0, BrigadeWrites
<1>3. job'[p].rows = job[p].rows
  BY <1>0, OthersKept, RowsLost
<1> QED
  BY <1>0, <1>1, <1>2, <1>3, OthersKept

\* So what p knows stays true while others work elsewhere.
LEMMA StaysTrueElsewhere ==
  ASSUME IInv, MeetingIsNoted, NEW p \in Procs \ disturbed, NothingStale(p),
         NEW q \in Procs, q # p, StepOf(q)
  PROVE  NothingStale(p)'
<1>1. TypeOK
  BY DEF IInv
<1>2. CASE job[p].step \in OnRequest
  <2>1. job[p].id \in Requests /\ job[q].id # job[p].id
    BY <1>1, <1>2, AloneOnItsRequest DEF TypeOK
  <2> QED
    BY <2>1, OthersAreElsewhere DEF NothingStale, At, Exists
<1>3. CASE job[p].step \notin OnRequest
  <2>1. job'[p].step = job[p].step
    BY <1>1, OthersKept
  <2> QED
    BY <1>3, <2>1 DEF NothingStale, At, OnRequest, Steps
<1> QED
  BY <1>2, <1>3

\* What p has just read is true, and it acts on nothing it did not read or check.
LEMMA OwnStatementsKeepTrue ==
  ASSUME IInv, NEW p \in Procs, NothingStale(p), StepOf(p)
  PROVE  NothingStale(p)'
<1> DEFINE r == job[p].id
<1>0. /\ TypeOK /\ IdsValid /\ StatusesValid
      /\ job[p] \in Job /\ job' \in [Procs -> Job]
  <2>1. [Next]_vars
    BY DEF StepOf, Next
  <2>2. IInv'
    BY <2>1, NextIInv
  <2> QED
    BY <2>2 DEF IInv, TypeOK, InFlight
<1>1. ASSUME NEW j, Become(p, j) PROVE job'[p] = j
  BY <1>0, <1>1 DEF Become, TypeOK
<1>2. ASSUME NEW s, Goto(p, s)
      PROVE  /\ job'[p].step = s /\ job'[p].id = r /\ job'[p].to = job[p].to
             /\ job'[p].rows = job[p].rows
  BY <1>0, <1>1, <1>2 DEF Goto, Job
<1>3. Finish(p) => job'[p].step = "idle"
  BY <1>1 DEF Finish, Idle
<1>4. job'[p].step \in OnRequest \ {"insert"} => Exists(job[p].id)' /\ UNCHANGED tables
  <2>1. job'[p] = Idle => job'[p].step \notin OnRequest
    BY DEF Idle, OnRequest
  <2> QED
    BY <1>0, <2>1, OwnMove DEF NothingStale, Exists, tables, OnRequest, Steps
<1>5. job'[p].step # "empty"
  <2> SUFFICES ASSUME job'[p].step = "empty" PROVE FALSE
    OBVIOUS
  <2>1. LockRequest(p) /\ At(p, "lock")
    BY <1>0, Origins DEF LockRequest
  <2>2. Exists(r)
    BY <2>1 DEF NothingStale, At, OnRequest, Steps
  <2>3. job'[p] = [job[p] EXCEPT !.step = "commit", !.seen = status[r]]
    BY <1>1, <2>1, <2>2 DEF LockRequest
  <2> QED
    BY <1>0, <2>3 DEF Job
<1>6. CASE job'[p].step = "commit"
  <2>1. LockRequest(p) /\ At(p, "lock")
    BY <1>0, <1>6, Origins DEF LockRequest
  <2>2. ~ Goto(p, "empty")
    BY <1>2, <1>6
  <2>3. job'[p] = [job[p] EXCEPT !.step = "commit", !.seen = status[r]]
    BY <1>1, <2>1, <2>2 DEF LockRequest
  <2>4. job'[p].id = r /\ job'[p].to = job[p].to
    BY <1>0, <2>3 DEF Job
  <2> QED
    BY <1>4, <1>5, <1>6, <2>1, <2>4 DEF NothingStale, At, tables, OnRequest, Steps
<1>7. CASE job'[p].step \in {"authorise", "count", "lock"}
  <2>1. CASE \E x \in Requests : StartUpdate(p, x)
    <3>1. PICK x \in Requests : job'[p] = [Idle EXCEPT !.step = "lock", !.id = x]
      BY <1>1, <2>1 DEF StartUpdate, Begin
    <3>2. job'[p].step = "lock" /\ job'[p].to = Null
      BY <3>1 DEF Idle
    <3> QED
      BY <1>4, <3>2, IdsAssumption DEF NothingStale, At, OnRequest, Steps, Statuses
  <2>2. ASSUME NEW x \in Requests, NEW to \in Statuses, NEW by \in Technicians \cup {Admin},
               StartUpdateStatus(p, x, to, by)
        PROVE  NothingStale(p)'
    <3> DEFINE next == IF by = Admin THEN AfterTransitionCheck(status[x], to) ELSE "authorise"
    <3>1. /\ next # Null /\ UNCHANGED tables
          /\ job'[p] = [Idle EXCEPT !.step = next, !.id = x, !.to = to,
                                    !.seen = status[x], !.who = by]
      BY <1>1, <2>2 DEF StartUpdateStatus, Begin
    <3>2. next \in {"count", "lock"} => /\ to \in ALLOWED_TRANSITIONS[status[x]]
                                        /\ to = "in_progress" => next = "count"
      BY <3>1 DEF AfterTransitionCheck
    <3> HIDE DEF next
    <3>3. /\ job'[p].step = next /\ job'[p].id = x /\ job'[p].to = to
          /\ job'[p].seen = status[x]
      BY <3>1 DEF Idle
    <3> QED
      BY <1>4, <1>5, <1>7, <3>1, <3>2, <3>3 DEF NothingStale, At, tables, OnRequest, Steps
  <2>3. CASE Authorise(p)
    <3>1. ~ Finish(p) /\ At(p, "authorise") /\ UNCHANGED tables
      BY <1>3, <1>7, <2>3 DEF Authorise
    <3> DEFINE next == AfterTransitionCheck(job[p].seen, job[p].to)
    <3>2. next # Null /\ Goto(p, next)
      BY <2>3, <3>1 DEF Authorise
    <3>3. /\ next \in {"count", "lock"} /\ job[p].to \in ALLOWED_TRANSITIONS[status[r]]
          /\ job[p].to = "in_progress" => next = "count"
      BY <3>1, <3>2 DEF AfterTransitionCheck, NothingStale, At
    <3> HIDE DEF next
    <3>4. job'[p].step = next /\ job'[p].id = r /\ job'[p].to = job[p].to
      BY <1>2, <3>2
    <3> QED
      BY <1>4, <3>1, <3>3, <3>4 DEF NothingStale, At, tables, OnRequest, Steps
  <2>4. CASE CountAssignees(p)
    <3>1. ~ Finish(p) /\ At(p, "count") /\ UNCHANGED tables
      BY <1>3, <1>7, <2>4 DEF CountAssignees
    <3>2. brigade[r] # {} /\ Goto(p, "lock")
      BY <2>4, <3>1 DEF CountAssignees
    <3>3. job'[p].step = "lock" /\ job'[p].id = r /\ job'[p].to = job[p].to
      BY <1>2, <3>2
    <3> QED
      BY <1>4, <3>1, <3>2, <3>3 DEF NothingStale, At, tables, OnRequest, Steps
  <2>5. job'[p].step = "authorise" =>
          \E x \in Requests, to \in Statuses, by \in Technicians \cup {Admin} :
            StartUpdateStatus(p, x, to, by)
    BY <1>0, Origins
  <2> QED
    BY <1>0, <1>7, <2>1, <2>2, <2>3, <2>4, <2>5, Origins
<1>8. CASE job'[p].step \in {"clear", "fill", "commit_crew"}
  <2>1. ~ Finish(p)
    BY <1>3, <1>8
  <2>2. UNCHANGED tables /\ job'[p].id = r /\ job'[p].rows = brigade[r]
    <3>1. CASE LookupTechnicians(p)
      <4>1. job'[p] = [job[p] EXCEPT !.step = "clear", !.rows = brigade[r]]
        BY <1>1, <2>1, <3>1 DEF LookupTechnicians
      <4> QED
        BY <1>0, <3>1, <4>1 DEF LookupTechnicians, Job
    <3>2. CASE ClearBrigade(p)
      BY <1>2, <3>2 DEF ClearBrigade, NothingStale, At
    <3>3. CASE FillBrigade(p)
      <4>1. Goto(p, "commit_crew") /\ At(p, "fill") /\ UNCHANGED tables
        BY <2>1, <3>3 DEF FillBrigade
      <4> QED
        BY <1>2, <4>1 DEF NothingStale, At
    <3> QED
      BY <1>0, <1>8, <3>1, <3>2, <3>3, Origins
  <2> QED
    BY <1>4, <1>8, <2>2 DEF NothingStale, At, tables, OnRequest, Steps
<1>9. CASE job'[p].step \notin {"commit", "authorise", "count", "lock", "clear", "fill",
                               "commit_crew"}
  BY <1>4, <1>5, <1>9 DEF NothingStale, At
<1> QED
  BY <1>6, <1>7, <1>8, <1>9

\* The isolation invariant holds at start.
LEMMA InitIsolation == ASSUME IsolatedInit PROVE IsolationInv
<1>1. \A p \in Procs : job[p].step = "idle"
  BY DEF IsolatedInit, Init, Idle
<1>2. MeetingIsNoted
  BY <1>1 DEF MeetingIsNoted, At
<1>3. \A p \in Procs : NothingStale(p)
  BY <1>1 DEF NothingStale, At, OnRequest
<1> QED
  BY <1>2, <1>3, InitIInv DEF IsolationInv, IsolatedInit

\* Every statement of every handler keeps it.
LEMMA NextIsolation == ASSUME IsolationInv, [IsolatedNext]_isolationVars PROVE IsolationInv'
<1>1. IInv'
  BY NextIInv DEF IsolationInv, IsolatedNext, isolationVars
<1>2. CASE UNCHANGED isolationVars
  <2>1. MeetingIsNoted'
    BY <1>2 DEF IsolationInv, MeetingIsNoted, isolationVars, vars, At
  <2>2. \A p \in Procs \ disturbed : NothingStale(p)'
    BY <1>2 DEF IsolationInv, NothingStale, isolationVars, vars, At, Exists
  <2> QED
    BY <1>1, <1>2, <2>1, <2>2 DEF IsolationInv, isolationVars
<1>3. CASE IsolatedNext
  <2>1. MeetingIsNoted'
    BY <1>3 DEF IsolatedNext, Observe, Meet, MeetingIsNoted, At
  <2>2. ASSUME NEW p \in Procs \ disturbed' PROVE NothingStale(p)'
    <3>1. CASE job'[p].step = "idle"
      BY <3>1 DEF NothingStale, At, OnRequest
    <3>2. CASE job'[p].step # "idle"
      <4>1. p \notin disturbed
        BY <1>3, <2>2, <3>2 DEF IsolatedNext, Observe, At
      <4>2. IInv /\ MeetingIsNoted /\ NothingStale(p)
        BY <4>1 DEF IsolationInv
      <4>3. CASE \E q \in Procs : StepOf(q)
        BY <4>1, <4>2, <4>3, StaysTrueElsewhere, OwnStatementsKeepTrue
      <4>4. CASE UNCHANGED vars
        BY <4>2, <4>4 DEF NothingStale, vars, At, Exists
      <4> QED
        BY <1>3, <4>3, <4>4 DEF IsolatedNext, Next, StepOf, Refuse
    <3> QED
      BY <3>1, <3>2
  <2> QED
    BY <1>1, <2>1, <2>2 DEF IsolationInv
<1> QED
  BY <1>2, <1>3

\* The isolation invariant always holds.
LEMMA IsolationInductive == IsolatedSpec => []IsolationInv
  BY InitIsolation, NextIsolation, PTL DEF IsolatedSpec

-----------------------------------------------------------------------------
\* An undisturbed handler that answers has made one change of the contract, or none.
LEMMA AnswerKeepsContract ==
  ASSUME IInv, NEW p \in Procs, NothingStale(p), Next, Answers(p)
  PROVE  Contract!ContractNext \/ UNCHANGED tables
<1>1. TypeOK /\ InFlight
  BY DEF IInv
<1>2. ASSUME NEW q \in Procs, StepOf(q) PROVE q = p
  BY <1>1, <1>2, OthersKept DEF Answers, At
<1>3. CASE Continue(p)
  <2>1. ASSUME CommitUpdate(p), NEW r \in Requests, NEW to \in Statuses,
               r = job[p].id, to = job[p].to
        PROVE  to \in ALLOWED_TRANSITIONS[status[r]] /\ (to = "in_progress" => brigade[r] # {})
    BY <2>1, IdsAssumption DEF CommitUpdate, NothingStale, At
  <2>2. ASSUME NEW to \in Statuses PROVE to \notin ALLOWED_TRANSITIONS[to]
    BY DEF ALLOWED_TRANSITIONS, Statuses
  <2>3. CommitBrigade(p) => job[p].rows = brigade[job[p].id]
    BY DEF CommitBrigade, NothingStale, At
  <2>4. ASSUME NEW r \in Requests, NEW crew \in SUBSET Assignee, NEW kept,
               kept = {}, Ledger!Replace(r, crew, kept)
        PROVE  Contract!Replace(r, crew, {})
    BY <2>4, LedgerAndContract
  <2> QED
    BY <1>1, <1>3, <2>1, <2>2, <2>3, <2>4, StatementOnLedger, LedgerAndContract, ContractWords
       DEF Contract!ContractNext
<1>4. Start(p) => UNCHANGED tables
  BY StartReads
<1> QED
  BY <1>2, <1>3, <1>4 DEF Next, StepOf, Refuse, DbError, vars, tables

\* The answer 200 without a body is only ever given to a caller whose request
\* somebody else worked on meanwhile.
THEOREM EmptyNeedsAMeeting == IsolatedSpec => []EmptyOnlyIfDisturbed
<1>1. IsolationInv => EmptyOnlyIfDisturbed
  BY DEF IsolationInv, NothingStale, EmptyOnlyIfDisturbed, At, OnRequest, Steps
<1> QED
  BY <1>1, IsolationInductive, PTL

\* A handler that never met another one of its own request keeps the documented
\* workflow: what updateStatus and setAssignees check before their transactions is
\* enough as long as nobody comes between, whatever happens to other requests.
THEOREM UndisturbedHandlersKeepContract == IsolatedSpec => UndisturbedKeepsContract
<1>1. ASSUME IsolationInv, [IsolatedNext]_isolationVars
      PROVE  [\A p \in Procs \ disturbed :
                Answers(p) => Contract!ContractNext \/ UNCHANGED tables]_isolationVars
  <2>1. CASE UNCHANGED isolationVars
    BY <2>1
  <2>2. CASE IsolatedNext
    BY <1>1, <2>2, AnswerKeepsContract DEF IsolationInv, IsolatedNext
  <2> QED
    BY <1>1, <2>1, <2>2
<1> QED
  BY <1>1, IsolationInductive, PTL DEF IsolatedSpec, UndisturbedKeepsContract
=============================================================================
