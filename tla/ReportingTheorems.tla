-------------------------- MODULE ReportingTheorems --------------------------
(***************************************************************************)
(* What is proved of Reporting for any tables, scrapes and limits: how the *)
(* throttle keeps refreshes apart, what a refresh leaves in the gauges,    *)
(* and that report and summary count everything once.                      *)
(***************************************************************************)
EXTENDS Reporting, FiniteSetTheorems, TLAPS

\* The tables always hold rows.
TablesTyped == /\ kit \in [Equipment -> {"unborn", "here", "gone"}]
               /\ request \in [Requests -> Request]
               /\ changes \in Nat

\* A scrape is a record of its six components.
ScrapeTyped == /\ age \in 0 .. Interval
               /\ scrape = [p \in Scrapes |-> scrape[p]]
               /\ \A p \in Scrapes :
                    LET s == scrape[p]
                    IN /\ s = [step |-> s.step, got |-> s.got, active |-> s.active,
                               since |-> s.since, from |-> s.from, alone |-> s.alone]
                       /\ s.step \in 0..6
                       /\ s.since \in 0 .. Interval
                       /\ s.from \in Nat /\ s.from <= changes
                       /\ s.alone \in BOOLEAN

GaugeTyped == gauge = [total |-> gauge.total, overdue |-> gauge.overdue, mttr |-> gauge.mttr,
                       kit |-> gauge.kit, load |-> gauge.load]

\* No refresh began after the last one that took the time.
Throttle == \A p \in Scrapes : Refreshing(p) => age <= scrape[p].since

\* A scrape that was alone is alone.
AloneIsAlone == \A p, q \in Scrapes : p # q /\ Refreshing(p) /\ scrape[p].alone => ~ Refreshing(q)

\* A refresh that nothing came into has so far written what the tables say, and holds
\* a result that says what they say.
WrittenSoFar(p) ==
  LET s == scrape[p]
  IN /\ s.got # Null => s.got \in Results(Steps[s.step])
     /\ s.step > 1 => gauge.total = CountBy(StatusOf, In(Statuses))
     /\ s.step > 2 => gauge.overdue = Cardinality(Late)
     /\ s.step > 3 => gauge.mttr \in AnyOf(In({"done"}), MttrLimit)
     /\ s.step > 4 => gauge.kit = Cardinality(Here)
     /\ s.step > 5 => s.active = CountBy(EquipmentOf, In(Active))

ExactSoFar == \A p \in Scrapes :
  Refreshing(p) /\ scrape[p].alone /\ scrape[p].from = changes => WrittenSoFar(p)

\* The inductive invariant of the metrics.
MetricsInv == /\ TablesTyped /\ ScrapeTyped /\ GaugeTyped
              /\ Throttle /\ OverlapNeedsSlowRefresh /\ AloneIsAlone /\ ExactSoFar

-----------------------------------------------------------------------------
\* The tables

\* Rows stay rows, and a change of the tables is counted.
LEMMA ChangeCounts ==
  ASSUME TablesTyped, Change
  PROVE  TablesTyped' /\ changes' = changes + 1
<1> USE DEF TablesTyped
<1>1. ASSUME NEW r \in Requests, NEW row \in Request, Put(r, row)
      PROVE  TablesTyped' /\ changes' = changes + 1
  BY <1>1 DEF Put, Changing
<1>2. ASSUME NEW r \in Requests, NEW e \in Equipment, NEW late \in BOOLEAN,
             CreateRequest(r, e, late)
      PROVE  TablesTyped' /\ changes' = changes + 1
  <2>1. [status |-> "new", equipment |-> e, late |-> late, crew |-> {}] \in Request
    BY DEF Request, Statuses
  <2> QED
    BY <1>1, <1>2, <2>1 DEF CreateRequest
<1>3. ASSUME NEW r \in Requests, NEW s \in Statuses, ChangeStatus(r, s)
      PROVE  TablesTyped' /\ changes' = changes + 1
  <2>1. [request[r] EXCEPT !.status = s] \in Request
    BY DEF Request, Statuses
  <2> QED
    BY <1>1, <1>3, <2>1 DEF ChangeStatus
<1>4. ASSUME NEW r \in Requests, ChangeLate(r)
      PROVE  TablesTyped' /\ changes' = changes + 1
  <2>1. [request[r] EXCEPT !.late = ~ @] \in Request
    BY DEF Request
  <2> QED
    BY <1>1, <1>4, <2>1 DEF ChangeLate
<1>5. ASSUME NEW r \in Requests, DeleteRequest(r)
      PROVE  TablesTyped' /\ changes' = changes + 1
  <2>1. [NoRequest EXCEPT !.status = "gone"] \in Request
    BY DEF Request, NoRequest
  <2> QED
    BY <1>1, <1>5, <2>1 DEF DeleteRequest
<1>6. ASSUME NEW r \in Requests, NEW crew \in Crews, SetCrew(r, crew)
      PROVE  TablesTyped' /\ changes' = changes + 1
  <2>1. [request[r] EXCEPT !.crew = crew] \in Request
    BY ReportAssumption DEF Request
  <2> QED
    BY <1>1, <1>6, <2>1 DEF SetCrew
<1>7. ASSUME NEW e \in Equipment, CreateEquipment(e) \/ DeleteEquipment(e)
      PROVE  TablesTyped' /\ changes' = changes + 1
  BY <1>7 DEF CreateEquipment, DeleteEquipment, Changing
<1> QED
  BY <1>2, <1>3, <1>4, <1>5, <1>6, <1>7 DEF Change

\* The steps of the whole, sorted.
LEMMA StepsAre ==
  ASSUME [Next]_vars
  PROVE  \/ Change /\ UNCHANGED <<gauge, age, scrape, summary>>
         \/ UNCHANGED <<kit, request, changes, summary>> /\ MetricsStep
         \/ UNCHANGED <<kit, request, changes, gauge, age, scrape>>
            /\ (SummaryStep \/ summary' = summary)
  BY DEF Next, vars, metricsVars, tables, MetricsStep, StartRefresh, Query, Write, QueryFails,
         Tick, SummaryStep, StartSummary, CountEquipment, CountByStatus,
         CountByType, CountRequests, AnswerSummary

-----------------------------------------------------------------------------
\* The metrics

\* What the queries see depends on the rows alone.
LEMMA Views ==
  ASSUME UNCHANGED <<kit, request>>
  PROVE  /\ CountBy(StatusOf, In(Statuses))' = CountBy(StatusOf, In(Statuses))
         /\ CountBy(EquipmentOf, In(Active))' = CountBy(EquipmentOf, In(Active))
         /\ AnyOf(In({"done"}), MttrLimit)' = AnyOf(In({"done"}), MttrLimit)
         /\ Late' = Late
         /\ Here' = Here
<1>1. \A S : In(S)' = In(S)
  BY DEF In
<1>2. StatusOf' = StatusOf /\ EquipmentOf' = EquipmentOf
  BY DEF StatusOf, EquipmentOf
<1>3. Late' = Late
  BY <1>1 DEF Late
<1>4. Here' = Here
  BY DEF Here
<1> QED
  BY <1>1, <1>2, <1>3, <1>4

\* A step of one scrape leaves the others, and one that was alone is that scrape.
LEMMA QueryKeeps ==
  ASSUME MetricsInv, NEW p \in Scrapes, Query(p), UNCHANGED summary
  PROVE  MetricsInv'
<1> USE DEF MetricsInv
<1> DEFINE s == scrape[p]
<1>1. PICK result \in Results(Steps[s.step]) : scrape' = [scrape EXCEPT ![p] = [@ EXCEPT !.got = result]]
  BY DEF Query
<1>2. UNCHANGED <<kit, request, changes, gauge, age>> /\ s.step # 0 /\ s.got = Null
  BY DEF Query, tables, Refreshing
<1>3. /\ scrape'[p] = [s EXCEPT !.got = result]
      /\ \A q \in Scrapes \ {p} : scrape'[q] = scrape[q]
      /\ scrape' = [q \in Scrapes |-> scrape'[q]]
  BY <1>1 DEF ScrapeTyped
<1>4. /\ scrape'[p].got = result /\ scrape'[p].step = s.step /\ scrape'[p].active = s.active
      /\ scrape'[p].since = s.since /\ scrape'[p].from = s.from /\ scrape'[p].alone = s.alone
      /\ scrape'[p] = [step |-> s.step, got |-> result, active |-> s.active,
                       since |-> s.since, from |-> s.from, alone |-> s.alone]
  BY <1>3 DEF ScrapeTyped
<1>5. ScrapeTyped'
  BY <1>2, <1>3, <1>4 DEF ScrapeTyped
<1>6. Throttle' /\ OverlapNeedsSlowRefresh' /\ AloneIsAlone'
  BY <1>2, <1>3, <1>4 DEF Throttle, OverlapNeedsSlowRefresh, AloneIsAlone, Refreshing
<1>7. TablesTyped' /\ GaugeTyped'
  BY <1>2 DEF TablesTyped, GaugeTyped
<1>8. ExactSoFar'
  <2> SUFFICES ASSUME NEW q \in Scrapes,
                      scrape'[q].step # 0, scrape'[q].alone, scrape'[q].from = changes'
               PROVE  WrittenSoFar(q)'
    BY DEF ExactSoFar, Refreshing
  <2>1. q = p
    BY <1>2, <1>3, <1>4 DEF AloneIsAlone, Refreshing
  <2>2. WrittenSoFar(p)
    BY <1>2, <1>4, <2>1 DEF ExactSoFar, Refreshing
  <2> QED
    BY <1>2, <1>4, <2>1, <2>2, Views DEF WrittenSoFar, Results
<1> QED
  BY <1>5, <1>6, <1>7, <1>8

\* The query of each step.
LEMMA StepsOne ==
  /\ Steps[1] = "total" /\ Steps[2] = "overdue" /\ Steps[3] = "mttr"
  /\ Steps[4] = "kit" /\ Steps[5] = "active" /\ Steps[6] = "equipments"
  BY DEF Steps

\* The scrape after it has written.
AfterWrite(s) == IF s.step = 6 THEN IdleScrape
                 ELSE [s EXCEPT !.step = @ + 1, !.got = Null,
                                !.active = IF s.step = 5 THEN s.got ELSE @]

\* It is a scrape again.
LEMMA AfterWriteIs ==
  ASSUME MetricsInv, NEW p \in Scrapes, scrape[p].step \in 1..6
  PROVE  LET s == scrape[p]
             k == AfterWrite(s)
         IN /\ k = [step |-> k.step, got |-> k.got, active |-> k.active,
                    since |-> k.since, from |-> k.from, alone |-> k.alone]
            /\ s.step = 6 => k = IdleScrape
            /\ s.step < 6 => /\ k.step = s.step + 1 /\ k.got = Null
                             /\ k.active = IF s.step = 5 THEN s.got ELSE s.active
                             /\ k.since = s.since /\ k.from = s.from /\ k.alone = s.alone
<1> DEFINE s == scrape[p]
           k == AfterWrite(s)
<1>1. s = [step |-> s.step, got |-> s.got, active |-> s.active,
           since |-> s.since, from |-> s.from, alone |-> s.alone]
  BY DEF MetricsInv, ScrapeTyped
<1>2. CASE s.step = 6
  <2>1. k = IdleScrape
    BY <1>2 DEF AfterWrite
  <2> HIDE DEF k
  <2> QED
    BY <1>2, <2>1 DEF k, IdleScrape
<1>3. CASE s.step < 6
  <2> DEFINE active == IF s.step = 5 THEN s.got ELSE s.active
  <2>1. k = [step |-> s.step + 1, got |-> Null, active |-> active,
             since |-> s.since, from |-> s.from, alone |-> s.alone]
    <3>1. k = [s EXCEPT !.step = @ + 1, !.got = Null, !.active = active]
      BY <1>3 DEF AfterWrite
    <3> HIDE DEF active, k, s
    <3> QED
      BY <1>1, <3>1
  <2> HIDE DEF k, s
  <2> QED
    BY <1>3, <2>1 DEF k, s
<1> QED
  BY <1>2, <1>3

\* What the gauge of each step becomes.
LEMMA WriteMoves ==
  ASSUME MetricsInv, NEW p \in Scrapes, Write(p)
  PROVE  LET s == scrape[p]
         IN /\ UNCHANGED <<kit, request, changes, age>>
            /\ s.step \in 1..6 /\ s.got # Null
            /\ s.step = 1 => gauge' = [gauge EXCEPT !.total = s.got]
            /\ s.step = 2 => gauge' = [gauge EXCEPT !.overdue = s.got]
            /\ s.step = 3 => gauge' = [gauge EXCEPT !.mttr = s.got]
            /\ s.step = 4 => gauge' = [gauge EXCEPT !.kit = s.got]
            /\ s.step = 5 => gauge' = gauge
            /\ s.step = 6 => \E rows \in Labels(s.active, s.got) :
                               gauge' = [gauge EXCEPT !.load = rows]
            /\ scrape' = [scrape EXCEPT ![p] = AfterWrite(s)]
<1> DEFINE s == scrape[p]
           query == Steps[s.step]
<1>1. /\ UNCHANGED <<kit, request, changes, age>>
      /\ s.step \in 1..6 /\ s.got # Null
      /\ gauge' \in Written(query, s.got, s.active)
  BY DEF Write, Refreshing, tables, MetricsInv, ScrapeTyped
<1>2. scrape' = [scrape EXCEPT ![p] = AfterWrite(s)]
  <2>1. (query = "equipments" <=> s.step = 6) /\ (query = "active" <=> s.step = 5)
    BY <1>1, StepsOne
  <2> QED
    BY <2>1 DEF Write, AfterWrite
<1>3. /\ s.step = 1 => gauge' = [gauge EXCEPT !.total = s.got]
      /\ s.step = 2 => gauge' = [gauge EXCEPT !.overdue = s.got]
      /\ s.step = 3 => gauge' = [gauge EXCEPT !.mttr = s.got]
      /\ s.step = 4 => gauge' = [gauge EXCEPT !.kit = s.got]
      /\ s.step = 5 => gauge' = gauge
  BY <1>1, StepsOne DEF Written, ResetAndSet
<1>4. s.step = 6 => \E rows \in Labels(s.active, s.got) : gauge' = [gauge EXCEPT !.load = rows]
  BY <1>1, StepsOne DEF Written, ResetAndSet
<1> QED
  BY <1>1, <1>2, <1>3, <1>4

\* A step of the scrape keeps the parts that do not speak of the results.
LEMMA ScrapeKeeps ==
  ASSUME MetricsInv, NEW p \in Scrapes, NEW k, UNCHANGED <<changes, age>>,
         scrape' = [scrape EXCEPT ![p] = k],
         k = [step |-> k.step, got |-> k.got, active |-> k.active,
              since |-> k.since, from |-> k.from, alone |-> k.alone],
         k = IdleScrape \/ /\ k.step \in 1..6
                           /\ scrape[p].step # 0 /\ k.since = scrape[p].since
                           /\ k.from = scrape[p].from /\ k.alone = scrape[p].alone
  PROVE  /\ ScrapeTyped' /\ Throttle' /\ OverlapNeedsSlowRefresh' /\ AloneIsAlone'
         /\ scrape'[p] = k
         /\ \A q \in Scrapes \ {p} : scrape'[q] = scrape[q]
<1> USE DEF MetricsInv
<1>1. /\ scrape'[p] = k
      /\ \A q \in Scrapes \ {p} : scrape'[q] = scrape[q]
      /\ scrape' = [q \in Scrapes |-> scrape'[q]]
  BY DEF ScrapeTyped
<1> HIDE DEF MetricsInv
<1>2. /\ k.step \in 0..6 /\ k.since \in 0..Interval /\ k.from \in Nat /\ k.from <= changes
      /\ k.alone \in BOOLEAN
  <2>1. CASE k = IdleScrape
    <3>1. k.step = 0 /\ k.since = 0 /\ k.from = 0
      BY <2>1 DEF IdleScrape
    <3>2. k.alone = TRUE
      BY <2>1 DEF IdleScrape
    <3>3. k.alone \in BOOLEAN
      BY <3>2
    <3>4. changes \in Nat /\ Interval \in Nat
      BY MetricsAssumption DEF TablesTyped, MetricsInv
    <3>5. k.step \in 0..6 /\ k.since \in 0..Interval /\ k.from \in Nat /\ k.from <= changes
      BY <3>1, <3>4
    <3> QED
      BY <3>3, <3>5
  <2>2. CASE k # IdleScrape
    <3>1. k.step \in 0..6 /\ k.since \in 0..Interval /\ k.from \in Nat /\ k.from <= changes
      BY <2>2 DEF ScrapeTyped, MetricsInv
    <3>2. k.alone = scrape[p].alone /\ scrape[p].alone \in BOOLEAN
      BY <2>2 DEF ScrapeTyped, MetricsInv
    <3>3. k.alone \in BOOLEAN
      BY <3>2
    <3> QED
      BY <3>1, <3>3
  <2> QED
    BY <2>1, <2>2
<1> USE DEF MetricsInv
<1>3. k.step # 0 => /\ scrape[p].step # 0 /\ k.since = scrape[p].since
                    /\ k.alone = scrape[p].alone
  BY DEF IdleScrape
<1>4. ScrapeTyped'
  BY <1>1, <1>2 DEF ScrapeTyped
<1>5. Throttle' /\ OverlapNeedsSlowRefresh' /\ AloneIsAlone'
  BY <1>1, <1>3 DEF Throttle, OverlapNeedsSlowRefresh, AloneIsAlone, Refreshing
<1> QED
  BY <1>1, <1>4, <1>5

\* When the scrape that takes a step was alone, only its own results matter.
LEMMA OnlyItsOwn ==
  ASSUME MetricsInv, NEW p \in Scrapes, Refreshing(p),
         \A q \in Scrapes \ {p} : scrape'[q] = scrape[q],
         Refreshing(p)' /\ scrape'[p].alone /\ scrape'[p].from = changes' => WrittenSoFar(p)'
  PROVE  ExactSoFar'
<1> SUFFICES ASSUME NEW q \in Scrapes \ {p}, scrape'[q].step # 0, scrape'[q].alone
             PROVE  FALSE
  BY DEF ExactSoFar, Refreshing
<1> QED
  BY DEF MetricsInv, AloneIsAlone, Refreshing

\* The result is written, or the query failed and nothing is.
LEMMA WriteKeeps ==
  ASSUME MetricsInv, NEW p \in Scrapes, Write(p)
  PROVE  MetricsInv'
<1> DEFINE s == scrape[p]
           k == AfterWrite(s)
<1>1. /\ UNCHANGED <<kit, request, changes, age>>
      /\ s.step \in 1..6 /\ s.got # Null
      /\ scrape' = [scrape EXCEPT ![p] = k]
  BY WriteMoves
<1>3. /\ k = [step |-> k.step, got |-> k.got, active |-> k.active,
              since |-> k.since, from |-> k.from, alone |-> k.alone]
      /\ s.step = 6 => k = IdleScrape
      /\ s.step < 6 => /\ k.step = s.step + 1 /\ k.got = Null
                       /\ k.active = IF s.step = 5 THEN s.got ELSE s.active
                       /\ k.since = s.since /\ k.from = s.from /\ k.alone = s.alone
  BY <1>1, AfterWriteIs
<1> HIDE DEF k
<1>4. /\ ScrapeTyped' /\ Throttle' /\ OverlapNeedsSlowRefresh' /\ AloneIsAlone'
      /\ scrape'[p] = k
      /\ \A q \in Scrapes \ {p} : scrape'[q] = scrape[q]
  <2>1. \/ k = IdleScrape
        \/ /\ k.step \in 1..6 /\ s.step # 0
           /\ k.since = s.since /\ k.from = s.from /\ k.alone = s.alone
    <3>1. CASE s.step = 6
      BY <1>3, <3>1
    <3>2. CASE s.step < 6
      <4>1. k.step \in 1..6 /\ s.step # 0
        BY <1>1, <1>3, <3>2
      <4> QED
        BY <1>3, <3>2, <4>1
    <3> QED
      BY <1>1, <3>1, <3>2
  <2> HIDE DEF s
  <2> QED
    BY <1>1, <1>3, <2>1, ScrapeKeeps DEF s
<1>5. TablesTyped'
  BY <1>1 DEF MetricsInv, TablesTyped
<1>6. GaugeTyped'
  <2>1. \E v : \/ gauge' = [gauge EXCEPT !.total = v] \/ gauge' = [gauge EXCEPT !.overdue = v]
               \/ gauge' = [gauge EXCEPT !.mttr = v]  \/ gauge' = [gauge EXCEPT !.kit = v]
               \/ gauge' = [gauge EXCEPT !.load = v]  \/ gauge' = gauge
    <3>1. s.step = 1 \/ s.step = 2 \/ s.step = 3 \/ s.step = 4 \/ s.step = 5 \/ s.step = 6
      BY <1>1
    <3> QED
      BY <3>1, WriteMoves, Zenon
  <2>2. GaugeTyped
    BY DEF MetricsInv
  <2> QED
    BY <2>1, <2>2 DEF GaugeTyped
<1>7. ASSUME k.step # 0, k.alone, k.from = changes PROVE WrittenSoFar(p)'
  <2>1. s.step < 6 /\ WrittenSoFar(p)
    <3>1. s.step # 6
      BY <1>3, <1>7 DEF IdleScrape
    <3>2. s.step < 6 /\ s.step # 0
      BY <1>1, <3>1
    <3>3. s.from = changes
      BY <1>3, <1>7, <3>2
    <3>4. s.alone
      BY <1>3, <1>7, <3>2, Zenon
    <3> QED
      BY <3>2, <3>3, <3>4 DEF MetricsInv, ExactSoFar, Refreshing
  <2>2. s.got \in Results(Steps[s.step])
    BY <1>1, <2>1 DEF WrittenSoFar
  <2> HIDE DEF s
  <2>3. /\ s.step = 1 => gauge'.total = CountBy(StatusOf, In(Statuses))
        /\ s.step = 2 => gauge'.overdue = Cardinality(Late)
        /\ s.step = 3 => gauge'.mttr \in AnyOf(In({"done"}), MttrLimit)
        /\ s.step = 4 => gauge'.kit = Cardinality(Here)
        /\ s.step = 5 => s.got = CountBy(EquipmentOf, In(Active))
    BY <2>2, StepsOne, WriteMoves DEF Results, MetricsInv, GaugeTyped, s
  <2>4. /\ s.step # 1 => gauge'.total = gauge.total
        /\ s.step # 2 => gauge'.overdue = gauge.overdue
        /\ s.step # 3 => gauge'.mttr = gauge.mttr
        /\ s.step # 4 => gauge'.kit = gauge.kit
    BY <2>1, WriteMoves DEF MetricsInv, GaugeTyped, s
  <2> QED
    BY <1>1, <1>3, <1>4, <2>1, <2>3, <2>4, Views DEF WrittenSoFar, s
<1>8. ExactSoFar'
  BY <1>1, <1>4, <1>7, OnlyItsOwn DEF Refreshing
<1> QED
  BY <1>4, <1>5, <1>6, <1>8 DEF MetricsInv

\* The scrape that gives up writes nothing.
LEMMA FailureKeeps ==
  ASSUME MetricsInv, NEW p \in Scrapes, QueryFails(p)
  PROVE  MetricsInv'
<1>1. /\ UNCHANGED <<kit, request, changes, age, gauge>> /\ Refreshing(p)
      /\ scrape' = [scrape EXCEPT ![p] = IdleScrape]
  BY DEF QueryFails, tables
<1>2. IdleScrape.step = 0
  BY DEF IdleScrape
<1>3. /\ ScrapeTyped' /\ Throttle' /\ OverlapNeedsSlowRefresh' /\ AloneIsAlone'
      /\ scrape'[p] = IdleScrape
      /\ \A q \in Scrapes \ {p} : scrape'[q] = scrape[q]
  <2>1. IdleScrape = [step |-> IdleScrape.step, got |-> IdleScrape.got,
                      active |-> IdleScrape.active, since |-> IdleScrape.since,
                      from |-> IdleScrape.from, alone |-> IdleScrape.alone]
    BY DEF IdleScrape
  <2> QED
    BY <1>1, <2>1, ScrapeKeeps
<1>4. ExactSoFar'
  BY <1>1, <1>2, <1>3, OnlyItsOwn DEF Refreshing
<1> QED
  BY <1>1, <1>3, <1>4 DEF MetricsInv, TablesTyped, GaugeTyped

\* The scrape a refresh begins with.
LEMMA FreshIs ==
  ASSUME NEW from, NEW alone
  PROVE  [IdleScrape EXCEPT !.step = 1, !.from = from, !.alone = alone]
           = [step |-> 1, got |-> Null, active |-> Null,
              since |-> 0, from |-> from, alone |-> alone]
<1> DEFINE idle == IdleScrape
<1>1. idle = [step |-> 0, got |-> Null, active |-> Null,
              since |-> 0, from |-> 0, alone |-> idle.alone]
  BY DEF IdleScrape
<1> HIDE DEF idle
<1>2. [idle EXCEPT !.step = 1, !.from = from, !.alone = alone]
        = [step |-> 1, got |-> Null, active |-> Null,
           since |-> 0, from |-> from, alone |-> alone]
  <2> DEFINE one == [idle EXCEPT !.step = 1]
             two == [one EXCEPT !.from = from]
  <2>1. one = [step |-> 1, got |-> Null, active |-> Null,
               since |-> 0, from |-> 0, alone |-> idle.alone]
    BY <1>1
  <2> HIDE DEF one
  <2>2. two = [step |-> 1, got |-> Null, active |-> Null,
               since |-> 0, from |-> from, alone |-> one.alone]
    BY <2>1
  <2> HIDE DEF two
  <2>3. [two EXCEPT !.alone = alone]
          = [step |-> 1, got |-> Null, active |-> Null,
             since |-> 0, from |-> from, alone |-> alone]
    BY <2>2
  <2> QED
    BY <2>3 DEF two, one
<1> QED
  BY <1>2 DEF idle

\* A refresh that begins takes the time, and with it every other one its solitude.
LEMMA StartKeeps ==
  ASSUME MetricsInv, NEW p \in Scrapes, StartRefresh(p)
  PROVE  MetricsInv'
<1> USE DEF MetricsInv
<1> DEFINE all   == \A o \in Scrapes : ~ Refreshing(o)
           fresh == [IdleScrape EXCEPT !.step = 1, !.from = changes, !.alone = all]
<1>1. /\ UNCHANGED <<kit, request, changes, gauge>> /\ age = Interval /\ age' = 0 /\ ~ Refreshing(p)
      /\ scrape' = [q \in Scrapes |-> IF q = p THEN fresh
                                      ELSE [scrape[q] EXCEPT !.alone = @ /\ ~ Refreshing(q)]]
  BY DEF StartRefresh, tables
<1>2. /\ fresh = [step |-> 1, got |-> Null, active |-> Null,
                  since |-> 0, from |-> changes, alone |-> all]
      /\ scrape'[p] = fresh
      /\ scrape' = [q \in Scrapes |-> scrape'[q]]
  <2> HIDE DEF all
  <2>1. fresh = [step |-> 1, got |-> Null, active |-> Null,
                 since |-> 0, from |-> changes, alone |-> all]
    BY FreshIs
  <2> HIDE DEF fresh
  <2>2. scrape'[p] = fresh /\ scrape' = [q \in Scrapes |-> scrape'[q]]
    <3> HIDE DEF MetricsInv
    <3> QED
      BY <1>1
  <2> QED
    BY <2>1, <2>2
<1>3. ASSUME NEW q \in Scrapes, q # p
      PROVE  /\ scrape'[q] = [step |-> scrape[q].step, got |-> scrape[q].got,
                              active |-> scrape[q].active, since |-> scrape[q].since,
                              from |-> scrape[q].from,
                              alone |-> scrape[q].alone /\ ~ Refreshing(q)]
             /\ scrape'[q].step = scrape[q].step /\ scrape'[q].since = scrape[q].since
             /\ scrape'[q].from = scrape[q].from
             /\ scrape'[q].alone = (scrape[q].alone /\ ~ Refreshing(q))
  <2>1. scrape'[q] = [scrape[q] EXCEPT !.alone = @ /\ ~ Refreshing(q)]
    BY <1>1, <1>3
  <2>2. scrape[q] = [step |-> scrape[q].step, got |-> scrape[q].got,
                     active |-> scrape[q].active, since |-> scrape[q].since,
                     from |-> scrape[q].from, alone |-> scrape[q].alone]
    BY DEF ScrapeTyped
  <2> DEFINE v == scrape[q].alone /\ ~ Refreshing(q)
  <2>3. scrape'[q] = [scrape[q] EXCEPT !.alone = v]
    BY <2>1
  <2> HIDE DEF v
  <2>4. scrape'[q] = [step |-> scrape[q].step, got |-> scrape[q].got,
                      active |-> scrape[q].active, since |-> scrape[q].since,
                      from |-> scrape[q].from, alone |-> v]
    BY <2>2, <2>3
  <2>5. /\ scrape'[q].step = scrape[q].step /\ scrape'[q].since = scrape[q].since
        /\ scrape'[q].from = scrape[q].from /\ scrape'[q].alone = v
    BY <2>4
  <2> QED
    BY <2>4, <2>5 DEF v
<1>4. TablesTyped' /\ GaugeTyped'
  BY <1>1 DEF TablesTyped, GaugeTyped
<1> HIDE DEF fresh, all
<1>5. /\ scrape'[p].step = 1 /\ scrape'[p].since = 0 /\ scrape'[p].from = changes
      /\ scrape'[p].got = Null /\ scrape'[p].alone = all
  BY <1>2
<1>6. ScrapeTyped'
  <2>1. all \in BOOLEAN /\ \A q \in Scrapes : (scrape[q].alone /\ ~ Refreshing(q)) \in BOOLEAN
    BY DEF all
  <2>2. ASSUME NEW q \in Scrapes
        PROVE  LET s == scrape'[q]
               IN /\ s = [step |-> s.step, got |-> s.got, active |-> s.active,
                          since |-> s.since, from |-> s.from, alone |-> s.alone]
                  /\ s.alone \in BOOLEAN
    <3>1. CASE q = p
      BY <1>2, <1>5, <2>1, <3>1
    <3>2. CASE q # p
      <4>1. scrape'[q].alone \in BOOLEAN
        BY <1>3, <2>1, <3>2
      <4> DEFINE v == scrape[q].alone /\ ~ Refreshing(q)
      <4>2. scrape'[q] = [step |-> scrape[q].step, got |-> scrape[q].got,
                          active |-> scrape[q].active, since |-> scrape[q].since,
                          from |-> scrape[q].from, alone |-> v]
        BY <1>3, <3>2
      <4> HIDE DEF v
      <4> QED
        BY <4>1, <4>2
    <3> QED
      BY <3>1, <3>2
  <2>3. ASSUME NEW q \in Scrapes
        PROVE  LET s == scrape'[q]
               IN /\ s.step \in 0..6
                  /\ s.since \in 0 .. Interval
                  /\ s.from \in Nat /\ s.from <= changes'
    <3>1. CASE q = p
      BY <1>1, <1>5, <3>1, MetricsAssumption DEF TablesTyped
    <3>2. CASE q # p
      BY <1>1, <1>3, <3>2 DEF ScrapeTyped
    <3> QED
      BY <3>1, <3>2
  <2>4. age' \in 0 .. Interval
    BY <1>1, MetricsAssumption
  <2> QED
    BY <1>2, <2>2, <2>3, <2>4 DEF ScrapeTyped
<1>7. \A q \in Scrapes : Refreshing(q)' => scrape'[q].since \in 0 .. Interval
  BY <1>6 DEF ScrapeTyped
<1>8. Throttle'
  BY <1>1, <1>7, MetricsAssumption DEF Throttle, Refreshing
<1>9. \A q \in Scrapes \ {p} : Refreshing(q) => scrape[q].since = Interval
  <2> SUFFICES ASSUME NEW q \in Scrapes, Refreshing(q) PROVE scrape[q].since = Interval
    OBVIOUS
  <2>1. age <= scrape[q].since
    BY DEF Throttle
  <2>2. scrape[q].since \in 0 .. Interval
    BY DEF ScrapeTyped
  <2> QED
    BY <1>1, <2>1, <2>2, MetricsAssumption
<1>10. OverlapNeedsSlowRefresh'
  <2>1. \A q \in Scrapes \ {p} : /\ scrape'[q].step = scrape[q].step
                                /\ scrape'[q].since = scrape[q].since
    BY <1>3
  <2> QED
    BY <1>9, <2>1 DEF OverlapNeedsSlowRefresh, Refreshing
<1>11. \A q \in Scrapes \ {p} : Refreshing(q)' => ~ scrape'[q].alone
  BY <1>3, Zenon DEF Refreshing
<1>12. scrape'[p].alone => \A q \in Scrapes \ {p} : ~ Refreshing(q)'
  <2>1. \A q \in Scrapes \ {p} : Refreshing(q)' = Refreshing(q)
    BY <1>3 DEF Refreshing
  <2>2. scrape'[p].alone => all
    BY <1>5, Zenon
  <2> QED
    BY <2>1, <2>2, Zenon DEF all
<1>13. AloneIsAlone'
  BY <1>11, <1>12, Zenon DEF AloneIsAlone
<1>14. WrittenSoFar(p)'
  BY <1>5 DEF WrittenSoFar
<1>15. ExactSoFar'
  BY <1>11, <1>14, Zenon DEF ExactSoFar
<1> QED
  BY <1>4, <1>6, <1>8, <1>10, <1>13, <1>15

\* Time passes for the throttle and for every refresh alike.
LEMMA TickKeeps ==
  ASSUME MetricsInv, Tick
  PROVE  MetricsInv'
<1> USE DEF MetricsInv
<1>1. /\ UNCHANGED <<kit, request, changes, gauge>> /\ age' = Older(age)
      /\ scrape' = [p \in Scrapes |-> IF Refreshing(p) THEN [scrape[p] EXCEPT !.since = Older(@)]
                                      ELSE scrape[p]]
  BY DEF Tick, tables
<1>2. ASSUME NEW n \in 0 .. Interval
      PROVE  Older(n) \in 0 .. Interval /\ \A m \in 0 .. Interval : m <= n => Older(m) <= Older(n)
  BY MetricsAssumption DEF Older
<1>3. Older(Interval) = Interval
  BY MetricsAssumption DEF Older
<1>4. ASSUME NEW q \in Scrapes
      PROVE  /\ scrape'[q] = [step |-> scrape[q].step, got |-> scrape[q].got,
                              active |-> scrape[q].active, since |-> scrape'[q].since,
                              from |-> scrape[q].from, alone |-> scrape[q].alone]
             /\ scrape'[q].step = scrape[q].step /\ scrape'[q].got = scrape[q].got
             /\ scrape'[q].active = scrape[q].active /\ scrape'[q].from = scrape[q].from
             /\ scrape'[q].alone = scrape[q].alone
             /\ scrape'[q].since = IF Refreshing(q) THEN Older(scrape[q].since) ELSE scrape[q].since
  <2>1. scrape[q] = [step |-> scrape[q].step, got |-> scrape[q].got,
                     active |-> scrape[q].active, since |-> scrape[q].since,
                     from |-> scrape[q].from, alone |-> scrape[q].alone]
    BY DEF ScrapeTyped
  <2> DEFINE v == IF Refreshing(q) THEN Older(scrape[q].since) ELSE scrape[q].since
  <2>2. scrape'[q] = IF Refreshing(q) THEN [scrape[q] EXCEPT !.since = v] ELSE scrape[q]
    BY <1>1
  <2>3. ~ Refreshing(q) => v = scrape[q].since
    OBVIOUS
  <2> HIDE DEF v
  <2>4. scrape'[q] = [step |-> scrape[q].step, got |-> scrape[q].got,
                      active |-> scrape[q].active, since |-> v,
                      from |-> scrape[q].from, alone |-> scrape[q].alone]
    BY <2>1, <2>2, <2>3
  <2>5. /\ scrape'[q].step = scrape[q].step /\ scrape'[q].got = scrape[q].got
        /\ scrape'[q].active = scrape[q].active /\ scrape'[q].from = scrape[q].from
        /\ scrape'[q].alone = scrape[q].alone /\ scrape'[q].since = v
    BY <2>4
  <2> QED
    BY <2>4, <2>5 DEF v
<1>5. TablesTyped' /\ GaugeTyped'
  BY <1>1 DEF TablesTyped, GaugeTyped
<1>6. ScrapeTyped'
  <2>1. age' \in 0 .. Interval /\ scrape' = [p \in Scrapes |-> scrape'[p]]
    BY <1>1, <1>2 DEF ScrapeTyped
  <2>2. ASSUME NEW q \in Scrapes
        PROVE  LET s == scrape'[q]
               IN /\ s = [step |-> s.step, got |-> s.got, active |-> s.active,
                          since |-> s.since, from |-> s.from, alone |-> s.alone]
                  /\ s.alone \in BOOLEAN /\ s.step \in 0..6
                  /\ s.from \in Nat /\ s.from <= changes'
    BY <1>1, <1>4 DEF ScrapeTyped
  <2>3. \A q \in Scrapes : scrape'[q].since \in 0 .. Interval
    BY <1>2, <1>4 DEF ScrapeTyped
  <2> QED
    BY <2>1, <2>2, <2>3 DEF ScrapeTyped
<1>7. \A q \in Scrapes : Refreshing(q)' = Refreshing(q)
  BY <1>4 DEF Refreshing
<1>8. Throttle'
  <2> SUFFICES ASSUME NEW q \in Scrapes, Refreshing(q)' PROVE age' <= scrape'[q].since
    BY DEF Throttle
  <2>1. age <= scrape[q].since /\ age \in 0 .. Interval /\ scrape[q].since \in 0 .. Interval
    BY <1>7 DEF Throttle, ScrapeTyped
  <2>2. scrape'[q].since = Older(scrape[q].since)
    BY <1>4, <1>7
  <2> QED
    BY <1>1, <1>2, <2>1, <2>2
<1>9. OverlapNeedsSlowRefresh'
  <2>1. \A q \in Scrapes : Refreshing(q) /\ scrape[q].since = Interval => scrape'[q].since = Interval
    BY <1>3, <1>4
  <2> QED
    BY <1>7, <2>1 DEF OverlapNeedsSlowRefresh
<1>10. AloneIsAlone'
  BY <1>4, <1>7 DEF AloneIsAlone
<1>11. ExactSoFar'
  <2> SUFFICES ASSUME NEW q \in Scrapes,
                      Refreshing(q)', scrape'[q].alone, scrape'[q].from = changes'
               PROVE  WrittenSoFar(q)'
    BY DEF ExactSoFar
  <2>1. WrittenSoFar(q)
    <3>1. scrape[q].alone
      BY <1>4, Zenon
    <3> QED
      BY <1>1, <1>4, <1>7, <3>1 DEF ExactSoFar
  <2> QED
    BY <1>1, <1>4, <2>1, Views DEF WrittenSoFar, Results
<1> QED
  BY <1>5, <1>6, <1>8, <1>9, <1>10, <1>11

\* No refresh that began before a change need be exact after it.
LEMMA ChangeKeeps ==
  ASSUME MetricsInv, Change, UNCHANGED <<gauge, age, scrape>>
  PROVE  MetricsInv'
<1> USE DEF MetricsInv
<1>1. TablesTyped' /\ changes' = changes + 1
  BY ChangeCounts
<1>2. \A q \in Scrapes : scrape[q].from # changes'
  BY <1>1 DEF ScrapeTyped, TablesTyped
<1>3. ScrapeTyped'
  BY <1>1 DEF ScrapeTyped, TablesTyped
<1> QED
  BY <1>1, <1>2, <1>3
     DEF GaugeTyped, Throttle, OverlapNeedsSlowRefresh, AloneIsAlone, ExactSoFar, Refreshing

\* What does not touch tables and metrics keeps all of it.
LEMMA OthersKeep ==
  ASSUME MetricsInv, UNCHANGED <<kit, request, changes, gauge, age, scrape>>
  PROVE  MetricsInv'
<1>1. ExactSoFar'
  BY Views DEF MetricsInv, ExactSoFar, WrittenSoFar, Results, Refreshing
<1> QED
  BY <1>1 DEF MetricsInv, TablesTyped, ScrapeTyped, GaugeTyped, Throttle,
              OverlapNeedsSlowRefresh, AloneIsAlone, Refreshing

\* Before the first scrape there is nothing to be wrong.
LEMMA MetricsBegin == Init => MetricsInv
<1> SUFFICES ASSUME Init PROVE MetricsInv
  OBVIOUS
<1>1. TablesTyped
  <2>1. PICK rows \in InitialRows : kit = rows.kit /\ request = rows.request
    BY DEF Init, TablesInit
  <2>2. rows \in [kit : [Equipment -> {"unborn", "here"}], request : [Requests -> Request]]
    BY ReportAssumption
  <2> QED
    BY <2>1, <2>2 DEF TablesTyped, Init, TablesInit
<1>2. /\ gauge = [total |-> <<>>, overdue |-> 0, mttr |-> {}, kit |-> 0, load |-> <<>>]
      /\ age = Interval /\ scrape = [p \in Scrapes |-> IdleScrape] /\ changes = 0
  BY DEF Init, MetricsInit, TablesInit
<1>3. /\ IdleScrape.step = 0 /\ IdleScrape.since = 0 /\ IdleScrape.from = 0
      /\ IdleScrape.alone = TRUE
      /\ IdleScrape = [step |-> IdleScrape.step, got |-> IdleScrape.got,
                       active |-> IdleScrape.active, since |-> IdleScrape.since,
                       from |-> IdleScrape.from, alone |-> IdleScrape.alone]
  BY DEF IdleScrape
<1>4. IdleScrape.alone \in BOOLEAN
  BY <1>3
<1>5. ScrapeTyped
  BY <1>2, <1>3, <1>4, MetricsAssumption DEF ScrapeTyped
<1>6. GaugeTyped
  BY <1>2 DEF GaugeTyped
<1>7. \A p \in Scrapes : ~ Refreshing(p)
  BY <1>2, <1>3 DEF Refreshing
<1> QED
  BY <1>1, <1>5, <1>6, <1>7
     DEF MetricsInv, Throttle, OverlapNeedsSlowRefresh, AloneIsAlone, ExactSoFar

\* Every step keeps the invariant of the metrics,
LEMMA MetricsStepKeeps == MetricsInv /\ [Next]_vars => MetricsInv'
<1> SUFFICES ASSUME MetricsInv, [Next]_vars PROVE MetricsInv'
  OBVIOUS
<1>1. CASE Change /\ UNCHANGED <<gauge, age, scrape, summary>>
  BY <1>1, ChangeKeeps
<1>2. CASE UNCHANGED <<kit, request, changes, summary>> /\ MetricsStep
  BY <1>2, StartKeeps, QueryKeeps, WriteKeeps, FailureKeeps, TickKeeps DEF MetricsStep
<1>3. CASE UNCHANGED <<kit, request, changes, gauge, age, scrape>>
  BY <1>3, OthersKeep
<1> QED
  BY <1>1, <1>2, <1>3, StepsAre

\* which therefore always holds.
LEMMA MetricsAlways == Spec => []MetricsInv
<1> QED
  BY MetricsBegin, MetricsStepKeeps, PTL DEF Spec

\* However long PostgreSQL takes, two refreshes overlap only when one of them is a
\* whole interval old: the time is taken before the first await.
THEOREM OverlapIsSlow == Spec => []OverlapNeedsSlowRefresh
<1>1. MetricsInv => OverlapNeedsSlowRefresh
  BY DEF MetricsInv
<1> QED
  BY <1>1, MetricsAlways, PTL

\* Every request there is belongs to a piece of equipment that is there: its foreign key.
Attached == \A r \in In(Statuses) : request[r].equipment \in Here

\* A change of the tables detaches no request: a piece of equipment that has one stays.
LEMMA ChangeAttaches ==
  ASSUME TablesTyped, Attached, Change
  PROVE  Attached'
<1> USE DEF TablesTyped, Attached, In, Here
<1>1. ASSUME NEW r \in Requests, NEW row, Put(r, row),
             row.status \in Statuses => row.equipment \in Here
      PROVE  Attached'
  <2>1. kit' = kit /\ request' = [request EXCEPT ![r] = row]
    BY <1>1 DEF Put
  <2>2. \A q \in Requests : request'[q] = IF q = r THEN row ELSE request[q]
    BY <2>1
  <2> QED
    BY <1>1, <2>1, <2>2
<1>2. ASSUME NEW r \in Requests, NEW e \in Equipment, NEW late \in BOOLEAN,
             CreateRequest(r, e, late)
      PROVE  Attached'
  BY <1>1, <1>2 DEF CreateRequest
<1>3. ASSUME NEW r \in Requests, NEW s \in Statuses, ChangeStatus(r, s)
      PROVE  Attached'
  <2>1. [request[r] EXCEPT !.status = s].equipment = request[r].equipment
    BY DEF Request
  <2> QED
    BY <1>1, <1>3, <2>1 DEF ChangeStatus
<1>4. ASSUME NEW r \in Requests, ChangeLate(r)
      PROVE  Attached'
  <2>1. [request[r] EXCEPT !.late = ~ @].equipment = request[r].equipment
    BY DEF Request
  <2> QED
    BY <1>1, <1>4, <2>1 DEF ChangeLate
<1>5. ASSUME NEW r \in Requests, DeleteRequest(r)
      PROVE  Attached'
  <2>1. [NoRequest EXCEPT !.status = "gone"].status \notin Statuses
    BY DEF NoRequest, Statuses
  <2> QED
    BY <1>1, <1>5, <2>1 DEF DeleteRequest
<1>6. ASSUME NEW r \in Requests, NEW crew \in Crews, SetCrew(r, crew)
      PROVE  Attached'
  <2>1. [request[r] EXCEPT !.crew = crew].equipment = request[r].equipment
    BY DEF Request
  <2> QED
    BY <1>1, <1>6, <2>1 DEF SetCrew
<1>7. ASSUME NEW e \in Equipment, CreateEquipment(e)
      PROVE  Attached'
  BY <1>7 DEF CreateEquipment
<1>8. ASSUME NEW e \in Equipment, DeleteEquipment(e)
      PROVE  Attached'
  <2>1. \A r \in In(Statuses) : request[r].equipment # e
    BY <1>8 DEF DeleteEquipment, Of
  <2> QED
    BY <1>8, <2>1 DEF DeleteEquipment
<1> QED
  BY <1>2, <1>3, <1>4, <1>5, <1>6, <1>7, <1>8 DEF Change

\* So it always holds, beside the invariant of the metrics.
LEMMA AttachedAlways == Spec => [](MetricsInv /\ Attached)
<1>1. Init => Attached
  BY DEF Init, TablesInit, Attached
<1>2. MetricsInv /\ Attached /\ [Next]_vars => Attached'
  <2> SUFFICES ASSUME MetricsInv, Attached, [Next]_vars PROVE Attached'
    OBVIOUS
  <2>1. CASE Change
    BY <2>1, ChangeAttaches DEF MetricsInv
  <2>2. CASE UNCHANGED <<kit, request>>
    BY <2>2 DEF Attached, In, Here
  <2> QED
    BY <2>1, <2>2, StepsAre
<1> QED
  BY <1>1, <1>2, MetricsAlways, PTL DEF Spec

\* If labels are unique, the rows of the last two queries show the load of each piece of
\* equipment: none takes the place of another.
LEMMA LabelsTell ==
  ASSUME UniqueLabels, Attached,
         NEW rows \in Labels(CountBy(EquipmentOf, In(Active)), Here)
  PROVE  /\ DOMAIN rows = {LabelOf[e] : e \in Loaded}
         /\ \A e \in Loaded : rows[LabelOf[e]] = Cardinality(Of(e, Active))
<1> DEFINE active  == CountBy(EquipmentOf, In(Active))
           Name(e) == IF e \in Here THEN LabelOf[e] ELSE e
           names   == {Name(e) : e \in DOMAIN active}
<1>1. \A r \in In(Active) : EquipmentOf[r] = request[r].equipment /\ request[r].equipment \in Here
  BY DEF EquipmentOf, In, Attached, Active, Statuses
<1>2. DOMAIN active = {EquipmentOf[r] : r \in In(Active)}
  BY DEF CountBy
<1>3. DOMAIN active = Loaded
  <2>1. \A e \in Loaded : \E r \in In(Active) : EquipmentOf[r] = e
    BY <1>1 DEF Loaded, Of
  <2>2. \A r \in In(Active) : EquipmentOf[r] \in Loaded
    BY <1>1 DEF Loaded, Of
  <2> HIDE DEF active
  <2> QED
    BY <1>2, <2>1, <2>2
<1>4. \A e \in Loaded : active[e] = Cardinality(Of(e, Active))
  <2>1. \A e \in Loaded : Of(e, Active) = {r \in In(Active) : EquipmentOf[r] = e}
    BY <1>1 DEF Of
  <2>2. \A e \in DOMAIN active : active[e] = Cardinality({r \in In(Active) : EquipmentOf[r] = e})
    BY <1>2 DEF CountBy
  <2> HIDE DEF active
  <2> QED
    BY <1>3, <2>1, <2>2
<1>5. PICK last \in [names -> DOMAIN active] :
        /\ \A l \in names : Name(last[l]) = l
        /\ rows = [l \in names |-> active[last[l]]]
  BY DEF Labels
<1> HIDE DEF active
<1>6. \A e \in Loaded : e \in Here /\ e \in Equipment
  BY DEF Loaded, Here
<1>7. names = {LabelOf[e] : e \in Loaded}
  BY <1>3, <1>6
<1>8. ASSUME NEW e \in Loaded PROVE last[LabelOf[e]] = e
  <2>1. LabelOf[e] \in names
    BY <1>7
  <2>2. last[LabelOf[e]] \in Loaded
    BY <1>3, <1>5, <2>1
  <2>3. LabelOf[last[LabelOf[e]]] = LabelOf[e]
    BY <1>5, <1>6, <2>1, <2>2
  <2> QED
    BY <1>6, <2>2, <2>3 DEF UniqueLabels
<1> HIDE DEF names, Name
<1> QED
  BY <1>4, <1>5, <1>7, <1>8

\* The last write of a refresh that nothing came into leaves exact gauges.
LEMMA LastWrite ==
  ASSUME UniqueLabels, MetricsInv, Attached, NEW p \in Scrapes, QuietRefresh(p)
  PROVE  GaugesAgree'
<1> USE DEF QuietRefresh
<1> DEFINE s == scrape[p]
           k == AfterWrite(s)
<1>1. /\ UNCHANGED <<kit, request, changes, age>>
      /\ s.step \in 1..6 /\ s.got # Null
      /\ scrape' = [scrape EXCEPT ![p] = k]
  BY WriteMoves
<1>2. scrape'[p] = k
  BY <1>1 DEF MetricsInv, ScrapeTyped
<1>3. s.step = 6
  <2>1. s.step < 6 => k.step = s.step + 1
    BY <1>1, AfterWriteIs
  <2> HIDE DEF k
  <2> QED
    BY <1>1, <1>2, <2>1
<1>4. WrittenSoFar(p)
  BY <1>3 DEF MetricsInv, ExactSoFar, Refreshing
<1>5. /\ gauge.total = CountBy(StatusOf, In(Statuses)) /\ gauge.overdue = Cardinality(Late)
      /\ gauge.mttr \in AnyOf(In({"done"}), MttrLimit) /\ gauge.kit = Cardinality(Here)
      /\ s.active = CountBy(EquipmentOf, In(Active))
      /\ s.got \in Results("equipments")
  BY <1>1, <1>3, <1>4, StepsOne DEF WrittenSoFar
<1>6. s.got = Here
  BY <1>5 DEF Results
<1>7. PICK rows \in Labels(CountBy(EquipmentOf, In(Active)), Here) :
             gauge' = [gauge EXCEPT !.load = rows]
  BY <1>3, <1>5, <1>6, WriteMoves
<1>8. /\ gauge'.total = gauge.total /\ gauge'.overdue = gauge.overdue
      /\ gauge'.mttr = gauge.mttr /\ gauge'.kit = gauge.kit /\ gauge'.load = rows
  BY <1>7 DEF MetricsInv, GaugeTyped
<1>9. /\ CountBy(StatusOf, In(Statuses))' = CountBy(StatusOf, In(Statuses))
      /\ AnyOf(In({"done"}), MttrLimit)' = AnyOf(In({"done"}), MttrLimit)
      /\ Late' = Late
      /\ Here' = Here
  BY <1>1, Views
<1>10. LoadShown'
  <2>1. Loaded' = Loaded /\ \A e : Of(e, Active)' = Of(e, Active)
    BY <1>1, <1>9 DEF Loaded, Of, In
  <2>2. /\ DOMAIN rows = {LabelOf[e] : e \in Loaded}
        /\ \A e \in Loaded : rows[LabelOf[e]] = Cardinality(Of(e, Active))
    BY LabelsTell
  <2> QED
    BY <1>8, <2>1, <2>2 DEF LoadShown
<1> QED
  BY <1>5, <1>8, <1>9, <1>10 DEF GaugesAgree

\* For any tables and any limit: a refresh that no change and no other refresh came into
\* leaves gauges that say what the tables say, nothing of an older one included, and of
\* every piece of equipment its own load.  Names and types must tell the equipment apart:
\* the code lets two pieces share them, and then one takes the place of the other.
THEOREM RefreshLeavesTruth ==
  ASSUME UniqueLabels
  PROVE  Spec => RefreshIsExact
<1>1. MetricsInv /\ Attached /\ [Next]_vars =>
        [\A p \in Scrapes : QuietRefresh(p) => GaugesAgree']_vars
  BY LastWrite
<1> QED
  BY <1>1, AttachedAlways, PTL DEF Spec, RefreshIsExact
-----------------------------------------------------------------------------
\* Sums over finite sets

\* A set of numbers that has 0 and the successor of each of its own has them all:
\* induction, stated of a set, so that the provers can use it.
LEMMA SetInduction ==
  ASSUME NEW Good, 0 \in Good, \A n \in Nat : n \in Good => n + 1 \in Good
  PROVE  \A n \in Nat : n \in Good
<1> DEFINE Bad == Nat \ Good
<1> SUFFICES ASSUME Bad # {} PROVE FALSE
  OBVIOUS
<1>1. PICK n \in Bad : \A m \in Bad : <<m, n>> \notin OpToRel(<, Nat)
  <2> HIDE DEF Bad
  <2> QED
    BY NatLessThanWellFounded, WFMin DEF Bad
<1>2. n \in Nat /\ n # 0 /\ n - 1 \in Nat /\ n - 1 < n /\ (n - 1) + 1 = n
  OBVIOUS
<1>3. n - 1 \in Good
  BY <1>1, <1>2 DEF OpToRel
<1> QED
  BY <1>2, <1>3

\* What can be added to, element by element, comes to be every finite set.
LEMMA FiniteInduction ==
  ASSUME NEW S, IsFiniteSet(S), NEW Good, {} \in Good,
         \A T \in SUBSET S : \A x \in S \ T : T \in Good => T \cup {x} \in Good
  PROVE  S \in Good
<1> DEFINE Sizes == {n \in Nat : \A T \in SUBSET S : Cardinality(T) = n => T \in Good}
<1>1. \A T \in SUBSET S : IsFiniteSet(T) /\ Cardinality(T) \in Nat
  BY FS_Subset, FS_CardinalityType
<1>2. 0 \in Sizes
  BY <1>1, FS_EmptySet
<1>3. ASSUME NEW n \in Nat, n \in Sizes PROVE n + 1 \in Sizes
  <2> SUFFICES ASSUME NEW T \in SUBSET S, Cardinality(T) = n + 1 PROVE T \in Good
    OBVIOUS
  <2>1. PICK x \in T : TRUE
    BY FS_EmptySet
  <2>2. Cardinality(T \ {x}) = n
    <3>1. IsFiniteSet(T) /\ x \in T
      BY <1>1, <2>1
    <3>2. Cardinality(T \ {x}) = Cardinality(T) - 1
      BY <3>1, FS_RemoveElement, Zenon
    <3> QED
      BY <3>2
  <2>3. T \ {x} \in Good /\ (T \ {x}) \cup {x} = T
    BY <1>3, <2>1, <2>2
  <2> HIDE DEF Sizes
  <2> QED
    BY <2>1, <2>3
<1> HIDE DEF Sizes
<1>4. \A n \in Nat : n \in Sizes
  BY <1>2, <1>3, SetInduction
<1> QED
  BY <1>1, <1>4 DEF Sizes

\* The sum of a function over a set, and the body of the recursion that adds it up.
SumOf(g, S) == MapThenSumSet(LAMBDA x : g[x], S)

Picked(s) == CHOOSE x \in s : TRUE

Added(h, g, s) == IF s = {} THEN 0 ELSE g[Picked(s)] + h[s \ {Picked(s)}]

Sums(h, g, S) == h = [s \in SUBSET S |-> Added(h, g, s)]

\* SumOf, with its recursion laid open.
LEMMA SumIs ==
  ASSUME NEW g, NEW S
  PROVE  SumOf(g, S) = (CHOOSE h : Sums(h, g, S))[S]
BY DEF SumOf, MapThenSumSet, MapThenFoldSet, Added, Picked, Sums

\* Taking the picked element away leaves a smaller part.
LEMMA PickedIs ==
  ASSUME NEW S, IsFiniteSet(S), NEW s \in SUBSET S, s # {}
  PROVE  /\ Picked(s) \in s /\ s \ {Picked(s)} \in SUBSET S
         /\ IsFiniteSet(s) /\ Cardinality(s) \in Nat \ {0}
         /\ Cardinality(s \ {Picked(s)}) = Cardinality(s) - 1
<1>1. Picked(s) \in s
  BY DEF Picked
<1>2. IsFiniteSet(s) /\ Cardinality(s) \in Nat \ {0}
  BY FS_Subset, FS_CardinalityType, FS_EmptySet
<1> HIDE DEF Picked
<1> QED
  BY <1>1, <1>2, FS_RemoveElement

\* The recursion has a solution,
LEMMA SumExists ==
  ASSUME NEW g, NEW S, IsFiniteSet(S)
  PROVE  \E h : Sums(h, g, S)
<1> DEFINE Upto(n) == {s \in SUBSET S : Cardinality(s) <= n}
           Good == {n \in Nat : \E h : h = [s \in Upto(n) |-> Added(h, g, s)]}
<1>1. \A s \in SUBSET S : IsFiniteSet(s) /\ Cardinality(s) \in Nat /\ Cardinality(s) <= Cardinality(S)
  BY FS_Subset, FS_CardinalityType
<1>2. 0 \in Good
  <2> DEFINE h == [s \in Upto(0) |-> 0]
  <2>1. \A s \in Upto(0) : s = {}
    BY <1>1, FS_EmptySet
  <2>2. h = [s \in Upto(0) |-> Added(h, g, s)]
    BY <2>1 DEF Added
  <2> HIDE DEF h
  <2> QED
    BY <2>2
<1>3. ASSUME NEW n \in Nat, n \in Good PROVE n + 1 \in Good
  <2>1. PICK h : h = [s \in Upto(n) |-> Added(h, g, s)]
    BY <1>3
  <2> DEFINE k == [s \in Upto(n + 1) |-> Added(h, g, s)]
  <2>2. ASSUME NEW s \in Upto(n) PROVE s \in Upto(n + 1) /\ k[s] = h[s]
    <3>1. s \in Upto(n + 1)
      BY <1>1
    <3> HIDE DEF Upto
    <3> QED
      BY <2>1, <3>1
  <2>3. ASSUME NEW s \in Upto(n + 1) PROVE Added(h, g, s) = Added(k, g, s)
    <3>1. s # {} => s \ {Picked(s)} \in Upto(n)
      BY PickedIs
    <3> HIDE DEF k, Upto
    <3> QED
      BY <2>2, <3>1 DEF Added
  <2>4. k = [s \in Upto(n + 1) |-> Added(k, g, s)]
    BY <2>3
  <2> HIDE DEF k, Upto
  <2> QED
    BY <2>4
<1> HIDE DEF Good
<1>4. Cardinality(S) \in Good
  BY <1>1, <1>2, <1>3, SetInduction
<1>5. Upto(Cardinality(S)) = SUBSET S
  BY <1>1
<1> QED
  BY <1>4, <1>5 DEF Good, Sums

\* and no more than one, on each part of the set:
LEMMA SumUnique ==
  ASSUME NEW g, NEW S, IsFiniteSet(S), NEW T \in SUBSET S,
         NEW h, Sums(h, g, S), NEW k, Sums(k, g, T)
  PROVE  h[T] = k[T]
<1> DEFINE Same(n) == \A s \in SUBSET T : Cardinality(s) = n => h[s] = k[s]
           Good    == {n \in Nat : Same(n)}
<1>1. IsFiniteSet(T) /\ Cardinality(T) \in Nat
  BY FS_Subset, FS_CardinalityType
<1>2. ASSUME NEW s \in SUBSET T
      PROVE  h[s] = Added(h, g, s) /\ k[s] = Added(k, g, s)
  BY <1>2 DEF Sums
<1>3. Same(0)
  <2>1. \A s \in SUBSET T : Cardinality(s) = 0 => s = {}
    BY <1>1, FS_Subset, FS_EmptySet
  <2> QED
    BY <1>2, <2>1 DEF Added
<1>4. ASSUME NEW n \in Nat, Same(n) PROVE Same(n + 1)
  <2> SUFFICES ASSUME NEW s \in SUBSET T, Cardinality(s) = n + 1 PROVE h[s] = k[s]
    BY Zenon
  <2>1. n + 1 # 0 /\ (n + 1) - 1 = n
    BY <1>4
  <2>2. s # {}
    BY <2>1, FS_EmptySet, Zenon
  <2>3. s \ {Picked(s)} \in SUBSET T /\ Cardinality(s \ {Picked(s)}) = n
    BY <1>1, <2>1, <2>2, PickedIs
  <2>4. h[s \ {Picked(s)}] = k[s \ {Picked(s)}]
    BY <1>4, <2>3
  <2> QED
    BY <1>2, <2>2, <2>4 DEF Added
<1> HIDE DEF Same
<1>5. \A n \in Nat : n \in Good => n + 1 \in Good
  BY <1>4
<1>6. 0 \in Good
  BY <1>3
<1> HIDE DEF Good
<1>7. Cardinality(T) \in Good
  BY <1>1, <1>5, <1>6, SetInduction
<1> QED
  BY <1>7, Zenon DEF Good, Same

\* so that the sum of a set is what the recursion says of it.
LEMMA SumRecursion ==
  ASSUME NEW g, NEW S, IsFiniteSet(S)
  PROVE  /\ S = {} => SumOf(g, S) = 0
         /\ S # {} => /\ Picked(S) \in S
                      /\ SumOf(g, S) = g[Picked(S)] + SumOf(g, S \ {Picked(S)})
<1> DEFINE Sol(T) == CHOOSE h : Sums(h, g, T)
<1>1. ASSUME NEW T, IsFiniteSet(T) PROVE Sums(Sol(T), g, T) /\ SumOf(g, T) = Sol(T)[T]
  <2>1. \E h : Sums(h, g, T)
    BY <1>1, SumExists
  <2> QED
    BY <2>1, SumIs, Zenon
<1> HIDE DEF Sol
<1>2. Sol(S)[S] = Added(Sol(S), g, S)
  BY <1>1 DEF Sums
<1>3. S # {} => /\ Picked(S) \in S /\ S \ {Picked(S)} \in SUBSET S
                /\ IsFiniteSet(S \ {Picked(S)})
  BY PickedIs, FS_RemoveElement
<1>4. S # {} => Sol(S)[S \ {Picked(S)}] = SumOf(g, S \ {Picked(S)})
  <2> DEFINE U == S \ {Picked(S)}
  <2> HIDE DEF U
  <2>1. ASSUME U \in SUBSET S, IsFiniteSet(U) PROVE Sol(S)[U] = SumOf(g, U)
    <3>1. /\ Sums(Sol(S), g, S) /\ Sums(Sol(U), g, U) /\ SumOf(g, U) = Sol(U)[U]
      BY <1>1, <2>1
    <3> QED
      BY <2>1, <3>1, SumUnique
  <2> QED
    BY <1>3, <2>1 DEF U
<1> QED
  BY <1>1, <1>2, <1>3, <1>4 DEF Added

\* Whatever is picked first: any element can be taken out of a sum.
LEMMA SumTakes ==
  ASSUME NEW g, NEW S, IsFiniteSet(S), \A x \in S : g[x] \in Nat
  PROVE  /\ SumOf(g, S) \in Nat
         /\ \A x \in S : SumOf(g, S) = g[x] + SumOf(g, S \ {x})
<1> DEFINE Holds(T) == /\ SumOf(g, T) \in Nat
                       /\ \A x \in T : SumOf(g, T) = g[x] + SumOf(g, T \ {x})
           Good == {n \in Nat : \A T \in SUBSET S : Cardinality(T) <= n => Holds(T)}
<1>1. \A T \in SUBSET S : IsFiniteSet(T) /\ Cardinality(T) \in Nat
  BY FS_Subset, FS_CardinalityType
<1>2. Holds({})
  <2>1. SumOf(g, {}) = 0
    BY SumRecursion, FS_EmptySet, Zenon
  <2>2. SumOf(g, {}) \in Nat
    BY <2>1
  <2> QED
    BY <2>2
<1>3. 0 \in Good
  <2>1. \A T \in SUBSET S : Cardinality(T) <= 0 => T = {}
    BY <1>1, FS_EmptySet
  <2> HIDE DEF Holds
  <2> QED
    BY <1>2, <2>1
<1>4. ASSUME NEW n \in Nat, n \in Good PROVE n + 1 \in Good
  <2> SUFFICES ASSUME NEW T \in SUBSET S, Cardinality(T) <= n + 1, T # {} PROVE Holds(T)
    BY <1>2
  <2> DEFINE c == Picked(T)
             U == T \ {c}
  <2>1. c \in T /\ SumOf(g, T) = g[c] + SumOf(g, U)
    BY <1>1, SumRecursion
  <2> HIDE DEF c
  <2>2. ASSUME NEW x \in T PROVE Holds(T \ {x})
    <3>1. T \ {x} \in SUBSET S /\ Cardinality(T \ {x}) = Cardinality(T) - 1
      BY <1>1, FS_RemoveElement
    <3>2. Cardinality(T \ {x}) <= n
      BY <1>1, <3>1
    <3> HIDE DEF Holds
    <3> QED
      BY <1>4, <3>1, <3>2
  <2>3. SumOf(g, T) \in Nat
    BY <2>1, <2>2
  <2>4. ASSUME NEW x \in T, x # c PROVE SumOf(g, T) = g[x] + SumOf(g, T \ {x})
    <3> DEFINE V == T \ {x}
               W == U \ {x}
    <3>1. W = V \ {c} /\ x \in U /\ c \in V
      BY <2>1, <2>4
    <3>2. SumOf(g, U) = g[x] + SumOf(g, W)
      BY <2>1, <2>2, <3>1
    <3>3. SumOf(g, V) = g[c] + SumOf(g, W)
      BY <2>2, <3>1
    <3>4. SumOf(g, W) \in Nat
      <4>1. W \in SUBSET S /\ Cardinality(W) <= Cardinality(U) /\ Cardinality(U) \in Nat
        BY <1>1, FS_Subset
      <4>2. Cardinality(U) <= n
        <5>1. Cardinality(U) = Cardinality(T) - 1
          BY <1>1, <2>1, FS_RemoveElement
        <5> QED
          BY <1>1, <5>1
      <4>3. Cardinality(W) <= n
        BY <1>1, <4>1, <4>2
      <4> HIDE DEF W
      <4> QED
        BY <1>4, <4>1, <4>3
    <3>5. g[x] \in Nat /\ g[c] \in Nat
      BY <2>1
    <3> HIDE DEF U, V, W
    <3>6. SumOf(g, T) = g[x] + SumOf(g, V)
      BY <2>1, <3>2, <3>3, <3>4, <3>5
    <3> QED
      BY <3>6 DEF V
  <2> QED
    BY <2>1, <2>3, <2>4
<1> HIDE DEF Good
<1>5. Cardinality(S) \in Good
  BY <1>1, <1>3, <1>4, SetInduction
<1> QED
  BY <1>1, <1>5 DEF Good

\* The two facts that determine a sum.
LEMMA SumEmpty == ASSUME NEW g PROVE SumOf(g, {}) = 0
  BY SumRecursion, FS_EmptySet

\* An element more adds its value.
LEMMA SumPlus ==
  ASSUME NEW g, NEW S, IsFiniteSet(S), \A y \in S : g[y] \in Nat, NEW x, x \notin S, g[x] \in Nat
  PROVE  /\ SumOf(g, S) \in Nat /\ SumOf(g, S \cup {x}) \in Nat
         /\ SumOf(g, S \cup {x}) = g[x] + SumOf(g, S)
<1> DEFINE T == S \cup {x}
<1>1. IsFiniteSet(T) /\ x \in T /\ T \ {x} = S /\ \A y \in T : g[y] \in Nat
  BY FS_AddElement
<1> HIDE DEF T
<1>2. SumOf(g, T) \in Nat /\ SumOf(g, T) = g[x] + SumOf(g, S)
  BY <1>1, SumTakes
<1>3. SumOf(g, S) \in Nat
  BY SumTakes
<1> QED
  BY <1>2, <1>3 DEF T

\* Only the values on the set matter.
LEMMA SumSame ==
  ASSUME NEW g, NEW k, NEW S, IsFiniteSet(S), \A x \in S : g[x] \in Nat /\ k[x] = g[x]
  PROVE  SumOf(k, S) = SumOf(g, S)
<1> DEFINE Good == {T \in SUBSET S : SumOf(k, T) = SumOf(g, T)}
<1>1. {} \in Good
  BY SumEmpty
<1>2. ASSUME NEW T \in SUBSET S, NEW x \in S \ T, T \in Good PROVE T \cup {x} \in Good
  <2>1. IsFiniteSet(T)
    BY FS_Subset
  <2>2. SumOf(g, T \cup {x}) = g[x] + SumOf(g, T)
    BY <2>1, SumPlus
  <2>3. SumOf(k, T \cup {x}) = k[x] + SumOf(k, T)
    BY <2>1, SumPlus
  <2> QED
    BY <1>2, <2>2, <2>3
<1> HIDE DEF Good
<1>3. S \in Good
  BY <1>1, <1>2, FiniteInduction
<1> QED
  BY <1>3 DEF Good

\* The sum of sums.
LEMMA SumDistributes ==
  ASSUME NEW a, NEW b, NEW d, NEW S, IsFiniteSet(S),
         \A x \in S : a[x] \in Nat /\ b[x] \in Nat /\ d[x] = a[x] + b[x]
  PROVE  SumOf(d, S) = SumOf(a, S) + SumOf(b, S)
<1> DEFINE Good == {T \in SUBSET S : SumOf(d, T) = SumOf(a, T) + SumOf(b, T)}
<1>1. {} \in Good
  BY SumEmpty
<1>2. ASSUME NEW T \in SUBSET S, NEW x \in S \ T, T \in Good PROVE T \cup {x} \in Good
  <2>1. IsFiniteSet(T) /\ \A y \in T \cup {x} : d[y] \in Nat
    BY FS_Subset
  <2>2. SumOf(a, T \cup {x}) = a[x] + SumOf(a, T) /\ SumOf(a, T) \in Nat
    BY <2>1, SumPlus
  <2>3. SumOf(b, T \cup {x}) = b[x] + SumOf(b, T) /\ SumOf(b, T) \in Nat
    BY <2>1, SumPlus
  <2>4. SumOf(d, T \cup {x}) = d[x] + SumOf(d, T)
    BY <2>1, SumPlus
  <2> QED
    BY <1>2, <2>2, <2>3, <2>4
<1> HIDE DEF Good
<1>3. S \in Good
  BY <1>1, <1>2, FiniteInduction
<1> QED
  BY <1>3 DEF Good

\* Nothing but zeros.
LEMMA SumOfZeros ==
  ASSUME NEW g, NEW S, IsFiniteSet(S), \A x \in S : g[x] = 0
  PROVE  SumOf(g, S) = 0
<1>1. SumOf(g, S) = SumOf(g, S) + SumOf(g, S) /\ SumOf(g, S) \in Nat
  BY SumDistributes, SumTakes
<1> DEFINE sum == SumOf(g, S)
<1> HIDE DEF sum
<1>2. sum = sum + sum /\ sum \in Nat
  BY <1>1 DEF sum
<1>3. sum = 0
  BY <1>2
<1> QED
  BY <1>3 DEF sum

\* The sum over two sets that share nothing.
LEMMA SumUnion ==
  ASSUME NEW g, NEW S, NEW T, IsFiniteSet(S), IsFiniteSet(T), S \cap T = {},
         \A x \in S \cup T : g[x] \in Nat
  PROVE  SumOf(g, S \cup T) = SumOf(g, S) + SumOf(g, T)
<1> DEFINE Good == {U \in SUBSET T : SumOf(g, S \cup U) = SumOf(g, S) + SumOf(g, U)}
<1>1. {} \in Good
  <2>1. S \cup {} = S /\ SumOf(g, S) \in Nat
    BY SumTakes
  <2> QED
    BY <2>1, SumEmpty
<1>2. ASSUME NEW U \in SUBSET T, NEW x \in T \ U, U \in Good PROVE U \cup {x} \in Good
  <2>1. IsFiniteSet(U) /\ IsFiniteSet(S \cup U) /\ x \notin S \cup U
    BY FS_Subset, FS_Union
  <2>2. SumOf(g, U \cup {x}) = g[x] + SumOf(g, U) /\ SumOf(g, U) \in Nat
    BY <2>1, SumPlus
  <2>3. SumOf(g, (S \cup U) \cup {x}) = g[x] + SumOf(g, S \cup U)
    BY <2>1, SumPlus
  <2>4. SumOf(g, S) \in Nat /\ g[x] \in Nat
    BY SumTakes
  <2>5. SumOf(g, S \cup U) = SumOf(g, S) + SumOf(g, U)
    BY <1>2
  <2>6. SumOf(g, (S \cup U) \cup {x}) = SumOf(g, S) + SumOf(g, U \cup {x})
    BY <2>2, <2>3, <2>4, <2>5
  <2>7. (S \cup U) \cup {x} = S \cup (U \cup {x}) /\ U \cup {x} \in SUBSET T
    OBVIOUS
  <2> QED
    BY <2>6, <2>7, Zenon
<1> HIDE DEF Good
<1>3. T \in Good
  BY <1>1, <1>2, FiniteInduction
<1> QED
  BY <1>3 DEF Good

\* Counting is summing ones.
LEMMA SumOfOnes ==
  ASSUME NEW g, NEW S, IsFiniteSet(S), \A x \in S : g[x] = 1
  PROVE  SumOf(g, S) = Cardinality(S)
<1> DEFINE Good == {T \in SUBSET S : SumOf(g, T) = Cardinality(T)}
<1>1. {} \in Good
  BY SumEmpty, FS_EmptySet
<1>2. ASSUME NEW T \in SUBSET S, NEW x \in S \ T, T \in Good PROVE T \cup {x} \in Good
  <2>1. IsFiniteSet(T) /\ Cardinality(T) \in Nat
    BY FS_Subset, FS_CardinalityType
  <2>2. SumOf(g, T \cup {x}) = g[x] + SumOf(g, T)
    BY <2>1, SumPlus
  <2>3. Cardinality(T \cup {x}) = Cardinality(T) + 1
    BY <2>1, FS_AddElement
  <2> QED
    BY <1>2, <2>1, <2>2, <2>3
<1> HIDE DEF Good
<1>3. S \in Good
  BY <1>1, <1>2, FiniteInduction
<1> QED
  BY <1>3 DEF Good

\* The rows of a group, of groups together, and those that have an element.
GroupOf(R, key, e)  == {r \in R : key[r] = e}
GroupsOf(R, key, K) == {r \in R : key[r] \in K}
Having(R, crew, t)  == {r \in R : t \in crew[r]}

\* Grouping: the sums of the groups add up to the sum of what is grouped.
LEMMA SumOfGroups ==
  ASSUME NEW g, NEW R, IsFiniteSet(R), \A r \in R : g[r] \in Nat,
         NEW key, NEW K, IsFiniteSet(K),
         NEW d, \A e \in K : d[e] = SumOf(g, GroupOf(R, key, e))
  PROVE  SumOf(d, K) = SumOf(g, GroupsOf(R, key, K))
<1> DEFINE Group(e)  == GroupOf(R, key, e)
           Groups(U) == GroupsOf(R, key, U)
           Good == {U \in SUBSET K : SumOf(d, U) = SumOf(g, Groups(U))}
<1>1. \A S \in SUBSET R : IsFiniteSet(S) /\ SumOf(g, S) \in Nat
  BY FS_Subset, SumTakes
<1>2. {} \in Good
  <2>1. Groups({}) = {}
    BY DEF GroupsOf
  <2> HIDE DEF Groups
  <2> QED
    BY <2>1, SumEmpty
<1>3. ASSUME NEW U \in SUBSET K, NEW x \in K \ U, U \in Good PROVE U \cup {x} \in Good
  <2>1. /\ Groups(U) \in SUBSET R /\ Group(x) \in SUBSET R
        /\ Groups(U) \cap Group(x) = {} /\ Groups(U \cup {x}) = Groups(U) \cup Group(x)
    BY DEF GroupOf, GroupsOf
  <2>2. IsFiniteSet(U) /\ \A e \in K : d[e] = SumOf(g, Group(e)) /\ d[e] \in Nat
    <3>1. \A e \in K : Group(e) \in SUBSET R
      BY DEF GroupOf
    <3> QED
      BY <1>1, <3>1, FS_Subset
  <2>3. SumOf(d, U \cup {x}) = d[x] + SumOf(d, U)
    BY <2>2, SumPlus
  <2>4. SumOf(d, U) = SumOf(g, Groups(U))
    BY <1>3
  <2> HIDE DEF Groups, Group
  <2>5. SumOf(g, Groups(U) \cup Group(x)) = SumOf(g, Groups(U)) + SumOf(g, Group(x))
    BY <1>1, <2>1, SumUnion
  <2>6. d[x] = SumOf(g, Group(x)) /\ d[x] \in Nat /\ SumOf(g, Groups(U)) \in Nat
    BY <1>1, <2>1, <2>2
  <2>7. SumOf(d, U \cup {x}) = SumOf(g, Groups(U) \cup Group(x))
    BY <2>3, <2>4, <2>5, <2>6
  <2>8. SumOf(d, U \cup {x}) = SumOf(g, Groups(U \cup {x}))
    BY <2>1, <2>7, Zenon
  <2> QED
    BY <2>8
<1> HIDE DEF Good
<1>4. K \in Good
  BY <1>2, <1>3, FiniteInduction
<1> QED
  BY <1>4 DEF Good

\* The same of counting.
LEMMA CountOfGroups ==
  ASSUME NEW R, IsFiniteSet(R), NEW key, NEW K, IsFiniteSet(K),
         NEW d, \A e \in K : d[e] = Cardinality(GroupOf(R, key, e))
  PROVE  SumOf(d, K) = Cardinality(GroupsOf(R, key, K))
<1> DEFINE one == [r \in R |-> 1]
<1>1. \A S \in SUBSET R : SumOf(one, S) = Cardinality(S)
  <2> TAKE S \in SUBSET R
  <2>1. IsFiniteSet(S) /\ \A x \in S : one[x] = 1
    BY FS_Subset
  <2> HIDE DEF one
  <2> QED
    BY <2>1, SumOfOnes
<1>2. \A r \in R : one[r] \in Nat
  OBVIOUS
<1> HIDE DEF one
<1>3. /\ \A e \in K : GroupOf(R, key, e) \in SUBSET R
      /\ GroupsOf(R, key, K) \in SUBSET R
  BY DEF GroupOf, GroupsOf
<1>4. \A e \in K : d[e] = SumOf(one, GroupOf(R, key, e))
  BY <1>1, <1>3
<1>5. SumOf(d, K) = SumOf(one, GroupsOf(R, key, K))
  BY <1>2, <1>4, SumOfGroups
<1> QED
  BY <1>1, <1>3, <1>5

\* The sum over the rows of a query that makes one row of each e.
LEMMA SumOfRows ==
  ASSUME NEW E, IsFiniteSet(E), NEW row, \A x, y \in E : row[x] = row[y] => x = y,
         NEW g, NEW d, \A e \in E : g[row[e]] = d[e] /\ d[e] \in Nat
  PROVE  /\ IsFiniteSet({row[e] : e \in E})
         /\ Cardinality({row[e] : e \in E}) = Cardinality(E)
         /\ SumOf(g, {row[e] : e \in E}) = SumOf(d, E)
<1> DEFINE Rows(U) == {row[e] : e \in U}
           Good == {U \in SUBSET E : /\ IsFiniteSet(Rows(U))
                                     /\ Cardinality(Rows(U)) = Cardinality(U)
                                     /\ SumOf(g, Rows(U)) = SumOf(d, U)}
<1>1. {} \in Good
  <2>1. Rows({}) = {}
    OBVIOUS
  <2> HIDE DEF Rows
  <2> QED
    BY <2>1, SumEmpty, FS_EmptySet
<1>2. ASSUME NEW U \in SUBSET E, NEW x \in E \ U, U \in Good PROVE U \cup {x} \in Good
  <2>1. /\ Rows(U \cup {x}) = Rows(U) \cup {row[x]} /\ row[x] \notin Rows(U)
        /\ \A r \in Rows(U) : g[r] \in Nat
    OBVIOUS
  <2>2. /\ IsFiniteSet(U) /\ Cardinality(U) \in Nat
        /\ IsFiniteSet(Rows(U)) /\ Cardinality(Rows(U)) = Cardinality(U)
        /\ SumOf(g, Rows(U)) = SumOf(d, U)
    BY <1>2, FS_Subset, FS_CardinalityType
  <2> HIDE DEF Rows
  <2>3. IsFiniteSet(Rows(U \cup {x}))
    <3>1. IsFiniteSet(Rows(U) \cup {row[x]})
      BY <2>2, FS_AddElement, Zenon
    <3> QED
      BY <2>1, <3>1, Zenon
  <2>4. Cardinality(Rows(U \cup {x})) = Cardinality(U \cup {x})
    <3>1. Cardinality(Rows(U) \cup {row[x]}) = Cardinality(Rows(U)) + 1
      BY <2>1, <2>2, FS_AddElement
    <3>2. Cardinality(U \cup {x}) = Cardinality(U) + 1
      BY <2>2, FS_AddElement
    <3> QED
      BY <2>1, <2>2, <3>1, <3>2
  <2>5. SumOf(g, Rows(U \cup {x})) = SumOf(d, U \cup {x})
    <3>1. SumOf(g, Rows(U) \cup {row[x]}) = g[row[x]] + SumOf(g, Rows(U))
      BY <2>1, <2>2, SumPlus
    <3>2. SumOf(d, U \cup {x}) = d[x] + SumOf(d, U)
      BY <2>2, SumPlus
    <3> QED
      BY <2>1, <2>2, <3>1, <3>2
  <2> QED
    BY <2>3, <2>4, <2>5
<1> HIDE DEF Good
<1>3. E \in Good
  BY <1>1, <1>2, FiniteInduction
<1> QED
  BY <1>3 DEF Good

\* Hours per request, or requests per technician: the sum is the same.
LEMMA SumSwaps ==
  ASSUME NEW R, IsFiniteSet(R), NEW T, IsFiniteSet(T),
         NEW cost, \A t \in T : cost[t] \in Nat,
         NEW crew, \A r \in R : crew[r] \in SUBSET T,
         NEW hours, \A r \in R : hours[r] = SumOf(cost, crew[r]),
         NEW share, \A t \in T : share[t] = cost[t] * Cardinality(Having(R, crew, t))
  PROVE  SumOf(hours, R) = SumOf(share, T)
<1> DEFINE Share(U) == [t \in T |-> cost[t] * Cardinality(Having(U, crew, t))]
           Good == {U \in SUBSET R : SumOf(hours, U) = SumOf(Share(U), T)}
<1>1. \A U \in SUBSET R : IsFiniteSet(U) /\ \A t \in T : Cardinality(Having(U, crew, t)) \in Nat
  <2>1. \A U \in SUBSET R : \A t \in T : Having(U, crew, t) \in SUBSET R
    BY DEF Having
  <2>2. \A U \in SUBSET R : IsFiniteSet(U) /\ Cardinality(U) \in Nat
    BY FS_Subset, FS_CardinalityType
  <2> QED
    BY <2>1, <2>2
<1>2. \A r \in R : hours[r] \in Nat
  <2> TAKE r \in R
  <2>1. IsFiniteSet(crew[r]) /\ \A t \in crew[r] : cost[t] \in Nat
    BY FS_Subset
  <2> QED
    BY <2>1, SumTakes
<1>3. {} \in Good
  <2>1. \A t \in T : Share({})[t] = 0
    <3> TAKE t \in T
    <3>1. Having({}, crew, t) = {}
      BY DEF Having
    <3>2. Cardinality(Having({}, crew, t)) = 0
      BY <3>1, FS_EmptySet
    <3>3. cost[t] \in Nat /\ cost[t] * 0 = 0
      OBVIOUS
    <3> QED
      BY <3>2, <3>3
  <2> HIDE DEF Share
  <2> QED
    BY <2>1, SumEmpty, SumOfZeros
<1>4. ASSUME NEW U \in SUBSET R, NEW x \in R \ U, U \in Good PROVE U \cup {x} \in Good
  <2> DEFINE V == U \cup {x}
             more == [t \in T |-> IF t \in crew[x] THEN cost[t] ELSE 0]
  <2>1. SumOf(hours, V) = hours[x] + SumOf(hours, U)
    BY <1>1, <1>2, SumPlus
  <2>2. ASSUME NEW t \in T
        PROVE  Cardinality(Having(V, crew, t)) = Cardinality(Having(U, crew, t)) + (IF t \in crew[x] THEN 1 ELSE 0)
    <3>1. IsFiniteSet(Having(U, crew, t)) /\ x \notin Having(U, crew, t) /\ Cardinality(Having(U, crew, t)) \in Nat
      <4>1. Having(U, crew, t) \in SUBSET U /\ IsFiniteSet(U)
        BY <1>1 DEF Having
      <4> QED
        BY <1>1, <4>1, FS_Subset
    <3>2. CASE t \in crew[x]
      <4>1. Having(V, crew, t) = Having(U, crew, t) \cup {x}
        BY <3>2 DEF Having
      <4>2. Cardinality(Having(U, crew, t) \cup {x}) = Cardinality(Having(U, crew, t)) + 1
        BY <3>1, FS_AddElement
      <4> QED
        BY <3>2, <4>1, <4>2
    <3>3. CASE t \notin crew[x]
      <4>1. Having(V, crew, t) = Having(U, crew, t)
        BY <3>3 DEF Having
      <4> QED
        BY <3>1, <3>3, <4>1
    <3> QED
      BY <3>2, <3>3
  <2>3. \A t \in T : /\ Share(U)[t] \in Nat /\ more[t] \in Nat
                     /\ Share(V)[t] = Share(U)[t] + more[t]
    <3> TAKE t \in T
    <3> DEFINE n == Cardinality(Having(U, crew, t))
    <3>1. n \in Nat /\ cost[t] \in Nat
      BY <1>1
    <3>2. Share(U)[t] = cost[t] * n /\ more[t] = IF t \in crew[x] THEN cost[t] ELSE 0
      OBVIOUS
    <3>3. Share(V)[t] = cost[t] * (n + (IF t \in crew[x] THEN 1 ELSE 0))
      BY <2>2
    <3> HIDE DEF n, Share, more
    <3>4. cost[t] * n \in Nat /\ cost[t] * (n + 1) = cost[t] * n + cost[t]
      BY <3>1
    <3> QED
      BY <3>1, <3>2, <3>3, <3>4
  <2>4. SumOf(more, T) = hours[x]
    <3> DEFINE in  == crew[x]
               out == T \ crew[x]
    <3>1. /\ IsFiniteSet(in) /\ IsFiniteSet(out) /\ in \cap out = {} /\ in \cup out = T
          /\ \A t \in T : more[t] \in Nat
      BY FS_Subset
    <3>2. \A t \in in : cost[t] \in Nat /\ more[t] = cost[t]
      OBVIOUS
    <3>3. \A t \in out : more[t] = 0
      OBVIOUS
    <3> HIDE DEF more, in, out
    <3>4. SumOf(more, in \cup out) = SumOf(more, in) + SumOf(more, out)
      BY <3>1, SumUnion
    <3>5. SumOf(more, in) = SumOf(cost, in) /\ SumOf(more, out) = 0
      BY <3>1, <3>2, <3>3, SumSame, SumOfZeros
    <3>6. SumOf(cost, in) = hours[x] /\ hours[x] \in Nat
      BY <1>2 DEF in
    <3>7. SumOf(more, in \cup out) = hours[x]
      BY <3>4, <3>5, <3>6
    <3> QED
      BY <3>1, <3>7, Zenon
  <2> HIDE DEF V, more, Share
  <2>5. SumOf(Share(V), T) = SumOf(Share(U), T) + SumOf(more, T)
    BY <2>3, SumDistributes
  <2>6. SumOf(Share(U), T) = SumOf(hours, U)
    BY <1>4
  <2>7. SumOf(hours, U) \in Nat /\ hours[x] \in Nat
    BY <1>1, <1>2, SumTakes
  <2>8. SumOf(hours, V) = SumOf(Share(V), T)
    BY <2>1, <2>4, <2>5, <2>6, <2>7
  <2> QED
    BY <2>8 DEF V
<1> HIDE DEF Good
<1>5. R \in Good
  BY <1>3, <1>4, FiniteInduction
<1>6. SumOf(hours, R) = SumOf(Share(R), T)
  BY <1>5 DEF Good
<1>7. \A t \in T : share[t] = Share(R)[t] /\ Share(R)[t] \in Nat
  <2> TAKE t \in T
  <2>1. cost[t] \in Nat /\ Cardinality(Having(R, crew, t)) \in Nat
    BY <1>1
  <2>2. cost[t] * Cardinality(Having(R, crew, t)) \in Nat
    BY <2>1
  <2> QED
    BY <2>2
<1> HIDE DEF Share
<1> QED
  BY <1>6, <1>7, SumSame

-----------------------------------------------------------------------------
\* The report

\* The requests a report is of, the equipment it lists, and the hours of a request.
Born(period) == In(Statuses) \cap period

Listed(site, period, least) ==
  {e \in Located(site) : Cardinality(GroupOf(Born(period), EquipmentOf, e)) >= least}

CrewOf  == [r \in Requests |-> request[r].crew]
HoursOf == [r \in Requests |-> SumOf(Hours, CrewOf[r])]

\* The rows of request_stats for one piece of equipment.
Stats(period, e) == {s \in RequestStats(period) : s.equipmentId = e}

\* The hours of a request are a sum over some technicians, hence a number.
LEMMA HoursAreNumbers ==
  ASSUME TablesTyped, NEW r \in Requests
  PROVE  CrewOf[r] \in SUBSET Technicians /\ HoursOf[r] \in Nat
<1>1. CrewOf[r] \in SUBSET Technicians /\ IsFiniteSet(CrewOf[r])
  BY ReportAssumption, FS_Subset DEF CrewOf, TablesTyped, Request
<1>2. \A t \in CrewOf[r] : Hours[t] \in Nat
  BY <1>1, HoursAssumption
<1>3. SumOf(Hours, CrewOf[r]) \in Nat
  BY <1>1, <1>2, SumTakes
<1> QED
  BY <1>1, <1>3 DEF HoursOf

\* Each of them stands for one request, with its status and its hours.
LEMMA StatsAre ==
  ASSUME TablesTyped, NEW period \in SUBSET Requests, NEW e
  PROVE  /\ Cardinality(Stats(period, e)) = Cardinality(GroupOf(Born(period), EquipmentOf, e))
         /\ \A S : Cardinality({s \in Stats(period, e) : s.status \in S})
                     = Cardinality(GroupOf(Born(period) \cap In(S), EquipmentOf, e))
         /\ MapThenSumSet(LAMBDA s : s.hours, Stats(period, e))
              = SumOf(HoursOf, GroupOf(Born(period), EquipmentOf, e))
<1> DEFINE B == Born(period)
           row == [r \in Requests |-> [id |-> r, equipmentId |-> request[r].equipment,
                                       status |-> request[r].status, hours |-> HoursOf[r]]]
           Rows(U) == {row[r] : r \in U}
           hours == [s \in Stats(period, e) |-> s.hours]
           G == GroupOf(B, EquipmentOf, e)
<1>1. \A r \in Requests : MapThenSumSet(LAMBDA t : Hours[t], request[r].crew) = HoursOf[r]
  BY DEF HoursOf, CrewOf, SumOf
<1>2. RequestStats(period) = Rows(B)
  BY <1>1 DEF RequestStats, Born
<1>3. /\ \A r \in Requests : /\ row[r].id = r /\ row[r].equipmentId = EquipmentOf[r]
                             /\ row[r].status = request[r].status /\ row[r].hours = HoursOf[r]
      /\ \A q, r \in Requests : row[q] = row[r] => q = r
  BY DEF EquipmentOf
<1> HIDE DEF row
<1>4. B \in SUBSET Requests /\ \A S : \A r \in Requests : r \in In(S) <=> request[r].status \in S
  BY DEF Born, In
<1> HIDE DEF B
<1>5. Stats(period, e) = Rows(G)
  BY <1>2, <1>3, <1>4 DEF Stats, GroupOf
<1>6. ASSUME NEW S
      PROVE  {s \in Stats(period, e) : s.status \in S} = Rows(GroupOf(B \cap In(S), EquipmentOf, e))
  BY <1>2, <1>3, <1>4 DEF Stats, GroupOf
<1>7. ASSUME NEW U \in SUBSET Requests, NEW g, \A r \in U : g[row[r]] = HoursOf[r]
      PROVE  /\ IsFiniteSet(U) /\ Cardinality(Rows(U)) = Cardinality(U)
             /\ SumOf(g, Rows(U)) = SumOf(HoursOf, U)
  <2>1. IsFiniteSet(U)
    BY ReportAssumption, FS_Subset
  <2>2. /\ \A q, r \in U : row[q] = row[r] => q = r
        /\ \A r \in U : g[row[r]] = HoursOf[r] /\ HoursOf[r] \in Nat
    BY <1>3, <1>7, HoursAreNumbers
  <2>3. Cardinality(Rows(U)) = Cardinality(U) /\ SumOf(g, Rows(U)) = SumOf(HoursOf, U)
    BY <2>1, <2>2, SumOfRows
  <2> QED
    BY <2>1, <2>3
<1>8. G \in SUBSET Requests /\ \A S : GroupOf(B \cap In(S), EquipmentOf, e) \in SUBSET Requests
  BY <1>4 DEF GroupOf
<1> HIDE DEF G
<1>9. \A U \in SUBSET Requests : Cardinality(Rows(U)) = Cardinality(U)
  <2> TAKE U \in SUBSET Requests
  <2> DEFINE g == [s \in Rows(U) |-> s.hours]
  <2>1. \A r \in U : g[row[r]] = HoursOf[r]
    BY <1>3
  <2> HIDE DEF g, Rows
  <2> QED
    BY <1>7, <2>1
<1>10. \A r \in G : hours[row[r]] = HoursOf[r]
  BY <1>3, <1>5, <1>8
<1>11. MapThenSumSet(LAMBDA s : s.hours, Stats(period, e)) = SumOf(hours, Stats(period, e))
  BY DEF SumOf, MapThenSumSet, MapThenFoldSet
<1> HIDE DEF hours, Rows
<1>12. SumOf(hours, Stats(period, e)) = SumOf(HoursOf, G)
  BY <1>5, <1>7, <1>8, <1>10
<1>13. Cardinality(Stats(period, e)) = Cardinality(G)
  BY <1>5, <1>8, <1>9
<1>14. \A S : Cardinality({s \in Stats(period, e) : s.status \in S})
                = Cardinality(GroupOf(B \cap In(S), EquipmentOf, e))
  BY <1>6, <1>8, <1>9
<1> QED
  BY <1>11, <1>12, <1>13, <1>14 DEF G, B

\* What the totals of the report are, for any site, any period and any least number.
LEMMA OverallIs ==
  ASSUME TablesTyped, NEW site, NEW period \in SUBSET Requests, NEW least
  PROVE  LET overall == Overall(Breakdown(site, period, least))
             B == Born(period)
             E == Listed(site, period, least)
         IN /\ overall.totalEquipment = Cardinality(E)
            /\ overall.totalRequests = Cardinality(GroupsOf(B, EquipmentOf, E))
            /\ overall.closedRequests = Cardinality(GroupsOf(B \cap In({"done"}), EquipmentOf, E))
            /\ overall.activeRequests = Cardinality(GroupsOf(B \cap In(Active), EquipmentOf, E))
            /\ overall.totalPlannedHours = SumOf(HoursOf, GroupsOf(B, EquipmentOf, E))
<1> DEFINE overall == Overall(Breakdown(site, period, least))
           B == Born(period)
           E == Listed(site, period, least)
           G(R, e) == GroupOf(R, EquipmentOf, e)
           row == [e \in E |-> [equipmentId       |-> e,
                                totalRequests     |-> Cardinality(G(B, e)),
                                closedRequests    |-> Cardinality(G(B \cap In({"done"}), e)),
                                activeRequests    |-> Cardinality(G(B \cap In(Active), e)),
                                totalPlannedHours |-> SumOf(HoursOf, G(B, e))]]
           rows == {row[e] : e \in E}
<1>1. Breakdown(site, period, least) = rows
  BY StatsAre DEF Breakdown, Stats, Listed
<1>2. E \in SUBSET Equipment /\ IsFiniteSet(E)
  <2>1. E \in SUBSET Equipment
    BY DEF Listed, Located, Here
  <2> HIDE DEF E
  <2> QED
    BY <2>1, ReportAssumption, FS_Subset
<1> HIDE DEF B, E
<1>3. \A e \in E : /\ row[e].equipmentId = e
                   /\ row[e].totalRequests = Cardinality(G(B, e))
                   /\ row[e].closedRequests = Cardinality(G(B \cap In({"done"}), e))
                   /\ row[e].activeRequests = Cardinality(G(B \cap In(Active), e))
                   /\ row[e].totalPlannedHours = SumOf(HoursOf, G(B, e))
  OBVIOUS
<1>4. \A x, y \in E : row[x] = row[y] => x = y
  BY <1>3
<1> HIDE DEF row, G
<1>5. ASSUME NEW g, NEW d, \A e \in E : g[row[e]] = d[e] /\ d[e] \in Nat
      PROVE  SumOf(g, rows) = SumOf(d, E) /\ Cardinality(rows) = Cardinality(E)
  BY <1>2, <1>4, <1>5, SumOfRows
<1>6. ASSUME NEW R \in SUBSET Requests
      PROVE  IsFiniteSet(R) /\ Cardinality(R) \in Nat
  BY ReportAssumption, FS_Subset, FS_CardinalityType
<1>7. /\ B \in SUBSET Requests /\ \A S : B \cap In(S) \in SUBSET Requests
      /\ \A R \in SUBSET Requests : \A e : G(R, e) \in SUBSET Requests
  BY DEF B, G, Born, In, GroupOf
<1>8. ASSUME NEW R \in SUBSET Requests, NEW g, \A e \in E : g[row[e]] = Cardinality(G(R, e))
      PROVE  SumOf(g, rows) = Cardinality(GroupsOf(R, EquipmentOf, E))
  <2> DEFINE d == [e \in E |-> Cardinality(G(R, e))]
  <2>1. \A e \in E : g[row[e]] = d[e] /\ d[e] \in Nat
    BY <1>6, <1>7, <1>8
  <2>2. \A e \in E : d[e] = Cardinality(GroupOf(R, EquipmentOf, e))
    BY DEF G
  <2> HIDE DEF d, rows
  <2>3. SumOf(d, E) = Cardinality(GroupsOf(R, EquipmentOf, E))
    BY <1>2, <1>6, <2>2, CountOfGroups
  <2> QED
    BY <1>5, <2>1, <2>3
<1>9. ASSUME NEW g, \A e \in E : g[row[e]] = SumOf(HoursOf, G(B, e))
      PROVE  SumOf(g, rows) = SumOf(HoursOf, GroupsOf(B, EquipmentOf, E))
  <2> DEFINE d == [e \in E |-> SumOf(HoursOf, G(B, e))]
  <2>1. \A e \in E : IsFiniteSet(G(B, e)) /\ \A r \in G(B, e) : HoursOf[r] \in Nat
    BY <1>6, <1>7, HoursAreNumbers
  <2>2. \A e \in E : g[row[e]] = d[e] /\ d[e] \in Nat
    BY <1>9, <2>1, SumTakes
  <2>3. \A e \in E : d[e] = SumOf(HoursOf, GroupOf(B, EquipmentOf, e))
    BY DEF G
  <2>4. IsFiniteSet(B) /\ \A r \in B : HoursOf[r] \in Nat
    BY <1>6, <1>7, HoursAreNumbers
  <2> HIDE DEF d, rows
  <2>5. SumOf(d, E) = SumOf(HoursOf, GroupsOf(B, EquipmentOf, E))
    BY <1>2, <2>3, <2>4, SumOfGroups
  <2> QED
    BY <1>5, <2>2, <2>5
<1> DEFINE total  == [r \in rows |-> r.totalRequests]
           closed == [r \in rows |-> r.closedRequests]
           active == [r \in rows |-> r.activeRequests]
           hours  == [r \in rows |-> r.totalPlannedHours]
<1>10. overall = [totalEquipment    |-> Cardinality(rows),
                  totalRequests     |-> MapThenSumSet(LAMBDA r : r.totalRequests, rows),
                  closedRequests    |-> MapThenSumSet(LAMBDA r : r.closedRequests, rows),
                  activeRequests    |-> MapThenSumSet(LAMBDA r : r.activeRequests, rows),
                  totalPlannedHours |-> MapThenSumSet(LAMBDA r : r.totalPlannedHours, rows)]
  BY <1>1 DEF Overall
<1>11. /\ \A e \in E : total[row[e]] = Cardinality(G(B, e))
       /\ \A e \in E : closed[row[e]] = Cardinality(G(B \cap In({"done"}), e))
       /\ \A e \in E : active[row[e]] = Cardinality(G(B \cap In(Active), e))
       /\ \A e \in E : hours[row[e]] = SumOf(HoursOf, G(B, e))
  BY <1>3
<1> HIDE DEF rows, overall
<1>12. /\ MapThenSumSet(LAMBDA r : r.totalRequests, rows) = SumOf(total, rows)
       /\ MapThenSumSet(LAMBDA r : r.closedRequests, rows) = SumOf(closed, rows)
       /\ MapThenSumSet(LAMBDA r : r.activeRequests, rows) = SumOf(active, rows)
       /\ MapThenSumSet(LAMBDA r : r.totalPlannedHours, rows) = SumOf(hours, rows)
  <2>1. MapThenSumSet(LAMBDA r : r.totalRequests, rows) = SumOf(total, rows)
    BY DEF SumOf, MapThenSumSet, MapThenFoldSet
  <2>2. MapThenSumSet(LAMBDA r : r.closedRequests, rows) = SumOf(closed, rows)
    BY DEF SumOf, MapThenSumSet, MapThenFoldSet
  <2>3. MapThenSumSet(LAMBDA r : r.activeRequests, rows) = SumOf(active, rows)
    BY DEF SumOf, MapThenSumSet, MapThenFoldSet
  <2>4. MapThenSumSet(LAMBDA r : r.totalPlannedHours, rows) = SumOf(hours, rows)
    BY DEF SumOf, MapThenSumSet, MapThenFoldSet
  <2> QED
    BY <2>1, <2>2, <2>3, <2>4
<1> HIDE DEF total, closed, active, hours
<1>13. /\ SumOf(total, rows) = Cardinality(GroupsOf(B, EquipmentOf, E))
       /\ SumOf(closed, rows) = Cardinality(GroupsOf(B \cap In({"done"}), EquipmentOf, E))
       /\ SumOf(active, rows) = Cardinality(GroupsOf(B \cap In(Active), EquipmentOf, E))
  BY <1>7, <1>8, <1>11
<1>14. SumOf(hours, rows) = SumOf(HoursOf, GroupsOf(B, EquipmentOf, E))
  BY <1>9, <1>11
<1>15. Cardinality(rows) = Cardinality(E)
  <2> DEFINE g == [r \in rows |-> 0]
             d == [e \in E |-> 0]
  <2>1. \A e \in E : g[row[e]] = d[e] /\ d[e] \in Nat
    BY DEF rows
  <2> HIDE DEF g, d
  <2> QED
    BY <1>5, <2>1
<1> QED
  BY <1>10, <1>12, <1>13, <1>14, <1>15 DEF overall, B, E

\* In any tables, the report counts each request once and the hours of each of its
\* assignees once.
LEMMA ReportCounts ==
  ASSUME TablesTyped
  PROVE  ReportIsExact
<1> SUFFICES ASSUME NEW site \in Sites \cup {Null}, NEW period \in SUBSET Requests, NEW least \in 0..2
             PROVE  LET counted == {r \in In(Statuses) \cap period :
                                      /\ request[r].equipment \in Located(site)
                                      /\ Cardinality(Of(request[r].equipment, Statuses) \cap period) >= least}
                        overall == Overall(Breakdown(site, period, least))
                    IN /\ overall.totalRequests = Cardinality(counted)
                       /\ overall.activeRequests = Cardinality(counted \cap In(Active))
                       /\ overall.closedRequests = Cardinality(counted \cap In({"done"}))
                       /\ overall.totalPlannedHours =
                            MapThenSumSet(LAMBDA t : Hours[t] * Cardinality({r \in counted : t \in request[r].crew}),
                                          Technicians)
  BY DEF ReportIsExact
<1> DEFINE counted == {r \in In(Statuses) \cap period :
                         /\ request[r].equipment \in Located(site)
                         /\ Cardinality(Of(request[r].equipment, Statuses) \cap period) >= least}
           overall == Overall(Breakdown(site, period, least))
           B == Born(period)
           E == Listed(site, period, least)
           C == GroupsOf(B, EquipmentOf, E)
           share == [t \in Technicians |-> Hours[t] * Cardinality(Having(C, CrewOf, t))]
<1>1. B \in SUBSET Requests /\ C \in SUBSET Requests
      /\ \A r \in Requests : EquipmentOf[r] = request[r].equipment /\ CrewOf[r] = request[r].crew
  BY DEF Born, In, GroupsOf, EquipmentOf, CrewOf
<1>2. \A e : Of(e, Statuses) \cap period = GroupOf(B, EquipmentOf, e)
  BY <1>1 DEF Of, GroupOf, Born, In
<1>3. counted = C
  <2>1. \A r \in B : r \in counted <=> /\ request[r].equipment \in Located(site)
                                       /\ Cardinality(GroupOf(B, EquipmentOf, request[r].equipment)) >= least
    BY <1>2 DEF Born
  <2>2. \A r \in B : r \in C <=> EquipmentOf[r] \in E
    BY DEF GroupsOf
  <2>3. \A e : e \in E <=> e \in Located(site) /\ Cardinality(GroupOf(B, EquipmentOf, e)) >= least
    BY DEF Listed
  <2>4. counted \subseteq B /\ C \subseteq B
    BY DEF Born, GroupsOf
  <2> HIDE DEF counted, C, B, E
  <2> QED
    BY <1>1, <2>1, <2>2, <2>3, <2>4
<1>4. /\ overall.totalRequests = Cardinality(C)
      /\ overall.activeRequests = Cardinality(GroupsOf(B \cap In(Active), EquipmentOf, E))
      /\ overall.closedRequests = Cardinality(GroupsOf(B \cap In({"done"}), EquipmentOf, E))
      /\ overall.totalPlannedHours = SumOf(HoursOf, C)
  BY OverallIs
<1>5. /\ GroupsOf(B \cap In(Active), EquipmentOf, E) = C \cap In(Active)
      /\ GroupsOf(B \cap In({"done"}), EquipmentOf, E) = C \cap In({"done"})
  BY DEF GroupsOf
<1>6. SumOf(HoursOf, C) = SumOf(share, Technicians)
  <2>1. IsFiniteSet(C) /\ IsFiniteSet(Technicians)
    BY <1>1, ReportAssumption, FS_Subset
  <2>2. \A t \in Technicians : Hours[t] \in Nat
    BY HoursAssumption
  <2>3. \A r \in C : CrewOf[r] \in SUBSET Technicians /\ HoursOf[r] = SumOf(Hours, CrewOf[r])
    BY <1>1, HoursAreNumbers DEF HoursOf
  <2>4. \A t \in Technicians : share[t] = Hours[t] * Cardinality(Having(C, CrewOf, t))
    OBVIOUS
  <2> HIDE DEF share, C
  <2> QED
    BY <2>1, <2>2, <2>3, <2>4, SumSwaps
<1> DEFINE Served(t) == {r \in counted : t \in request[r].crew}
           served == [t \in Technicians |-> Hours[t] * Cardinality(Served(t))]
<1>7. share = served
  <2>1. \A t \in Technicians : Having(C, CrewOf, t) = Served(t)
    BY <1>1, <1>3 DEF Having
  <2> HIDE DEF C, counted, Served
  <2> QED
    BY <2>1
<1> HIDE DEF C, counted, Served
<1>8. SumOf(served, Technicians)
        = MapThenSumSet(LAMBDA t : Hours[t] * Cardinality(Served(t)), Technicians)
  BY DEF SumOf, MapThenSumSet, MapThenFoldSet
<1> HIDE DEF share, served, overall
<1>9. overall.totalPlannedHours
        = MapThenSumSet(LAMBDA t : Hours[t] * Cardinality(Served(t)), Technicians)
  BY <1>4, <1>6, <1>7, <1>8, Zenon
<1>10. /\ overall.totalRequests = Cardinality(counted)
       /\ overall.activeRequests = Cardinality(counted \cap In(Active))
       /\ overall.closedRequests = Cardinality(counted \cap In({"done"}))
  BY <1>3, <1>4, <1>5, Zenon
<1> QED
  BY <1>9, <1>10 DEF counted, Served, overall

-----------------------------------------------------------------------------
\* The summary

\* As far as it has got, a summary that no change came into says what the tables say.
SummarySoFar ==
  /\ summary = [site |-> summary.site, step |-> summary.step, equipment |-> summary.equipment,
                byStatus |-> summary.byStatus, byType |-> summary.byType,
                requests |-> summary.requests, from |-> summary.from]
  /\ summary.step \in {"idle", "equipment", "statuses", "types", "requests", "answer"}
  /\ summary.from \in Nat /\ summary.from <= changes
  /\ summary.step # "idle" => summary.site \in Sites
  /\ summary.from = changes =>
       /\ summary.step \in {"statuses", "types", "requests", "answer"} =>
            summary.equipment = Cardinality(AtSite)
       /\ summary.step \in {"types", "requests", "answer"} =>
            summary.byStatus = Cardinality(AtSite)
       /\ summary.step \in {"requests", "answer"} => summary.byType = Cardinality(AtSite)
       /\ summary.step = "answer" =>
            \A s \in Statuses : summary.requests[s]
                                  = Cardinality({r \in In({s}) : request[r].equipment \in AtSite})

\* The inductive invariant of the summary.
SummaryInv == TablesTyped /\ SummarySoFar

\* No summary has begun.
LEMMA SummaryBegins == Init => SummaryInv
<1> SUFFICES ASSUME Init PROVE SummaryInv
  OBVIOUS
<1>1. TablesTyped /\ changes = 0
  BY MetricsBegin DEF MetricsInv, Init, TablesInit
<1>2. summary = NoSummary
  BY DEF Init, SummaryInit
<1>3. summary.step = "idle" /\ summary.from = 0
  BY <1>2 DEF NoSummary
<1>4. summary = [site |-> summary.site, step |-> summary.step, equipment |-> summary.equipment,
                 byStatus |-> summary.byStatus, byType |-> summary.byType,
                 requests |-> summary.requests, from |-> summary.from]
  BY <1>2 DEF NoSummary
<1> QED
  BY <1>1, <1>3, <1>4 DEF SummaryInv, SummarySoFar

\* The rows of the site depend on the tables and on which site it is.
LEMMA SiteViews ==
  ASSUME UNCHANGED <<kit, request>>, summary'.site = summary.site
  PROVE  /\ AtSite' = AtSite
         /\ \A s : {r \in In({s}) : request[r].equipment \in AtSite}'
                     = {r \in In({s}) : request[r].equipment \in AtSite}
<1>1. AtSite' = AtSite
  BY DEF AtSite, Here
<1> QED
  BY <1>1 DEF In

\* One step of the call: it keeps the site, and sets what the step is for.
LEMMA SummaryMoves ==
  ASSUME SummaryInv, SummaryStep
  PROVE  SummaryInv'
<1> USE DEF SummaryInv
<1>1. UNCHANGED <<kit, request, changes>> /\ changes \in Nat
  BY DEF SummaryStep, StartSummary, CountEquipment, CountByStatus, CountByType,
         CountRequests, AnswerSummary, tables, TablesTyped
<1>2. TablesTyped'
  BY <1>1 DEF TablesTyped
<1>3. CASE summary' = NoSummary
  <2>1. summary'.step = "idle" /\ summary'.from = 0
    BY <1>3 DEF NoSummary
  <2>2. summary' = [site |-> summary'.site, step |-> summary'.step,
                    equipment |-> summary'.equipment, byStatus |-> summary'.byStatus,
                    byType |-> summary'.byType, requests |-> summary'.requests, from |-> summary'.from]
    BY <1>3 DEF NoSummary
  <2> QED
    BY <1>1, <1>2, <2>1, <2>2 DEF SummarySoFar
<1>4. ASSUME NEW s \in Sites, StartSummary(s) PROVE SummaryInv'
  <2>1. /\ summary'.step = "equipment" /\ summary'.from = changes /\ summary'.site = s
        /\ summary' = [site |-> summary'.site, step |-> summary'.step,
                       equipment |-> summary'.equipment, byStatus |-> summary'.byStatus,
                       byType |-> summary'.byType, requests |-> summary'.requests, from |-> summary'.from]
    BY <1>4 DEF StartSummary, NoSummary
  <2> QED
    BY <1>1, <1>2, <2>1 DEF SummarySoFar
<1>5. CASE CountEquipment
  <2>1. /\ summary.step = "equipment"
        /\ summary' = [site |-> summary.site, step |-> "statuses",
                       equipment |-> Cardinality(AtSite), byStatus |-> summary.byStatus,
                       byType |-> summary.byType, requests |-> summary.requests, from |-> summary.from]
    BY <1>5 DEF CountEquipment, SummarySoFar
  <2>2. Cardinality(AtSite)' = Cardinality(AtSite)
    BY <1>1, <2>1, SiteViews
  <2> QED
    BY <1>1, <1>2, <2>1, <2>2 DEF SummarySoFar
<1>6. CASE CountByStatus
  <2>1. /\ summary.step = "statuses"
        /\ summary' = [site |-> summary.site, step |-> "types",
                       equipment |-> summary.equipment, byStatus |-> Cardinality(AtSite),
                       byType |-> summary.byType, requests |-> summary.requests,
                       from |-> summary.from]
    BY <1>6 DEF CountByStatus, SummarySoFar
  <2>2. Cardinality(AtSite)' = Cardinality(AtSite)
    BY <1>1, <2>1, SiteViews
  <2> QED
    BY <1>1, <1>2, <2>1, <2>2 DEF SummarySoFar
<1>7. CASE CountByType
  <2>1. /\ summary.step = "types"
        /\ summary' = [site |-> summary.site, step |-> "requests",
                       equipment |-> summary.equipment, byStatus |-> summary.byStatus,
                       byType |-> Cardinality(AtSite), requests |-> summary.requests,
                       from |-> summary.from]
    BY <1>7 DEF CountByType, SummarySoFar
  <2>2. Cardinality(AtSite)' = Cardinality(AtSite)
    BY <1>1, <2>1, SiteViews
  <2> QED
    BY <1>1, <1>2, <2>1, <2>2 DEF SummarySoFar
<1>8. CASE CountRequests
  <2> DEFINE count == [s \in Statuses |->
                         Cardinality({r \in In({s}) : request[r].equipment \in AtSite})]
  <2>1. /\ summary.step = "requests"
        /\ summary' = [site |-> summary.site, step |-> "answer",
                       equipment |-> summary.equipment, byStatus |-> summary.byStatus,
                       byType |-> summary.byType, requests |-> count, from |-> summary.from]
    BY <1>8 DEF CountRequests, SummarySoFar
  <2>2. /\ Cardinality(AtSite)' = Cardinality(AtSite)
        /\ \A s \in Statuses :
             count[s] = Cardinality({r \in In({s}) : request[r].equipment \in AtSite})'
    BY <1>1, <2>1, SiteViews
  <2> HIDE DEF count
  <2> QED
    BY <1>1, <1>2, <2>1, <2>2 DEF SummarySoFar
<1> QED
  BY <1>3, <1>4, <1>5, <1>6, <1>7, <1>8 DEF SummaryStep, AnswerSummary

\* Every step keeps the invariant of the summary,
LEMMA SummaryStepKeeps == SummaryInv /\ [Next]_vars => SummaryInv'
<1> SUFFICES ASSUME SummaryInv, [Next]_vars PROVE SummaryInv'
  OBVIOUS
<1>1. CASE Change /\ UNCHANGED summary
  <2>1. TablesTyped' /\ changes' = changes + 1
    BY <1>1, ChangeCounts DEF SummaryInv
  <2>2. summary'.from # changes'
    BY <1>1, <2>1 DEF SummaryInv, SummarySoFar, TablesTyped
  <2>3. SummarySoFar'
    BY <1>1, <2>1, <2>2 DEF SummaryInv, SummarySoFar, TablesTyped
  <2> QED
    BY <2>1, <2>3 DEF SummaryInv
<1>2. CASE UNCHANGED <<kit, request, changes, summary>>
  <2>1. /\ Cardinality(AtSite)' = Cardinality(AtSite)
        /\ \A s : Cardinality({r \in In({s}) : request[r].equipment \in AtSite})'
                    = Cardinality({r \in In({s}) : request[r].equipment \in AtSite})
    BY <1>2, SiteViews
  <2> QED
    BY <1>2, <2>1 DEF SummaryInv, TablesTyped, SummarySoFar
<1>3. CASE SummaryStep
  BY <1>3, SummaryMoves
<1> QED
  BY <1>1, <1>2, <1>3, StepsAre

\* which therefore always holds.
LEMMA SummaryAlways == Spec => []SummaryInv
<1> QED
  BY SummaryBegins, SummaryStepKeeps, PTL DEF Spec

\* The four statuses are finitely many.
LEMMA FourStatuses == IsFiniteSet(Statuses)
<1>1. IsFiniteSet({"new"})
  BY FS_Singleton, Zenon
<1>2. IsFiniteSet({"new"} \cup {"in_progress"})
  BY <1>1, FS_AddElement, Zenon
<1>3. IsFiniteSet(({"new"} \cup {"in_progress"}) \cup {"done"})
  BY <1>2, FS_AddElement, Zenon
<1>4. IsFiniteSet((({"new"} \cup {"in_progress"}) \cup {"done"}) \cup {"rejected"})
  BY <1>3, FS_AddElement, Zenon
<1>5. Statuses = (({"new"} \cup {"in_progress"}) \cup {"done"}) \cup {"rejected"}
  BY DEF Statuses
<1> QED
  BY <1>4, <1>5, Zenon

\* Summary and report count the same rows.
LEMMA SummaryAgrees ==
  ASSUME SummaryInv
  PROVE  SummaryMatchesReport
<1> SUFFICES ASSUME summary.step = "answer", summary.from = changes
             PROVE  LET overall == Overall(Breakdown(summary.site, Requests, 0))
                        count   == summary.requests
                    IN /\ summary.equipment = overall.totalEquipment
                       /\ summary.byStatus = overall.totalEquipment
                       /\ summary.byType = overall.totalEquipment
                       /\ count["done"] = overall.closedRequests
                       /\ count["new"] + count["in_progress"] = overall.activeRequests
                       /\ MapThenSumSet(LAMBDA s : count[s], Statuses) = overall.totalRequests
  BY DEF SummaryMatchesReport
<1> DEFINE overall == Overall(Breakdown(summary.site, Requests, 0))
           count   == summary.requests
           at(S)   == {r \in In(S) : request[r].equipment \in AtSite}
           B       == Born(Requests)
           E       == Listed(summary.site, Requests, 0)
<1>1. /\ TablesTyped /\ summary.site \in Sites /\ summary.equipment = Cardinality(AtSite)
      /\ summary.byStatus = Cardinality(AtSite) /\ summary.byType = Cardinality(AtSite)
      /\ \A s \in Statuses : count[s] = Cardinality(at({s}))
  BY DEF SummaryInv, SummarySoFar
<1>2. \A R \in SUBSET Requests : IsFiniteSet(R) /\ Cardinality(R) \in Nat
  BY ReportAssumption, FS_Subset, FS_CardinalityType
<1>3. \A S : at(S) \in SUBSET Requests
  BY DEF In
<1>4. E = AtSite
  <2>1. \A e : Cardinality(GroupOf(B, EquipmentOf, e)) >= 0
    <3>1. \A e : GroupOf(B, EquipmentOf, e) \in SUBSET Requests
      BY DEF GroupOf, Born
    <3> QED
      BY <1>2, <3>1
  <2>2. E = Located(summary.site)
    BY <2>1 DEF Listed, Located
  <2>3. summary.site # Null
    BY <1>1, ReportAssumption
  <2> QED
    BY <2>2, <2>3 DEF Located, AtSite
<1>5. /\ GroupsOf(B, EquipmentOf, AtSite) = at(Statuses)
      /\ GroupsOf(B \cap In({"done"}), EquipmentOf, AtSite) = at({"done"})
      /\ GroupsOf(B \cap In(Active), EquipmentOf, AtSite) = at(Active)
  BY DEF GroupsOf, Born, EquipmentOf, In, Statuses, Active
<1>6. /\ overall.totalEquipment = Cardinality(AtSite)
      /\ overall.totalRequests = Cardinality(at(Statuses))
      /\ overall.closedRequests = Cardinality(at({"done"}))
      /\ overall.activeRequests = Cardinality(at(Active))
  <2> HIDE DEF at
  <2> QED
    BY <1>1, <1>4, <1>5, OverallIs
<1>7. Cardinality(at(Active)) = count["new"] + count["in_progress"]
  <2>1. at(Active) = at({"new"}) \cup at({"in_progress"}) /\ at({"new"}) \cap at({"in_progress"}) = {}
    BY DEF In, Active
  <2> HIDE DEF at
  <2>2. Cardinality(at({"new"}) \cup at({"in_progress"}))
          = Cardinality(at({"new"})) + Cardinality(at({"in_progress"}))
              - Cardinality(at({"new"}) \cap at({"in_progress"}))
    BY <1>2, <1>3, FS_Union
  <2>3. Cardinality(at({"new"}) \cap at({"in_progress"})) = 0
    BY <2>1, FS_EmptySet
  <2>4. count["new"] = Cardinality(at({"new"})) /\ count["in_progress"] = Cardinality(at({"in_progress"}))
    BY <1>1 DEF Statuses
  <2>5. Cardinality(at({"new"})) \in Nat /\ Cardinality(at({"in_progress"})) \in Nat
    BY <1>2, <1>3
  <2> HIDE DEF count
  <2> QED
    BY <2>1, <2>2, <2>3, <2>4, <2>5
<1>8. MapThenSumSet(LAMBDA s : count[s], Statuses) = Cardinality(at(Statuses))
  <2> DEFINE R == at(Statuses)
  <2>1. \A s \in Statuses : GroupOf(R, StatusOf, s) = at({s})
    BY DEF GroupOf, StatusOf, In
  <2>2. GroupsOf(R, StatusOf, Statuses) = R
    BY DEF GroupsOf, StatusOf, In
  <2>3. \A s \in Statuses : count[s] = Cardinality(GroupOf(R, StatusOf, s))
    <3> HIDE DEF at, count, R
    <3> QED
      BY <1>1, <2>1
  <2>4. IsFiniteSet(R)
    BY <1>2, <1>3
  <2> HIDE DEF R, count
  <2>5. SumOf(count, Statuses) = Cardinality(GroupsOf(R, StatusOf, Statuses))
    BY <2>3, <2>4, FourStatuses, CountOfGroups
  <2>6. MapThenSumSet(LAMBDA s : count[s], Statuses) = SumOf(count, Statuses)
    BY DEF SumOf, MapThenSumSet, MapThenFoldSet
  <2> QED
    BY <2>2, <2>5, <2>6 DEF R
<1>9. count["done"] = Cardinality(at({"done"}))
  BY <1>1 DEF Statuses
<1> QED
  BY <1>1, <1>6, <1>7, <1>8, <1>9

\* For any requests, crews and hours: the report counts every request of its filters
\* once, however many assignees it is joined with, and the hours of each of them once.
THEOREM ReportCountsOnce == Spec => []ReportIsExact
<1>1. SummaryInv => ReportIsExact
  BY ReportCounts DEF SummaryInv
<1> QED
  BY <1>1, SummaryAlways, PTL

\* The four queries of a summary that no change came into and the one query of the
\* report agree on the equipment and on the requests of the site, in every status.
THEOREM TwoServicesAgree == Spec => []SummaryMatchesReport
<1>1. SummaryInv => SummaryMatchesReport
  BY SummaryAgrees
<1> QED
  BY <1>1, SummaryAlways, PTL
=============================================================================
