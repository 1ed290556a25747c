--------------------------- MODULE BusinessMetrics --------------------------
(***************************************************************************)
(* The business gauges of lib/metrics.js.  A scrape refreshes them if the  *)
(* last refresh began long enough ago: six queries, each followed by the   *)
(* gauge it is for.  Scrapes overlap at every await, and share the gauges  *)
(* and the time of the last refresh.  Priorities and types, which only     *)
(* split the counts further, are left out.                                 *)
(*                                                                         *)
(* A definition whose comment begins with "Slip:" is a mistake somebody    *)
(* could make in the definition after it; the specification uses none.     *)
(***************************************************************************)
EXTENDS ReportTables

CONSTANTS Scrapes,    \* scrapes in flight
          Interval,   \* BUSINESS_METRICS_INTERVAL_MS, in steps of the clock
          MttrLimit,  \* rows the mean is taken of, 500
          MaxFaults   \* bound: failed queries

VARIABLES gauge,      \* what /metrics shows
          age,        \* time since lastBusinessMetricsUpdate, up to Interval
          scrape,     \* step and local variables of each scrape
          faults

metricsVars == <<gauge, age, scrape, faults>>

ASSUME MetricsAssumption == Interval \in Nat \ {0} /\ MttrLimit \in Nat /\ MaxFaults \in Nat

Steps == <<"total", "overdue", "mttr", "kit", "active", "equipments">>

\* "since", "from" and "alone" only record: how long the refresh has run, the tables
\* it began with, and whether no other one ran meanwhile.
IdleScrape == [step |-> 0, got |-> Null, active |-> Null,
               since |-> 0, from |-> 0, alone |-> TRUE]

MetricsInit == /\ gauge = [total |-> <<>>, overdue |-> 0, mttr |-> {}, kit |-> 0, load |-> <<>>]
               /\ age = Interval
               /\ scrape = [p \in Scrapes |-> IdleScrape]
               /\ faults = 0

Refreshing(p) == scrape[p].step # 0

-----------------------------------------------------------------------------
\* The queries.  Each may have several results.

\* SELECT ... GROUP BY: no row for a group of none.
CountBy(key, S) == [k \in {key[r] : r \in S} |-> Cardinality({r \in S : key[r] = k})]

StatusOf    == [r \in Requests |-> request[r].status]
EquipmentOf == [r \in Requests |-> request[r].equipment]

Late == {r \in In(Active) : request[r].late}

\* LIMIT without ORDER BY.
AnyOf(S, limit) == {T \in SUBSET S : /\ Cardinality(T) <= limit
                                     /\ T = S \/ Cardinality(T) = limit}

Results(query) ==
  CASE query = "total"      -> {CountBy(StatusOf, In(Statuses))}
    [] query = "overdue"    -> {Cardinality(Late)}
    [] query = "mttr"       -> AnyOf(In({"done"}), MttrLimit)
    [] query = "kit"        -> {Cardinality(Here)}
    [] query = "active"     -> {CountBy(EquipmentOf, In(Active))}
    [] query = "equipments" -> {Here}

\* The rows of `active` under the names of `known`; the id stands in for a name that
\* is not there.  A label that two rows share shows the one written last.
Labels(active, known) ==
  LET Name(e) == IF e \in known THEN LabelOf[e] ELSE e
      names   == {Name(e) : e \in DOMAIN active}
  IN {[l \in names |-> active[last[l]]] :
        last \in {f \in [names -> DOMAIN active] : \A l \in names : Name(f[l]) = l}}

-----------------------------------------------------------------------------

\* Slip: the time is taken when the refresh is over.
StampLater(p) ==
  /\ ~ Refreshing(p)
  /\ age = Interval
  /\ scrape' = [q \in Scrapes |->
                  IF q = p THEN [IdleScrape EXCEPT !.step = 1, !.from = changes]
                  ELSE scrape[q]]
  /\ UNCHANGED <<tables, gauge, age, faults>>

\* updateBusinessMetrics takes the time before its first await.  A scrape that comes
\* too early answers with the gauges as they are, and changes nothing.
StartRefresh(p) ==
  /\ ~ Refreshing(p)
  /\ age = Interval
  /\ age' = 0
  /\ scrape' = [q \in Scrapes |->
                  IF q = p THEN [IdleScrape EXCEPT !.step = 1, !.from = changes,
                                                   !.alone = \A o \in Scrapes : ~ Refreshing(o)]
                  ELSE [scrape[q] EXCEPT !.alone = @ /\ ~ Refreshing(q)]]
  /\ UNCHANGED <<tables, gauge, faults>>

\* PostgreSQL answers the query that p waits for.
Query(p) ==
  /\ Refreshing(p)
  /\ scrape[p].got = Null
  /\ \E result \in Results(Steps[scrape[p].step]) :
       scrape' = [scrape EXCEPT ![p] = [@ EXCEPT !.got = result]]
  /\ UNCHANGED <<tables, gauge, age, faults>>

\* Slip: a gauge is not reset before its rows are set.
SetOnly(old, rows) == [k \in DOMAIN old \cup DOMAIN rows |->
                         IF k \in DOMAIN rows THEN rows[k] ELSE old[k]]

\* reset() and a set() per row, with no await in between.
ResetAndSet(old, rows) == rows

\* What the gauges may show after the result of a query.
Written(query, result, active) ==
  CASE query = "total"      -> {[gauge EXCEPT !.total = ResetAndSet(@, result)]}
    [] query = "overdue"    -> {[gauge EXCEPT !.overdue = result]}
    [] query = "mttr"       -> {[gauge EXCEPT !.mttr = result]}
    [] query = "kit"        -> {[gauge EXCEPT !.kit = result]}
    [] query = "active"     -> {gauge}
    [] query = "equipments" -> {[gauge EXCEPT !.load = ResetAndSet(@, rows)] :
                                  rows \in Labels(active, result)}

\* The scrape goes on with the result; after the last one it answers.
Write(p) ==
  /\ Refreshing(p)
  /\ scrape[p].got # Null
  /\ LET query == Steps[scrape[p].step]
         result == scrape[p].got
     IN /\ gauge' \in Written(query, result, scrape[p].active)
        /\ scrape' = [scrape EXCEPT ![p] =
             IF query = "equipments" THEN IdleScrape
             ELSE [scrape[p] EXCEPT !.step = @ + 1, !.got = Null,
                                    !.active = IF query = "active" THEN result ELSE @]]
  /\ UNCHANGED <<tables, age, faults>>

\* A query fails; the error is swallowed, and the gauges written so far stay.
QueryFails(p) ==
  /\ Refreshing(p)
  /\ scrape[p].got = Null
  /\ faults < MaxFaults
  /\ faults' = faults + 1
  /\ scrape' = [scrape EXCEPT ![p] = IdleScrape]
  /\ UNCHANGED <<tables, gauge, age>>

\* Slip: a scrape that comes too early takes the time too, so that it is never old.
NeverOlder(n) == n

Older(n) == IF n < Interval THEN n + 1 ELSE n

Tick == /\ age' = Older(age)
        /\ scrape' = [p \in Scrapes |->
                        IF Refreshing(p) THEN [scrape[p] EXCEPT !.since = Older(@)] ELSE scrape[p]]
        /\ UNCHANGED <<tables, gauge, faults>>

MetricsStep == \/ \E p \in Scrapes : StartRefresh(p) \/ Query(p) \/ Write(p) \/ QueryFails(p)
               \/ Tick

=============================================================================
