----------------------------- MODULE Reporting -----------------------------
(***************************************************************************)
(* The readers of the database together: scrapes of the metrics and the    *)
(* summary of a site, while other handlers commit.  What they must show.   *)
(***************************************************************************)
EXTENDS BusinessMetrics, SiteReports

CONSTANT MaxReaders   \* bound: readers that run at once

ASSUME ReadersAssumption == MaxReaders \in Nat

vars == <<tables, metricsVars, summary>>

Init == TablesInit /\ MetricsInit /\ SummaryInit

Readers == Cardinality({p \in Scrapes : Refreshing(p)}) + (IF summary.step = "idle" THEN 0 ELSE 1)

Next == \/ Change /\ UNCHANGED <<metricsVars, summary>>
        \/ MetricsStep /\ UNCHANGED summary /\ Readers' <= MaxReaders
        \/ SummaryStep /\ UNCHANGED metricsVars /\ Readers' <= MaxReaders

Spec == Init /\ [][Next]_vars

\* Prometheus keeps scraping, time passes, and PostgreSQL answers.
FairSpec == /\ Spec
            /\ WF_vars(Tick /\ UNCHANGED summary)
            /\ \A p \in Scrapes :
                 /\ WF_vars(StartRefresh(p) /\ UNCHANGED summary /\ Readers' <= MaxReaders)
                 /\ WF_vars((Query(p) \/ Write(p)) /\ UNCHANGED summary)

-----------------------------------------------------------------------------

Loaded == {e \in Here : Of(e, Active) # {}}

\* No two pieces of equipment share name and type.  Nothing in the code sees to it.
UniqueLabels == \A e, f \in Equipment : LabelOf[e] = LabelOf[f] => e = f

\* Every piece of equipment with active requests is shown with their number, and no other.
LoadShown == /\ DOMAIN gauge.load = {LabelOf[e] : e \in Loaded}
             /\ \A e \in Loaded : gauge.load[LabelOf[e]] = Cardinality(Of(e, Active))

\* What each gauge may show of the tables as they are.
GaugesAgree == /\ gauge.total = CountBy(StatusOf, In(Statuses))
               /\ gauge.overdue = Cardinality(Late)
               /\ gauge.mttr \in AnyOf(In({"done"}), MttrLimit)
               /\ gauge.kit = Cardinality(Here)
               /\ LoadShown

\* The last write of a refresh that no change and no other refresh came into.
QuietRefresh(p) ==
  Write(p) /\ scrape'[p].step = 0 /\ scrape[p].alone /\ scrape[p].from = changes

\* Such a refresh leaves gauges that agree with the tables: nothing of an older refresh
\* is left in them, and the load is that of each piece of equipment, given that no two
\* have one label.
RefreshIsExact == [][\A p \in Scrapes : QuietRefresh(p) => GaugesAgree']_vars

\* The load gauge shows the active requests of each piece of equipment (README.md:162),
\* whatever their names and types, which the labels are made of.
EveryLoadShown == [][\A p \in Scrapes : QuietRefresh(p) => LoadShown']_vars

\* The throttle keeps refreshes apart: two of them overlap only if the older one has
\* been waiting for the database for a whole interval.
OverlapNeedsSlowRefresh ==
  \A p, q \in Scrapes : p # q /\ Refreshing(p) /\ Refreshing(q) =>
    scrape[p].since = Interval \/ scrape[q].since = Interval

\* Whatever happened, overlapping refreshes that write older results last and
\* swallowed errors included, the gauges come to agree with the tables when these
\* stop changing, and stay so, given that no two pieces of equipment have one label.
GaugesConverge == <>[]GaugesAgree

\* The report counts a request once, however many assignees it is joined with, and
\* the hours of each of them once, for every filter.  It is one query, which reads
\* the tables only: they need no other reader at work to be what they are.
ReportIsExact ==
  Readers = 0 => \A site \in Sites \cup {Null}, period \in SUBSET Requests, least \in 0..2 :
    LET counted == {r \in In(Statuses) \cap period :
                      /\ request[r].equipment \in Located(site)
                      /\ Cardinality(Of(request[r].equipment, Statuses) \cap period) >= least}
        overall == Overall(Breakdown(site, period, least))
    IN /\ overall.totalRequests = Cardinality(counted)
       /\ overall.activeRequests = Cardinality(counted \cap In(Active))
       /\ overall.closedRequests = Cardinality(counted \cap In({"done"}))
       /\ overall.totalPlannedHours =
            MapThenSumSet(LAMBDA t : Hours[t] * Cardinality({r \in counted : t \in request[r].crew}),
                          Technicians)

\* Two services count the same things in SQL of their own: a summary that no change
\* came into agrees with the report on its site, and with itself.
SummaryMatchesReport ==
  summary.step = "answer" /\ summary.from = changes =>
    LET overall == Overall(Breakdown(summary.site, Requests, 0))
        count   == summary.requests
    IN /\ summary.equipment = overall.totalEquipment
       /\ summary.byStatus = overall.totalEquipment
       /\ summary.byType = overall.totalEquipment
       /\ count["done"] = overall.closedRequests
       /\ count["new"] + count["in_progress"] = overall.activeRequests
       /\ MapThenSumSet(LAMBDA s : count[s], Statuses) = overall.totalRequests
=============================================================================
