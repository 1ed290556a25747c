---------------------------- MODULE SiteReports ----------------------------
(***************************************************************************)
(* GET /sites/:id/summary, four queries one after another, and the load    *)
(* report, one query with joins.  A table expression is a set of rows, and *)
(* a LEFT JOIN gives a row without partners one whose columns are Null.    *)
(* Averages, dates and installed power are left out.                       *)
(*                                                                         *)
(* A definition whose comment begins with "Slip:" is a mistake somebody    *)
(* could make in the definition after it; the specification uses none.     *)
(***************************************************************************)
EXTENDS ReportTables, FiniteSetsExt

CONSTANTS Hours       \* hours planned of a technician, for any request

VARIABLE summary      \* the call of getSummary

ASSUME HoursAssumption == Hours \in [Technicians -> Nat]

-----------------------------------------------------------------------------
\* ReportService.getEquipmentLoadReport

\* Slip: assignees are joined and not grouped.
UngroupedStats(period) ==
  UNION {{[id |-> r, equipmentId |-> request[r].equipment, status |-> request[r].status,
           hours |-> Hours[t], of |-> t] : t \in request[r].crew} : r \in In(Statuses) \cap period}

\* request_stats: the requests created in the period, LEFT JOIN request_assignees,
\* grouped by request.
RequestStats(period) ==
  {[id |-> r, equipmentId |-> request[r].equipment, status |-> request[r].status,
    hours |-> MapThenSumSet(LAMBDA t : Hours[t], request[r].crew)] : r \in In(Statuses) \cap period}

\* equipment e JOIN sites s: equipment without a site has no row.
Located(site) == {e \in Here : SiteOf[e] # Null /\ site \in {Null, SiteOf[e]}}

\* One row per piece of equipment, LEFT JOIN request_stats; HAVING minRequests.
Breakdown(site, period, minRequests) ==
  LET stats(e)    == {s \in RequestStats(period) : s.equipmentId = e}
      within(e, S) == Cardinality({s \in stats(e) : s.status \in S})
  IN {[equipmentId       |-> e,
       totalRequests     |-> Cardinality(stats(e)),
       closedRequests    |-> within(e, {"done"}),
       activeRequests    |-> within(e, Active),
       totalPlannedHours |-> MapThenSumSet(LAMBDA s : s.hours, stats(e))] :
        e \in {f \in Located(site) : Cardinality(stats(f)) >= minRequests}}

\* The totals that the service adds up from the rows.
Overall(rows) == [totalEquipment    |-> Cardinality(rows),
                  totalRequests     |-> MapThenSumSet(LAMBDA r : r.totalRequests, rows),
                  closedRequests    |-> MapThenSumSet(LAMBDA r : r.closedRequests, rows),
                  activeRequests    |-> MapThenSumSet(LAMBDA r : r.activeRequests, rows),
                  totalPlannedHours |-> MapThenSumSet(LAMBDA r : r.totalPlannedHours, rows)]

-----------------------------------------------------------------------------
\* SiteService.getSummary

\* "byStatus" and "byType" are the sums of the two distributions.
NoSummary == [site |-> Null, step |-> "idle", equipment |-> 0, byStatus |-> 0, byType |-> 0,
              requests |-> [s \in Statuses |-> 0], from |-> 0]

SummaryInit == summary = NoSummary

\* getById finds the site; no route deletes one.  "from" only records the tables the
\* call began with.
StartSummary(s) ==
  /\ summary.step = "idle"
  /\ summary' = [NoSummary EXCEPT !.site = s, !.step = "equipment", !.from = changes]
  /\ UNCHANGED tables

AtSite == {e \in Here : SiteOf[e] = summary.site}

\* Query 1: COUNT of equipment, LEFT JOIN of its one passport.
CountEquipment ==
  /\ summary.step = "equipment"
  /\ summary' = [summary EXCEPT !.step = "statuses", !.equipment = Cardinality(AtSite)]
  /\ UNCHANGED tables

\* Query 2: the equipment by status.
CountByStatus ==
  /\ summary.step = "statuses"
  /\ summary' = [summary EXCEPT !.step = "types", !.byStatus = Cardinality(AtSite)]
  /\ UNCHANGED tables

\* Query 3: the equipment by type.
CountByType ==
  /\ summary.step = "types"
  /\ summary' = [summary EXCEPT !.step = "requests", !.byType = Cardinality(AtSite)]
  /\ UNCHANGED tables

\* Slip: all requests are counted.
CountRequestsAnywhere ==
  /\ summary.step = "requests"
  /\ summary' = [summary EXCEPT !.step = "answer",
                   !.requests = [s \in Statuses |-> Cardinality(In({s}))]]
  /\ UNCHANGED tables

\* Query 4: requests JOIN equipment of the site.
CountRequests ==
  /\ summary.step = "requests"
  /\ summary' = [summary EXCEPT !.step = "answer",
                   !.requests = [s \in Statuses |->
                      Cardinality({r \in In({s}) : request[r].equipment \in AtSite})]]
  /\ UNCHANGED tables

AnswerSummary == /\ summary.step = "answer"
                 /\ summary' = NoSummary
                 /\ UNCHANGED tables

SummaryStep == \/ \E s \in Sites : StartSummary(s)
               \/ CountEquipment \/ CountByStatus \/ CountByType \/ CountRequests
               \/ AnswerSummary
=============================================================================
