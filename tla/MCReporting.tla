---------------------------- MODULE MCReporting ----------------------------
(* Instances of Reporting for TLC. *)
EXTENDS Reporting

CONSTANTS r1, r2, r3, e1, e2, t1, t2, s1

\* e2 was made by the API and has no site.
SiteOf1 == [e \in {e1, e2} |-> IF e = e1 THEN s1 ELSE Null]

\* Names and types that tell e1 and e2 apart, and some that do not.
OwnLabels == [e \in {e1, e2} |-> IF e = e1 THEN "pump" ELSE "lathe"]
SharedLabels == [e \in {e1, e2} |-> "pump"]

Hours1 == [t \in {t1, t2} |-> IF t = t1 THEN 1 ELSE 2]

Row(s, e) == [status |-> s, equipment |-> e, late |-> TRUE, crew |-> {t1, t2}]

\* One request done and one in progress; one equipment, whose request is gone.
InitialRows1 == {[kit |-> [e \in {e1, e2} |-> "here"],
                  request |-> [r \in {r1, r2} |-> IF r = r1 THEN Row("done", e1)
                                                  ELSE Row("in_progress", e2)]],
                 [kit |-> [e \in {e1, e2} |-> IF e = e1 THEN "here" ELSE "unborn"],
                  request |-> [r \in {r1, r2} |-> IF r = r1 THEN NoRequest
                                                  ELSE [NoRequest EXCEPT !.status = "gone"]]]}

\* Two requests of e1 and one of e2 are active.
InitialRows2 == {[kit |-> [e \in {e1, e2} |-> "here"],
                  request |-> [r \in {r1, r2, r3} |-> Row("in_progress", IF r = r3 THEN e2 ELSE e1)]]}

Crews1 == {{t1}}
=============================================================================
