-------------------------- MODULE RequestIsolation --------------------------
(***************************************************************************)
(* RequestWorkflow with a record of who was in whose way.  Many handlers   *)
(* run at once; one that never met another handler of its own request      *)
(* must behave as if it had been alone, whatever happens elsewhere and     *)
(* whatever happened before.  No action reads the history variable.        *)
(***************************************************************************)
EXTENDS RequestProperties

VARIABLE disturbed   \* handlers that met another handler of the same request

isolationVars == <<vars, disturbed>>

IsolatedInit == Init /\ disturbed = {}

\* p and q work on one request, in the state that a step leads to.
Meet(p, q) == /\ p # q
              /\ ~ At(p, "idle")'
              /\ ~ At(q, "idle")'
              /\ job'[p].id = job'[q].id
              /\ job'[p].id # Null

\* Whoever was disturbed stays so until it answers.
Observe == disturbed' = {p \in Procs : /\ ~ At(p, "idle")'
                                       /\ p \in disturbed \/ \E q \in Procs : Meet(p, q)}

IsolatedNext == Next /\ Observe

IsolatedSpec == IsolatedInit /\ [][IsolatedNext]_isolationVars

-----------------------------------------------------------------------------

\* This step answers the call of p.
Answers(p) == ~ At(p, "idle") /\ At(p, "idle")'

\* A handler nobody disturbed keeps the workflow of RequestContract: transitions of
\* ALLOWED_TRANSITIONS only, no work without a brigade, one lead, a brigade replaced
\* as a whole.  What updateStatus and setAssignees check before their transactions
\* is therefore enough exactly as long as nobody comes between.
UndisturbedKeepsContract ==
  [][\A p \in Procs \ disturbed :
       Answers(p) => Contract!ContractNext \/ UNCHANGED tables]_isolationVars

\* An answer 200 without a body needs somebody who deleted the request meanwhile.
EmptyOnlyIfDisturbed == \A p \in Procs : At(p, "empty") => p \in disturbed
=============================================================================
