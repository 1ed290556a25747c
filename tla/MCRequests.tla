----------------------------- MODULE MCRequests -----------------------------
(* Small contents of the database at start, and symmetries, for TLC. *)
EXTENDS RequestIsolation, TLC

CONSTANT e1

SeedRow(s, h, b) == [status |-> s, equipmentId |-> e1, history |-> h, brigade |-> b]

Lead(t)   == [technicianId |-> t, role |-> "lead"]
Member(t) == [technicianId |-> t, role |-> "member"]

\* An empty database.
NoSeeds == {}

\* Rows such as the demo seeders and the legacy import leave: no history, one
\* entry, a jump; a brigade or none.
DemoSeeds ==
  {SeedRow("new", <<>>, {})}
  \cup {SeedRow("in_progress", <<>>, {Lead(t)}) : t \in Technicians}
  \cup {SeedRow("done", <<[prev |-> Null, new |-> "done"]>>, {Lead(t)}) : t \in Technicians}
  \cup {SeedRow("done", <<[prev |-> Null, new |-> "new"], [prev |-> "new", new |-> "done"]>>,
                {Lead(t)} \cup {Member(u) : u \in Technicians \ {t}}) : t \in Technicians}

SymAll == Permutations(Procs) \cup Permutations(Technicians) \cup Permutations(Requests)
=============================================================================
