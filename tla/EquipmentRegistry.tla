------------------------- MODULE EquipmentRegistry -------------------------
(***************************************************************************)
(* EquipmentService with EquipmentRepository under it: the operations that *)
(* write the equipment table.  None runs in a transaction: each reads,     *)
(* checks what it read, and writes in a later statement.                   *)
(*                                                                         *)
(* A definition whose comment begins with "Slip:" is a mistake somebody    *)
(* could make in the definition after it; the specification uses none.     *)
(***************************************************************************)
CONSTANTS Procs,      \* handlers in flight
          Equipment,  \* ids of equipment rows
          Serials,    \* serial numbers
          Values,     \* contents of the other columns, taken together
          Null

VARIABLES there,      \* "unborn", "yes" or "gone", for each id
          row,        \* serialNumber and rest of each row
          job         \* step and locals of a handler

tables == <<there, row>>
vars   == <<there, row, job>>

ASSUME NullAssumption == Null \notin Equipment \cup Serials \cup Values

Fields == {"serial", "rest"}
Row    == [serial : Serials, rest : Values]
Patch  == [serial : Serials \cup {Null}, rest : Values \cup {Null}]   \* Null: not in the body
NoPatch == [serial |-> Null, rest |-> Null]

Steps == {"idle", "insert", "find_serial", "read", "save", "check_active", "drop"}

\* seen is the instance that findByPk returned.
Job == [step : Steps, id : Equipment \cup {Null}, patch : Patch, seen : Patch]

Idle == [step |-> "idle", id |-> Null, patch |-> NoPatch, seen |-> NoPatch]

SerialTaken(s, besides) ==
  \E e \in Equipment \ besides : there[e] = "yes" /\ row[e].serial = s

\* Nothing registered yet, or seeded rows with serial numbers of their own.
Init == /\ there \in [Equipment -> {"unborn", "yes"}]
        /\ row \in [Equipment -> Row]
        /\ \A e \in Equipment : there[e] = "yes" => ~ SerialTaken(row[e].serial, {e})
        /\ job = [p \in Procs |-> Idle]

-----------------------------------------------------------------------------

At(p, step) == job[p].step = step
Become(p, j) == job' = [job EXCEPT ![p] = j]
Goto(p, step) == Become(p, [job[p] EXCEPT !.step = step])
Begin(p, j) == At(p, "idle") /\ Become(p, j)
Finish(p) == Become(p, Idle)

-----------------------------------------------------------------------------
\* POST /equipment

\* No row has the serial number; the id is a new UUID.
StartCreate(p, e, new) ==
  /\ there[e] = "unborn"
  /\ \A q \in Procs : job[q].id # e
  /\ ~ SerialTaken(new.serial, {})
  /\ Begin(p, [Idle EXCEPT !.step = "insert", !.id = e, !.patch = new])
  /\ UNCHANGED tables

\* Slip: the table has no unique index.
InsertUnindexed(p) ==
  /\ At(p, "insert")
  /\ there' = [there EXCEPT ![job[p].id] = "yes"]
  /\ row' = [row EXCEPT ![job[p].id] = job[p].patch]
  /\ Finish(p)

\* A serial number taken meanwhile violates the unique index: 409.
InsertRow(p) ==
  /\ At(p, "insert")
  /\ LET e == job[p].id
     IN IF SerialTaken(job[p].patch.serial, {})
          THEN UNCHANGED tables
          ELSE /\ there' = [there EXCEPT ![e] = "yes"]
               /\ row' = [row EXCEPT ![e] = job[p].patch]
  /\ Finish(p)

-----------------------------------------------------------------------------
\* PATCH /equipment/:id

StartUpdate(p, e, patch) ==
  /\ there[e] = "yes"
  /\ Begin(p, [Idle EXCEPT !.step = IF patch.serial = Null THEN "read" ELSE "find_serial",
                           !.id = e, !.patch = patch])
  /\ UNCHANGED tables

\* findBySerialNumber: 409 if another row has the number.
FindSerial(p) ==
  /\ At(p, "find_serial")
  /\ IF SerialTaken(job[p].patch.serial, {job[p].id}) THEN Finish(p) ELSE Goto(p, "read")
  /\ UNCHANGED tables

\* Slip: the null of a row that is gone is not checked.
ReadUnchecked(p) ==
  /\ At(p, "read")
  /\ Become(p, [job[p] EXCEPT !.step = "save",
                 !.seen = IF there[job[p].id] = "yes" THEN row[job[p].id] ELSE NoPatch])
  /\ UNCHANGED tables

\* findByPk; the row may be gone, and then update returns null and the answer is 200.
ReadRow(p) ==
  /\ At(p, "read")
  /\ IF there[job[p].id] = "yes"
       THEN Become(p, [job[p] EXCEPT !.step = "save", !.seen = row[job[p].id]])
       ELSE Finish(p)
  /\ UNCHANGED tables

\* Slip: the instance is written back as a whole.
Touched(seen, patch) == Fields

\* The columns an UPDATE writes: those of the patch that differ from what was read.
Changed(seen, patch) == {f \in Fields : patch[f] \notin {Null, seen[f]}}

\* item.update(patch).  No column differs: no statement.  The row is gone: UPDATE
\* changes nothing and the answer still shows it.  The number is taken: 409.
SaveRow(p) ==
  /\ At(p, "save")
  /\ LET e == job[p].id
         written == Changed(job[p].seen, job[p].patch)
         value(f) == IF job[p].patch[f] = Null THEN job[p].seen[f] ELSE job[p].patch[f]
         new == [f \in Fields |-> IF f \in written THEN value(f) ELSE row[e][f]]
     IN IF there[e] = "yes" /\ ~ SerialTaken(new.serial, {e})
          THEN row' = [row EXCEPT ![e] = new]
          ELSE UNCHANGED row
  /\ Finish(p)
  /\ UNCHANGED there

-----------------------------------------------------------------------------
\* DELETE /equipment/:id

StartDelete(p, e) ==
  /\ there[e] = "yes"
  /\ Begin(p, [Idle EXCEPT !.step = "check_active", !.id = e])
  /\ UNCHANGED tables

\* findActiveByEquipmentId: what requests there are is the matter of RequestWorkflow.
CheckActive(p, active) ==
  /\ At(p, "check_active")
  /\ IF active THEN Finish(p) ELSE Goto(p, "drop")
  /\ UNCHANGED tables

\* The row goes, unless a foreign key refuses; a second DELETE finds nothing.
DropRow(p, referenced) ==
  /\ At(p, "drop")
  /\ IF there[job[p].id] = "yes" /\ ~ referenced
       THEN there' = [there EXCEPT ![job[p].id] = "gone"]
       ELSE UNCHANGED there
  /\ Finish(p)
  /\ UNCHANGED row

-----------------------------------------------------------------------------

\* Refused at the first read or before it: 400, 401, 403, 404, 409.
Refuse(p) == At(p, "idle") /\ UNCHANGED vars

\* A statement fails: 500.
DbError(p) == ~ At(p, "idle") /\ Finish(p) /\ UNCHANGED tables

Start(p) == \E e \in Equipment : \/ \E new \in Row : StartCreate(p, e, new)
                                 \/ \E patch \in Patch : StartUpdate(p, e, patch)
                                 \/ StartDelete(p, e)

Continue(p) == \/ InsertRow(p) \/ FindSerial(p) \/ ReadRow(p) \/ SaveRow(p)
               \/ \E b \in BOOLEAN : CheckActive(p, b) \/ DropRow(p, b)

Next == \E p \in Procs : Start(p) \/ Refuse(p) \/ Continue(p) \/ DbError(p)

Spec == Init /\ [][Next]_vars

-----------------------------------------------------------------------------

\* Rows and handlers hold values of their types, and a handler has the id, the
\* whole row or the instance it works with (equipment.service.js).
TypeOK == /\ there \in [Equipment -> {"unborn", "yes", "gone"}]
          /\ row \in [Equipment -> Row]
          /\ job \in [Procs -> Job]
          /\ \A p \in Procs : /\ ~ At(p, "idle") => job[p].id \in Equipment
                              /\ At(p, "insert") => job[p].patch \in Row
                              /\ At(p, "save") => job[p].seen \in Row

\* Two pieces of equipment never have one serial number, although create and update
\* look for it long before they write.
UniqueSerial ==
  \A e, f \in Equipment : there[e] = "yes" /\ there[f] = "yes" /\ row[e].serial = row[f].serial
                             => e = f

\* No update is lost: a column of a row changes only through a handler whose body
\* has that column with that value, so that patches of different columns both stay.
NoLostUpdate ==
  [][\A e \in Equipment : \A f \in Fields :
       there[e] = "yes" /\ row'[e][f] # row[e][f] =>
         \E p \in Procs : /\ job[p].id = e
                          /\ At(p, "save") /\ job'[p] = Idle
                          /\ job[p].patch[f] = row'[e][f]]_vars
=============================================================================
