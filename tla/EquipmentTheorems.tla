-------------------------- MODULE EquipmentTheorems --------------------------
(***************************************************************************)
(* What is proved of EquipmentRegistry for any number of handlers, rows,   *)
(* serial numbers and values.                                              *)
(***************************************************************************)
EXTENDS EquipmentRegistry, TLAPS

\* The id of a row about to be inserted is no row's yet, and no other handler has it:
\* without this an INSERT could overwrite a row, and its serial number with it.
FreshId ==
  \A p \in Procs : At(p, "insert") => /\ there[job[p].id] = "unborn"
                                      /\ \A q \in Procs \ {p} : job[q].id # job[p].id

IInv == TypeOK /\ FreshId /\ UniqueSerial

\* What item.update leaves in the row.
Saved(j, old) ==
  [f \in Fields |-> IF f \in Changed(j.seen, j.patch)
                      THEN IF j.patch[f] = Null THEN j.seen[f] ELSE j.patch[f]
                      ELSE old[f]]

-----------------------------------------------------------------------------
\* A column is written with the value that the body has for it, and is otherwise
\* what it was.
LEMMA SavedColumn ==
  ASSUME NEW j, NEW old, NEW f \in Fields
  PROVE  Saved(j, old)[f] # old[f] => j.patch[f] # Null /\ Saved(j, old)[f] = j.patch[f]
  BY DEF Saved, Changed

\* The row that item.update leaves is a row.
LEMMA SavedIsRow ==
  ASSUME NEW j \in Job, NEW old \in Row
  PROVE  Saved(j, old) \in Row
<1> DEFINE new == Saved(j, old)
<1>1. new["serial"] \in Serials
  BY SavedColumn, NullAssumption DEF Fields, Row, Job, Patch
<1>2. new["rest"] \in Values
  BY SavedColumn, NullAssumption DEF Fields, Row, Job, Patch
<1>3. new = [serial |-> new["serial"], rest |-> new["rest"]]
  BY DEF Saved, Fields
<1> QED
  BY <1>1, <1>2, <1>3 DEF Row

\* The invariant holds at the start, with or without seeded rows.
LEMMA InitHolds == Init => IInv
  BY NullAssumption DEF Init, IInv, TypeOK, FreshId, UniqueSerial, SerialTaken, At, Idle, Job,
                        Steps, NoPatch, Patch, Row

-----------------------------------------------------------------------------
\* The moves of a handler.

\* A handler that begins to create, with an id that nobody has.
LEMMA CreateKeeps ==
  ASSUME IInv, NEW p \in Procs, NEW e \in Equipment, NEW new \in Row, StartCreate(p, e, new)
  PROVE  IInv'
<1> DEFINE j == [Idle EXCEPT !.step = "insert", !.id = e, !.patch = new]
<1>1. /\ TypeOK /\ FreshId /\ UniqueSerial
      /\ there' = there /\ row' = row
      /\ job' = [job EXCEPT ![p] = j]
      /\ there[e] = "unborn"
      /\ \A q \in Procs : job[q].id # e
  BY DEF IInv, StartCreate, Begin, Become, tables
<1>2. j \in Job /\ j.id = e /\ j.patch \in Row /\ j.step = "insert"
  BY DEF Idle, Job, Steps, Row, Patch, NoPatch
<1> HIDE DEF j
<1>3. TypeOK'
  BY <1>1, <1>2 DEF TypeOK, At
<1>4. FreshId'
  BY <1>1, <1>2 DEF TypeOK, FreshId, At
<1>5. UniqueSerial'
  BY <1>1 DEF UniqueSerial
<1> QED
  BY <1>3, <1>4, <1>5 DEF IInv

\* Any other move, if it leaves the tables well typed and the numbers unique, touches no
\* row but its own, and takes up no id but that of a row.
LEMMA MoveKeeps ==
  ASSUME IInv, NEW p \in Procs, NEW j \in Job,
         Become(p, j),
         j.step # "insert",
         j.step # "idle" => j.id \in Equipment,
         j.step = "save" => j.seen \in Row,
         j.id \in {Null, job[p].id} \/ there[j.id] = "yes",
         there' \in [Equipment -> {"unborn", "yes", "gone"}],
         row' \in [Equipment -> Row],
         \A e \in Equipment \ {job[p].id} : there'[e] = there[e],
         UniqueSerial'
  PROVE  IInv'
<1>0. TypeOK /\ FreshId /\ UniqueSerial
  BY DEF IInv
<1>1. job' = [job EXCEPT ![p] = j]
  BY DEF Become
<1>2. TypeOK'
  BY <1>0, <1>1 DEF TypeOK, At
<1>3. ASSUME NEW q \in Procs, At(q, "insert")'
      PROVE  /\ there'[job'[q].id] = "unborn"
             /\ \A o \in Procs \ {q} : job'[o].id # job'[q].id
  <2>1. q # p /\ job'[q] = job[q] /\ At(q, "insert")
    BY <1>0, <1>1, <1>3 DEF TypeOK, At
  <2>2. /\ there[job[q].id] = "unborn" /\ job[q].id \in Equipment
        /\ \A o \in Procs \ {q} : job[o].id # job[q].id
    BY <1>0, <2>1 DEF TypeOK, FreshId, At
  <2>3. \A o \in Procs \ {p} : job'[o].id = job[o].id
    BY <1>0, <1>1 DEF TypeOK
  <2>4. job'[p].id # job[q].id
    BY <1>0, <1>1, <2>1, <2>2, NullAssumption DEF TypeOK
  <2> QED
    BY <2>1, <2>2, <2>3, <2>4
<1>4. FreshId'
  BY <1>3 DEF FreshId, At
<1> QED
  BY <1>2, <1>4 DEF IInv

\* A step that leaves the tables alone.
LEMMA QuietKeeps ==
  ASSUME IInv, NEW p \in Procs, NEW j \in Job,
         Become(p, j), UNCHANGED tables,
         j.step # "insert",
         j.step # "idle" => j.id \in Equipment,
         j.step = "save" => j.seen \in Row,
         j.id \in {Null, job[p].id} \/ there[j.id] = "yes"
  PROVE  IInv'
<1>1. there' = there /\ row' = row /\ TypeOK /\ UniqueSerial
  BY DEF tables, IInv
<1>2. UniqueSerial'
  BY <1>1 DEF UniqueSerial
<1> QED
  BY <1>1, <1>2, MoveKeeps DEF TypeOK

\* The locals of a handler that has answered.
LEMMA IdleIsJob == Idle \in Job /\ Idle.step = "idle" /\ Idle.id = Null
  BY DEF Idle, Job, Steps, NoPatch, Patch

\* An answer that follows a read.
LEMMA AnswerKeeps ==
  ASSUME IInv, NEW p \in Procs, Finish(p), UNCHANGED tables
  PROVE  IInv'
  BY QuietKeeps, IdleIsJob DEF Finish

\* The next statement of the same handler.
LEMMA GotoKeeps ==
  ASSUME IInv, NEW p \in Procs, NEW step \in {"read", "drop"}, Goto(p, step),
         ~ At(p, "idle"), UNCHANGED tables
  PROVE  IInv'
<1> DEFINE j == [job[p] EXCEPT !.step = step]
<1>1. job[p] \in Job /\ job[p].id \in Equipment
  BY DEF IInv, TypeOK
<1>2. j \in Job /\ j.step = step /\ j.id = job[p].id
  BY <1>1 DEF Job, Steps
<1>3. Become(p, j)
  BY DEF Goto
<1> HIDE DEF j
<1> QED
  BY <1>1, <1>2, <1>3, QuietKeeps

-----------------------------------------------------------------------------
\* The statements that write.

\* INSERT: the index refuses a number that is taken, and the id was nobody's.
LEMMA InsertKeeps ==
  ASSUME IInv, NEW p \in Procs, InsertRow(p)
  PROVE  IInv'
<1> DEFINE e == job[p].id
<1>0. TypeOK /\ UniqueSerial /\ e \in Equipment /\ job[p].patch \in Row
  BY DEF IInv, InsertRow, TypeOK, At
<1>1. CASE SerialTaken(job[p].patch.serial, {})
  BY <1>1, AnswerKeeps DEF InsertRow
<1>2. CASE ~ SerialTaken(job[p].patch.serial, {})
  <2>1. /\ there' = [there EXCEPT ![e] = "yes"]
        /\ row' = [row EXCEPT ![e] = job[p].patch]
        /\ Become(p, Idle)
    BY <1>2 DEF InsertRow, Finish
  <2>2. \A f \in Equipment : there[f] = "yes" => row[f].serial # job[p].patch.serial
    BY <1>2 DEF SerialTaken
  <2>3. UniqueSerial'
    BY <1>0, <2>1, <2>2 DEF UniqueSerial, TypeOK
  <2>4. /\ there' \in [Equipment -> {"unborn", "yes", "gone"}]
        /\ row' \in [Equipment -> Row]
        /\ \A f \in Equipment \ {e} : there'[f] = there[f]
    BY <1>0, <2>1 DEF TypeOK
  <2> QED
    BY <2>1, <2>3, <2>4, IdleIsJob, MoveKeeps
<1> QED
  BY <1>1, <1>2

\* UPDATE: the row that is left is Saved, or the row that was there.
LEMMA SaveWrites ==
  ASSUME NEW p \in Procs, SaveRow(p)
  PROVE  \/ UNCHANGED row
         \/ /\ there[job[p].id] = "yes"
            /\ ~ SerialTaken(Saved(job[p], row[job[p].id]).serial, {job[p].id})
            /\ row' = [row EXCEPT ![job[p].id] = Saved(job[p], row[job[p].id])]
  BY DEF SaveRow, Saved

\* So the UPDATE keeps the numbers unique.
LEMMA SaveKeeps ==
  ASSUME IInv, NEW p \in Procs, SaveRow(p)
  PROVE  IInv'
<1> DEFINE e   == job[p].id
           new == Saved(job[p], row[e])
<1>0. TypeOK /\ UniqueSerial /\ e \in Equipment /\ job[p] \in Job /\ row[e] \in Row
  BY DEF IInv, SaveRow, TypeOK, At
<1>1. Finish(p) /\ there' = there
  BY DEF SaveRow
<1>2. CASE UNCHANGED row
  BY <1>1, <1>2, AnswerKeeps DEF tables
<1>3. CASE /\ there[e] = "yes"
           /\ ~ SerialTaken(new.serial, {e})
           /\ row' = [row EXCEPT ![e] = new]
  <2>1. new \in Row
    BY <1>0, SavedIsRow
  <2> HIDE DEF new
  <2>2. \A f \in Equipment \ {e} : there[f] = "yes" => row[f].serial # new.serial
    BY <1>3 DEF SerialTaken
  <2>3. UniqueSerial'
    BY <1>0, <1>1, <1>3, <2>2 DEF UniqueSerial, TypeOK
  <2>4. /\ there' \in [Equipment -> {"unborn", "yes", "gone"}]
        /\ row' \in [Equipment -> Row]
        /\ \A f \in Equipment \ {e} : there'[f] = there[f]
    BY <1>0, <1>1, <1>3, <2>1 DEF TypeOK
  <2> QED
    BY <1>1, <2>3, <2>4, IdleIsJob, MoveKeeps DEF Finish
<1> QED
  BY <1>2, <1>3, SaveWrites

\* DELETE.
LEMMA DropKeeps ==
  ASSUME IInv, NEW p \in Procs, NEW referenced, DropRow(p, referenced)
  PROVE  IInv'
<1> DEFINE e == job[p].id
<1>0. TypeOK /\ UniqueSerial /\ e \in Equipment
  BY DEF IInv, DropRow, TypeOK, At
<1>1. /\ there' = [there EXCEPT ![e] = "gone"] \/ there' = there
      /\ row' = row
      /\ Become(p, Idle)
  BY DEF DropRow, Finish
<1>2. UniqueSerial'
  BY <1>0, <1>1 DEF UniqueSerial, TypeOK
<1>3. /\ there' \in [Equipment -> {"unborn", "yes", "gone"}]
      /\ row' \in [Equipment -> Row]
      /\ \A f \in Equipment \ {e} : there'[f] = there[f]
  BY <1>0, <1>1 DEF TypeOK
<1> QED
  BY <1>1, <1>2, <1>3, IdleIsJob, MoveKeeps

-----------------------------------------------------------------------------

\* A handler that begins an update or a deletion.
LEMMA StartKeeps ==
  ASSUME IInv, NEW p \in Procs, NEW e \in Equipment,
         (\E patch \in Patch : StartUpdate(p, e, patch)) \/ StartDelete(p, e)
  PROVE  IInv'
<1>1. ASSUME NEW patch \in Patch, StartUpdate(p, e, patch) PROVE IInv'
  <2> DEFINE step == IF patch.serial = Null THEN "read" ELSE "find_serial"
             j == [Idle EXCEPT !.step = step, !.id = e, !.patch = patch]
  <2>1. j \in Job /\ j.step = step /\ j.id = e
    BY DEF Idle, Job, Steps, NoPatch, Patch
  <2>2. Become(p, j) /\ there[e] = "yes" /\ UNCHANGED tables
    BY <1>1 DEF StartUpdate, Begin
  <2>3. step \notin {"insert", "save"}
    OBVIOUS
  <2> HIDE DEF j, step
  <2> QED
    BY <2>1, <2>2, <2>3, QuietKeeps
<1>2. ASSUME StartDelete(p, e) PROVE IInv'
  <2> DEFINE j == [Idle EXCEPT !.step = "check_active", !.id = e]
  <2>1. j \in Job /\ j.step = "check_active" /\ j.id = e
    BY DEF Idle, Job, Steps, NoPatch, Patch
  <2>2. Become(p, j) /\ there[e] = "yes" /\ UNCHANGED tables
    BY <1>2 DEF StartDelete, Begin
  <2> HIDE DEF j
  <2> QED
    BY <2>1, <2>2, QuietKeeps
<1> QED
  BY <1>1, <1>2

\* findByPk: what is kept of the row is a row.
LEMMA ReadKeeps ==
  ASSUME IInv, NEW p \in Procs, ReadRow(p)
  PROVE  IInv'
<1>1. CASE there[job[p].id] = "yes"
  <2> DEFINE seen == row[job[p].id]
             j == [job[p] EXCEPT !.step = "save", !.seen = seen]
  <2>1. job[p] \in Job /\ job[p].id \in Equipment /\ seen \in Row
    BY DEF IInv, TypeOK, ReadRow, At
  <2>2. seen \in Patch
    BY <2>1 DEF Row, Patch
  <2> HIDE DEF seen
  <2>3. j \in Job /\ j.step = "save" /\ j.id = job[p].id /\ j.seen = seen
    BY <2>1, <2>2 DEF Job, Steps
  <2>4. Become(p, j) /\ UNCHANGED tables
    BY <1>1 DEF ReadRow, seen
  <2> HIDE DEF j
  <2> QED
    BY <2>1, <2>3, <2>4, QuietKeeps
<1>2. CASE there[job[p].id] # "yes"
  BY <1>2, AnswerKeeps DEF ReadRow
<1> QED
  BY <1>1, <1>2

\* Every statement of every handler keeps the invariant.
LEMMA StepKeeps == IInv /\ [Next]_vars => IInv'
<1> SUFFICES ASSUME IInv, [Next]_vars PROVE IInv'
  OBVIOUS
<1>1. ASSUME UNCHANGED vars PROVE IInv'
  BY <1>1 DEF IInv, TypeOK, FreshId, UniqueSerial, At, vars
<1>2. ASSUME NEW p \in Procs, Start(p) PROVE IInv'
  BY <1>2, CreateKeeps, StartKeeps DEF Start
<1>3. ASSUME NEW p \in Procs, Continue(p) PROVE IInv'
  <2>1. ASSUME FindSerial(p) PROVE IInv'
    BY <2>1, AnswerKeeps, GotoKeeps DEF FindSerial, At
  <2>2. ASSUME NEW b \in BOOLEAN, CheckActive(p, b) PROVE IInv'
    BY <2>2, AnswerKeeps, GotoKeeps DEF CheckActive, At
  <2> QED
    BY <1>3, <2>1, <2>2, InsertKeeps, ReadKeeps, SaveKeeps, DropKeeps DEF Continue
<1>4. ASSUME NEW p \in Procs, DbError(p) PROVE IInv'
  BY <1>4, AnswerKeeps DEF DbError
<1> QED
  BY <1>1, <1>2, <1>3, <1>4 DEF Next, Refuse

\* So it always holds.
LEMMA Inductive == Spec => []IInv
  BY InitHolds, StepKeeps, PTL DEF Spec

-----------------------------------------------------------------------------

\* Rows and handlers of EquipmentService always hold values of their types.
THEOREM TypeCorrect == Spec => []TypeOK
<1>1. IInv => TypeOK
  BY DEF IInv
<1> QED
  BY <1>1, Inductive, PTL

\* Two pieces of equipment never share a serial number, however creates, updates and
\* deletes interleave between their look-up and their write.
THEOREM SerialsUnique == Spec => []UniqueSerial
<1>1. IInv => UniqueSerial
  BY DEF IInv
<1> QED
  BY <1>1, Inductive, PTL

\* A column of a row changes only by the SaveRow of a handler whose body has the value.
LEMMA ChangeHasAuthor ==
  ASSUME IInv, [Next]_vars, NEW e \in Equipment, NEW f \in Fields,
         there[e] = "yes", row'[e][f] # row[e][f]
  PROVE  \E p \in Procs : /\ job[p].id = e
                          /\ At(p, "save") /\ job'[p] = Idle
                          /\ job[p].patch[f] = row'[e][f]
<1>0. TypeOK /\ FreshId
  BY DEF IInv
<1>1. row' # row
  OBVIOUS
<1> PICK p \in Procs : InsertRow(p) \/ SaveRow(p)
  BY <1>1 DEF Next, vars, tables, Start, StartCreate, StartUpdate, StartDelete, Refuse, DbError,
              Continue, FindSerial, ReadRow, CheckActive, DropRow
<1>2. CASE InsertRow(p)
  <2>1. there[job[p].id] = "unborn"
    BY <1>0, <1>2 DEF InsertRow, FreshId
  <2>2. row'[e] = row[e]
    BY <1>0, <1>2, <2>1 DEF InsertRow, TypeOK, tables
  <2> QED
    BY <2>2
<1>3. CASE SaveRow(p)
  <2>1. /\ job[p].id = e
        /\ row'[e] = Saved(job[p], row[e])
    <3>1. row' = [row EXCEPT ![job[p].id] = Saved(job[p], row[job[p].id])]
      BY <1>1, <1>3, SaveWrites
    <3>2. row \in [Equipment -> Row]
      BY <1>0 DEF TypeOK
    <3> QED
      BY <3>1, <3>2
  <2>2. job[p].patch[f] = row'[e][f]
    BY <2>1, SavedColumn
  <2>3. At(p, "save") /\ job'[p] = Idle
    BY <1>0, <1>3 DEF SaveRow, Finish, Become, TypeOK
  <2> QED
    BY <2>1, <2>2, <2>3
<1> QED
  BY <1>2, <1>3

\* Concurrent patches of one row never undo one another: a column changes only to a
\* value that the body of the handler just finishing gives for it (Sequelize writes the
\* columns that differ from the instance it read).
THEOREM NothingLost == Spec => NoLostUpdate
<1> DEFINE A == \A e \in Equipment : \A f \in Fields :
                  there[e] = "yes" /\ row'[e][f] # row[e][f] =>
                    \E p \in Procs : /\ job[p].id = e
                                     /\ At(p, "save") /\ job'[p] = Idle
                                     /\ job[p].patch[f] = row'[e][f]
<1>1. IInv /\ [Next]_vars => [A]_vars
  BY ChangeHasAuthor
<1> QED
  BY <1>1, Inductive, PTL DEF Spec, NoLostUpdate
=============================================================================
