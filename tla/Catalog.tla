------------------------------- MODULE Catalog -------------------------------
(***************************************************************************)
(* The catalogs a timetable refers to (groups and their subgroups, subjects, *)
(* buildings, classrooms), the upload of a timetable, whose lines name       *)
(* catalog entries and are resolved against a snapshot of them, and the      *)
(* blocks written by hand, whose subgroup is a text nobody looks up.         *)
(*                                                                          *)
(* All four catalogs are one table here.  An entry has a name and may belong *)
(* to another one: a classroom to a building, a group to its parent.         *)
(*                                                                          *)
(* Every statement commits on its own and the statements of different        *)
(* requests interleave.  A request is served once; the entry it creates is   *)
(* named after it.                                                          *)
(*                                                                          *)
(* Teachers are in Accounts, and the search for collisions, statement by     *)
(* statement, in Schedule; so is what a block's times must be.  Grades, divisions, descriptions and the layout   *)
(* of a file are left out: a line that cannot be parsed is one that names    *)
(* nothing.                                                                  *)
(***************************************************************************)
EXTENDS Integers, FiniteSets, Sequences

CONSTANTS
  Requests,
  Entries,     \* the entries at the start
  Names,
  KeyOf,       \* names differing in case only have the same key
  Times,       \* a day and hour
  Scenarios,   \* the entries and blocks at the start, and what each request then asks for
  NoRow, Whole \* no such entry; no subgroup

Ids == Requests \cup Entries
Kinds == {"group", "subject", "building", "classroom"}
Rows == [kind : Kinds, name : Names, of : Ids \cup {NoRow}]
\* A block has an id (who inserted it, and where and when it was: no request
\* inserts two at once there) and who wrote it last.
SlotIds == (Requests \cup {NoRow}) \X Ids \X Times
Blocks == [id : SlotIds, by : Requests \cup {NoRow}, subject : Ids, room : Ids, group : Ids,
           sub : Names \cup {Whole}, time : Times]
Lines == [subject : Names, building : Names, room : Names, group : Names,
          sub : Names \cup {Whole}, time : Times]
\* What the mutations of each catalog may ask for.
GroupInputs == [kind : {"group"}, name : Names, of : Ids \cup {NoRow}]
SubjectInputs == [kind : {"subject"}, name : Names, of : {NoRow}]
BuildingInputs == [kind : {"building"}, name : Names, of : {NoRow}]
ClassroomInputs == [kind : {"classroom"}, name : Names, of : Ids \cup {NoRow}]
Inputs == GroupInputs \cup SubjectInputs \cup BuildingInputs \cup ClassroomInputs
\* What is asked for a block, and which of it an update may leave as it is: not the
\* subgroup, which is cleared unless it is given again.
SlotInputs == [subject : Ids, room : Ids, group : Ids, sub : Names \cup {Whole}, time : Times,
               overwrite : BOOLEAN]
SlotFields == {"subject", "room", "group", "time"}
Operations ==
  [kind : {"create"}, row : {NoRow}, new : Inputs] \cup [kind : {"update"}, row : Entries, new : Inputs]
    \cup [kind : {"delete"}, row : Entries] \cup [kind : {"upload"}, file : SUBSET Lines]
    \cup [kind : {"createSlots"}, slots : Seq(SlotInputs) \ {<<>>}]
    \cup [kind : {"updateSlot"}, id : SlotIds, fields : SUBSET SlotFields, slot : SlotInputs]

\* What may belong to what.
Belonging == {<<"group", "group">>, <<"classroom", "building">>}
\* The constraints of the tables hold of a scenario, its groups form a forest, and
\* whatever a block names is there.
Consistent(s) ==
  /\ s.row \in [Entries -> Rows \cup {NoRow}]
  /\ s.blocks \subseteq Blocks
  /\ s.operations \in [Requests -> Operations]
  /\ \A e, f \in Entries : s.row[e] # NoRow /\ s.row[e] = s.row[f] => e = f
  /\ \A e \in Entries : s.row[e] # NoRow =>
       /\ s.row[e].of # NoRow => /\ s.row[e].of \in Entries /\ s.row[s.row[e].of] # NoRow
                                 /\ <<s.row[e].kind, s.row[s.row[e].of].kind>> \in Belonging
       /\ s.row[e].kind = "classroom" => s.row[e].of # NoRow
       /\ \A r \in Requests : s.operations[r].kind = "update" /\ s.operations[r].row = e
            => s.operations[r].new.kind = s.row[e].kind
  /\ \A C \in (SUBSET Entries) \ {{}} : \E e \in C : s.row[e] = NoRow \/ s.row[e].of \notin C
  /\ \A b, c \in s.blocks : b.id = c.id => b = c
  /\ \A b \in s.blocks :
       /\ b.id[1] = NoRow /\ b.by = NoRow
       /\ {b.subject, b.room, b.group} \subseteq {e \in Entries : s.row[e] # NoRow}
       /\ s.row[b.subject].kind = "subject" /\ s.row[b.room].kind = "classroom"
       /\ s.row[b.group].kind = "group"
       /\ b.sub # Whole => \E e \in Entries : s.row[e] = [kind |-> "group", name |-> b.sub, of |-> b.group]
ASSUME ScenariosAssumption == \A s \in Scenarios : Consistent(s)
ASSUME NothingAssumption ==
  NoRow \notin Ids \cup Rows \cup Blocks /\ Whole \notin Names /\ Requests \cap Entries = {}
ASSUME KeyOfAssumption == DOMAIN KeyOf = Names
ASSUME FiniteAssumption == IsFiniteSet(Ids)

VARIABLES
  row,     \* groups, subjects, buildings and classrooms
  blocks,  \* schedule_slots
  job      \* progress of each request

db == <<row, blocks>>
vars == <<db, job>>
-----------------------------------------------------------------------------
Exists(e) == row[e] # NoRow
Like(v) == {e \in Ids : row[e] = v}

IsA(e, kind) == e # NoRow /\ Exists(e) /\ row[e].kind = kind

\* What refers to an entry: a block belongs to a group and names a subgroup.
\* (mutated form: subgroups are not looked for)
GroupInUseWhole(e) == \E b \in blocks : b.group = e
GroupInUse(e) == \E b \in blocks : b.group = e \/ (b.group = row[e].of /\ b.sub = row[e].name)
SubjectInUse(e) == \E b \in blocks : b.subject = e
ClassroomInUse(e) == \E b \in blocks : b.room = e
BuildingInUse(e) == \E c \in Ids : IsA(c, "classroom") /\ row[c].of = e
\* (mutated form: nothing is)
NotInUse(e) == FALSE
InUse(e) ==
  \/ IsA(e, "group") /\ GroupInUse(e)
  \/ IsA(e, "subject") /\ SubjectInUse(e)
  \/ IsA(e, "classroom") /\ ClassroomInUse(e)
  \/ IsA(e, "building") /\ BuildingInUse(e)

First(op) ==
  CASE op.kind = "create" -> "find" [] op.kind = "update" -> "update.read"
    [] op.kind = "delete" -> "delete.count" [] op.kind = "upload" -> "upload.read"
    [] op.kind = "createSlots" -> "slot.subject" [] OTHER -> "slot.read"

\* A request: its next statement, the ancestor to be read and those that were,
\* the catalogs still to be read, what was read of them, and the blocks to insert;
\* which of the blocks given by hand it is at, and the block to be updated.
At(op, pc) ==
  [op |-> op, pc |-> pc, at |-> NoRow, seen |-> {},
   unread |-> IF op.kind = "upload" /\ pc # "done" THEN Kinds ELSE {},
   index |-> [e \in Ids |-> NoRow], new |-> {}, n |-> 1, old |-> NoRow]
InService(r) == job[r].pc # "done" /\ job[r] # At(job[r].op, First(job[r].op))

Goto(r, pc) ==
  job' = [job EXCEPT ![r] = IF pc = "done" THEN At(@.op, pc) ELSE [@ EXCEPT !.pc = pc]]
Check(r, pc, test, next) ==
  /\ job[r].pc = pc
  /\ Goto(r, IF test THEN next ELSE "done")
  /\ UNCHANGED db
-----------------------------------------------------------------------------
\* Create and update.  The entry is read, then one like it looked for; the new
\* parent of a group and its ancestors are read one by one: the group must not
\* be among them.
Approve(r) ==
  LET p == IF job[r].op.new.kind = "group" THEN job[r].op.new.of ELSE NoRow
  IN  job' = [job EXCEPT ![r].pc = IF p = NoRow THEN "write" ELSE "walk", ![r].at = p]
Find(r, kind, complete) ==
  /\ job[r].pc \in {"update.read", "find"} /\ job[r].op.new.kind = kind
  /\ \/ Check(r, "update.read", Exists(job[r].op.row), "find")
     \/ /\ job[r].pc = "find"
        /\ IF complete /\ Like(job[r].op.new) \subseteq {job[r].op.row} THEN Approve(r) ELSE Goto(r, "done")
        /\ UNCHANGED db

\* (mutated forms: only the parent is compared; a cycle is not noticed)
ValidateParent(r) ==
  LET a == job[r].at
  IN  /\ job[r].pc = "walk"
      /\ Goto(r, IF Exists(a) /\ a # job[r].op.row THEN "write" ELSE "done")
      /\ UNCHANGED db
ValidateParentForgetful(r) ==
  LET a == job[r].at
  IN  /\ job[r].pc = "walk"
      /\ IF Exists(a) /\ a # job[r].op.row
         THEN job' = [job EXCEPT ![r].at = row[a].of,
                                 ![r].pc = IF row[a].of = NoRow THEN "write" ELSE "walk"]
         ELSE Goto(r, "done")
      /\ UNCHANGED db
ValidateParentLink(r) ==
  LET a == job[r].at
  IN  /\ job[r].pc = "walk"
      /\ IF a \notin job[r].seen /\ Exists(a) /\ a # job[r].op.row
         THEN job' = [job EXCEPT ![r].seen = @ \cup {a}, ![r].at = row[a].of,
                                 ![r].pc = IF row[a].of = NoRow THEN "write" ELSE "walk"]
         ELSE Goto(r, "done")
      /\ UNCHANGED db

\* The statement fails unless its name is UNIQUE within parent or building and
\* what it refers to exists; a row that is updated (read once more) must exist.
Put(r, kind, refers) ==
  LET v == job[r].op.new
      e == IF job[r].op.kind = "create" THEN r ELSE job[r].op.row
  IN  /\ job[r].pc = "write" /\ v.kind = kind
      /\ row' = IF (e = r \/ Exists(e)) /\ Like(v) \subseteq {e} /\ refers THEN [row EXCEPT ![e] = v] ELSE row
      /\ Goto(r, "done")
      /\ UNCHANGED blocks
PutGroup(r) == Put(r, "group", job[r].op.new.of # NoRow => IsA(job[r].op.new.of, "group"))
PutSubject(r) == Put(r, "subject", TRUE)
PutBuilding(r) == Put(r, "building", TRUE)
PutClassroom(r) == Put(r, "classroom", IsA(job[r].op.new.of, "building"))

EditGroup(r) == Find(r, "group", TRUE) \/ ValidateParentLink(r) \/ PutGroup(r)
EditSubject(r) == Find(r, "subject", TRUE) \/ PutSubject(r)
EditBuilding(r) == Find(r, "building", TRUE) \/ PutBuilding(r)
EditClassroom(r) == Find(r, "classroom", job[r].op.new.of # NoRow) \/ PutClassroom(r)
-----------------------------------------------------------------------------
\* Deletion.  What is in use is looked for (twice if a group is); then the DELETE
\* fails if the entry is in use (RESTRICT, and a trigger for subgroups), and
\* makes subgroups groups (SET NULL), unless a group has the name.
Orphaned(e) == [f \in Ids |-> IF f = e THEN NoRow
                              ELSE IF Exists(f) /\ row[f].of = e THEN [row[f] EXCEPT !.of = NoRow]
                              ELSE row[f]]
DeleteEntry(r) ==
  LET e == job[r].op.row
  IN  \/ Check(r, "delete.count", ~InUse(e), "delete.row")
      \/ /\ job[r].pc = "delete.row"
         /\ row' = IF ~Exists(e) \/ InUse(e)
                      \/ \E f, g \in Ids : f # g /\ Orphaned(e)[f] = Orphaned(e)[g] /\ Orphaned(e)[f] # NoRow
                   THEN row ELSE Orphaned(e)
         /\ Goto(r, "done")
         /\ UNCHANGED blocks

\* A block is removed from the timetable.
Remove(b) == blocks' = blocks \ {b} /\ UNCHANGED <<row, job>>
-----------------------------------------------------------------------------
\* The upload.  The catalogs are read at the same time, in any order.
ReadCatalog(r, kind) ==
  /\ job[r].pc = "upload.read" /\ kind \in job[r].unread
  /\ job' = [job EXCEPT ![r].unread = @ \ {kind},
       ![r].index = [e \in Ids |-> IF Exists(e) /\ row[e].kind = kind THEN row[e] ELSE @[e]]]
  /\ UNCHANGED db

\* The entries a line may mean; of several with the same key the index keeps one.
Named(index, kind, name, of) ==
  {e \in Ids : index[e] # NoRow /\ index[e].kind = kind
                 /\ KeyOf[index[e].name] = KeyOf[name] /\ index[e].of = of}
Subgroups(index, line, g) ==
  IF line.sub = Whole THEN {Whole} ELSE {index[h].name : h \in Named(index, "group", line.sub, g)}
\* (mutated form: rooms are looked up by their name only)
MeaningsAnywhere(r, line) ==
  LET ix == job[r].index
  IN  UNION {{[id |-> <<r, c, line.time>>, by |-> r, subject |-> s, room |-> c, group |-> g,
               sub |-> n, time |-> line.time] : n \in Subgroups(ix, line, g)} :
             s \in Named(ix, "subject", line.subject, NoRow),
             g \in Named(ix, "group", line.group, NoRow),
             c \in UNION {Named(ix, "classroom", line.room, b) : b \in Ids}}
Meanings(r, line) ==
  LET ix == job[r].index
  IN  UNION {{[id |-> <<r, c, line.time>>, by |-> r, subject |-> s, room |-> c, group |-> g,
               sub |-> n, time |-> line.time] : n \in Subgroups(ix, line, g)} :
             s \in Named(ix, "subject", line.subject, NoRow),
             g \in Named(ix, "group", line.group, NoRow),
             c \in UNION {Named(ix, "classroom", line.room, b) :
                          b \in Named(ix, "building", line.building, NoRow)}}

Collide(a, b) ==
  /\ a.time = b.time
  /\ \/ a.room = b.room
     \/ a.group = b.group /\ (a.sub = b.sub \/ Whole \in {a.sub, b.sub})

\* Lines with an unknown name are reported and left out; the others are
\* refused together if two of them collide.
Resolve(r) ==
  LET good == {line \in job[r].op.file : Meanings(r, line) # {}}
  IN  /\ job[r].pc = "upload.read" /\ job[r].unread = {}
      /\ \E m \in [good -> UNION {Meanings(r, line) : line \in good}] :
           /\ \A line \in good : m[line] \in Meanings(r, line)
           /\ IF good # {} /\ \A l, k \in good : l # k => ~Collide(m[l], m[k])
              THEN job' = [job EXCEPT ![r].pc = "upload.overwrite", ![r].new = {m[line] : line \in good}]
              ELSE Goto(r, "done")
      /\ UNCHANGED db

\* What collides with the new blocks is deleted; then they are inserted, all
\* with one statement, which fails if what they refer to is gone.
Overwrite(r) ==
  LET hit == {b \in blocks : \E a \in job[r].new : Collide(a, b)}
  IN  /\ job[r].pc = "upload.overwrite"
      /\ IF hit = {} THEN Goto(r, "upload.insert") /\ UNCHANGED db
         ELSE \E b \in hit : blocks' = blocks \ {b} /\ UNCHANGED <<row, job>>
\* (mutated form: lines that were left out are noticed here)
InsertComplete(r) ==
  /\ job[r].pc = "upload.insert"
  /\ blocks' = IF (\A b \in job[r].new : Exists(b.subject) /\ Exists(b.room) /\ Exists(b.group))
                    /\ Cardinality(job[r].new) = Cardinality(job[r].op.file)
               THEN blocks \cup job[r].new ELSE blocks
  /\ Goto(r, "done")
  /\ UNCHANGED row
InsertBlocks(r) ==
  /\ job[r].pc = "upload.insert"
  /\ blocks' = IF \A b \in job[r].new : Exists(b.subject) /\ Exists(b.room) /\ Exists(b.group)
               THEN blocks \cup job[r].new ELSE blocks
  /\ Goto(r, "done")
  /\ UNCHANGED row
-----------------------------------------------------------------------------
\* Blocks written by hand.  Subject, room and group are looked up by their ids,
\* one by one; the subgroup is not.  Then what collides is deleted or refused,
\* before the next block is looked at.
Merged(old, op) ==
  [subject |-> IF "subject" \in op.fields THEN op.slot.subject ELSE old.subject,
   room |-> IF "room" \in op.fields THEN op.slot.room ELSE old.room,
   group |-> IF "group" \in op.fields THEN op.slot.group ELSE old.group,
   time |-> IF "time" \in op.fields THEN op.slot.time ELSE old.time,
   sub |-> op.slot.sub, overwrite |-> FALSE]
Slots(r) == IF job[r].op.kind = "updateSlot" THEN <<Merged(job[r].old, job[r].op)>> ELSE job[r].op.slots
Slot(r) == Slots(r)[job[r].n]

ReadSlot(r) ==
  /\ job[r].pc = "slot.read"
  /\ \/ \E b \in blocks : /\ b.id = job[r].op.id
                          /\ job' = [job EXCEPT ![r].pc = "slot.subject", ![r].old = b]
     \/ (\A b \in blocks : b.id # job[r].op.id) /\ Goto(r, "done")
  /\ UNCHANGED db
EnsureDependencies(r) ==
  \/ Check(r, "slot.subject", IsA(Slot(r).subject, "subject"), "slot.room")
  \/ Check(r, "slot.room", IsA(Slot(r).room, "classroom"), "slot.group")
  \/ Check(r, "slot.group", IsA(Slot(r).group, "group"), "slot.collide")
\* After the last block: two of them that collide are noticed only now.
HandleCollisions(r) ==
  LET hit == {b \in blocks : Collide(Slot(r), b) /\ (job[r].old # NoRow => b.id # job[r].old.id)}
  IN  /\ job[r].pc = "slot.collide"
      /\ IF hit # {} /\ Slot(r).overwrite
         THEN \E b \in hit : blocks' = blocks \ {b} /\ UNCHANGED <<row, job>>
         ELSE /\ UNCHANGED db
              /\ IF hit # {} THEN Goto(r, "done")
                 ELSE IF job[r].n < Len(Slots(r))
                 THEN job' = [job EXCEPT ![r].pc = "slot.subject", ![r].n = @ + 1]
                 ELSE Goto(r, IF \A i, j \in DOMAIN Slots(r) : i # j => ~Collide(Slots(r)[i], Slots(r)[j])
                              THEN "slot.write" ELSE "done")
\* One statement writes them all, and fails if what they refer to is gone, or the
\* block to be updated.
Given(r) ==
  {[id |-> IF job[r].op.kind = "updateSlot" THEN job[r].op.id ELSE <<r, s.room, s.time>>, by |-> r,
    subject |-> s.subject, room |-> s.room, group |-> s.group, sub |-> s.sub, time |-> s.time] :
      s \in {Slots(r)[i] : i \in DOMAIN Slots(r)}}
WriteSlots(r) ==
  /\ job[r].pc = "slot.write"
  /\ blocks' = IF /\ \A b \in Given(r) : IsA(b.subject, "subject") /\ IsA(b.room, "classroom") /\ IsA(b.group, "group")
                  /\ job[r].op.kind = "updateSlot" => \E b \in blocks : b.id = job[r].op.id
               THEN {b \in blocks : \A w \in Given(r) : b.id # w.id} \cup Given(r) ELSE blocks
  /\ Goto(r, "done")
  /\ UNCHANGED row
-----------------------------------------------------------------------------
\* A statement fails, or the server stops.
Fails(r) == job[r].pc # "done" /\ Goto(r, "done") /\ UNCHANGED db

Init ==
  \E s \in Scenarios :
    /\ row = [e \in Ids |-> IF e \in Entries THEN s.row[e] ELSE NoRow]
    /\ blocks = s.blocks
    /\ job = [r \in Requests |-> At(s.operations[r], First(s.operations[r]))]

Edit(r) == EditGroup(r) \/ EditSubject(r) \/ EditBuilding(r) \/ EditClassroom(r) \/ DeleteEntry(r)
Upload(r) ==
  \/ \E kind \in Kinds : ReadCatalog(r, kind)
  \/ Resolve(r) \/ Overwrite(r) \/ InsertBlocks(r)
ByHand(r) == ReadSlot(r) \/ EnsureDependencies(r) \/ HandleCollisions(r) \/ WriteSlots(r)
Serve(r) == Edit(r) \/ Upload(r) \/ ByHand(r)
Next ==
  \/ \E r \in Requests : Serve(r) \/ Fails(r)
  \/ \E b \in blocks : Remove(b)
Spec == Init /\ [][Next]_vars
-----------------------------------------------------------------------------
\* Rows have their types and whatever a row or block refers to exists.
TypeOK ==
  /\ row \in [Ids -> Rows \cup {NoRow}] /\ blocks \subseteq Blocks
  /\ \A e \in Ids : Exists(e) /\ row[e].of # NoRow => Exists(row[e].of)
  /\ \A b \in blocks : Exists(b.subject) /\ Exists(b.room) /\ Exists(b.group)
  /\ \A r \in Requests :
       /\ job[r].op \in Operations /\ job[r].seen \subseteq Ids /\ job[r].new \subseteq Blocks
       /\ job[r].unread \subseteq Kinds /\ job[r].index \in [Ids -> Rows \cup {NoRow}]
       /\ job[r].at \in Ids \cup {NoRow} /\ job[r].n \in Nat /\ job[r].old \in Blocks \cup {NoRow}
=============================================================================
