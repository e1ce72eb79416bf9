---------------------------- MODULE Catalog_proofs ----------------------------
(***************************************************************************)
(* Whatever a row or a block refers to exists; groups form no cycle, a block *)
(* of a subgroup has its subgroup, and an upload inserts what its file names *)
(* and loses nothing for nothing, but for the races that the history tells:  *)
(* for any requests, entries, names and scenarios.                           *)
(***************************************************************************)
EXTENDS CatalogHistory, FiniteSetTheorems, FunctionTheorems, TLAPS

Pcs == {"find", "update.read", "walk", "write", "delete.count", "delete.row",
        "upload.read", "upload.overwrite", "upload.insert",
        "slot.read", "slot.subject", "slot.room", "slot.group", "slot.collide", "slot.write", "done"}
Jobs == [op : Operations, pc : Pcs, at : Ids \cup {NoRow}, seen : SUBSET Ids, unread : SUBSET Kinds,
         index : [Ids -> Rows \cup {NoRow}], new : SUBSET Blocks, n : Nat, old : Blocks \cup {NoRow}]
\* A request is at a statement of its operation; when it is over nothing is left of it.
PcsOf(op) ==
  IF op.kind \in {"create", "update"} THEN {"find", "update.read", "walk", "write", "done"}
  ELSE IF op.kind = "delete" THEN {"delete.count", "delete.row", "done"}
  ELSE IF op.kind = "upload" THEN {"upload.read", "upload.overwrite", "upload.insert", "done"}
  ELSE {"slot.read", "slot.subject", "slot.room", "slot.group", "slot.collide", "slot.write", "done"}
\* After these the block to be updated has been read.
Rewriting == {"slot.subject", "slot.room", "slot.group", "slot.collide", "slot.write"}
JobsTyped ==
  /\ job \in [Requests -> Jobs]
  /\ \A r \in Requests :
       /\ job[r].pc \in PcsOf(job[r].op)
       /\ job[r].pc = "done" => job[r] = At(job[r].op, "done")
       /\ job[r].pc \in {"find", "update.read"} => job[r].seen = {}
       /\ job[r].pc = "walk" => job[r].at # NoRow
       /\ job[r].pc \in Rewriting => job[r].op.kind # "updateSlot" \/ job[r].old \in Blocks

\* What a row belongs to is there, and of the right kind; so is what a block names.
RowsTyped ==
  /\ row \in [Ids -> Rows \cup {NoRow}]
  /\ \A e \in Ids : Exists(e) /\ row[e].of # NoRow =>
       Exists(row[e].of) /\ <<row[e].kind, row[row[e].of].kind>> \in Belonging
BlocksTyped ==
  /\ blocks \subseteq Blocks
  /\ \A b \in blocks : IsA(b.subject, "subject") /\ IsA(b.room, "classroom") /\ IsA(b.group, "group")

\* The kind of an entry never changes, and the entry a request creates is not
\* there before.
KindsStay ==
  \A r \in Requests :
    /\ Exists(r) => job[r].op.kind = "create" /\ job[r].op.new.kind = row[r].kind /\ job[r].pc = "done"
    /\ job[r].op.kind = "update" /\ Exists(job[r].op.row) =>
         row[job[r].op.row].kind = job[r].op.new.kind

\* What an upload has read of an entry is what it still is, or is noted as changed;
\* the new blocks mean lines of the file.
IndexInv ==
  \A r \in Requests, e \in Ids : job[r].index[e] # NoRow =>
    /\ Exists(e) => row[e].kind = job[r].index[e].kind
    /\ e \in Requests => Exists(e)
    /\ row[e] = job[r].index[e] \/ <<e, job[r].index[e]>> \in stale[r]
NewInv ==
  \A r \in Requests : \A b \in job[r].new :
    /\ b.by = r /\ job[r].op.kind = "upload" /\ job[r].pc \in {"upload.overwrite", "upload.insert"}
    /\ \E line \in job[r].op.file : b \in Meanings(r, line)

\* The ancestors that a request has read are below each other still, unless what
\* they are below was written meanwhile; what it writes is not among them.
Target(r) == IF job[r].op.kind = "create" THEN r ELSE job[r].op.row
WalkInv ==
  \A r \in Requests : job[r].pc \in {"walk", "write"} /\ job[r].op.new.kind = "group" =>
    /\ job[r].op.new.of \in job[r].seen \cup {job[r].at}
    /\ job[r].pc = "write" => job[r].at = NoRow
    /\ Target(r) \notin job[r].seen
    /\ \A x \in job[r].seen :
         \/ ~Exists(x) \/ row[x].of \in job[r].seen \cup {job[r].at, NoRow}
         \/ Met(r, writer[x])

LostInv ==
  lost \subseteq Requests /\ \A r \in lost : job[r].pc \in {"upload.overwrite", "upload.insert", "done"}

IInv ==
  /\ JobsTyped /\ RowsTyped /\ BlocksTyped /\ KindsStay
  /\ IndexInv /\ NewInv /\ WalkInv /\ LostInv
  /\ NoCycleUnlessRaced /\ SubgroupsOfBlocksExist
-----------------------------------------------------------------------------
(* Operations, and the progress of the requests.                             *)

LEMMA InputIs ==
  ASSUME NEW v \in Inputs
  PROVE  /\ v \in Rows /\ v.kind \in Kinds /\ v.of \in Ids \cup {NoRow}
         /\ v.kind \in {"subject", "building"} => v.of = NoRow
BY DEF Inputs, GroupInputs, SubjectInputs, BuildingInputs, ClassroomInputs, Rows, Kinds

LEMMA OperationIs ==
  ASSUME NEW op \in Operations
  PROVE  /\ op.kind \in {"create", "update", "delete", "upload", "createSlots", "updateSlot"}
         /\ op.kind = "create" => op.row = NoRow /\ op.new \in Inputs
         /\ op.kind = "update" => op.row \in Entries /\ op.new \in Inputs
         /\ op.kind = "delete" => op.row \in Entries
         /\ op.kind = "upload" => op.file \subseteq Lines
         /\ op.kind = "createSlots" => op.slots \in Seq(SlotInputs)
         /\ op.kind = "updateSlot" => op.id \in SlotIds /\ op.slot \in SlotInputs
         /\ First(op) = IF op.kind = "create" THEN "find" ELSE IF op.kind = "update" THEN "update.read"
                        ELSE IF op.kind = "delete" THEN "delete.count" ELSE IF op.kind = "upload" THEN "upload.read"
                        ELSE IF op.kind = "createSlots" THEN "slot.subject" ELSE "slot.read"
         /\ First(op) \in PcsOf(op) /\ "done" \in PcsOf(op) /\ PcsOf(op) \subseteq Pcs
<1>1. /\ op.kind \in {"create", "update", "delete", "upload", "createSlots", "updateSlot"}
      /\ op.kind = "create" => op.row = NoRow /\ op.new \in Inputs
      /\ op.kind = "update" => op.row \in Entries /\ op.new \in Inputs
      /\ op.kind = "delete" => op.row \in Entries
      /\ op.kind = "upload" => op.file \subseteq Lines
      /\ op.kind = "createSlots" => op.slots \in Seq(SlotInputs)
      /\ op.kind = "updateSlot" => op.id \in SlotIds /\ op.slot \in SlotInputs
  BY DEF Operations
<1>2. First(op) = IF op.kind = "create" THEN "find" ELSE IF op.kind = "update" THEN "update.read"
                  ELSE IF op.kind = "delete" THEN "delete.count" ELSE IF op.kind = "upload" THEN "upload.read"
                        ELSE IF op.kind = "createSlots" THEN "slot.subject" ELSE "slot.read"
  BY <1>1 DEF First
<1>. QED
  BY <1>1, <1>2 DEF PcsOf, Pcs

LEMMA AtIs ==
  ASSUME NEW op \in Operations, NEW pc \in PcsOf(op)
  PROVE  /\ At(op, pc) \in Jobs /\ At(op, pc).op = op /\ At(op, pc).pc = pc
         /\ At(op, pc).new = {} /\ At(op, pc).seen = {} /\ At(op, pc).at = NoRow
         /\ \A e \in Ids : At(op, pc).index[e] = NoRow
<1>1. pc \in Pcs
  BY OperationIs
<1>. QED
  BY <1>1 DEF At, Jobs

\* A step of one request leaves the others and its operation alone.
Alone(r) ==
  /\ JobsTyped'
  /\ job'[r].op = job[r].op
  /\ \A q \in Requests \ {r} : job'[q] = job[q]
\* It is over, or has what it had.
Over(r) == job'[r].pc = "done"
Same(r) == job'[r].index = job[r].index /\ job'[r].new = job[r].new

LEMMA ChangesJob ==
  ASSUME JobsTyped, NEW r \in Requests, NEW j \in Jobs, job' = [job EXCEPT ![r] = j],
         j.op = job[r].op, j.pc \in PcsOf(j.op), j.pc = "done" => j = At(j.op, "done"),
         j.pc \in {"find", "update.read"} => j.seen = {}, j.pc = "walk" => j.at # NoRow,
         j.pc \in Rewriting => j.op.kind # "updateSlot" \/ j.old \in Blocks
  PROVE  Alone(r) /\ job'[r] = j
<1>1. job \in [Requests -> Jobs] /\ job' \in [Requests -> Jobs] /\ job'[r] = j
  BY DEF JobsTyped
<1>2. \A q \in Requests \ {r} : job'[q] = job[q]
  BY <1>1
<1>. QED
  BY <1>1, <1>2 DEF Alone, JobsTyped

LEMMA JobIs ==
  ASSUME JobsTyped, NEW r \in Requests
  PROVE  /\ job[r] \in Jobs /\ job[r].op \in Operations /\ job[r].pc \in PcsOf(job[r].op)
         /\ job[r].pc \in Pcs /\ job[r].at \in Ids \cup {NoRow} /\ job[r].seen \in SUBSET Ids
         /\ job[r].unread \in SUBSET Kinds /\ job[r].index \in [Ids -> Rows \cup {NoRow}]
         /\ job[r].new \in SUBSET Blocks /\ job[r].n \in Nat /\ job[r].old \in Blocks \cup {NoRow}
BY DEF JobsTyped, Jobs

LEMMA Going ==
  ASSUME JobsTyped, NEW r \in Requests, NEW pc \in PcsOf(job[r].op), Goto(r, pc),
         pc \in {"find", "update.read"} => job[r].seen = {}, pc # "walk",
         pc \in Rewriting => job[r].op.kind # "updateSlot" \/ job[r].old \in Blocks
  PROVE  /\ Alone(r) /\ job'[r].pc = pc /\ (Over(r) \/ Same(r))
         /\ pc # "done" => job'[r].seen = job[r].seen /\ job'[r].at = job[r].at
<1>. /\ job[r] \in Jobs /\ job[r].op \in Operations /\ pc \in Pcs
     /\ job \in [Requests -> Jobs]
  BY JobIs, OperationIs DEF JobsTyped
<1>1. CASE pc = "done"
  <2>1. job' = [job EXCEPT ![r] = At(job[r].op, pc)]
    BY <1>1 DEF Goto
  <2>2. At(job[r].op, pc) \in Jobs /\ At(job[r].op, pc).op = job[r].op /\ At(job[r].op, pc).pc = pc
    BY AtIs
  <2>3. Alone(r) /\ job'[r] = At(job[r].op, pc)
    BY <1>1, <2>1, <2>2, ChangesJob DEF Rewriting
  <2>. QED
    BY <1>1, <2>2, <2>3 DEF Over
<1>2. CASE pc # "done"
  <2>. DEFINE j == [job[r] EXCEPT !.pc = pc]
  <2>1. job' = [job EXCEPT ![r] = j]
    BY <1>2 DEF Goto
  <2>2. /\ j \in Jobs /\ j.op = job[r].op /\ j.pc = pc /\ j.seen = job[r].seen /\ j.at = job[r].at
        /\ j.index = job[r].index /\ j.new = job[r].new /\ j.old = job[r].old
    BY DEF Jobs
  <2>. HIDE DEF j
  <2>3. Alone(r) /\ job'[r] = j
    BY <1>2, <2>1, <2>2, ChangesJob
  <2>. QED
    BY <1>2, <2>2, <2>3 DEF Same
<1>. QED
  BY <1>1, <1>2

LEMMA Ending ==
  ASSUME JobsTyped, NEW r \in Requests, Goto(r, "done")
  PROVE  Alone(r) /\ Over(r)
<1>1. "done" \in PcsOf(job[r].op)
  BY JobIs, OperationIs
<1>. DEFINE pc == "done"
<1>2. pc \in PcsOf(job[r].op) /\ Goto(r, pc) /\ (pc \in {"find", "update.read"} => job[r].seen = {}) /\ pc # "walk"
      /\ pc \notin Rewriting
  BY <1>1 DEF Rewriting
<1>3. pc = "done"
  OBVIOUS
<1>. HIDE DEF pc
<1>4. Alone(r) /\ job'[r].pc = pc
  BY <1>2, Going
<1>. QED
  BY <1>3, <1>4 DEF Over

\* A request that has read, seen, or selected anything is in service.
LEMMA ServedBy ==
  ASSUME JobsTyped, NEW r \in Requests,
         \/ job[r].pc \in {"walk", "write", "delete.row", "upload.overwrite", "upload.insert"}
         \/ \E e \in Ids : job[r].index[e] # NoRow
         \/ job[r].new # {}
  PROVE  InService(r) /\ job[r].pc # "done"
<1>1. job[r].op \in Operations /\ (job[r].pc = "done" => job[r] = At(job[r].op, "done"))
  BY DEF JobsTyped, Jobs
<1>2. job[r].pc # "done"
  BY <1>1, AtIs, OperationIs
<1>3. job[r] # At(job[r].op, First(job[r].op))
  BY <1>1, AtIs, OperationIs
<1>. QED
  BY <1>2, <1>3 DEF InService
-----------------------------------------------------------------------------
(* What each statement does.                                                 *)

\* Nothing to the tables ...
Looks(r) == UNCHANGED db /\ (Over(r) \/ (Same(r) /\ job'[r].pc # "upload.read"))
Reads(r, kind) ==
  /\ UNCHANGED db /\ job[r].pc = "upload.read" /\ job'[r].pc = "upload.read" /\ job'[r].new = job[r].new
  /\ job'[r].index = [e \in Ids |-> IF Exists(e) /\ row[e].kind = kind THEN row[e] ELSE job[r].index[e]]
Selects(r) ==
  /\ UNCHANGED db /\ job[r].pc = "upload.read" /\ job'[r].pc = "upload.overwrite"
  /\ job'[r].index = job[r].index
  /\ \A b \in job'[r].new : \E line \in job[r].op.file : b \in Meanings(r, line)
\* (the walk up the ancestors starts, or goes on to the next)
Walks(r) ==
  LET a == job[r].at
  IN  job'[r].pc \in {"walk", "write"} =>
        /\ UNCHANGED db
        /\ \/ /\ job'[r].seen = {} /\ (job'[r].pc = "write" => job'[r].at = NoRow)
              /\ job'[r].at = IF job[r].op.new.kind = "group" THEN job[r].op.new.of ELSE NoRow
           \/ /\ job[r].pc = "walk" /\ a \in Ids /\ Exists(a) /\ a # job[r].op.row
              /\ job'[r].seen = job[r].seen \cup {a} /\ job'[r].at = row[a].of
              /\ job'[r].pc = "write" => row[a].of = NoRow
\* ... or one change of them.
Writes(r) ==
  LET v == job[r].op.new
  IN  /\ job[r].pc = "write" /\ Over(r) /\ UNCHANGED blocks
      /\ row' = [row EXCEPT ![Target(r)] = v]
      /\ job[r].op.kind = "update" => Exists(Target(r))
      /\ v.of # NoRow => Exists(v.of) /\ <<v.kind, row[v.of].kind>> \in Belonging
Deletes(r) ==
  LET e == job[r].op.row
  IN  /\ job[r].pc = "delete.row" /\ Over(r) /\ UNCHANGED blocks
      /\ Exists(e) /\ ~InUse(e) /\ row' = Orphaned(e)
Overwrites(r) ==
  /\ job[r].pc \in {"upload.overwrite", "slot.collide"} /\ UNCHANGED <<row, job>> /\ blocks' \subseteq blocks
Puts(r) ==
  /\ job[r].pc = "slot.write" /\ Over(r) /\ UNCHANGED row
  /\ \A b \in blocks' \ blocks :
       b \in Blocks /\ b.by = r /\ IsA(b.subject, "subject") /\ IsA(b.room, "classroom") /\ IsA(b.group, "group")
Inserts(r) ==
  /\ job[r].pc = "upload.insert" /\ Over(r) /\ UNCHANGED row /\ blocks' = blocks \cup job[r].new
  /\ \A b \in job[r].new : Exists(b.subject) /\ Exists(b.room) /\ Exists(b.group)

LEMMA FindStep ==
  ASSUME JobsTyped, NEW r \in Requests, NEW kind, NEW complete, Find(r, kind, complete)
  PROVE  /\ Alone(r) /\ Looks(r)
         /\ job'[r].pc \in {"find", "done"} \/
            (/\ job'[r].pc \in {"walk", "write"} /\ job'[r].seen = {}
             /\ job'[r].at = IF job[r].op.new.kind = "group" THEN job[r].op.new.of ELSE NoRow
             /\ job'[r].pc = "write" <=> job'[r].at = NoRow)
<1>0. /\ job[r].pc \in {"update.read", "find"} /\ job[r] \in Jobs /\ job[r].op \in Operations
      /\ job[r].pc \in PcsOf(job[r].op) /\ job[r].seen = {} /\ job \in [Requests -> Jobs]
  BY JobIs DEF Find, JobsTyped
<1>1. job[r].op.kind \in {"create", "update"} /\ {"find", "done", "walk", "write"} \subseteq PcsOf(job[r].op)
  BY <1>0, OperationIs DEF PcsOf
<1>2. ASSUME NEW pc \in {"find", "done"}, Goto(r, pc), UNCHANGED db
      PROVE  Alone(r) /\ Looks(r) /\ job'[r].pc \in {"find", "done"}
  <2>1. pc \in PcsOf(job[r].op) /\ pc # "walk" /\ pc \notin Rewriting
    BY <1>1, <1>2 DEF Rewriting
  <2>. QED
    BY <1>0, <1>2, <2>1, Going DEF Looks
<1>3. CASE Approve(r) /\ UNCHANGED db
  <2>. DEFINE p == IF job[r].op.new.kind = "group" THEN job[r].op.new.of ELSE NoRow
              pc == IF p = NoRow THEN "write" ELSE "walk"
              j == [job[r] EXCEPT !.pc = pc, !.at = p]
  <2>1. p \in Ids \cup {NoRow} /\ pc \in Pcs /\ pc \in {"walk", "write"} /\ (pc = "write" <=> p = NoRow)
    BY <1>0, <1>1, OperationIs, InputIs DEF Pcs
  <2>2. job' = [job EXCEPT ![r] = j]
    BY <1>0, <1>3 DEF Approve
  <2>. HIDE DEF p, pc
  <2>3. /\ j \in Jobs /\ j.op = job[r].op /\ j.pc = pc /\ j.seen = job[r].seen /\ j.at = p
        /\ j.index = job[r].index /\ j.new = job[r].new
    BY <1>0, <2>1 DEF Jobs
  <2>. HIDE DEF j
  <2>4. j.pc \in PcsOf(j.op)
    BY <1>1, <2>1, <2>3
  <2>5. Alone(r) /\ job'[r] = j
    BY <2>1, <2>2, <2>3, <2>4, ChangesJob DEF Rewriting
  <2>. QED
    BY <1>0, <1>3, <2>1, <2>3, <2>5 DEF Looks, Same, p
<1>4. CASE Check(r, "update.read", Exists(job[r].op.row), "find")
  BY <1>2, <1>4 DEF Check
<1>. QED
  BY <1>2, <1>3, <1>4 DEF Find

LEMMA WalkStep ==
  ASSUME JobsTyped, RowsTyped, NEW r \in Requests, ValidateParentLink(r)
  PROVE  /\ Alone(r) /\ Looks(r) /\ job[r].pc = "walk"
         /\ Over(r) \/
            (LET a == job[r].at
             IN  /\ a \in Ids /\ Exists(a) /\ a # job[r].op.row
                 /\ job'[r].seen = job[r].seen \cup {a} /\ job'[r].at = row[a].of
                 /\ job'[r].pc \in {"walk", "write"} /\ (job'[r].pc = "write" => row[a].of = NoRow))
<1>. DEFINE a == job[r].at
<1>0. /\ job[r].pc = "walk" /\ job[r] \in Jobs /\ job[r].op \in Operations /\ UNCHANGED db
      /\ job[r].pc \in PcsOf(job[r].op) /\ job \in [Requests -> Jobs]
      /\ job[r].seen \in SUBSET Ids /\ a \in Ids
  BY JobIs DEF ValidateParentLink, JobsTyped
<1>1. {"done", "walk", "write"} \subseteq PcsOf(job[r].op)
  BY <1>0, OperationIs DEF PcsOf
<1>2. CASE ~(a \notin job[r].seen /\ Exists(a) /\ a # job[r].op.row)
  <2>1. Goto(r, "done")
    BY <1>2 DEF ValidateParentLink
  <2>2. Alone(r) /\ Over(r)
    BY <2>1, Ending
  <2>. QED
    BY <1>0, <2>2 DEF Looks
<1>3. CASE a \notin job[r].seen /\ Exists(a) /\ a # job[r].op.row
  <2>. DEFINE pc == IF row[a].of = NoRow THEN "write" ELSE "walk"
              j == [job[r] EXCEPT !.seen = @ \cup {a}, !.at = row[a].of, !.pc = pc]
  <2>1. job' = [job EXCEPT ![r] = j]
    BY <1>0, <1>3 DEF ValidateParentLink
  <2>2. row[a].of \in Ids \cup {NoRow}
    BY <1>0, <1>3 DEF RowsTyped, Exists, Rows
  <2>3. pc \in Pcs /\ pc \in {"walk", "write"} /\ (pc = "write" <=> row[a].of = NoRow)
    BY DEF Pcs
  <2>. HIDE DEF pc
  <2>4. /\ j \in Jobs /\ j.op = job[r].op /\ j.pc = pc /\ j.seen = job[r].seen \cup {a} /\ j.at = row[a].of
        /\ j.index = job[r].index /\ j.new = job[r].new
    BY <1>0, <2>2, <2>3 DEF Jobs
  <2>. HIDE DEF j
  <2>5. Alone(r) /\ job'[r] = j
    BY <1>1, <2>1, <2>3, <2>4, ChangesJob DEF Rewriting
  <2>. QED
    BY <1>0, <1>3, <2>3, <2>4, <2>5 DEF Looks, Same
<1>. QED
  BY <1>2, <1>3

LEMMA PutStep ==
  ASSUME JobsTyped, NEW r \in Requests,
         PutGroup(r) \/ PutSubject(r) \/ PutBuilding(r) \/ PutClassroom(r)
  PROVE  Alone(r) /\ (Looks(r) \/ Writes(r))
<1>. DEFINE v == job[r].op.new
            e == Target(r)
<1>0. /\ job[r].pc = "write" /\ Goto(r, "done") /\ UNCHANGED blocks
      /\ job[r] \in Jobs /\ job[r].op \in Operations /\ job[r].pc \in PcsOf(job[r].op)
  BY JobIs DEF PutGroup, PutSubject, PutBuilding, PutClassroom, Put
<1>1. job[r].op.kind \in {"create", "update"} /\ "done" \in PcsOf(job[r].op)
  BY <1>0, OperationIs DEF PcsOf
<1>2. Alone(r) /\ Over(r)
  BY <1>0, Ending
<1>3. v \in Inputs
  BY <1>0, <1>1, OperationIs
<1>4. ASSUME NEW kind, NEW refers, Put(r, kind, refers),
             refers => (v.of # NoRow => Exists(v.of) /\ <<v.kind, row[v.of].kind>> \in Belonging)
      PROVE  Looks(r) \/ Writes(r)
  <2>1. row' = IF (e = r \/ Exists(e)) /\ Like(v) \subseteq {e} /\ refers THEN [row EXCEPT ![e] = v] ELSE row
    BY <1>4 DEF Put, Target
  <2>2. CASE row' = row
    BY <1>0, <1>2, <2>2 DEF Looks, db
  <2>3. CASE (e = r \/ Exists(e)) /\ Like(v) \subseteq {e} /\ refers
    <3>1. row' = [row EXCEPT ![e] = v]
      BY <2>1, <2>3
    <3>2. job[r].op.kind = "update" => Exists(e)
      BY <1>0, <2>3, OperationIs, NothingAssumption DEF Target
    <3>. QED
      BY <1>0, <1>2, <1>4, <2>3, <3>1, <3>2 DEF Writes
  <2>. QED
    BY <2>1, <2>2, <2>3
<1>5. CASE PutGroup(r)
  <2>1. v.kind = "group"
    BY <1>5 DEF PutGroup, Put
  <2>. QED
    BY <1>2, <1>4, <1>5, <2>1 DEF PutGroup, IsA, Belonging
<1>6. CASE PutSubject(r)
  <2>1. v.of = NoRow
    BY <1>3, <1>6, InputIs DEF PutSubject, Put
  <2>. QED
    BY <1>2, <1>4, <1>6, <2>1 DEF PutSubject
<1>7. CASE PutBuilding(r)
  <2>1. v.of = NoRow
    BY <1>3, <1>7, InputIs DEF PutBuilding, Put
  <2>. QED
    BY <1>2, <1>4, <1>7, <2>1 DEF PutBuilding
<1>8. CASE PutClassroom(r)
  <2>1. v.kind = "classroom"
    BY <1>8 DEF PutClassroom, Put
  <2>. QED
    BY <1>2, <1>4, <1>8, <2>1 DEF PutClassroom, IsA, Belonging
<1>. QED
  BY <1>5, <1>6, <1>7, <1>8

LEMMA DeleteStep ==
  ASSUME JobsTyped, NEW r \in Requests, DeleteEntry(r)
  PROVE  Alone(r) /\ (Looks(r) \/ Deletes(r)) /\ job[r].pc \in {"delete.count", "delete.row"}
<1>. DEFINE e == job[r].op.row
<1>1. CASE Check(r, "delete.count", ~InUse(e), "delete.row")
  <2>1. job[r].pc = "delete.count" /\ UNCHANGED db /\ (Goto(r, "done") \/ Goto(r, "delete.row"))
    BY <1>1 DEF Check
  <2>2. "delete.row" \in PcsOf(job[r].op) /\ "delete.row" \notin {"find", "update.read", "walk"} \cup Rewriting
    BY <2>1, JobIs, OperationIs DEF PcsOf, Rewriting
  <2>3. CASE Goto(r, "done")
    BY <2>1, <2>3, Ending DEF Looks
  <2>4. CASE Goto(r, "delete.row")
    BY <2>1, <2>2, <2>4, Going DEF Looks
  <2>. QED
    BY <2>1, <2>3, <2>4
<1>2. ASSUME job[r].pc = "delete.row", Goto(r, "done"), UNCHANGED blocks,
             row' = row \/ (Exists(e) /\ ~InUse(e) /\ row' = Orphaned(e))
      PROVE  Alone(r) /\ (Looks(r) \/ Deletes(r))
  <2>1. Alone(r) /\ Over(r)
    BY <1>2, Ending
  <2>. QED
    BY <1>2, <2>1 DEF Looks, Deletes, db
<1>. QED
  BY <1>1, <1>2 DEF DeleteEntry

LEMMA ReadStep ==
  ASSUME JobsTyped, RowsTyped, NEW r \in Requests, NEW kind \in Kinds, ReadCatalog(r, kind)
  PROVE  Alone(r) /\ Reads(r, kind)
<1>. DEFINE ix == [e \in Ids |-> IF Exists(e) /\ row[e].kind = kind THEN row[e] ELSE job[r].index[e]]
            un == job[r].unread \ {kind}
            j == [job[r] EXCEPT !.unread = un, !.index = ix]
<1>1. /\ job[r] \in Jobs /\ job[r].pc = "upload.read" /\ job[r].pc \in PcsOf(job[r].op)
      /\ job[r].unread \in SUBSET Kinds /\ job[r].index \in [Ids -> Rows \cup {NoRow}]
      /\ UNCHANGED db
  BY JobIs DEF ReadCatalog
<1>2. un \in SUBSET Kinds /\ ix \in [Ids -> Rows \cup {NoRow}]
  BY <1>1 DEF RowsTyped
<1>3. job' = [job EXCEPT ![r] = j]
  BY DEF ReadCatalog
<1>4. /\ ix = [e \in Ids |-> IF Exists(e) /\ row[e].kind = kind THEN row[e] ELSE job[r].index[e]]
  OBVIOUS
<1>. HIDE DEF un, ix
<1>5. j \in Jobs /\ j.op = job[r].op /\ j.pc = job[r].pc /\ j.index = ix /\ j.new = job[r].new
  BY <1>1, <1>2 DEF Jobs
<1>. HIDE DEF j
<1>6. Alone(r) /\ job'[r] = j
  BY <1>1, <1>3, <1>5, ChangesJob DEF Rewriting
<1>. QED
  BY <1>1, <1>4, <1>5, <1>6 DEF Reads

\* A meaning of a line is made of entries that were read.
LEMMA MeaningIs ==
  ASSUME JobsTyped, NEW r \in Requests, NEW line \in Lines, NEW b \in Meanings(r, line)
  PROVE  LET ix == job[r].index IN
         /\ b \in Blocks /\ b.by = r /\ b.time = line.time
         /\ b.subject \in Named(ix, "subject", line.subject, NoRow)
         /\ b.group \in Named(ix, "group", line.group, NoRow)
         /\ \E c \in Named(ix, "building", line.building, NoRow) : b.room \in Named(ix, "classroom", line.room, c)
         /\ b.sub \in Subgroups(ix, line, b.group)
<1>. DEFINE ix == job[r].index
            Of(s, g, c) == {[id |-> <<r, c, line.time>>, by |-> r, subject |-> s, room |-> c, group |-> g, sub |-> n, time |-> line.time] :
                             n \in Subgroups(ix, line, g)}
            Rooms == UNION {Named(ix, "classroom", line.room, c) :
                              c \in Named(ix, "building", line.building, NoRow)}
<1>1. PICK s \in Named(ix, "subject", line.subject, NoRow),
           g \in Named(ix, "group", line.group, NoRow), c \in Rooms : b \in Of(s, g, c)
  BY DEF Meanings
<1>2. PICK n \in Subgroups(ix, line, g) :
        b = [id |-> <<r, c, line.time>>, by |-> r, subject |-> s, room |-> c, group |-> g, sub |-> n, time |-> line.time]
  BY <1>1
<1>3. PICK d \in Named(ix, "building", line.building, NoRow) : c \in Named(ix, "classroom", line.room, d)
  BY <1>1
<1>4. s \in Ids /\ g \in Ids /\ c \in Ids
  BY <1>1, <1>3 DEF Named
<1>5. n \in Names \cup {Whole}
  <2>1. ix \in [Ids -> Rows \cup {NoRow}]
    BY JobIs
  <2>2. \A h \in Named(ix, "group", line.sub, g) : ix[h].name \in Names
    BY <2>1 DEF Named, Rows
  <2>. HIDE DEF ix
  <2>. QED
    BY <2>2 DEF Subgroups
<1>6. line.time \in Times
  BY DEF Lines
<1>7. b \in Blocks
  BY <1>2, <1>4, <1>5, <1>6 DEF Blocks, SlotIds
<1>. QED
  BY <1>1, <1>2, <1>3, <1>7

LEMMA ResolveStep ==
  ASSUME JobsTyped, NEW r \in Requests, Resolve(r)
  PROVE  Alone(r) /\ (Looks(r) \/ Selects(r)) /\ job[r].pc = "upload.read"
<1>. DEFINE good == {line \in job[r].op.file : Meanings(r, line) # {}}
<1>1. /\ job[r] \in Jobs /\ job[r].op \in Operations /\ job[r].pc = "upload.read"
      /\ job[r].pc \in PcsOf(job[r].op) /\ UNCHANGED db
  BY JobIs DEF Resolve
<1>2. job[r].op.kind = "upload" /\ job[r].op.file \subseteq Lines
  BY <1>1, OperationIs DEF PcsOf
<1>3. PICK m \in [good -> UNION {Meanings(r, line) : line \in good}] :
        /\ \A line \in good : m[line] \in Meanings(r, line)
        /\ \/ job' = [job EXCEPT ![r].pc = "upload.overwrite", ![r].new = {m[line] : line \in good}]
           \/ Goto(r, "done")
  BY DEF Resolve
<1>4. CASE Goto(r, "done")
  BY <1>1, <1>4, Ending DEF Looks
<1>5. CASE job' = [job EXCEPT ![r].pc = "upload.overwrite", ![r].new = {m[line] : line \in good}]
  <2>. DEFINE new == {m[line] : line \in good}
              j == [job[r] EXCEPT !.pc = "upload.overwrite", !.new = new]
  <2>1. \A b \in new : \E line \in job[r].op.file : b \in Meanings(r, line)
    BY <1>3
  <2>2. new \in SUBSET Blocks
    BY <1>2, <2>1, MeaningIs
  <2>3. job' = [job EXCEPT ![r] = j]
    BY <1>1, <1>5 DEF JobsTyped
  <2>. HIDE DEF new
  <2>4. /\ j \in Jobs /\ j.op = job[r].op /\ j.pc = "upload.overwrite" /\ j.index = job[r].index
        /\ j.new = new
    BY <1>1, <2>2 DEF Jobs, Pcs
  <2>5. j.pc \in PcsOf(j.op)
    BY <1>2, <2>4 DEF PcsOf
  <2>. HIDE DEF j
  <2>6. Alone(r) /\ job'[r] = j
    BY <2>3, <2>4, <2>5, ChangesJob DEF Rewriting
  <2>. QED
    BY <1>1, <2>1, <2>4, <2>6 DEF Selects
<1>. QED
  BY <1>1, <1>3, <1>4, <1>5

LEMMA OverwriteStep ==
  ASSUME JobsTyped, NEW r \in Requests, Overwrite(r)
  PROVE  /\ Alone(r) /\ job[r].pc = "upload.overwrite"
         /\ (Looks(r) /\ job'[r].pc = "upload.insert") \/ Overwrites(r)
<1>1. job[r].pc = "upload.overwrite" /\ job[r].op \in Operations /\ job[r].pc \in PcsOf(job[r].op)
  BY JobIs DEF Overwrite
<1>2. CASE Goto(r, "upload.insert") /\ UNCHANGED db
  <2>1. "upload.insert" \in PcsOf(job[r].op) /\ "upload.insert" \notin {"find", "update.read", "walk"} \cup Rewriting
    BY <1>1, OperationIs DEF PcsOf, Rewriting
  <2>. QED
    BY <1>1, <1>2, <2>1, Going DEF Looks
<1>3. CASE UNCHANGED <<row, job>> /\ blocks' \subseteq blocks
  BY <1>1, <1>3 DEF Alone, JobsTyped, Overwrites
<1>. QED
  BY <1>1, <1>2, <1>3 DEF Overwrite

LEMMA InsertStep ==
  ASSUME JobsTyped, NEW r \in Requests, InsertBlocks(r)
  PROVE  /\ Alone(r) /\ Over(r) /\ job[r].pc = "upload.insert"
         /\ Looks(r) \/ Inserts(r)
         /\ \/ job[r].new \subseteq blocks'
            \/ \E b \in job[r].new : ~(Exists(b.subject) /\ Exists(b.room) /\ Exists(b.group))
<1>1. Alone(r) /\ Over(r) /\ job[r].pc = "upload.insert" /\ UNCHANGED row
  BY Ending DEF InsertBlocks
<1>2. CASE \A b \in job[r].new : Exists(b.subject) /\ Exists(b.room) /\ Exists(b.group)
  BY <1>1, <1>2 DEF InsertBlocks, Inserts
<1>3. CASE \E b \in job[r].new : ~(Exists(b.subject) /\ Exists(b.room) /\ Exists(b.group))
  BY <1>1, <1>3 DEF InsertBlocks, Looks, db
<1>. QED
  BY <1>2, <1>3

\* The blocks given by hand have their types.
LEMMA GivenIs ==
  ASSUME JobsTyped, NEW r \in Requests, job[r].pc \in Rewriting, NEW b \in Given(r)
  PROVE  b \in Blocks /\ b.by = r
<1>1. /\ job[r].op \in Operations /\ job[r].pc \in PcsOf(job[r].op) /\ job[r].old \in Blocks \cup {NoRow}
      /\ job[r].op.kind # "updateSlot" \/ job[r].old \in Blocks
  BY JobIs DEF JobsTyped
<1>2. job[r].op.kind \in {"createSlots", "updateSlot"}
  BY <1>1, OperationIs DEF PcsOf, Rewriting
<1>3. \A i \in DOMAIN Slots(r) : Slots(r)[i] \in SlotInputs
  <2>1. CASE job[r].op.kind = "createSlots"
    BY <1>1, <2>1, OperationIs DEF Slots
  <2>2. CASE job[r].op.kind = "updateSlot"
    <3>. DEFINE m == Merged(job[r].old, job[r].op)
    <3>1. job[r].old \in Blocks /\ job[r].op.slot \in SlotInputs
      BY <1>1, <2>2, OperationIs
    <3>2. m \in SlotInputs
      BY <3>1 DEF Merged, SlotInputs, Blocks
    <3>3. Slots(r) = <<m>>
      BY <2>2 DEF Slots
    <3>. HIDE DEF m
    <3>. QED
      BY <3>2, <3>3
  <2>. QED
    BY <1>2, <2>1, <2>2
<1>4. PICK i \in DOMAIN Slots(r) :
        b = [id |-> IF job[r].op.kind = "updateSlot" THEN job[r].op.id ELSE <<r, Slots(r)[i].room, Slots(r)[i].time>>,
             by |-> r, subject |-> Slots(r)[i].subject, room |-> Slots(r)[i].room, group |-> Slots(r)[i].group,
             sub |-> Slots(r)[i].sub, time |-> Slots(r)[i].time]
  BY DEF Given
<1>. DEFINE s == Slots(r)[i]
            id == IF job[r].op.kind = "updateSlot" THEN job[r].op.id ELSE <<r, s.room, s.time>>
<1>5. s \in SlotInputs
  BY <1>3, <1>4
<1>. HIDE DEF s
<1>6. id \in SlotIds
  BY <1>1, <1>2, <1>5, OperationIs DEF SlotIds, SlotInputs
<1>7. b = [id |-> id, by |-> r, subject |-> s.subject, room |-> s.room, group |-> s.group,
           sub |-> s.sub, time |-> s.time]
  BY <1>4 DEF s
<1>. HIDE DEF id
<1>. QED
  BY <1>5, <1>6, <1>7 DEF Blocks, SlotInputs

LEMMA ByHandStep ==
  ASSUME JobsTyped, BlocksTyped, NEW r \in Requests, ByHand(r)
  PROVE  /\ Alone(r) /\ (Looks(r) \/ Overwrites(r) \/ Puts(r))
         /\ job[r].pc \in {"slot.read"} \cup Rewriting
<1>1. /\ job[r] \in Jobs /\ job[r].op \in Operations /\ job[r].pc \in PcsOf(job[r].op)
      /\ job \in [Requests -> Jobs]
  BY JobIs DEF JobsTyped
<1>2. job[r].pc \in {"slot.read"} \cup Rewriting
  BY DEF ByHand, ReadSlot, EnsureDependencies, HandleCollisions, WriteSlots, Check, Rewriting
<1>3. Rewriting \subseteq PcsOf(job[r].op) /\ Rewriting \subseteq Pcs
  BY <1>1, <1>2, OperationIs DEF PcsOf, Rewriting, Pcs
<1>4. ASSUME Goto(r, "done"), UNCHANGED db PROVE Alone(r) /\ Looks(r)
  BY <1>4, Ending DEF Looks
<1>5. ASSUME NEW pc \in Rewriting, Goto(r, pc), UNCHANGED db, job[r].pc \in Rewriting PROVE Alone(r) /\ Looks(r)
  <2>1. /\ pc \in PcsOf(job[r].op) /\ pc \notin {"find", "update.read", "walk", "upload.read"}
        /\ job[r].op.kind # "updateSlot" \/ job[r].old \in Blocks
    BY <1>3, <1>5 DEF Rewriting, JobsTyped
  <2>2. Alone(r) /\ job'[r].pc = pc /\ (Over(r) \/ Same(r))
    BY <1>5, <2>1, Going
  <2>. QED
    BY <1>5, <2>1, <2>2 DEF Looks
<1>6. ASSUME NEW j \in Jobs, job' = [job EXCEPT ![r] = j], UNCHANGED db, j.op = job[r].op, j.pc = "slot.subject",
             j.index = job[r].index, j.new = job[r].new, j.op.kind # "updateSlot" \/ j.old \in Blocks
      PROVE  Alone(r) /\ Looks(r)
  <2>1. j.pc \in PcsOf(j.op)
    BY <1>3, <1>6 DEF Rewriting
  <2>2. Alone(r) /\ job'[r] = j
    BY <1>6, <2>1, ChangesJob
  <2>. QED
    BY <1>6, <2>2 DEF Looks, Same
<1>7. CASE ReadSlot(r)
  <2>1. CASE Goto(r, "done")
    BY <1>4, <1>7, <2>1 DEF ReadSlot
  <2>2. ASSUME NEW b \in blocks, job' = [job EXCEPT ![r].pc = "slot.subject", ![r].old = b], b \in Blocks
        PROVE  Alone(r) /\ Looks(r)
    <3>. DEFINE j == [job[r] EXCEPT !.pc = "slot.subject", !.old = b]
    <3>1. job' = [job EXCEPT ![r] = j]
      BY <1>1, <2>2
    <3>3. /\ j \in Jobs /\ j.op = job[r].op /\ j.pc = "slot.subject" /\ j.index = job[r].index
          /\ j.new = job[r].new /\ j.old = b
      BY <1>1, <2>2 DEF Jobs, Pcs
    <3>. HIDE DEF j
    <3>. QED
      BY <1>6, <1>7, <2>2, <3>1, <3>3 DEF ReadSlot
  <2>. QED
    BY <1>2, <1>7, <2>1, <2>2 DEF ReadSlot, BlocksTyped
<1>8. CASE EnsureDependencies(r)
  <2>1. ASSUME NEW p, NEW q, NEW test, Check(r, p, test, q), p \in Rewriting, q \in Rewriting
        PROVE  Alone(r) /\ Looks(r)
    BY <1>4, <1>5, <2>1 DEF Check
  <2>2. {"slot.subject", "slot.room", "slot.group", "slot.collide"} \subseteq Rewriting
    BY DEF Rewriting
  <2>. QED
    BY <1>2, <1>8, <2>1, <2>2 DEF EnsureDependencies
<1>9. CASE HandleCollisions(r)
  <2>1. job[r].pc = "slot.collide" /\ "slot.collide" \in Rewriting /\ "slot.write" \in Rewriting
    BY <1>9 DEF HandleCollisions, Rewriting
  <2>2. CASE UNCHANGED <<row, job>> /\ blocks' \subseteq blocks
    BY <2>1, <2>2 DEF Alone, JobsTyped, Overwrites
  <2>3. CASE UNCHANGED db /\ (Goto(r, "done") \/ Goto(r, "slot.write"))
    BY <1>4, <1>5, <2>1, <2>3
  <2>4. CASE UNCHANGED db /\ job' = [job EXCEPT ![r].pc = "slot.subject", ![r].n = @ + 1]
    <3>. DEFINE next == job[r].n + 1
                j == [job[r] EXCEPT !.pc = "slot.subject", !.n = next]
    <3>1. job' = [job EXCEPT ![r] = j]
      BY <1>1, <2>4
    <3>0. next \in Nat
      BY JobIs
    <3>. HIDE DEF next
    <3>2. /\ j \in Jobs /\ j.op = job[r].op /\ j.pc = "slot.subject" /\ j.index = job[r].index
          /\ j.new = job[r].new /\ j.old = job[r].old
      BY <1>1, <3>0 DEF Jobs, Pcs
    <3>3. job[r].op.kind # "updateSlot" \/ job[r].old \in Blocks
      BY <2>1 DEF JobsTyped
    <3>. HIDE DEF j
    <3>. QED
      BY <1>2, <1>6, <2>4, <3>1, <3>2, <3>3
  <2>. QED
    BY <1>2, <1>9, <2>2, <2>3, <2>4 DEF HandleCollisions
<1>10. CASE WriteSlots(r)
  <2>1. job[r].pc = "slot.write" /\ job[r].pc \in Rewriting /\ UNCHANGED row
    BY <1>10 DEF WriteSlots, Rewriting
  <2>2. Alone(r) /\ Over(r)
    BY <1>10, Ending DEF WriteSlots
  <2>3. ASSUME NEW b \in blocks' \ blocks
        PROVE  b \in Given(r) /\ IsA(b.subject, "subject") /\ IsA(b.room, "classroom") /\ IsA(b.group, "group")
    BY <1>10, <2>3 DEF WriteSlots
  <2>. QED
    BY <2>1, <2>2, <2>3, GivenIs DEF Puts
<1>. QED
  BY <1>2, <1>7, <1>8, <1>9, <1>10 DEF ByHand

LEMMA Served ==
  ASSUME JobsTyped, RowsTyped, BlocksTyped, NEW r \in Requests, Serve(r) \/ Fails(r)
  PROVE  /\ Alone(r)
         /\ \/ Looks(r) \/ Writes(r) \/ Deletes(r) \/ Selects(r) \/ Overwrites(r) \/ Inserts(r) \/ Puts(r)
            \/ \E kind \in Kinds : Reads(r, kind)
<1>1. CASE \E kind \in Kinds : Find(r, kind, TRUE) \/ Find(r, kind, job[r].op.new.of # NoRow)
  BY <1>1, FindStep
<1>2. CASE ValidateParentLink(r)
  BY <1>2, WalkStep
<1>3. CASE PutGroup(r) \/ PutSubject(r) \/ PutBuilding(r) \/ PutClassroom(r)
  BY <1>3, PutStep
<1>4. CASE DeleteEntry(r)
  BY <1>4, DeleteStep
<1>5. CASE \E kind \in Kinds : ReadCatalog(r, kind)
  BY <1>5, ReadStep
<1>6. CASE Resolve(r)
  BY <1>6, ResolveStep
<1>7. CASE Overwrite(r) \/ InsertBlocks(r)
  BY <1>7, OverwriteStep, InsertStep
<1>8. CASE Fails(r)
  BY <1>8, Ending DEF Fails, Looks
<1>9. CASE Edit(r)
  BY <1>1, <1>2, <1>3, <1>4, <1>9 DEF Edit, EditGroup, EditSubject, EditBuilding, EditClassroom, Kinds
<1>10. CASE ByHand(r)
  BY <1>10, ByHandStep
<1>. QED
  BY <1>5, <1>6, <1>7, <1>8, <1>9, <1>10 DEF Serve, Upload

LEMMA Walked ==
  ASSUME JobsTyped, RowsTyped, BlocksTyped, NEW r \in Requests, Serve(r) \/ Fails(r)
  PROVE  Walks(r)
<1>0. job[r].op \in Operations /\ job[r].pc \in PcsOf(job[r].op)
  BY JobIs
<1>1. CASE \E kind \in Kinds : Find(r, kind, TRUE) \/ Find(r, kind, job[r].op.new.of # NoRow)
  BY <1>1, FindStep DEF Walks, Looks
<1>2. CASE ValidateParentLink(r)
  BY <1>2, WalkStep DEF Walks, Looks, Over
<1>3. ASSUME PutGroup(r) \/ PutSubject(r) \/ PutBuilding(r) \/ PutClassroom(r) \/ Fails(r)
      PROVE  Walks(r)
  <2>1. Goto(r, "done")
    BY <1>3 DEF PutGroup, PutSubject, PutBuilding, PutClassroom, Put, Fails
  <2>. QED
    BY <2>1, Ending DEF Walks, Over
<1>4. ASSUME job[r].pc \in {"delete.count", "delete.row", "upload.read", "upload.overwrite", "upload.insert",
                            "slot.read"} \cup Rewriting
      PROVE  Walks(r)
  <2>1. job[r].op.kind \in {"delete", "upload", "createSlots", "updateSlot"}
    BY <1>0, <1>4, OperationIs DEF PcsOf, Rewriting
  <2>2. JobsTyped' /\ job'[r].op = job[r].op
    BY Served DEF Alone
  <2>3. job'[r].pc \in PcsOf(job[r].op)
    BY <2>2 DEF JobsTyped
  <2>. QED
    BY <2>1, <2>3 DEF PcsOf, Walks
<1>5. CASE DeleteEntry(r)
  BY <1>4, <1>5 DEF DeleteEntry, Check
<1>6. CASE Upload(r)
  BY <1>4, <1>6 DEF Upload, ReadCatalog, Resolve, Overwrite, InsertBlocks
<1>7. CASE ByHand(r)
  BY <1>4, <1>7, ByHandStep
<1>9. CASE Edit(r)
  BY <1>1, <1>2, <1>3, <1>5, <1>9 DEF Edit, EditGroup, EditSubject, EditBuilding, EditClassroom, Kinds
<1>. QED
  BY <1>3, <1>6, <1>7, <1>9 DEF Serve
-----------------------------------------------------------------------------
(* A step of a request, with what the history notes of it.                   *)

Notes(r) ==
  /\ met \subseteq met' /\ taken \subseteq taken'
  /\ db' # db => \A q \in Requests \ {r} : InService(q) => {r, q} \in met'
  /\ \A e \in Ids : /\ row'[e] # row[e] => writer'[e] = r
                    /\ row'[e] = row[e] => writer'[e] = writer[e]
                    /\ job[r].pc = "write" /\ Exists(e) /\ row'[e] # row[e] => row[e] \in taken'
  /\ \A q \in Requests :
       /\ stale[q] \subseteq stale'[q]
       /\ \A e \in Ids : job[q].index[e] # NoRow /\ row'[e] # row[e] => <<e, row[e]>> \in stale'[q]
Step(r) ==
  /\ Alone(r) /\ Notes(r) /\ Walks(r) /\ job[r].pc # "done"
  /\ \/ Looks(r) \/ Writes(r) \/ Deletes(r) \/ Selects(r) \/ Overwrites(r) \/ Inserts(r) \/ Puts(r)
     \/ \E kind \in Kinds : Reads(r, kind)
Kept == UNCHANGED <<met, failed, writer, taken, stale, lost>>

LEMMA NotDone ==
  ASSUME NEW r \in Requests, Serve(r) \/ Fails(r)
  PROVE  job[r].pc # "done"
<1>1. CASE Edit(r)
  BY <1>1 DEF Edit, EditGroup, EditSubject, EditBuilding, EditClassroom, Find, ValidateParentLink,
     PutGroup, PutSubject, PutBuilding, PutClassroom, Put, DeleteEntry, Check
<1>. QED
  BY <1>1 DEF Serve, Upload, ReadCatalog, Resolve, Overwrite, InsertBlocks, Fails,
     ByHand, ReadSlot, EnsureDependencies, HandleCollisions, WriteSlots, Check

LEMMA NotesServed ==
  ASSUME JobsTyped, RowsTyped, BlocksTyped, NEW r \in Requests, Serve(r),
         writer' = [e \in Ids |-> IF row'[e] # row[e] THEN r ELSE writer[e]],
         taken' = taken \cup {row[e] : e \in {f \in Ids :
                               job[r].pc = "write" /\ Exists(f) /\ row'[f] # row[f]}},
         stale' = [q \in Requests |-> stale[q] \cup
                     {<<e, row[e]>> : e \in {f \in Ids : job[q].index[f] # NoRow /\ row'[f] # row[f]}}],
         met' = met \cup {{r, q} : q \in {p \in Requests \ {r} : InService(p)}}
  PROVE  Step(r)
<1>1. ASSUME NEW q \in Requests
      PROVE  /\ stale[q] \subseteq stale'[q]
             /\ \A e \in Ids : job[q].index[e] # NoRow /\ row'[e] # row[e] => <<e, row[e]>> \in stale'[q]
  OBVIOUS
<1>2. Notes(r)
  BY <1>1 DEF Notes
<1>. QED
  BY <1>2, Served, Walked, NotDone DEF Step

LEMMA NotesFails ==
  ASSUME JobsTyped, RowsTyped, BlocksTyped, NEW r \in Requests, Fails(r), UNCHANGED <<met, writer, taken, stale>>
  PROVE  Step(r)
<1>1. Notes(r)
  BY DEF Notes, Fails, db
<1>. QED
  BY <1>1, Served, Walked, NotDone DEF Step

LEMMA Steps ==
  ASSUME JobsTyped, RowsTyped, BlocksTyped, HNext
  PROVE  (\E r \in Requests : Step(r)) \/ (\E b \in blocks : Remove(b) /\ Kept)
BY NotesServed, NotesFails DEF HNext, Kept

\* An entry keeps its kind, and only a deletion or its creation changes whether it is there.
LEMMA Moves ==
  ASSUME JobsTyped, RowsTyped, KindsStay, NEW r \in Requests, Step(r)
  PROVE  /\ row' \in [Ids -> Rows \cup {NoRow}]
         /\ \A e \in Ids :
              /\ Exists(e) => \/ row'[e] # NoRow /\ row'[e].kind = row[e].kind
                              \/ Deletes(r) /\ e = job[r].op.row /\ row'[e] = NoRow
              /\ ~Exists(e) /\ row'[e] # NoRow => Writes(r) /\ e = r /\ job[r].op.kind = "create"
<1>1. CASE row' = row
  BY <1>1 DEF RowsTyped, Exists
<1>2. CASE Writes(r)
  <2>. DEFINE v == job[r].op.new
              t == Target(r)
  <2>1. job[r].pc = "write" /\ job[r].op \in Operations /\ job[r].pc \in PcsOf(job[r].op)
    BY <1>2, JobIs DEF Writes
  <2>2. job[r].op.kind \in {"create", "update"} /\ v \in Inputs
    BY <2>1, OperationIs DEF PcsOf
  <2>3. v \in Rows /\ v # NoRow
    BY <2>2, InputIs, NothingAssumption
  <2>4. t \in Ids
    BY <2>1, <2>2, OperationIs DEF Target, Ids
  <2>5. row' = [row EXCEPT ![t] = v] /\ (job[r].op.kind = "update" => Exists(t))
    BY <1>2 DEF Writes
  <2>6. Exists(t) => row[t].kind = v.kind
    BY <2>1, <2>2 DEF KindsStay, Target
  <2>7. ~Exists(t) => t = r /\ job[r].op.kind = "create"
    BY <2>2, <2>5 DEF Target
  <2>. HIDE DEF v, t
  <2>. QED
    BY <1>2, <2>3, <2>4, <2>5, <2>6, <2>7 DEF RowsTyped, Exists
<1>3. CASE Deletes(r)
  <2>. DEFINE e == job[r].op.row
  <2>1. row' = [f \in Ids |-> IF f = e THEN NoRow
                              ELSE IF Exists(f) /\ row[f].of = e THEN [row[f] EXCEPT !.of = NoRow]
                              ELSE row[f]]
    BY <1>3 DEF Deletes, Orphaned
  <2>2. \A f \in Ids : Exists(f) => /\ [row[f] EXCEPT !.of = NoRow] \in Rows
                                    /\ [row[f] EXCEPT !.of = NoRow].kind = row[f].kind
    BY DEF RowsTyped, Exists, Rows
  <2>3. \A f \in Ids : row[f] \in Rows \cup {NoRow}
    BY DEF RowsTyped
  <2>. HIDE DEF e
  <2>4. row' \in [Ids -> Rows \cup {NoRow}]
    BY <2>1, <2>2, <2>3
  <2>5. ASSUME NEW f \in Ids, Exists(f), f # e
        PROVE  row'[f] # NoRow /\ row'[f].kind = row[f].kind
    BY <2>1, <2>2, <2>5, NothingAssumption DEF Exists
  <2>6. \A f \in Ids : ~Exists(f) \/ f = e => row'[f] = NoRow
    BY <2>1 DEF Exists
  <2>. QED
    BY <1>3, <2>4, <2>5, <2>6 DEF e
<1>. QED
  BY <1>1, <1>2, <1>3 DEF Step, Looks, Selects, Overwrites, Inserts, Puts, Reads, db
-----------------------------------------------------------------------------
(* Rows, blocks and kinds.                                                   *)

\* What an entry that is there belongs to after a step, it belonged to before
\* unless the step wrote it.
LEMMA Moved ==
  ASSUME JobsTyped, RowsTyped, KindsStay, NEW r \in Requests, Step(r), NEW e \in Ids,
         row'[e] # NoRow
  PROVE  \/ row'[e] = row[e] /\ Exists(e)
         \/ /\ Writes(r) /\ e = Target(r) /\ row'[e] = job[r].op.new
         \/ /\ Deletes(r) /\ Exists(e) /\ row[e].of = job[r].op.row /\ row'[e].of = NoRow
            /\ row'[e] = [row[e] EXCEPT !.of = NoRow]
<1>1. CASE row' = row
  BY <1>1 DEF Exists
<1>2. CASE Writes(r)
  <2>1. e = Target(r) => row'[e] = job[r].op.new
    BY <1>2 DEF Writes, RowsTyped
  <2>2. e # Target(r) => row'[e] = row[e]
    BY <1>2 DEF Writes, RowsTyped
  <2>. QED
    BY <1>2, <2>1, <2>2 DEF Exists
<1>3. CASE Deletes(r)
  <2>1. row' = [f \in Ids |-> IF f = job[r].op.row THEN NoRow
                              ELSE IF Exists(f) /\ row[f].of = job[r].op.row THEN [row[f] EXCEPT !.of = NoRow]
                              ELSE row[f]]
    BY <1>3 DEF Deletes, Orphaned
  <2>2. Exists(e) => row[e] \in Rows
    BY DEF RowsTyped, Exists
  <2>. QED
    BY <1>3, <2>1, <2>2 DEF Exists, Rows
<1>. QED
  BY <1>1, <1>2, <1>3 DEF Step, Looks, Selects, Overwrites, Inserts, Puts, Reads, db

LEMMA RowsStep ==
  ASSUME JobsTyped, RowsTyped, KindsStay, NEW r \in Requests, Step(r)
  PROVE  RowsTyped'
<1>1. row' \in [Ids -> Rows \cup {NoRow}]
  BY Moves
<1>2. ASSUME NEW e \in Ids, row'[e] # NoRow, row'[e].of # NoRow
      PROVE  row'[row'[e].of] # NoRow /\ <<row'[e].kind, row'[row'[e].of].kind>> \in Belonging
  <2>. DEFINE p == row'[e].of
  <2>0. p \in Ids
    BY <1>1, <1>2 DEF Rows
  <2>1. CASE row'[e] = row[e] /\ Exists(e)
    <3>1. Exists(p) /\ <<row[e].kind, row[p].kind>> \in Belonging
      BY <1>2, <2>1 DEF RowsTyped
    <3>2. CASE row'[p] # NoRow
      BY <2>0, <2>1, <3>1, <3>2, Moves
    <3>3. CASE row'[p] = NoRow
      <4>1. Deletes(r) /\ p = job[r].op.row
        BY <2>0, <3>1, <3>3, Moves
      <4>2. row' = Orphaned(p)
        BY <4>1 DEF Deletes
      <4>3. e # p
        BY <2>1, <3>3 DEF Exists
      <4>4. row'[e] = [row[e] EXCEPT !.of = NoRow]
        BY <2>1, <4>2, <4>3 DEF Orphaned
      <4>5. row[e] \in Rows
        BY <2>1 DEF RowsTyped, Exists
      <4>. QED
        BY <1>2, <4>4, <4>5 DEF Rows
    <3>. QED
      BY <3>2, <3>3
  <2>2. CASE Writes(r) /\ e = Target(r) /\ row'[e] = job[r].op.new
    <3>1. Exists(p) /\ <<row'[e].kind, row[p].kind>> \in Belonging
      BY <1>2, <2>2 DEF Writes
    <3>2. ~Deletes(r)
      BY <2>2 DEF Writes, Deletes
    <3>3. row'[p] # NoRow /\ row'[p].kind = row[p].kind
      BY <2>0, <3>1, <3>2, Moves
    <3>. QED
      BY <3>1, <3>3
  <2>. QED
    BY <1>2, <2>1, <2>2, Moved
<1>. QED
  BY <1>1, <1>2 DEF RowsTyped, Exists

LEMMA KindsStep ==
  ASSUME JobsTyped, RowsTyped, KindsStay, NEW r \in Requests, Step(r)
  PROVE  KindsStay'
<1>0. \A q \in Requests : job'[q].op = job[q].op /\ (q # r => job'[q] = job[q])
  BY DEF Step, Alone
<1>1. ASSUME NEW q \in Requests, row'[q] # NoRow
      PROVE  job'[q].op.kind = "create" /\ job'[q].op.new.kind = row'[q].kind /\ job'[q].pc = "done"
  <2>. q \in Ids
    BY DEF Ids
  <2>1. CASE Exists(q)
    <3>1. job[q].op.kind = "create" /\ job[q].op.new.kind = row[q].kind /\ job[q].pc = "done"
      BY <2>1 DEF KindsStay
    <3>2. row'[q].kind = row[q].kind
      <4>1. ASSUME Deletes(r), q = job[r].op.row PROVE FALSE
        <5>1. job[r].pc = "delete.row" /\ job[r].op \in Operations /\ job[r].pc \in PcsOf(job[r].op)
          BY <4>1, JobIs DEF Deletes
        <5>2. job[r].op.row \in Entries
          BY <5>1, OperationIs DEF PcsOf
        <5>. QED
          BY <4>1, <5>2, NothingAssumption
      <4>. QED
        BY <2>1, <4>1, Moves
    <3>3. job'[q] = job[q]
      BY <1>0, <3>1 DEF Step
    <3>. QED
      BY <1>0, <3>1, <3>2, <3>3
  <2>2. CASE ~Exists(q)
    <3>1. Writes(r) /\ q = r /\ job[r].op.kind = "create"
      BY <1>1, <2>2, Moves
    <3>2. job'[q].pc = "done"
      BY <3>1 DEF Writes, Over
    <3>3. row'[q] = job[q].op.new
      BY <1>1, <2>2, <3>1, Moved DEF Writes, Deletes
    <3>. QED
      BY <1>0, <3>1, <3>2, <3>3
  <2>. QED
    BY <2>1, <2>2
<1>2. ASSUME NEW q \in Requests, job[q].op.kind = "update", row'[job[q].op.row] # NoRow
      PROVE  row'[job[q].op.row].kind = job[q].op.new.kind
  <2>1. job[q].op.row \in Entries /\ job[q].op.row \in Ids /\ job[q].op.row \notin Requests
    BY <1>2, JobIs, OperationIs, NothingAssumption DEF Ids
  <2>2. Exists(job[q].op.row)
    BY <1>2, <2>1, Moves
  <2>3. row'[job[q].op.row].kind = row[job[q].op.row].kind
    BY <1>2, <2>1, <2>2, Moves
  <2>. QED
    BY <1>2, <2>2, <2>3 DEF KindsStay
<1>. QED
  BY <1>0, <1>1, <1>2 DEF KindsStay, Exists

\* A new block is a meaning of a line of the upload's file.
LEMMA NewMeans ==
  ASSUME JobsTyped, NewInv, NEW r \in Requests, NEW b \in job[r].new
  PROVE  LET ix == job[r].index IN
         /\ b \in Blocks /\ b.by = r
         /\ b.subject \in Ids /\ ix[b.subject] # NoRow /\ ix[b.subject].kind = "subject"
         /\ b.room \in Ids /\ ix[b.room] # NoRow /\ ix[b.room].kind = "classroom"
         /\ b.group \in Ids /\ ix[b.group] # NoRow /\ ix[b.group].kind = "group"
         /\ b.sub # Whole => \E h \in Ids : ix[h] = [kind |-> "group", name |-> b.sub, of |-> b.group]
<1>. DEFINE ix == job[r].index
<1>1. PICK line \in job[r].op.file : b \in Meanings(r, line)
  BY DEF NewInv
<1>2. job[r].op.kind = "upload" /\ line \in Lines
  BY <1>1, JobIs, OperationIs DEF NewInv
<1>3. /\ b \in Blocks /\ b.by = r
      /\ b.subject \in Named(ix, "subject", line.subject, NoRow)
      /\ b.group \in Named(ix, "group", line.group, NoRow)
      /\ \E c \in Named(ix, "building", line.building, NoRow) : b.room \in Named(ix, "classroom", line.room, c)
      /\ b.sub \in Subgroups(ix, line, b.group)
  BY <1>1, <1>2, MeaningIs
<1>4. ASSUME b.sub # Whole
      PROVE  \E h \in Ids : ix[h] = [kind |-> "group", name |-> b.sub, of |-> b.group]
  <2>1. PICK h \in Named(ix, "group", line.sub, b.group) : b.sub = ix[h].name
    BY <1>3, <1>4 DEF Subgroups
  <2>2. ix \in [Ids -> Rows \cup {NoRow}]
    BY JobIs
  <2>. HIDE DEF ix
  <2>3. h \in Ids /\ ix[h] \in Rows /\ ix[h].kind = "group" /\ ix[h].of = b.group
    BY <2>2 DEF Named
  <2>4. ix[h] = [kind |-> "group", name |-> b.sub, of |-> b.group]
    BY <2>1, <2>3 DEF Rows
  <2>. QED
    BY <2>3, <2>4
<1>. QED
  BY <1>3, <1>4 DEF Named

LEMMA NewKinds ==
  ASSUME JobsTyped, NewInv, IndexInv, NEW r \in Requests, Inserts(r), NEW b \in job[r].new
  PROVE  IsA(b.subject, "subject") /\ IsA(b.room, "classroom") /\ IsA(b.group, "group")
<1>1. /\ b.subject \in Ids /\ job[r].index[b.subject] # NoRow /\ job[r].index[b.subject].kind = "subject"
      /\ b.room \in Ids /\ job[r].index[b.room] # NoRow /\ job[r].index[b.room].kind = "classroom"
      /\ b.group \in Ids /\ job[r].index[b.group] # NoRow /\ job[r].index[b.group].kind = "group"
  BY NewMeans
<1>2. Exists(b.subject) /\ Exists(b.room) /\ Exists(b.group)
  BY DEF Inserts
<1>. QED
  BY <1>1, <1>2, NothingAssumption DEF IndexInv, IsA

\* Blocks appear only where an upload inserts its new ones, or they are written by hand.
LEMMA Inserted ==
  ASSUME NEW r \in Requests, Step(r)
  PROVE  blocks' \subseteq blocks \/ (Inserts(r) /\ blocks' = blocks \cup job[r].new) \/ Puts(r)
BY DEF Step, Looks, Writes, Deletes, Selects, Overwrites, Inserts, Puts, Reads, db

LEMMA BlocksStep ==
  ASSUME JobsTyped, RowsTyped, BlocksTyped, KindsStay, NewInv, IndexInv, NEW r \in Requests, Step(r)
  PROVE  BlocksTyped'
<1>1. ASSUME NEW b \in blocks'
      PROVE  b \in Blocks /\ IsA(b.subject, "subject") /\ IsA(b.room, "classroom") /\ IsA(b.group, "group")
  <2>1. CASE b \in blocks
    BY <2>1 DEF BlocksTyped
  <2>2. CASE b \notin blocks
    <3>1. (Inserts(r) /\ b \in job[r].new) \/ Puts(r)
      BY <2>2, Inserted
    <3>2. CASE Inserts(r) /\ b \in job[r].new
      BY <3>2, NewKinds, JobIs
    <3>. QED
      BY <2>2, <3>1, <3>2 DEF Puts
  <2>. QED
    BY <2>1, <2>2
<1>2. ASSUME NEW b \in blocks', NEW e \in {b.subject, b.room, b.group}
      PROVE  e \in Ids /\ row'[e] # NoRow /\ row'[e].kind = row[e].kind
  <2>1. e \in Ids /\ Exists(e) /\ e # NoRow
    BY <1>1, <1>2 DEF Blocks, IsA
  <2>2. ~(Deletes(r) /\ e = job[r].op.row)
    <3>1. SUFFICES ASSUME Deletes(r), e = job[r].op.row PROVE FALSE
      OBVIOUS
    <3>2. b \in blocks
      BY <3>1 DEF Deletes
    <3>. QED
      BY <1>1, <3>1, <3>2 DEF Deletes, InUse, IsA, GroupInUse, SubjectInUse, ClassroomInUse
  <2>. QED
    BY <2>1, <2>2, Moves
<1>. QED
  BY <1>1, <1>2 DEF BlocksTyped, IsA, Exists
-----------------------------------------------------------------------------
(* What an upload has read.                                                  *)

\* A creation writes a row where there was none; an update one that was there.
LEMMA Written ==
  ASSUME JobsTyped, KindsStay, NEW r \in Requests, Writes(r)
  PROVE  /\ job[r].op.kind \in {"create", "update"} /\ job[r].op.new \in Inputs
         /\ Target(r) \in Ids /\ ~Deletes(r) /\ row' = [row EXCEPT ![Target(r)] = job[r].op.new]
         /\ job[r].op.kind = "create" => Target(r) = r /\ ~Exists(r)
         /\ job[r].op.kind = "update" => /\ Exists(Target(r)) /\ Target(r) \in Entries
                                         /\ Target(r) = job[r].op.row
                                         /\ row[Target(r)].kind = job[r].op.new.kind
<1>1. job[r].pc = "write" /\ job[r].op \in Operations /\ job[r].pc \in PcsOf(job[r].op)
  BY JobIs DEF Writes
<1>2. job[r].op.kind \in {"create", "update"}
  BY <1>1, OperationIs DEF PcsOf
<1>3. job[r].op.new \in Inputs /\ (job[r].op.kind = "update" => job[r].op.row \in Entries)
  BY <1>1, <1>2, OperationIs
<1>. QED
  BY <1>1, <1>2, <1>3 DEF Target, KindsStay, Writes, Deletes, Ids

LEMMA Deleted ==
  ASSUME JobsTyped, NEW r \in Requests, Deletes(r)
  PROVE  /\ job[r].op.kind = "delete" /\ job[r].op.row \in Entries /\ job[r].op.row \in Ids
         /\ job[r].op.row \notin Requests
<1>1. job[r].pc = "delete.row" /\ job[r].op \in Operations /\ job[r].pc \in PcsOf(job[r].op)
  BY JobIs DEF Deletes
<1>. QED
  BY <1>1, OperationIs, NothingAssumption DEF PcsOf, Ids

LEMMA NothingLeft ==
  ASSUME NEW r \in Requests, Step(r), Over(r)
  PROVE  /\ job'[r].new = {} /\ job'[r].pc = "done" /\ \A e \in Ids : job'[r].index[e] = NoRow
<1>1. job'[r] = At(job'[r].op, "done") /\ job'[r].op \in Operations
  BY DEF Step, Alone, JobsTyped, Jobs, Over
<1>2. "done" \in PcsOf(job'[r].op)
  BY <1>1, OperationIs
<1>. QED
  BY <1>1, <1>2, AtIs DEF Over

LEMMA IndexStep ==
  ASSUME JobsTyped, RowsTyped, KindsStay, IndexInv, NEW r \in Requests, Step(r)
  PROVE  IndexInv'
<1>1. SUFFICES ASSUME NEW q \in Requests, NEW e \in Ids, job'[q].index[e] # NoRow
               PROVE  LET v == job'[q].index[e] IN
                      /\ row'[e] # NoRow => row'[e].kind = v.kind
                      /\ e \in Requests => row'[e] # NoRow
                      /\ row'[e] = v \/ <<e, v>> \in stale'[q]
  BY DEF IndexInv, Exists
<1>. DEFINE v == job'[q].index[e]
<1>2. CASE row' = row /\ v = row[e]
  BY <1>1, <1>2
<1>3. CASE job'[q].index[e] = job[q].index[e]
  <2>1. /\ Exists(e) => row[e].kind = v.kind
        /\ e \in Requests => Exists(e)
        /\ row[e] = v \/ <<e, v>> \in stale[q]
    BY <1>1, <1>3 DEF IndexInv
  <2>2. /\ stale[q] \subseteq stale'[q]
        /\ row'[e] # row[e] => <<e, row[e]>> \in stale'[q]
    BY <1>1, <1>3 DEF Step, Notes
  <2>3. row'[e] = v \/ <<e, v>> \in stale'[q]
    BY <2>1, <2>2
  <2>4. row'[e] # NoRow => row'[e].kind = v.kind
    <3>1. CASE Exists(e)
      BY <2>1, <3>1, Moves
    <3>2. CASE ~Exists(e)
      <4>1. ASSUME row'[e] # NoRow PROVE FALSE
        <5>1. e = r
          BY <3>2, <4>1, Moves
        <5>. QED
          BY <2>1, <3>2, <5>1
      <4>. QED
        BY <4>1
    <3>. QED
      BY <3>1, <3>2
  <2>5. e \in Requests => row'[e] # NoRow
    BY <2>1, Moves, Deleted
  <2>. QED
    BY <2>3, <2>4, <2>5
<1>4. (row' = row /\ v = row[e]) \/ job'[q].index[e] = job[q].index[e]
  <2>1. CASE q # r
    BY <2>1 DEF Step, Alone
  <2>2. CASE q = r
    <3>1. ~Over(r)
      BY <1>1, <2>2, NothingLeft
    <3>2. CASE \E kind \in Kinds : Reads(r, kind)
      BY <2>2, <3>2 DEF Reads, db
    <3>. QED
      BY <2>2, <3>1, <3>2 DEF Step, Looks, Same, Writes, Deletes, Selects, Overwrites, Inserts, Puts
  <2>. QED
    BY <2>1, <2>2
<1>. QED
  BY <1>2, <1>3, <1>4
-----------------------------------------------------------------------------
(* What an upload inserts, and what it has lost.                             *)

LEMMA NewStep ==
  ASSUME JobsTyped, NewInv, NEW r \in Requests, Step(r)
  PROVE  NewInv'
<1>1. SUFFICES ASSUME NEW q \in Requests, NEW b \in job'[q].new
               PROVE  /\ b.by = q /\ job'[q].op.kind = "upload"
                      /\ job'[q].pc \in {"upload.overwrite", "upload.insert"}
                      /\ \E line \in job'[q].op.file : b \in Meanings(q, line)'
  BY DEF NewInv
<1>2. ASSUME job'[q].index = job[q].index
      PROVE  \A line : Meanings(q, line)' = Meanings(q, line)
  BY <1>2 DEF Meanings
<1>3. CASE job'[q] = job[q]
  BY <1>1, <1>2, <1>3 DEF NewInv
<1>4. CASE q = r /\ Looks(r)
  <2>1. Same(r)
    BY <1>1, <1>4, NothingLeft DEF Looks
  <2>2. job[q].op.kind = "upload" /\ job'[q].op = job[q].op /\ b \in job[q].new
    BY <1>1, <1>4, <2>1 DEF NewInv, Same, Step, Alone
  <2>3. job'[q].pc \in PcsOf(job[q].op)
    BY <1>4, <2>2 DEF Step, Alone, JobsTyped
  <2>4. job'[q].pc \in {"upload.overwrite", "upload.insert"}
    BY <1>1, <1>4, <2>2, <2>3, NothingLeft DEF PcsOf, Over, Looks
  <2>. QED
    BY <1>1, <1>2, <1>4, <2>1, <2>2, <2>4 DEF NewInv, Same
<1>5. CASE q = r /\ Selects(r)
  <2>1. PICK line \in job[r].op.file : b \in Meanings(r, line)
    BY <1>1, <1>5 DEF Selects
  <2>2. job[r].op \in Operations /\ job[r].pc \in PcsOf(job[r].op) /\ job[r].pc = "upload.read"
    BY <1>5, JobIs DEF Selects
  <2>3. job[r].op.kind = "upload" /\ line \in Lines
    BY <2>1, <2>2, OperationIs DEF PcsOf
  <2>4. b.by = r
    BY <2>1, <2>3, MeaningIs
  <2>. QED
    BY <1>2, <1>5, <2>1, <2>3, <2>4 DEF Selects, Step, Alone
<1>6. CASE q = r /\ \E kind \in Kinds : Reads(r, kind)
  BY <1>1, <1>6 DEF Reads, NewInv
<1>7. CASE q = r /\ (Writes(r) \/ Deletes(r) \/ Inserts(r) \/ Puts(r))
  BY <1>1, <1>7, NothingLeft DEF Writes, Deletes, Inserts, Puts
<1>8. CASE q = r /\ Overwrites(r)
  BY <1>3, <1>8 DEF Overwrites
<1>9. CASE q # r
  BY <1>3, <1>9 DEF Step, Alone
<1>. QED
  BY <1>4, <1>5, <1>6, <1>7, <1>8, <1>9 DEF Step

\* Once a file is resolved its catalogs are not read again.
LEMMA LaterPc ==
  ASSUME JobsTyped, NEW r \in Requests, Step(r), NEW q \in Requests,
         job[q].pc \in {"upload.overwrite", "upload.insert", "done"}
  PROVE  job'[q].pc \in {"upload.overwrite", "upload.insert", "done"}
<1>1. CASE q # r
  BY <1>1 DEF Step, Alone
<1>2. CASE q = r
  <2>1. job[r].op \in Operations /\ job[r].pc \in PcsOf(job[r].op) /\ job[r].pc # "done"
    BY JobIs DEF Step
  <2>2. job[r].op.kind = "upload"
    BY <1>2, <2>1, OperationIs DEF PcsOf
  <2>3. job'[r].pc \in PcsOf(job[r].op)
    BY DEF Step, Alone, JobsTyped
  <2>4. job'[r].pc # "upload.read"
    BY <1>2, <2>1 DEF Step, Looks, Writes, Deletes, Selects, Overwrites, Inserts, Puts, Reads, Over
  <2>. QED
    BY <1>2, <2>2, <2>3, <2>4 DEF PcsOf
<1>. QED
  BY <1>1, <1>2
-----------------------------------------------------------------------------
(* The ancestors a request has read.                                         *)

LEMMA WalkInvStep ==
  ASSUME JobsTyped, RowsTyped, KindsStay, WalkInv, NEW r \in Requests, Step(r)
  PROVE  WalkInv'
<1>. DEFINE Below(x, q) == \/ row'[x] = NoRow \/ row'[x].of \in job'[q].seen \cup {job'[q].at, NoRow}
                           \/ {q, writer'[x]} \in met'
<1>1. SUFFICES ASSUME NEW q \in Requests, job'[q].pc \in {"walk", "write"}, job'[q].op.new.kind = "group"
               PROVE  /\ job'[q].op.new.of \in job'[q].seen \cup {job'[q].at}
                      /\ job'[q].pc = "write" => job'[q].at = NoRow
                      /\ Target(q)' \notin job'[q].seen
                      /\ \A x \in job'[q].seen : Below(x, q)
  BY DEF WalkInv, Exists, Met
<1>2. job'[q].op = job[q].op /\ Target(q)' = Target(q) /\ job[q].seen \in SUBSET Ids /\ met \subseteq met'
  BY JobIs DEF Step, Alone, Target, Notes
<1>3. CASE q = r
  <2>1. UNCHANGED db
    BY <1>1, <1>3 DEF Step, Walks
  <2>2. CASE job'[r].seen = {}
    BY <1>1, <1>2, <1>3, <2>2 DEF Step, Walks
  <2>3. CASE job'[r].seen # {}
    <3>. DEFINE a == job[r].at
    <3>1. /\ job[r].pc = "walk" /\ a \in Ids /\ Exists(a) /\ a # job[r].op.row
          /\ job'[r].seen = job[r].seen \cup {a} /\ job'[r].at = row[a].of
          /\ job'[r].pc = "write" => row[a].of = NoRow
      BY <1>1, <1>3, <2>3 DEF Step, Walks
    <3>2. a # Target(r)
      BY <3>1 DEF Target, KindsStay
    <3>3. /\ job[r].op.new.of \in job[r].seen \cup {a} /\ Target(r) \notin job[r].seen
          /\ \A x \in job[r].seen : \/ ~Exists(x) \/ row[x].of \in job[r].seen \cup {a, NoRow}
                                    \/ Met(r, writer[x])
      BY <1>1, <1>2, <1>3, <3>1 DEF WalkInv
    <3>4. ASSUME NEW x \in job'[r].seen PROVE Below(x, r)
      <4>1. x \in Ids /\ row'[x] = row[x] /\ writer'[x] = writer[x]
        BY <1>2, <1>3, <2>1, <3>1 DEF db, Step, Notes
      <4>2. CASE x = a
        BY <3>1, <4>1, <4>2
      <4>3. CASE x \in job[r].seen
        BY <1>2, <3>1, <3>3, <4>1, <4>3 DEF Exists, Met
      <4>. QED
        BY <3>1, <4>2, <4>3
    <3>. QED
      BY <1>2, <1>3, <3>1, <3>2, <3>3, <3>4
  <2>. QED
    BY <2>2, <2>3
<1>4. CASE q # r
  <2>1. job'[q] = job[q]
    BY <1>4 DEF Step, Alone
  <2>2. /\ job[q].op.new.of \in job[q].seen \cup {job[q].at} /\ Target(q) \notin job[q].seen
        /\ job[q].pc = "write" => job[q].at = NoRow
        /\ \A x \in job[q].seen : \/ ~Exists(x) \/ row[x].of \in job[q].seen \cup {job[q].at, NoRow}
                                  \/ Met(q, writer[x])
    BY <1>1, <2>1 DEF WalkInv
  <2>3. ASSUME NEW x \in job[q].seen PROVE Below(x, q)
    <3>1. x \in Ids
      BY <1>2
    <3>2. CASE row'[x] = row[x]
      <4>1. writer'[x] = writer[x]
        BY <3>1, <3>2 DEF Step, Notes
      <4>. QED
        BY <1>2, <2>1, <2>2, <3>2, <4>1 DEF Exists, Met
    <3>3. CASE row'[x] # row[x]
      <4>1. writer'[x] = r /\ db' # db
        BY <3>1, <3>3 DEF Step, Notes, db
      <4>2. InService(q)
        BY <1>1, <2>1, ServedBy
      <4>3. {r, q} \in met'
        BY <1>4, <4>1, <4>2 DEF Step, Notes
      <4>4. {q, writer'[x]} \in met'
        <5>1. {q, r} = {r, q}
          OBVIOUS
        <5>. QED
          BY <4>1, <4>3, <5>1
      <4>. QED
        BY <4>4
    <3>. QED
      BY <3>2, <3>3
  <2>. QED
    BY <1>1, <1>2, <2>1, <2>2, <2>3
<1>. QED
  BY <1>3, <1>4
-----------------------------------------------------------------------------
(* Cycles.                                                                   *)

\* A function onto a finite set from itself is onto each part it maps into itself.
LEMMA OntoPart ==
  ASSUME NEW C, IsFiniteSet(C), NEW f \in [C -> C], \A y \in C : \E x \in C : f[x] = y,
         NEW D \in SUBSET C, \A x \in D : f[x] \in D
  PROVE  \A y \in D : \E x \in D : f[x] = y
<1>1. f \in Injection(C, C)
  BY Fun_IsSurj, FS_SurjSameCardinalityImpliesInj
<1>2. \A a, b \in C : f[a] = f[b] => a = b
  BY <1>1, Fun_InjectionProperties
<1>. DEFINE g == [x \in D |-> f[x]]
<1>3. g \in [D -> D] /\ \A a, b \in D : g[a] = g[b] => a = b
  BY <1>2
<1>4. IsFiniteSet(D)
  BY FS_Subset
<1>. HIDE DEF g
<1>5. g \in Injection(D, D)
  BY <1>3, Fun_IsInj
<1>6. g \in Surjection(D, D)
  BY <1>4, <1>5, FS_Injection
<1>7. \A y \in D : \E x \in D : g[x] = y
  BY <1>6, Fun_SurjectionProperties
<1>. QED
  BY <1>7 DEF g

\* What belongs to an entry that belongs to another is a group.
OnlyGroupsNest ==
  \A e \in Ids : row[e] # NoRow /\ row[e].of \in Ids /\ row[row[e].of] # NoRow
                /\ row[e].of # NoRow /\ row[row[e].of].of # NoRow => row[e].kind = "group"
LEMMA OnlyGroups == RowsTyped => OnlyGroupsNest
<1>1. SUFFICES ASSUME RowsTyped, NEW e \in Ids, row[e] # NoRow, row[e].of \in Ids, row[row[e].of] # NoRow,
                      row[e].of # NoRow, row[row[e].of].of # NoRow
               PROVE  row[e].kind = "group"
  BY DEF OnlyGroupsNest
<1>2. <<row[e].kind, row[row[e].of].kind>> \in Belonging
  BY <1>1 DEF RowsTyped, Exists
<1>3. <<row[row[e].of].kind, row[row[row[e].of].of].kind>> \in Belonging
  BY <1>1 DEF RowsTyped, Exists
<1>. QED
  BY <1>2, <1>3 DEF Belonging

\* Entries that belong to each other in a circle.
Cycle(C) == C \in (SUBSET {e \in Ids : Exists(e) /\ row[e].of # NoRow}) \ {{}} /\ C = {row[e].of : e \in C}

LEMMA CycleStep ==
  ASSUME JobsTyped, RowsTyped, KindsStay, WalkInv, NoCycleUnlessRaced, NEW r \in Requests, Step(r)
  PROVE  NoCycleUnlessRaced'
<1>. DEFINE Raced(C) == \E e, f \in C : e # f /\ {writer'[e], writer'[f]} \in met'
<1>1. SUFFICES ASSUME NEW C, C \subseteq Ids, C # {}, \A e \in C : row'[e] # NoRow /\ row'[e].of # NoRow,
                      C = {row'[e].of : e \in C}
               PROVE  Raced(C)
  BY DEF NoCycleUnlessRaced, Exists, Met
<1>2. met \subseteq met' /\ \A e \in C : row'[e] = row[e] => writer'[e] = writer[e]
  BY <1>1 DEF Step, Notes
<1>3. ASSUME NEW D, D \subseteq C, D # {}, \A e \in D : row'[e] = row[e], D = {row[e].of : e \in D}
      PROVE  Raced(C)
  <2>1. D \in (SUBSET {e \in Ids : Exists(e) /\ row[e].of # NoRow}) \ {{}}
    BY <1>1, <1>3 DEF Exists
  <2>2. PICK e \in D, f \in D : e # f /\ Met(writer[e], writer[f])
    BY <1>3, <2>1 DEF NoCycleUnlessRaced
  <2>. QED
    BY <1>2, <1>3, <2>2 DEF Met
<1>4. CASE \A e \in C : row'[e] = row[e]
  <2>1. C = {row[e].of : e \in C}
    BY <1>1, <1>4
  <2>. QED
    BY <1>1, <1>3, <1>4, <2>1
<1>5. CASE \E e \in C : row'[e] # row[e]
  <2>. DEFINE t == Target(r)
              v == job[r].op.new
              seen == job[r].seen
  <2>1. \A e \in C : row'[e] = row[e] \/ (Writes(r) /\ e = t /\ row'[e] = v)
    BY <1>1, Moved
  <2>2. Writes(r) /\ t \in C /\ row'[t] = v /\ row'[t] # row[t] /\ \A e \in C : e # t => row'[e] = row[e]
    BY <1>5, <2>1
  <2>3. v.of # NoRow /\ v.of \in C /\ v.of \in Ids /\ job[r].pc = "write"
    BY <1>1, <2>2 DEF Writes
  <2>4. v.kind = "group"
    <3>1. RowsTyped'
      BY RowsStep
    <3>2. OnlyGroupsNest'
      BY <3>1, OnlyGroups, PTL
    <3>3. t \in Ids /\ row'[t] # NoRow /\ row'[v.of] # NoRow /\ row'[v.of].of # NoRow
      BY <1>1, <2>2, <2>3
    <3>. HIDE DEF t, v
    <3>. QED
      BY <2>2, <2>3, <3>2, <3>3 DEF OnlyGroupsNest
  <2>5. /\ v.of \in seen /\ t \notin seen
        /\ \A x \in seen : ~Exists(x) \/ row[x].of \in seen \cup {NoRow} \/ Met(r, writer[x])
    BY <2>3, <2>4 DEF WalkInv
  <2>. DEFINE D == C \cap seen
  <2>6. \A x \in D : x # t /\ row'[x] = row[x] /\ writer'[x] = writer[x] /\ Exists(x) /\ row[x].of # NoRow
    BY <1>1, <1>2, <2>2, <2>5 DEF Exists
  <2>7. CASE \E x \in D : Met(r, writer[x])
    <3>1. PICK x \in D : Met(r, writer[x])
      BY <2>7
    <3>2. writer'[t] = r
      BY <1>1, <2>2 DEF Step, Notes
    <3>3. {writer'[t], writer'[x]} \in met'
      BY <1>2, <2>6, <3>1, <3>2 DEF Met
    <3>. QED
      BY <2>2, <2>6, <3>1, <3>3
  <2>8. CASE \A x \in D : ~Met(r, writer[x])
    <3>. DEFINE g == [x \in C |-> row'[x].of]
    <3>1. \A x \in C : row'[x].of \in C
      BY <1>1
    <3>2. g \in [C -> C] /\ \A y \in C : \E x \in C : g[x] = y
      <4>1. \A y \in C : \E x \in C : row'[x].of = y
        BY <1>1
      <4>. QED
        BY <3>1, <4>1
    <3>3. \A x \in D : g[x] = row[x].of /\ g[x] \in D
      <4>1. ASSUME NEW x \in D PROVE row[x].of \in seen
        BY <2>5, <2>6, <2>8
      <4>2. ASSUME NEW x \in D PROVE g[x] = row[x].of /\ g[x] \in C
        BY <2>6, <3>1
      <4>. QED
        BY <4>1, <4>2
    <3>4. IsFiniteSet(C)
      BY <1>1, FiniteAssumption, FS_Subset
    <3>5. \A y \in D : \E x \in D : g[x] = y
      <4>1. D \in SUBSET C /\ \A x \in D : g[x] \in D
        BY <3>3
      <4>. HIDE DEF g, D
      <4>. QED
        BY <3>2, <3>4, <4>1, OntoPart
    <3>6. D = {row[x].of : x \in D}
      <4>. HIDE DEF g
      <4>. QED
        BY <3>3, <3>5
    <3>. QED
      BY <1>3, <2>3, <2>5, <2>6, <3>6
  <2>. QED
    BY <2>7, <2>8
<1>. QED
  BY <1>4, <1>5
-----------------------------------------------------------------------------
(* Blocks of subgroups.                                                      *)

SubgroupOf(b) == [kind |-> "group", name |-> b.sub, of |-> b.group]
LEMMA SubgroupIs ==
  ASSUME NEW b \in Blocks, b.sub # Whole
  PROVE  SubgroupOf(b) \in Rows /\ SubgroupOf(b) # NoRow
<1>1. b.sub \in Names /\ b.group \in Ids
  BY DEF Blocks
<1>2. SubgroupOf(b) \in Rows
  BY <1>1 DEF SubgroupOf, Rows, Kinds
<1>. QED
  BY <1>2, NothingAssumption

LEMMA SubgroupsStep ==
  ASSUME JobsTyped, RowsTyped, BlocksTyped, NewInv, IndexInv, SubgroupsOfBlocksExist,
         NEW r \in Requests, Step(r)
  PROVE  SubgroupsOfBlocksExist'
<1>1. SUFFICES ASSUME NEW b \in blocks', b.sub # Whole, b.by # NoRow => job'[b.by].op.kind = "upload"
               PROVE  \/ \E f \in Ids : row'[f] = SubgroupOf(b)
                      \/ SubgroupOf(b) \in taken'
                      \/ b.by # NoRow /\ \E e \in Ids : <<e, SubgroupOf(b)>> \in stale'[b.by]
  BY DEF SubgroupsOfBlocksExist, Like, SubgroupOf
<1>2. /\ taken \subseteq taken'
      /\ \A q \in Requests : stale[q] \subseteq stale'[q] /\ job'[q].op = job[q].op
  BY DEF Step, Notes, Alone
<1>3. CASE b \in blocks
  <2>1. /\ b \in Blocks /\ IsA(b.group, "group")
        /\ SubgroupOf(b) \in Rows /\ SubgroupOf(b) # NoRow
    BY <1>1, <1>3, SubgroupIs DEF BlocksTyped
  <2>0. b.by \in Requests \cup {NoRow}
    BY <2>1 DEF Blocks
  <2>2. \/ \E f \in Ids : row[f] = SubgroupOf(b)
        \/ SubgroupOf(b) \in taken
        \/ b.by # NoRow /\ \E e \in Ids : <<e, SubgroupOf(b)>> \in stale[b.by]
    BY <1>1, <1>2, <1>3, <2>0 DEF SubgroupsOfBlocksExist, Like, SubgroupOf
  <2>3. ASSUME NEW f \in Ids, row[f] = SubgroupOf(b), row'[f] # row[f]
        PROVE  SubgroupOf(b) \in taken'
    <3>1. Exists(f)
      BY <2>1, <2>3 DEF Exists
    <3>2. CASE Writes(r)
      BY <2>3, <3>1, <3>2 DEF Writes, Step, Notes
    <3>3. CASE Deletes(r)
      <4>. DEFINE e == job[r].op.row
      <4>1. ~InUse(e) /\ e # NoRow /\ (f = e \/ row[f].of = e)
        <5>1. ~InUse(e) /\ row' = Orphaned(e)
          BY <3>3 DEF Deletes
        <5>2. f = e \/ row[f].of = e
          BY <2>3, <5>1 DEF Orphaned
        <5>. QED
          BY <3>3, <5>1, <5>2, Deleted, NothingAssumption
      <4>2. row[f].kind = "group" /\ row[f].name = b.sub /\ row[f].of = b.group
        BY <2>3 DEF SubgroupOf
      <4>3. CASE f = e
        <5>1. IsA(e, "group")
          BY <3>1, <4>1, <4>2, <4>3 DEF IsA
        <5>2. GroupInUse(e)
          BY <1>3, <4>2, <4>3 DEF GroupInUse
        <5>. QED
          BY <4>1, <5>1, <5>2 DEF InUse
      <4>4. CASE row[f].of = e
        <5>1. e = b.group
          BY <4>2, <4>4
        <5>2. GroupInUse(e)
          BY <1>3, <5>1 DEF GroupInUse
        <5>. QED
          BY <2>1, <4>1, <5>1, <5>2 DEF InUse
      <4>. QED
        BY <4>1, <4>3, <4>4
    <3>. QED
      BY <2>3, <3>2, <3>3 DEF Step, Looks, Selects, Overwrites, Inserts, Puts, Reads, db
  <2>. QED
    BY <1>2, <2>0, <2>2, <2>3
<1>4. CASE b \notin blocks
  <2>0. ~Puts(r)
    <3>1. SUFFICES ASSUME Puts(r) PROVE FALSE
      OBVIOUS
    <3>2. b.by = r /\ r # NoRow /\ job[r].pc = "slot.write"
      BY <1>4, <3>1, NothingAssumption DEF Puts, Ids
    <3>3. job[r].op.kind # "upload"
      BY <3>2, JobIs, OperationIs DEF PcsOf
    <3>. QED
      BY <1>1, <1>2, <3>2, <3>3
  <2>1. Inserts(r) /\ b \in job[r].new /\ row' = row
    BY <1>4, <2>0, Inserted DEF Inserts
  <2>2. PICK h \in Ids : job[r].index[h] = SubgroupOf(b)
    BY <1>1, <2>1, NewMeans DEF SubgroupOf
  <2>3. b.by = r /\ r # NoRow /\ SubgroupOf(b) # NoRow
    <3>1. b.by = r /\ SubgroupOf(b) # NoRow
      BY <1>1, <2>1, NewMeans, SubgroupIs
    <3>. QED
      BY <3>1, NothingAssumption DEF Ids
  <2>4. row[h] = SubgroupOf(b) \/ <<h, SubgroupOf(b)>> \in stale[r]
    BY <2>2, <2>3 DEF IndexInv
  <2>. QED
    BY <1>2, <2>1, <2>3, <2>4
<1>. QED
  BY <1>3, <1>4
-----------------------------------------------------------------------------
(* Blocks that were deleted to make room.                                    *)

LEMMA AtUpload ==
  ASSUME NEW r \in Requests, Serve(r), job[r].pc \in {"upload.overwrite", "upload.insert"}
  PROVE  IF job[r].pc = "upload.overwrite" THEN Overwrite(r) ELSE InsertBlocks(r)
<1>1. ~Edit(r) /\ ~ByHand(r)
  BY DEF Edit, EditGroup, EditSubject, EditBuilding, EditClassroom, Find, ValidateParentLink,
     PutGroup, PutSubject, PutBuilding, PutClassroom, Put, DeleteEntry, Check,
     ByHand, ReadSlot, EnsureDependencies, HandleCollisions, WriteSlots
<1>. QED
  BY <1>1 DEF Serve, Upload, ReadCatalog, Resolve, Overwrite, InsertBlocks

LEMMA LostStep ==
  ASSUME JobsTyped, LostInv, NEW r \in Requests, Step(r),
         lost' \subseteq lost \cup {q \in {r} : job[r].op.kind = "upload" /\ blocks \ blocks' # {}}
  PROVE  LostInv'
<1>1. SUFFICES ASSUME NEW q \in lost'
               PROVE  q \in Requests /\ job'[q].pc \in {"upload.overwrite", "upload.insert", "done"}
  BY DEF LostInv
<1>2. CASE q \in lost
  BY <1>2, LaterPc DEF LostInv
<1>3. CASE q = r /\ job[r].op.kind = "upload" /\ blocks \ blocks' # {}
  <2>1. Overwrites(r) \/ Puts(r)
    BY <1>3 DEF Step, Looks, Writes, Deletes, Selects, Inserts, Reads, db
  <2>2. job[r].pc \notin {"slot.collide", "slot.write"}
    BY <1>3, JobIs DEF PcsOf
  <2>. QED
    BY <1>3, <2>1, <2>2 DEF Overwrites, Puts
<1>. QED
  BY <1>2, <1>3

\* An upload that is over inserted its blocks, or failed, or what they refer to is gone.
LEMMA LossStep ==
  ASSUME JobsTyped, RowsTyped, BlocksTyped, NewInv, IndexInv, LostInv, HNext,
         NEW r \in lost, job[r].pc # "done", job'[r].pc = "done"
  PROVE  \/ job[r].new \subseteq blocks' \/ r \in failed'
         \/ \E b \in job[r].new : \E e \in {b.subject, b.room, b.group} : ~Exists(e) /\ e \in Stale(r)
<1>1. r \in Requests /\ job[r].pc \in {"upload.overwrite", "upload.insert"}
  BY DEF LostInv
<1>2. ASSUME NEW q \in Requests, Fails(q), failed' = failed \cup {q}
      PROVE  r \in failed'
  <2>1. Alone(q)
    BY <1>2, Served
  <2>. QED
    BY <1>1, <1>2, <2>1 DEF Alone
<1>3. ASSUME NEW q \in Requests, Serve(q)
      PROVE  \/ job[r].new \subseteq blocks'
             \/ \E b \in job[r].new : \E e \in {b.subject, b.room, b.group} : ~Exists(e) /\ e \in Stale(r)
  <2>1. q = r
    BY <1>1, <1>3, Served DEF Alone
  <2>2. job[r].pc # "upload.overwrite"
    BY <1>1, <1>3, <2>1, AtUpload, OverwriteStep DEF Overwrites
  <2>3. InsertBlocks(r)
    BY <1>1, <1>3, <2>1, <2>2, AtUpload
  <2>4. CASE job[r].new \subseteq blocks'
    BY <2>4
  <2>5. CASE \E b \in job[r].new : ~(Exists(b.subject) /\ Exists(b.room) /\ Exists(b.group))
    <3>0. PICK b \in job[r].new : ~(Exists(b.subject) /\ Exists(b.room) /\ Exists(b.group))
      BY <2>5
    <3>1. PICK e \in {b.subject, b.room, b.group} : ~Exists(e)
      BY <3>0
    <3>2. e \in Ids /\ job[r].index[e] # NoRow
      <4>1. /\ b.subject \in Ids /\ job[r].index[b.subject] # NoRow
            /\ b.room \in Ids /\ job[r].index[b.room] # NoRow
            /\ b.group \in Ids /\ job[r].index[b.group] # NoRow
        BY <1>1, <3>0, NewMeans
      <4>. QED
        BY <3>1, <4>1
    <3>3. <<e, job[r].index[e]>> \in stale[r]
      BY <1>1, <3>1, <3>2 DEF IndexInv, Exists
    <3>4. e \in Stale(r)
      BY <3>3 DEF Stale
    <3>. QED
      BY <3>1, <3>4
  <2>. QED
    BY <1>1, <2>3, <2>4, <2>5, InsertStep
<1>. QED
  BY <1>2, <1>3 DEF HNext, Remove
-----------------------------------------------------------------------------
(* The invariant, and the theorems.                                          *)

LEMMA InitIInv == HInit => IInv
<1>. SUFFICES ASSUME HInit PROVE IInv
  OBVIOUS
<1>1. PICK s \in Scenarios :
        /\ row = [e \in Ids |-> IF e \in Entries THEN s.row[e] ELSE NoRow]
        /\ blocks = s.blocks
        /\ job = [r \in Requests |-> At(s.operations[r], First(s.operations[r]))]
  BY DEF HInit, Init
<1>2. Consistent(s)
  BY ScenariosAssumption
<1>3. \A r \in Requests :
        LET op == s.operations[r] IN
        /\ op \in Operations /\ First(op) \in PcsOf(op)
        /\ First(op) \in {"find", "update.read", "delete.count", "upload.read", "slot.subject", "slot.read"}
        /\ (First(op) = "slot.subject" => op.kind # "updateSlot")
        /\ job[r] = At(op, First(op)) /\ job[r] \in Jobs /\ job[r].op = op /\ job[r].pc = First(op)
        /\ job[r].new = {} /\ job[r].seen = {} /\ \A e \in Ids : job[r].index[e] = NoRow
  <2>1. \A r \in Requests : s.operations[r] \in Operations /\ job[r] = At(s.operations[r], First(s.operations[r]))
    BY <1>1, <1>2 DEF Consistent
  <2>. QED
    BY <2>1, OperationIs, AtIs
<1>4. JobsTyped
  <2>1. job \in [Requests -> Jobs]
    BY <1>1, <1>3
  <2>. QED
    BY <1>3, <2>1 DEF JobsTyped, Rewriting
<1>5. \A e \in Ids : /\ Exists(e) => e \in Entries /\ e \notin Requests
                     /\ row[e] \in Rows \cup {NoRow}
                     /\ e \in Entries => row[e] = s.row[e] /\ (Exists(e) <=> s.row[e] # NoRow)
  BY <1>1, <1>2, NothingAssumption DEF Consistent, Exists
<1>6. RowsTyped
  <2>1. row \in [Ids -> Rows \cup {NoRow}]
    BY <1>1, <1>5
  <2>2. \A e \in Entries : s.row[e] # NoRow /\ s.row[e].of # NoRow =>
          /\ s.row[e].of \in Entries /\ s.row[s.row[e].of] # NoRow
          /\ <<s.row[e].kind, s.row[s.row[e].of].kind>> \in Belonging
    BY <1>2 DEF Consistent
  <2>3. Entries \subseteq Ids
    BY DEF Ids
  <2>. QED
    BY <1>5, <2>1, <2>2, <2>3 DEF RowsTyped
<1>7. BlocksTyped
  <2>1. ASSUME NEW b \in blocks
        PROVE  /\ IsA(b.subject, "subject") /\ IsA(b.room, "classroom") /\ IsA(b.group, "group")
    <3>1. /\ {b.subject, b.room, b.group} \subseteq {e \in Entries : s.row[e] # NoRow}
          /\ s.row[b.subject].kind = "subject" /\ s.row[b.room].kind = "classroom"
          /\ s.row[b.group].kind = "group"
      BY <1>1, <1>2 DEF Consistent
    <3>2. {b.subject, b.room, b.group} \subseteq Ids \ {NoRow}
      BY <3>1, NothingAssumption DEF Ids
    <3>. QED
      BY <1>5, <3>1, <3>2 DEF IsA
  <2>. QED
    BY <1>1, <1>2, <2>1 DEF BlocksTyped, Consistent
<1>8. KindsStay
  <2>1. ASSUME NEW r \in Requests, job[r].op.kind = "update", Exists(job[r].op.row)
        PROVE  row[job[r].op.row].kind = job[r].op.new.kind
    <3>1. job[r].op.row \in Entries /\ job[r].op = s.operations[r]
      BY <1>3, <2>1, OperationIs
    <3>2. s.row[job[r].op.row] # NoRow /\ row[job[r].op.row] = s.row[job[r].op.row]
      BY <1>5, <2>1, <3>1 DEF Ids
    <3>3. \A e \in Entries : s.row[e] # NoRow =>
            \A q \in Requests : s.operations[q].kind = "update" /\ s.operations[q].row = e
              => s.operations[q].new.kind = s.row[e].kind
      BY <1>2 DEF Consistent
    <3>. QED
      BY <2>1, <3>1, <3>2, <3>3
  <2>. QED
    BY <1>5, <2>1 DEF KindsStay, Ids
<1>9. IndexInv /\ NewInv /\ WalkInv
  BY <1>3 DEF IndexInv, NewInv, WalkInv
<1>10. LostInv
  BY DEF HInit, LostInv
<1>11. NoCycleUnlessRaced
  <2>1. SUFFICES ASSUME NEW C \in (SUBSET {e \in Ids : Exists(e) /\ row[e].of # NoRow}) \ {{}},
                        C = {row[e].of : e \in C}
                 PROVE  FALSE
    BY DEF NoCycleUnlessRaced
  <2>2. C \in (SUBSET Entries) \ {{}} /\ \A e \in C : row[e] = s.row[e] /\ s.row[e] # NoRow
    BY <1>5, <2>1
  <2>3. PICK e \in C : s.row[e] = NoRow \/ s.row[e].of \notin C
    BY <1>2, <2>2 DEF Consistent
  <2>. QED
    BY <2>1, <2>2, <2>3
<1>12. SubgroupsOfBlocksExist
  <2>1. ASSUME NEW b \in blocks, b.sub # Whole
        PROVE  \E e \in Ids : row[e] = [kind |-> "group", name |-> b.sub, of |-> b.group]
    <3>1. PICK e \in Entries : s.row[e] = [kind |-> "group", name |-> b.sub, of |-> b.group]
      BY <1>1, <1>2, <2>1 DEF Consistent
    <3>2. e \in Ids /\ row[e] = s.row[e]
      BY <1>5 DEF Ids
    <3>. QED
      BY <3>1, <3>2
  <2>. QED
    BY <2>1 DEF SubgroupsOfBlocksExist, Like
<1>. QED
  BY <1>4, <1>6, <1>7, <1>8, <1>9, <1>10, <1>11, <1>12 DEF IInv

\* Fewer blocks disturb nothing.
LEMMA FewerBlocks ==
  ASSUME IInv, UNCHANGED <<row, job>>, Kept, blocks' \subseteq blocks
  PROVE  IInv'
<1>1. JobsTyped' /\ RowsTyped' /\ KindsStay' /\ LostInv'
  BY DEF IInv, JobsTyped, RowsTyped, KindsStay, LostInv, Exists, Kept
<1>2. BlocksTyped'
  BY DEF IInv, BlocksTyped, IsA, Exists
<1>0. row' = row /\ job' = job /\ met' = met /\ taken' = taken /\ writer' = writer /\ stale' = stale
  BY DEF Kept
<1>3. IndexInv' /\ NewInv'
  <2>1. IndexInv /\ NewInv
    BY DEF IInv
  <2>3. IndexInv'
    BY <1>0, <2>1 DEF IndexInv, Exists
  <2>4. \A r, line : Meanings(r, line)' = Meanings(r, line)
    BY <1>0 DEF Meanings
  <2>5. NewInv'
    BY <1>0, <2>1, <2>4 DEF NewInv
  <2>. QED
    BY <2>3, <2>5
<1>4. WalkInv'
  BY DEF IInv, WalkInv, Kept, Exists, Met, Target
<1>5. NoCycleUnlessRaced'
  <2>1. NoCycleUnlessRaced
    BY DEF IInv
  <2>2. \A C : Cycle(C)' = Cycle(C)
    BY <1>0 DEF Cycle, Exists
  <2>3. \A C : Cycle(C) => \E e, f \in C : e # f /\ Met(writer[e], writer[f])
    BY <2>1 DEF NoCycleUnlessRaced, Cycle
  <2>4. \A C : Cycle(C)' => \E e, f \in C : e # f /\ Met(writer[e], writer[f])'
    BY <1>0, <2>2, <2>3 DEF Met
  <2>. QED
    BY <2>4 DEF NoCycleUnlessRaced, Cycle
<1>6. SubgroupsOfBlocksExist'
  BY DEF IInv, SubgroupsOfBlocksExist, Kept, Like, Met
<1>. QED
  BY <1>1, <1>2, <1>3, <1>4, <1>5, <1>6 DEF IInv

LEMMA NextIInv == IInv /\ [HNext]_hvars => IInv'
<1>. SUFFICES ASSUME IInv, [HNext]_hvars PROVE IInv'
  OBVIOUS
<1>. USE DEF IInv
<1>1. ASSUME NEW r \in Requests, Step(r)
      PROVE  /\ JobsTyped' /\ RowsTyped' /\ BlocksTyped' /\ KindsStay' /\ IndexInv' /\ NewInv' /\ WalkInv'
             /\ NoCycleUnlessRaced' /\ SubgroupsOfBlocksExist'
  BY <1>1, RowsStep, BlocksStep, KindsStep, IndexStep, NewStep, WalkInvStep, CycleStep, SubgroupsStep
     DEF Step, Alone
<1>2. ASSUME NEW r \in Requests, Serve(r), failed' = failed,
             writer' = [e \in Ids |-> IF row'[e] # row[e] THEN r ELSE writer[e]],
             taken' = taken \cup {row[e] : e \in {f \in Ids :
                                   job[r].pc = "write" /\ Exists(f) /\ row'[f] # row[f]}},
             stale' = [q \in Requests |-> stale[q] \cup
                         {<<e, row[e]>> : e \in {f \in Ids : job[q].index[f] # NoRow /\ row'[f] # row[f]}}],
             lost' = lost \cup {q \in {r} : job[r].op.kind = "upload" /\ blocks \ blocks' # {}},
             met' = met \cup {{r, q} : q \in {p \in Requests \ {r} : InService(p)}}
      PROVE  IInv'
  <2>1. Step(r)
    BY <1>2, NotesServed
  <2>2. LostInv'
    BY <1>2, <2>1, LostStep
  <2>. QED
    BY <1>1, <2>1, <2>2
<1>3. ASSUME NEW r \in Requests, Fails(r), failed' = failed \cup {r},
             UNCHANGED <<met, writer, taken, stale, lost>>
      PROVE  IInv'
  <2>1. Step(r)
    BY <1>3, NotesFails
  <2>2. LostInv'
    BY <1>3, <2>1, LostStep
  <2>. QED
    BY <1>1, <2>1, <2>2
<1>4. CASE \E b \in blocks : Remove(b) /\ Kept
  BY <1>4, FewerBlocks DEF Remove
<1>5. CASE UNCHANGED hvars
  BY <1>5, FewerBlocks DEF hvars, vars, db, Kept
<1>. QED
  BY <1>2, <1>3, <1>4, <1>5 DEF HNext, Kept

\* The strengthening is an invariant of the catalogs with their history.
THEOREM IInvariant == HSpec => []IInv
<1>1. HInit => IInv
  BY InitIInv
<1>2. IInv /\ [HNext]_hvars => IInv'
  BY NextIInv
<1>. QED
  BY <1>1, <1>2, PTL DEF HSpec

\* Rows, blocks and requests have their types, and whatever a row or a block
\* refers to exists, whichever deletions race with whichever creations, updates
\* and uploads (the foreign keys of 001_init.sql, and the checks before a DELETE).
THEOREM CatalogTypeCorrect == HSpec => []TypeOK
<1>1. IInv => TypeOK
  <2>. SUFFICES ASSUME IInv PROVE TypeOK
    OBVIOUS
  <2>1. /\ row \in [Ids -> Rows \cup {NoRow}] /\ blocks \subseteq Blocks
        /\ \A e \in Ids : Exists(e) /\ row[e].of # NoRow => Exists(row[e].of)
    BY DEF IInv, RowsTyped, BlocksTyped
  <2>2. \A b \in blocks : Exists(b.subject) /\ Exists(b.room) /\ Exists(b.group)
    BY DEF IInv, BlocksTyped, IsA
  <2>3. ASSUME NEW r \in Requests
        PROVE  /\ job[r].op \in Operations /\ job[r].seen \subseteq Ids /\ job[r].new \subseteq Blocks
               /\ job[r].unread \subseteq Kinds /\ job[r].index \in [Ids -> Rows \cup {NoRow}]
               /\ job[r].at \in Ids \cup {NoRow} /\ job[r].n \in Nat /\ job[r].old \in Blocks \cup {NoRow}
    BY JobIs DEF IInv
  <2>. QED
    BY <2>1, <2>2, <2>3 DEF TypeOK
<1>. QED
  BY <1>1, IInvariant, PTL

\* Groups become each other's ancestors only if two of the updates that made
\* them so overlapped: one update validates the whole chain it reads
\* (group_service.rs, validate_parent_link).
THEOREM CyclesAreRaced == HSpec => []NoCycleUnlessRaced
<1>1. IInv => NoCycleUnlessRaced
  BY DEF IInv
<1>. QED
  BY <1>1, IInvariant, PTL

\* A block of a subgroup that a file gave has its subgroup, unless that subgroup was
\* renamed or moved by an update, or deleted after the upload had read it (the
\* trigger of 001_init.sql), whatever is written by hand meanwhile.
THEOREM BlocksHaveSubgroups == HSpec => []SubgroupsOfBlocksExist
<1>1. IInv => SubgroupsOfBlocksExist
  BY DEF IInv
<1>. QED
  BY <1>1, IInvariant, PTL

\* An upload that has deleted blocks inserts its own, unless one of the entries they
\* refer to was deleted after the upload had read it, or a statement of the upload
\* failed (excel_service.rs, schedule_service.rs).
THEOREM LossIsExplained == HSpec => NothingLostForNothing
<1>. DEFINE Explained ==
       \A r \in lost : job[r].pc # "done" /\ job'[r].pc = "done" =>
         \/ job[r].new \subseteq blocks' \/ r \in failed'
         \/ \E b \in job[r].new : \E e \in {b.subject, b.room, b.group} : ~Exists(e) /\ e \in Stale(r)
<1>1. IInv /\ [HNext]_hvars => [Explained]_hvars
  BY LossStep DEF IInv
<1>. QED
  BY <1>1, IInvariant, PTL DEF HSpec, NothingLostForNothing

\* What the file names is what the upload inserts.
LEMMA InsertsAsNamed ==
  ASSUME IInv, NEW r \in Requests, Step(r), NEW b \in blocks' \ blocks, job[b.by].op.kind = "upload"
  PROVE  \/ \E line \in job[b.by].op.file : Says(line, b)
         \/ {b.subject, b.room, row[b.room].of, b.group} \cap Stale(b.by) # {}
<1>. DEFINE ix == job[r].index
<1>0. JobsTyped /\ NewInv /\ IndexInv
  BY DEF IInv
<1>1. b \in job[r].new
  <2>1. CASE Puts(r)
    <3>1. b.by = r /\ job[r].pc = "slot.write"
      BY <2>1 DEF Puts
    <3>. QED
      BY <1>0, <3>1, JobIs DEF PcsOf
  <2>. QED
    BY <2>1, Inserted
<1>2. PICK line \in job[r].op.file : b \in Meanings(r, line)
  BY <1>0, <1>1 DEF NewInv
<1>3. line \in Lines /\ b.by = r
  BY <1>0, <1>1, <1>2, JobIs, OperationIs DEF NewInv
<1>4. /\ b.time = line.time
      /\ b.subject \in Named(ix, "subject", line.subject, NoRow)
      /\ b.group \in Named(ix, "group", line.group, NoRow)
      /\ b.sub \in Subgroups(ix, line, b.group)
  BY <1>0, <1>2, <1>3, MeaningIs
<1>5. PICK c \in Named(ix, "building", line.building, NoRow) : b.room \in Named(ix, "classroom", line.room, c)
  BY <1>0, <1>2, <1>3, MeaningIs
<1>6. SUFFICES ASSUME {b.subject, b.room, row[b.room].of, b.group} \cap Stale(r) = {} PROVE Says(line, b)
  BY <1>2, <1>3
<1>7. \A e \in Ids : ix[e] # NoRow => row[e] = ix[e] \/ e \in Stale(r)
  <2>1. ASSUME NEW e \in Ids, ix[e] # NoRow, row[e] # ix[e] PROVE e \in Stale(r)
    <3>1. <<e, ix[e]>> \in stale[r]
      BY <1>0, <2>1 DEF IndexInv
    <3>. HIDE DEF ix
    <3>. QED
      BY <3>1 DEF Stale
  <2>. QED
    BY <2>1
<1>8. KeyOf[row[b.subject].name] = KeyOf[line.subject]
  BY <1>4, <1>6, <1>7 DEF Named
<1>9. KeyOf[row[b.group].name] = KeyOf[line.group] /\ row[b.group].of = NoRow
  BY <1>4, <1>6, <1>7 DEF Named
<1>10. KeyOf[row[b.room].name] = KeyOf[line.room] /\ KeyOf[row[row[b.room].of].name] = KeyOf[line.building]
  <2>1. row[b.room] = ix[b.room] /\ row[b.room].of = c
    BY <1>5, <1>6, <1>7 DEF Named
  <2>2. row[c] = ix[c]
    BY <1>5, <1>6, <1>7, <2>1 DEF Named
  <2>. QED
    BY <1>5, <2>1, <2>2 DEF Named
<1>11. IF line.sub = Whole THEN b.sub = Whole ELSE b.sub # Whole /\ KeyOf[b.sub] = KeyOf[line.sub]
  <2>1. CASE line.sub = Whole
    BY <1>4, <2>1 DEF Subgroups
  <2>2. CASE line.sub # Whole
    <3>1. PICK h \in Named(ix, "group", line.sub, b.group) : b.sub = ix[h].name
      BY <1>4, <2>2 DEF Subgroups
    <3>2. h \in Ids /\ ix[h] \in Rows /\ KeyOf[ix[h].name] = KeyOf[line.sub]
      <4>1. ix \in [Ids -> Rows \cup {NoRow}]
        BY <1>0, JobIs
      <4>. HIDE DEF ix
      <4>. QED
        BY <4>1 DEF Named
    <3>3. ix[h].name # Whole
      BY <3>2, NothingAssumption DEF Rows
    <3>. QED
      BY <2>2, <3>1, <3>2, <3>3
  <2>. QED
    BY <2>1, <2>2
<1>. QED
  BY <1>4, <1>8, <1>9, <1>10, <1>11 DEF Says

\* What an upload inserts has the names that its file gives, unless the subject, room,
\* building or group concerned was changed after the upload had read it: the catalogs,
\* read one by one, are one snapshot otherwise (excel_service.rs, build_catalog_index).
THEOREM UploadsAreResolved == HSpec => ResolvedAsNamed
<1>. DEFINE Named1 == \A b \in blocks' \ blocks : job[b.by].op.kind = "upload" =>
                        \/ \E line \in job[b.by].op.file : Says(line, b)
                        \/ {b.subject, b.room, row[b.room].of, b.group} \cap Stale(b.by) # {}
<1>1. IInv /\ [HNext]_hvars => [Named1]_hvars
  <2>. SUFFICES ASSUME IInv, HNext, NEW b \in blocks' \ blocks, job[b.by].op.kind = "upload"
                PROVE  \/ \E line \in job[b.by].op.file : Says(line, b)
                       \/ {b.subject, b.room, row[b.room].of, b.group} \cap Stale(b.by) # {}
    OBVIOUS
  <2>1. JobsTyped /\ RowsTyped /\ BlocksTyped
    BY DEF IInv
  <2>2. CASE \E r \in Requests : Step(r)
    BY <2>2, InsertsAsNamed
  <2>3. CASE \E c \in blocks : Remove(c) /\ Kept
    BY <2>3 DEF Remove
  <2>. QED
    BY <2>1, <2>2, <2>3, Steps
<1>. QED
  BY <1>1, IInvariant, PTL DEF HSpec, ResolvedAsNamed
=============================================================================
