------------------------- MODULE ScheduleRaces_proofs -------------------------
(***************************************************************************)
(* Where collisions come from, for any requests, blocks and submissions:     *)
(* races, and submissions whose blocks share a part of a minute.             *)
(*                                                                          *)
(* The argument: a lookup a request has left behind found no row, so a row   *)
(* that clashes there now was written since the request arrived (Seen).      *)
(* The last statement therefore only meets rows of that kind, and is a step   *)
(* of the atomic Timetable unless it meets one.                              *)
(***************************************************************************)
EXTENDS ScheduleRaces, TLAPS

IsRecord(j) ==
  j \in [pc : {j.pc}, kind : {j.kind}, batch : {j.batch}, over : {j.over}, id : {j.id},
         stage : {j.stage}, found : {j.found}]
JobTyped(j) ==
  /\ SoundJob(j) /\ IsRecord(j)
  /\ \A k \in DOMAIN j.batch : j.found[k] # NoId => j.stage[k] \in Lookups /\ k \in j.over
  /\ j.pc = "checking" => Len(j.batch) >= 1
Typed ==
  /\ slot \in [Ids -> Blocks \cup {NoBlock}]
  /\ job = [r \in Requests |-> job[r]]
  /\ \A r \in Requests : JobTyped(job[r])

LEMMA TypedIsTypeOK == Typed => TypeOK
BY DEF Typed, TypeOK, JobTyped

LEMMA FreshJob ==
  ASSUME NEW pc \in {"idle", "checking", "done"},
         NEW kind \in {"none", "many", "resolved", "update"},
         NEW batch \in Seq(Blocks), Len(batch) <= MaxBatch,
         pc = "checking" => Len(batch) >= 1,
         NEW over \in SUBSET DOMAIN batch, NEW id \in Ids \cup {NoId},
         kind = "update" <=> id \in Ids, NEW stage \in Stages
  PROVE  JobTyped(Job(pc, kind, batch, over, id, stage))
<1>. DEFINE j == Job(pc, kind, batch, over, id, stage)
<1>1. /\ j.pc = pc /\ j.kind = kind /\ j.batch = batch /\ j.over = over /\ j.id = id
      /\ j.stage = [k \in DOMAIN batch |-> stage] /\ j.found = [k \in DOMAIN batch |-> NoId]
  BY DEF Job
<1>2. IsRecord(j)
  BY <1>1 DEF Job, IsRecord
<1>. QED  BY <1>1, <1>2 DEF JobTyped, SoundJob

LEMMA IdleTyped == JobTyped(Idle) /\ JobTyped(Done)
<1>. DEFINE empty == <<>>
<1>1. NoId \notin Ids /\ 0 <= MaxBatch /\ "new" \in Stages
  BY NoIdAssumption, BatchesAssumption DEF Ids, Stages
<1>2. empty \in Seq(Blocks) /\ Len(empty) = 0 /\ {} \in SUBSET DOMAIN empty
  OBVIOUS
<1>. HIDE DEF empty
<1>3. /\ JobTyped(Job("idle", "none", empty, {}, NoId, "new"))
      /\ JobTyped(Job("done", "none", empty, {}, NoId, "new"))
  BY <1>1, <1>2, FreshJob
<1>. QED  BY <1>3 DEF Idle, Done, empty

\* What Progress changes, and that it keeps the type.
LEMMA ProgressFields ==
  ASSUME NEW j, JobTyped(j), NEW k \in DOMAIN j.batch, NEW stage \in Stages,
         NEW found \in Ids \cup {NoId},
         found # NoId => stage \in Lookups /\ k \in j.over
  PROVE  LET i == Progress(j, k, stage, found)
         IN /\ JobTyped(i)
            /\ i.pc = j.pc /\ i.kind = j.kind /\ i.batch = j.batch /\ i.over = j.over
            /\ i.id = j.id
            /\ i.stage[k] = stage /\ i.found[k] = found
            /\ \A h \in DOMAIN j.batch \ {k} : i.stage[h] = j.stage[h] /\ i.found[h] = j.found[h]
<1>. DEFINE i == Progress(j, k, stage, found)
<1>1. j \in [pc : {j.pc}, kind : {j.kind}, batch : {j.batch}, over : {j.over},
             id : {j.id}, stage : {j.stage}, found : {j.found}]
  BY DEF JobTyped, IsRecord
<1>2. /\ i.pc = j.pc /\ i.kind = j.kind /\ i.batch = j.batch /\ i.over = j.over
      /\ i.id = j.id
      /\ i.stage = [j.stage EXCEPT ![k] = stage] /\ i.found = [j.found EXCEPT ![k] = found]
  BY <1>1 DEF Progress
<1>3. IsRecord(i)
  BY <1>1, <1>2 DEF IsRecord, Progress
<1>4. j.stage \in [DOMAIN j.batch -> Stages] /\ j.found \in [DOMAIN j.batch -> Ids \cup {NoId}]
  BY DEF JobTyped, SoundJob
<1>5. SoundJob(i)
  BY <1>2, <1>4 DEF JobTyped, SoundJob
<1>6. JobTyped(i)
  BY <1>2, <1>3, <1>4, <1>5 DEF JobTyped
<1>. QED  BY <1>2, <1>4, <1>6
-----------------------------------------------------------------------------
\* What one statement of a request does: the request moves to a job of the
\* right type, and rows are emptied or filled with blocks.
LEMMA ArrivesTyped ==
  ASSUME Typed, NEW r \in Requests, Arrives(r)
  PROVE  \E j : JobTyped(j) /\ job' = [job EXCEPT ![r] = j]
<1>. USE BatchesAssumption
<1>0. NoId \notin Ids
  BY NoIdAssumption DEF Ids
<1>1. CASE \E batch \in Batches : \E over \in SUBSET DOMAIN batch :
             CreateMany(r, batch, over) \/ CreateManyResolved(r, batch, over)
  <2>0. PICK batch \in Batches : \E over \in SUBSET DOMAIN batch :
          CreateMany(r, batch, over) \/ CreateManyResolved(r, batch, over)
    BY <1>1
  <2>1. PICK over \in SUBSET DOMAIN batch :
          CreateMany(r, batch, over) \/ CreateManyResolved(r, batch, over)
    BY <2>0
  <2>2. batch \in Seq(Blocks) /\ Len(batch) <= MaxBatch /\ Len(batch) >= 1
    OBVIOUS
  <2>3. /\ JobTyped(Job("checking", "many", batch, over, NoId, "new"))
        /\ JobTyped(Job("checking", "resolved", batch, over, NoId, "group"))
    BY <2>2, <1>0, FreshJob DEF Stages, Lookups
  <2>. QED  BY <2>1, <2>3, IdleTyped DEF CreateMany, CreateManyResolved
<1>2. CASE \E id \in Ids, merged \in Blocks : Update(r, id, merged)
  <2>1. PICK id \in Ids, merged \in Blocks : Update(r, id, merged)
    BY <1>2
  <2>. DEFINE batch == <<merged>>
  <2>2. /\ batch \in Seq(Blocks) /\ Len(batch) <= MaxBatch /\ Len(batch) >= 1
        /\ {} \in SUBSET DOMAIN batch /\ "new" \in Stages /\ id \in Ids \cup {NoId}
    BY DEF Stages
  <2>. HIDE DEF batch
  <2>3. JobTyped(Job("checking", "update", batch, {}, id, "new"))
    BY <2>2, FreshJob
  <2>4. JobTyped(Job("checking", "update", <<merged>>, {}, id, "new"))
    BY <2>3 DEF batch
  <2>. QED  BY <2>1, <2>4 DEF Update
<1>. QED  BY <1>1, <1>2 DEF Arrives

LEMMA CheckTyped ==
  ASSUME Typed, NEW r \in Requests, NEW k \in 1..MaxBatch, Check(r, k)
  PROVE  /\ \E j : JobTyped(j) /\ job' = [job EXCEPT ![r] = j]
         /\ slot' \in [Ids -> Blocks \cup {NoBlock}]
<1>. DEFINE j == job[r]
<1>1. JobTyped(j) /\ k \in DOMAIN j.batch /\ slot \in [Ids -> Blocks \cup {NoBlock}]
  BY DEF Typed, Check, Validate, FindsNone, FindsConflict, DeleteConflict, Looking, Turn
<1>2. /\ j.stage[k] \in Stages /\ After(j.stage[k]) \in Stages /\ "group" \in Stages
      /\ j.found[k] \in Ids \cup {NoId}
  BY <1>1 DEF JobTyped, SoundJob, Stages, Lookups, After
<1>3. JobTyped(Progress(j, k, "group", NoId)) /\ JobTyped(Progress(j, k, After(j.stage[k]), NoId))
        /\ JobTyped(Progress(j, k, j.stage[k], NoId))
  BY <1>1, <1>2, ProgressFields
<1>4. CASE Validate(r, k)
  BY <1>1, <1>3, <1>4, IdleTyped DEF Validate
<1>5. CASE FindsNone(r, k)
  BY <1>1, <1>3, <1>5 DEF FindsNone
<1>6. CASE FindsConflict(r, k)
  <2>1. PICK id \in ConflictsOf(r, k) :
          job' = [job EXCEPT ![r] = IF k \in j.over THEN Progress(j, k, j.stage[k], id) ELSE Done]
    BY <1>6 DEF FindsConflict
  <2>2. id \in Ids /\ j.stage[k] \in Lookups
    BY <1>6 DEF FindsConflict, Looking, ConflictsOf, FindConflict
  <2>3. k \in j.over => JobTyped(Progress(j, k, j.stage[k], id))
    BY <1>1, <1>2, <2>2, ProgressFields
  <2>. QED  BY <1>1, <1>6, <2>1, <2>3, IdleTyped DEF FindsConflict
<1>7. CASE DeleteConflict(r, k)
  BY <1>1, <1>2, <1>3, <1>7 DEF DeleteConflict
<1>. QED  BY <1>4, <1>5, <1>6, <1>7 DEF Check

\* The rows the last statement leaves.
LEMMA InsertWrites ==
  ASSUME Typed, NEW r \in Requests, Insert(r)
  PROVE  /\ slot' \in [Ids -> Blocks \cup {NoBlock}]
         /\ \A id \in Ids :
              \/ slot'[id] = slot[id]
              \/ /\ id[1] = r /\ id[2] \in DOMAIN job[r].batch
                 /\ slot'[id] = job[r].batch[id[2]] /\ slot'[id] \in Blocks
                 /\ BatchCompatible(job[r].batch)
<1>1. JobTyped(job[r]) /\ slot \in [Ids -> Blocks \cup {NoBlock}]
  BY DEF Typed
<1>2. \A k \in DOMAIN job[r].batch : job[r].batch[k] \in Blocks
  BY <1>1 DEF JobTyped, SoundJob
<1>. QED  BY <1>1, <1>2 DEF Insert

LEMMA UpdateWrites ==
  ASSUME Typed, NEW r \in Requests, UpdateRow(r)
  PROVE  /\ slot' \in [Ids -> Blocks \cup {NoBlock}]
         /\ \A id \in Ids :
              \/ slot'[id] = slot[id]
              \/ /\ id = job[r].id /\ 1 \in DOMAIN job[r].batch
                 /\ slot'[id] = job[r].batch[1] /\ slot'[id] \in Blocks
<1>1. JobTyped(job[r]) /\ slot \in [Ids -> Blocks \cup {NoBlock}]
  BY DEF Typed
<1>2. job[r].id \in Ids /\ 1 \in DOMAIN job[r].batch /\ job[r].batch[1] \in Blocks
  BY <1>1 DEF JobTyped, SoundJob, UpdateRow, Checked
<1>. QED  BY <1>1, <1>2 DEF UpdateRow

LEMMA StepTyped ==
  ASSUME Typed, [Next]_vars
  PROVE  Typed'
<1>0. slot \in [Ids -> Blocks \cup {NoBlock}] /\ job = [r \in Requests |-> job[r]]
        /\ \A r \in Requests : JobTyped(job[r])
  BY DEF Typed
<1>1. ASSUME NEW r \in Requests, slot' \in [Ids -> Blocks \cup {NoBlock}],
             \E j : JobTyped(j) /\ job' = [job EXCEPT ![r] = j]
      PROVE  Typed'
  <2>1. PICK j : JobTyped(j) /\ job' = [job EXCEPT ![r] = j]
    BY <1>1
  <2>2. \A q \in Requests : job'[q] = IF q = r THEN j ELSE job[q]
    BY <1>0, <2>1
  <2>3. job' = [q \in Requests |-> job'[q]]
    BY <1>0, <2>1
  <2>4. \A q \in Requests : JobTyped(job'[q])
    BY <1>0, <2>1, <2>2
  <2>. QED  BY <1>1, <2>3, <2>4 DEF Typed
<1>2. ASSUME NEW r \in Requests, Arrives(r)  PROVE Typed'
  BY <1>0, <1>1, <1>2, ArrivesTyped
       DEF Arrives, CreateMany, CreateManyResolved, Update
<1>3. ASSUME NEW r \in Requests, Insert(r)  PROVE Typed'
  BY <1>1, <1>3, InsertWrites, IdleTyped DEF Insert
<1>4. ASSUME NEW r \in Requests, UpdateRow(r)  PROVE Typed'
  BY <1>1, <1>4, UpdateWrites, IdleTyped DEF UpdateRow
<1>5. ASSUME NEW r \in Requests, Fails(r)  PROVE Typed'
  BY <1>0, <1>1, <1>5, IdleTyped DEF Fails
<1>6. ASSUME NEW r \in Requests, NEW k \in 1..MaxBatch, Check(r, k)  PROVE Typed'
  BY <1>1, <1>6, CheckTyped
<1>7. ASSUME NEW id \in Ids, Remove(id)  PROVE Typed'
  BY <1>0, <1>7 DEF Remove, Typed
<1>8. CASE UNCHANGED vars
  BY <1>0, <1>8 DEF vars, Typed
<1>. QED  BY <1>2, <1>3, <1>4, <1>5, <1>6, <1>7, <1>8 DEF Next

LEMMA InitTyped == Init => Typed
BY IdleTyped DEF Init, Typed
-----------------------------------------------------------------------------
\* A request that has not ended has written nothing under its own name, its blocks are those of a submission,
\* and they are valid once their lookups began.
Unwritten(r) == \A k \in 1..MaxBatch : slot[<<r, k>>] = NoBlock
Submitted(r) ==
  /\ job[r].pc # "done" => Unwritten(r)
  /\ job[r].pc = "checking" /\ job[r].kind # "update" => job[r].batch \in Batches
  /\ \A k \in DOMAIN job[r].batch : job[r].stage[k] # "new" => Valid(job[r].batch[k])
ValidRows == \A id \in Ids : slot[id] # NoBlock => Valid(slot[id])
Entering == ValidRows /\ \A r \in Requests : Submitted(r)

LEMMA EnteringInit == RInit => Entering
<1>. SUFFICES ASSUME RInit  PROVE Entering
  OBVIOUS
<1>1. slot = [id \in Ids |-> NoBlock] /\ job = [r \in Requests |-> Idle]
  BY DEF RInit, Init
<1>2. ASSUME NEW r \in Requests  PROVE Submitted(r)
  BY <1>1 DEF Submitted, Unwritten, Ids, Idle, Job
<1>. QED  BY <1>1, <1>2 DEF Entering, ValidRows

\* A step of request r that writes no row, or empties some.
LEMMA EnteringKept ==
  ASSUME Typed, Entering, \A id \in Ids : slot'[id] = slot[id] \/ slot'[id] = NoBlock,
         NEW r \in Requests, NEW j, job' = [job EXCEPT ![r] = j],
         j.pc # "done" => job[r].pc # "done",
         j.pc = "checking" /\ j.kind # "update" => j.batch \in Batches,
         \A k \in DOMAIN j.batch : j.stage[k] # "new" => Valid(j.batch[k])
  PROVE  Entering'
<1>1. ASSUME NEW q \in Requests, job'[q] = job[q]  PROVE Submitted(q)'
  BY <1>1 DEF Entering, Submitted, Unwritten, Ids
<1>2. job'[r] = j /\ \A q \in Requests \ {r} : job'[q] = job[q]
  BY DEF Typed
<1>3. Submitted(r)'
  BY <1>2 DEF Entering, Submitted, Unwritten, Ids
<1>4. ValidRows'
  BY DEF Entering, ValidRows
<1>. QED  BY <1>1, <1>2, <1>3, <1>4 DEF Entering

\* The blocks a request is about to write are valid.
LEMMA CheckedBlocks ==
  ASSUME Typed, Entering, NEW r \in Requests, Checked(r)
  PROVE  \A k \in DOMAIN job[r].batch : Valid(job[r].batch[k])
BY DEF Entering, Submitted, Checked

LEMMA DoneEntering ==
  Done.pc = "done" /\ DOMAIN Done.batch = {}
BY DEF Done, Job

LEMMA EnteringStep ==
  ASSUME Typed, Entering, [Next]_vars
  PROVE  Entering'
<1>1. ASSUME NEW r \in Requests, Arrives(r)  PROVE Entering'
  <2>1. job[r].pc = "idle" /\ slot' = slot
    BY <1>1 DEF Arrives, CreateMany, CreateManyResolved, Update
  <2>2. ASSUME NEW batch \in Batches, NEW over, CreateMany(r, batch, over)  PROVE Entering'
    <3>. DEFINE j == Job("checking", "many", batch, over, NoId, "new")
    <3>1. /\ j.kind = "many" /\ j.batch = batch /\ \A k \in DOMAIN batch : j.stage[k] = "new"
      BY DEF Job
    <3>2. job' = [job EXCEPT ![r] = j]
      BY <2>2 DEF CreateMany
    <3>. HIDE DEF j
    <3>. QED  BY <2>1, <3>1, <3>2, EnteringKept
  <2>3. ASSUME NEW batch \in Batches, NEW over, CreateManyResolved(r, batch, over)
        PROVE  Entering'
    <3>. DEFINE j == Job("checking", "resolved", batch, over, NoId, "group")
    <3>1. j.kind = "resolved" /\ j.batch = batch
      BY DEF Job
    <3>2. \/ job' = [job EXCEPT ![r] = j] /\ \A k \in DOMAIN batch : Valid(batch[k])
          \/ job' = [job EXCEPT ![r] = Done]
      BY <2>3 DEF CreateManyResolved
    <3>. HIDE DEF j
    <3>. QED  BY <2>1, <3>1, <3>2, DoneEntering, EnteringKept
  <2>4. ASSUME NEW id \in Ids, NEW merged \in Blocks, Update(r, id, merged)
        PROVE  Entering'
    <3>. DEFINE j == Job("checking", "update", <<merged>>, {}, id, "new")
    <3>1. j.kind = "update" /\ \A k \in DOMAIN j.batch : j.stage[k] = "new"
      BY DEF Job
    <3>2. job' = [job EXCEPT ![r] = j]
      BY <2>4 DEF Update
    <3>. HIDE DEF j
    <3>. QED  BY <2>1, <3>1, <3>2, EnteringKept
  <2>. QED  BY <1>1, <2>2, <2>3, <2>4 DEF Arrives
<1>2. ASSUME NEW r \in Requests, Fails(r)  PROVE Entering'
  BY <1>2, DoneEntering, EnteringKept DEF Fails
<1>3. ASSUME NEW r \in Requests, NEW k \in 1..MaxBatch, Check(r, k)  PROVE Entering'
  <2>. DEFINE b == job[r].batch
  <2>1. /\ JobTyped(job[r]) /\ Submitted(r) /\ k \in DOMAIN b /\ job[r].pc = "checking"
        /\ \A id \in Ids : slot'[id] = slot[id] \/ slot'[id] = NoBlock
    BY <1>3 DEF Check, Validate, FindsNone, FindsConflict, DeleteConflict, Looking, Turn,
                Typed, Entering
  <2>2. ASSUME NEW stage \in Stages, NEW found \in Ids \cup {NoId},
               found # NoId => stage \in Lookups /\ k \in job[r].over,
               stage # "new" => Valid(b[k]),
               job' = [job EXCEPT ![r] = Progress(job[r], k, stage, found)]
        PROVE  Entering'
    <3>. DEFINE j == Progress(job[r], k, stage, found)
    <3>1. /\ j.pc = job[r].pc /\ j.kind = job[r].kind /\ j.batch = b /\ j.stage[k] = stage
          /\ \A h \in DOMAIN b \ {k} : j.stage[h] = job[r].stage[h]
      BY <2>1, <2>2, ProgressFields
    <3>2. job' = [job EXCEPT ![r] = j]
      BY <2>2
    <3>3. \A h \in DOMAIN b : j.stage[h] # "new" => Valid(b[h])
      BY <2>1, <2>2, <3>1 DEF Submitted
    <3>4. /\ j.pc # "done" => job[r].pc # "done"
          /\ j.pc = "checking" /\ j.kind # "update" => j.batch \in Batches
          /\ j.batch = b
      BY <2>1, <3>1 DEF Submitted
    <3>. HIDE DEF j
    <3>. QED  BY <2>1, <3>2, <3>3, <3>4, EnteringKept
  <2>3. CASE job' = [job EXCEPT ![r] = Done]
    BY <2>1, <2>3, DoneEntering, EnteringKept
  <2>4. /\ job[r].stage[k] \in Stages /\ job[r].found[k] \in Ids \cup {NoId}
        /\ job[r].stage[k] # "new" => Valid(b[k])
    BY <2>1 DEF JobTyped, SoundJob, Submitted
  <2>5. CASE Validate(r, k)
    BY <2>2, <2>3, <2>5 DEF Validate, Stages, Lookups
  <2>6. CASE FindsNone(r, k)
    <3>1. job[r].stage[k] \in Lookups /\ After(job[r].stage[k]) \in Stages
      BY <2>6 DEF FindsNone, Looking, After, Stages, Lookups
    <3>. QED  BY <2>2, <2>4, <2>6, <3>1 DEF FindsNone, Lookups
  <2>7. CASE FindsConflict(r, k)
    <3>1. PICK id \in ConflictsOf(r, k) :
            job' = [job EXCEPT ![r] = IF k \in job[r].over
                                      THEN Progress(job[r], k, job[r].stage[k], id) ELSE Done]
      BY <2>7 DEF FindsConflict
    <3>2. id \in Ids /\ job[r].stage[k] \in Lookups
      BY <2>7 DEF FindsConflict, Looking, ConflictsOf, FindConflict
    <3>. QED  BY <2>2, <2>3, <2>4, <3>1, <3>2
  <2>8. CASE DeleteConflict(r, k)
    BY <2>2, <2>4, <2>8 DEF DeleteConflict
  <2>. QED  BY <1>3, <2>5, <2>6, <2>7, <2>8 DEF Check
<1>4. ASSUME NEW r \in Requests, Insert(r)  PROVE Entering'
  <2>1. job' = [job EXCEPT ![r] = Done] /\ Checked(r)
    BY <1>4 DEF Insert
  <2>2. ValidRows'
    BY <1>4, <2>1, InsertWrites, CheckedBlocks DEF Entering, ValidRows
  <2>3. ASSUME NEW q \in Requests  PROVE Submitted(q)'
    <3>1. CASE q = r
      BY <2>1, <3>1, DoneEntering DEF Submitted, Typed
    <3>2. CASE q # r
      <4>1. job'[q] = job[q] /\ Submitted(q)
        BY <2>1, <3>2 DEF Typed, Entering
      <4>2. \A k \in 1..MaxBatch : <<q, k>> \in Ids /\ slot'[<<q, k>>] = slot[<<q, k>>]
        BY <1>4, <3>2, InsertWrites DEF Ids
      <4>. QED  BY <4>1, <4>2 DEF Submitted, Unwritten
    <3>. QED  BY <3>1, <3>2
  <2>. QED  BY <2>2, <2>3 DEF Entering
<1>5. ASSUME NEW r \in Requests, UpdateRow(r)  PROVE Entering'
  <2>1. job' = [job EXCEPT ![r] = Done] /\ Checked(r)
    BY <1>5 DEF UpdateRow
  <2>2. ValidRows'
    BY <1>5, <2>1, UpdateWrites, CheckedBlocks DEF Entering, ValidRows
  <2>3. \A id \in Ids : slot[id] = NoBlock => slot'[id] = NoBlock
    BY <1>5 DEF UpdateRow, Typed
  <2>4. ASSUME NEW q \in Requests  PROVE Submitted(q)'
    <3>1. CASE q = r
      BY <2>1, <3>1, DoneEntering DEF Submitted, Typed
    <3>2. CASE q # r
      <4>1. job'[q] = job[q] /\ Submitted(q)
        BY <2>1, <3>2 DEF Typed, Entering
      <4>. QED  BY <2>3, <4>1 DEF Submitted, Unwritten, Ids
    <3>. QED  BY <3>1, <3>2
  <2>. QED  BY <2>2, <2>4 DEF Entering
<1>6. ASSUME NEW id \in Ids, Remove(id)  PROVE Entering'
  <2>1. job' = job /\ \A i \in Ids : slot'[i] = slot[i] \/ slot'[i] = NoBlock
    BY <1>6 DEF Remove, Typed
  <2>. QED  BY <2>1 DEF Entering, ValidRows, Submitted, Unwritten, Ids
<1>7. CASE UNCHANGED vars
  BY <1>7 DEF vars, Entering, ValidRows, Submitted, Unwritten
<1>. QED  BY <1>1, <1>2, <1>3, <1>4, <1>5, <1>6, <1>7 DEF Next
-----------------------------------------------------------------------------
\* The lookups a stage has behind it.
Behind(stage) ==
  CASE stage = "teacher" -> {"group"} [] stage = "room" -> {"group", "teacher"}
    [] stage = "free" -> Lookups [] OTHER -> {}

\* Block k of request r clashes, in a lookup it has passed, only with rows
\* written since r arrived.
Seen(r, k) ==
  \A l \in Behind(job[r].stage[k]) : \A id \in Ids :
    slot[id] # NoBlock /\ id # job[r].id /\ Clashes(l, slot[id], job[r].batch[k])
      => id \in since[r]

\* The row block k of request r is about to delete.
Victim(r, k) ==
  LET id == job[r].found[k]
  IN id # NoId => \/ id \in since[r] \/ slot[id] = NoBlock
                  \/ Clashes(job[r].stage[k], slot[id], job[r].batch[k])

Serving(r) ==
  job[r].pc = "checking" =>
    /\ \A k \in DOMAIN job[r].batch : Seen(r, k) /\ Victim(r, k)
    /\ job[r].kind = "resolved" => BatchCompatible(job[r].batch)
RaceInv == Typed /\ Entering /\ CollisionsOnlyFromRaces /\ \A r \in Requests : Serving(r)

\* The history variables of a step.
Recorded ==
  /\ since' = [r \in Requests |-> IF job'[r].pc = "checking" THEN since[r] \cup Written ELSE {}]
  /\ met' = {p \in met : p \cap Written = {}} \cup {{i, j} : i \in Written, j \in Unseen}
  /\ together' = {p \in together : p \cap Changed = {}}
                   \cup UNION {{{i, j} : j \in Written \ {i}} : i \in Written}

\* A step keeps a row, empties it, or records it with every request being served.
LEMMA RowsAreRecorded ==
  ASSUME Recorded, NEW r \in Requests, job'[r].pc = "checking", NEW id \in Ids
  PROVE  /\ id \in since[r] => id \in since'[r]
         /\ id \notin since'[r] => slot'[id] = slot[id] \/ slot'[id] = NoBlock
BY DEF Recorded, Written, Changed

\* A block whose lookups did not move keeps what was said of it.
LEMMA BlockKept ==
  ASSUME Recorded, NEW r \in Requests, job'[r].pc = "checking", NEW k,
         job'[r].batch = job[r].batch, job'[r].id = job[r].id,
         job'[r].stage[k] = job[r].stage[k], job'[r].found[k] = job[r].found[k],
         job[r].found[k] \in Ids \cup {NoId}, Seen(r, k), Victim(r, k)
  PROVE  Seen(r, k)' /\ Victim(r, k)'
<1>1. Seen(r, k)'
  BY RowsAreRecorded DEF Seen
<1>2. Victim(r, k)'
  BY RowsAreRecorded DEF Victim
<1>. QED  BY <1>1, <1>2

LEMMA OthersKept ==
  ASSUME Typed, Recorded, NEW r \in Requests, job'[r] = job[r], Serving(r)
  PROVE  Serving(r)'
<1>. SUFFICES ASSUME job[r].pc = "checking"  PROVE Serving(r)'
  BY DEF Serving
<1>1. ASSUME NEW k \in DOMAIN job[r].batch  PROVE Seen(r, k)' /\ Victim(r, k)'
  <2>1. job[r].found[k] \in Ids \cup {NoId}
    BY DEF Typed, JobTyped, SoundJob
  <2>. QED  BY <2>1, BlockKept DEF Serving
<1>. QED  BY <1>1 DEF Serving

\* A request whose block k moved to another stage or another conflict.
LEMMA ProgressKeeps ==
  ASSUME Typed, Recorded, NEW r \in Requests, NEW k \in DOMAIN job[r].batch, Serving(r),
         job[r].pc = "checking", NEW stage \in Stages, NEW found \in Ids \cup {NoId},
         found # NoId => stage \in Lookups /\ k \in job[r].over,
         job' = [job EXCEPT ![r] = Progress(job[r], k, stage, found)],
         \A l \in Behind(stage) \ Behind(job[r].stage[k]) :
           FindConflict(l, job[r].batch[k], job[r].id) = {},
         Written = {},
         found # NoId => Clashes(stage, slot[found], job[r].batch[k])
  PROVE  Serving(r)'
<1>. DEFINE i == job'[r]
<1>1. i = Progress(job[r], k, stage, found)
  BY DEF Typed
<1>2. /\ i.pc = job[r].pc /\ i.kind = job[r].kind /\ i.batch = job[r].batch
      /\ i.over = job[r].over /\ i.id = job[r].id
      /\ i.stage[k] = stage /\ i.found[k] = found
      /\ \A h \in DOMAIN job[r].batch \ {k} :
           i.stage[h] = job[r].stage[h] /\ i.found[h] = job[r].found[h]
  BY <1>1, ProgressFields DEF Typed
<1>. HIDE DEF i
<1>3. ASSUME NEW h \in DOMAIN job[r].batch, h # k  PROVE Seen(r, h)' /\ Victim(r, h)'
  <2>1. job[r].found[h] \in Ids \cup {NoId}
    BY DEF Typed, JobTyped, SoundJob
  <2>. QED  BY <2>1, <1>2, <1>3, BlockKept DEF Serving, i
<1>4. \A id \in Ids : slot'[id] = slot[id] \/ slot'[id] = NoBlock
  BY DEF Written, Changed
<1>5. since'[r] = since[r]
  BY <1>2 DEF Recorded, i
<1>6. Seen(r, k)'
  <2>. SUFFICES ASSUME NEW l \in Behind(stage), NEW id \in Ids, slot'[id] # NoBlock,
                       id # job[r].id, Clashes(l, slot'[id], job[r].batch[k])
                PROVE  id \in since[r]
    BY <1>2, <1>5 DEF Seen, i
  <2>1. slot'[id] = slot[id]
    BY <1>4
  <2>2. CASE l \in Behind(job[r].stage[k])
    BY <2>1, <2>2 DEF Serving, Seen
  <2>3. CASE l \notin Behind(job[r].stage[k])
    BY <2>1, <2>3 DEF FindConflict
  <2>. QED  BY <2>2, <2>3
<1>7. Victim(r, k)'
  BY <1>2, <1>4, <1>5 DEF Victim, i
<1>. QED  BY <1>2, <1>3, <1>6, <1>7 DEF Serving, i

\* A request that arrives has passed no lookup and found no conflict.
LEMMA FreshServing ==
  ASSUME NEW r \in Requests, NEW kind, NEW batch, NEW over, NEW id,
         NEW stage \in {"new", "group"}, kind = "resolved" => BatchCompatible(batch),
         job'[r] = Job("checking", kind, batch, over, id, stage)
  PROVE  Serving(r)'
<1>. DEFINE i == job'[r]
<1>1. /\ i.kind = kind /\ i.batch = batch
      /\ i.stage = [k \in DOMAIN batch |-> stage] /\ i.found = [k \in DOMAIN batch |-> NoId]
  BY DEF Job
<1>. HIDE DEF i
<1>2. ASSUME NEW k \in DOMAIN batch  PROVE Seen(r, k)' /\ Victim(r, k)'
  BY <1>1 DEF Seen, Victim, Behind, i
<1>. QED  BY <1>1, <1>2 DEF Serving, i

LEMMA DoneServing ==
  ASSUME NEW r \in Requests, job'[r] = Done
  PROVE  Serving(r)'
BY DEF Serving, Done, Job

LEMMA ArrivesServing ==
  ASSUME Typed, NEW r \in Requests, Arrives(r)
  PROVE  Serving(r)'
<1>0. \A j : job' = [job EXCEPT ![r] = j] => job'[r] = j
  BY DEF Typed
<1>1. ASSUME NEW batch \in Batches, NEW over \in SUBSET DOMAIN batch, CreateMany(r, batch, over)
      PROVE  Serving(r)'
  <2>1. job'[r] = Job("checking", "many", batch, over, NoId, "new")
    BY <1>0, <1>1 DEF CreateMany
  <2>2. "many" # "resolved" /\ "new" \in {"new", "group"}
    OBVIOUS
  <2>. QED  BY <2>1, <2>2, FreshServing
<1>2. ASSUME NEW batch \in Batches, NEW over \in SUBSET DOMAIN batch,
             CreateManyResolved(r, batch, over)
      PROVE  Serving(r)'
  <2>1. CASE (\A k \in DOMAIN batch : Valid(batch[k])) /\ BatchCompatible(batch)
    <3>1. job'[r] = Job("checking", "resolved", batch, over, NoId, "group")
      BY <1>0, <1>2, <2>1 DEF CreateManyResolved
    <3>. QED  BY <2>1, <3>1, FreshServing
  <2>2. CASE ~((\A k \in DOMAIN batch : Valid(batch[k])) /\ BatchCompatible(batch))
    BY <1>0, <1>2, <2>2, DoneServing DEF CreateManyResolved
  <2>. QED  BY <2>1, <2>2
<1>3. ASSUME NEW id \in Ids, NEW merged \in Blocks, Update(r, id, merged)
      PROVE  Serving(r)'
  <2>1. job'[r] = Job("checking", "update", <<merged>>, {}, id, "new")
    BY <1>0, <1>3 DEF Update
  <2>2. "update" # "resolved" /\ "new" \in {"new", "group"}
    OBVIOUS
  <2>. QED  BY <2>1, <2>2, FreshServing
<1>. QED  BY <1>1, <1>2, <1>3 DEF Arrives

LEMMA CheckServing ==
  ASSUME Typed, Recorded, NEW r \in Requests, NEW k \in 1..MaxBatch, Check(r, k), Serving(r)
  PROVE  Serving(r)'
<1>. DEFINE j == job[r]
<1>0. \A i : job' = [job EXCEPT ![r] = i] => job'[r] = i
  BY DEF Typed
<1>1. /\ JobTyped(j) /\ k \in DOMAIN j.batch /\ j.pc = "checking"
      /\ j.stage[k] \in Stages /\ j.found[k] \in Ids \cup {NoId}
  BY DEF Typed, JobTyped, SoundJob, Check, Validate, FindsNone, FindsConflict, DeleteConflict,
         Looking, Turn
<1>2. slot' = slot => Written = {}
  BY DEF Written, Changed
<1>3. CASE Validate(r, k)
  <2>1. CASE Valid(j.batch[k])
    <3>1. /\ job' = [job EXCEPT ![r] = Progress(j, k, "group", NoId)] /\ slot' = slot
          /\ "group" \in Stages /\ Behind("group") = {}
      BY <1>3, <2>1 DEF Validate, Stages, Lookups, Behind
    <3>. QED  BY <1>1, <1>2, <3>1, ProgressKeeps
  <2>2. CASE ~Valid(j.batch[k])
    BY <1>0, <1>3, <2>2, DoneServing DEF Validate
  <2>. QED  BY <2>1, <2>2
<1>4. CASE FindsNone(r, k)
  <2>1. /\ job' = [job EXCEPT ![r] = Progress(j, k, After(j.stage[k]), NoId)] /\ slot' = slot
        /\ FindConflict(j.stage[k], j.batch[k], j.id) = {} /\ j.stage[k] \in Lookups
    BY <1>4 DEF FindsNone, Looking, ConflictsOf
  <2>2. After(j.stage[k]) \in Stages /\ Behind(After(j.stage[k])) \ Behind(j.stage[k]) \subseteq {j.stage[k]}
    BY <2>1 DEF After, Behind, Stages, Lookups
  <2>3. \A l \in Behind(After(j.stage[k])) \ Behind(j.stage[k]) :
          FindConflict(l, j.batch[k], j.id) = {}
    BY <2>1, <2>2
  <2>. QED  BY <1>1, <1>2, <2>1, <2>2, <2>3, ProgressKeeps
<1>5. CASE FindsConflict(r, k)
  <2>1. PICK id \in ConflictsOf(r, k) :
          job' = [job EXCEPT ![r] = IF k \in j.over THEN Progress(j, k, j.stage[k], id) ELSE Done]
    BY <1>5 DEF FindsConflict
  <2>2. /\ id \in Ids /\ j.stage[k] \in Lookups /\ slot' = slot
        /\ Clashes(j.stage[k], slot[id], j.batch[k])
    BY <1>5, <2>1 DEF FindsConflict, Looking, ConflictsOf, FindConflict
  <2>3. CASE k \in j.over
    BY <1>1, <1>2, <2>1, <2>2, <2>3, ProgressKeeps
  <2>4. CASE k \notin j.over
    BY <1>0, <2>1, <2>4, DoneServing
  <2>. QED  BY <2>3, <2>4
<1>6. CASE DeleteConflict(r, k)
  <2>1. /\ job' = [job EXCEPT ![r] = Progress(j, k, j.stage[k], NoId)]
        /\ slot' = [slot EXCEPT ![j.found[k]] = NoBlock]
    BY <1>6 DEF DeleteConflict
  <2>2. Written = {}
    BY <2>1 DEF Written, Changed, Typed
  <2>. QED  BY <1>1, <2>1, <2>2, ProgressKeeps
<1>. QED  BY <1>3, <1>4, <1>5, <1>6 DEF Check

\* The request of a step is served as said, and so are all others.
LEMMA ServingKept ==
  ASSUME Typed, Recorded, [Next]_vars, \A r \in Requests : Serving(r)
  PROVE  \A r \in Requests : Serving(r)'
<1>1. ASSUME NEW r \in Requests, NEW i, job' = [job EXCEPT ![r] = i]
      PROVE  (\A q \in Requests \ {r} : Serving(q)') /\ job'[r] = i
  <2>1. \A q \in Requests \ {r} : job'[q] = job[q]
    BY <1>1 DEF Typed
  <2>. QED  BY <1>1, <2>1, OthersKept DEF Typed
<1>2. ASSUME NEW r \in Requests, Arrives(r)  PROVE \A q \in Requests : Serving(q)'
  BY <1>1, <1>2, ArrivesTyped, ArrivesServing
<1>3. ASSUME NEW r \in Requests, Insert(r) \/ UpdateRow(r) \/ Fails(r)
      PROVE  \A q \in Requests : Serving(q)'
  BY <1>1, <1>3, DoneServing DEF Insert, UpdateRow, Fails
<1>4. ASSUME NEW r \in Requests, NEW k \in 1..MaxBatch, Check(r, k)
      PROVE  \A q \in Requests : Serving(q)'
  BY <1>1, <1>4, CheckTyped, CheckServing
<1>5. CASE job' = job
  BY <1>5, OthersKept
<1>. QED  BY <1>2, <1>3, <1>4, <1>5 DEF Next, Remove, vars
-----------------------------------------------------------------------------
LEMMA CollideIsSymmetric ==
  ASSUME NEW a, NEW b
  PROVE  Collide(a, b) <=> Collide(b, a)
BY DEF Collide, RelatedGroups, SameTeacher

\* The three lookups find every block that collides.
LEMMA LookupsFindAll ==
  ASSUME NEW a, NEW b, Collide(a, b)
  PROVE  \E l \in Lookups : Clashes(l, a, b)
BY DEF Collide, Lookups, Clashes

\* Blocks that share a minute they may not share collide.
LEMMA MinutesCollide ==
  ASSUME NEW a \in Blocks, NEW b \in Blocks, ~CompatiblePair(a, b)
  PROVE  Collide(a, b)
<1>1. a.start \in Nat /\ a.end \in Nat /\ b.start \in Nat /\ b.end \in Nat
  BY BlocksAssumption
<1>2. \A s, t \in Nat : s \div 60 < t \div 60 => s < t
  OBVIOUS
<1>3. /\ TimeToMinutes(a.start) < TimeToMinutes(b.end) => a.start < b.end
      /\ TimeToMinutes(a.end) > TimeToMinutes(b.start) => b.start < a.end
  BY <1>1, <1>2 DEF TimeToMinutes
<1>. QED  BY <1>3 DEF Collide, CompatiblePair, IntervalsOverlap

LEMMA CompatibleIsSymmetric ==
  ASSUME NEW a, NEW b
  PROVE  CompatiblePair(a, b) <=> CompatiblePair(b, a)
<1>1. IntervalsOverlap(a, b) <=> IntervalsOverlap(b, a)
  BY DEF IntervalsOverlap
<1>2. RelatedGroups(a, b) <=> RelatedGroups(b, a)
  BY DEF RelatedGroups
<1>3. SameTeacher(a, b) <=> SameTeacher(b, a)
  BY DEF SameTeacher
<1>. QED  BY <1>1, <1>2, <1>3 DEF CompatiblePair

LEMMA BatchFits ==
  ASSUME NEW batch \in Seq(Blocks), BatchCompatible(batch),
         NEW i \in DOMAIN batch, NEW k \in DOMAIN batch, i # k
  PROVE  CompatiblePair(batch[i], batch[k])
<1>1. i < k \/ k < i
  OBVIOUS
<1>2. CompatiblePair(batch[i], batch[k]) \/ CompatiblePair(batch[k], batch[i])
  BY <1>1 DEF BatchCompatible
<1>. QED  BY <1>2, CompatibleIsSymmetric

\* The last statement of request r, seen abstractly: the rows it leaves in W
\* are its blocks, which fit together by the minute, the other rows stay.
LEMMA WritesCollide ==
  ASSUME RaceInv, Recorded, NEW r \in Requests, job'[r] # job[r], job[r].pc = "checking",
         NEW W \in SUBSET Ids,
         \A k \in DOMAIN job[r].batch : job[r].stage[k] = "free",
         \A id \in Ids \ W : slot'[id] = slot[id],
         \A id \in W : \E k \in DOMAIN job[r].batch : slot'[id] = job[r].batch[k],
         \A s, t \in W : s # t => s \in Written /\ CompatiblePair(slot'[s], slot'[t]),
         job[r].id \in Ids => job[r].id \in W
  PROVE  CollisionsOnlyFromRaces'
<1>1. ASSUME NEW s \in W, NEW t \in Ids \ W, slot'[t] # NoBlock, Collide(slot'[s], slot'[t]),
             s \in Written
      PROVE  {s, t} \in met'
  <2>1. PICK k \in DOMAIN job[r].batch : slot'[s] = job[r].batch[k]
    OBVIOUS
  <2>2. PICK l \in Lookups : Clashes(l, slot[t], job[r].batch[k])
    BY <1>1, <2>1, CollideIsSymmetric, LookupsFindAll
  <2>3. t # job[r].id /\ Seen(r, k) /\ Behind(job[r].stage[k]) = Lookups
    BY DEF RaceInv, Serving, Behind
  <2>4. t \in since[r]
    BY <1>1, <2>2, <2>3 DEF Seen
  <2>5. t \in Unseen
    BY <2>4 DEF Unseen
  <2>. QED  BY <1>1, <2>5 DEF Recorded
<1>2. ASSUME NEW s \in Ids, NEW t \in Ids, s # t, slot'[s] # NoBlock, slot'[t] # NoBlock,
             Collide(slot'[s], slot'[t])
      PROVE  {s, t} \in met' \/ ShareSeconds(s, t)'
  <2>1. \A id \in Written : id \in W /\ id \in Ids
    BY DEF Written, Changed
  <2>2. CASE s \in W /\ t \in W
    <3>1. s \in Written /\ t \in Written \ {s} /\ CompatiblePair(slot'[s], slot'[t])
      BY <1>2, <2>2
    <3>2. {s, t} \in together'
      BY <3>1 DEF Recorded
    <3>. QED  BY <3>1, <3>2 DEF ShareSeconds
  <2>3. CASE s \in Written /\ t \notin W
    BY <1>1, <1>2, <2>1, <2>3
  <2>5. CASE t \in Written /\ s \notin W
    <3>1. {t, s} \in met' /\ {t, s} = {s, t}
      BY <1>1, <1>2, <2>1, <2>5, CollideIsSymmetric
    <3>. QED  BY <3>1
  <2>4. CASE s \notin Written /\ t \notin Written
    <3>1. slot'[s] = slot[s] /\ slot'[t] = slot[t] /\ {s, t} \cap Changed = {}
      BY <1>2, <2>4 DEF Written, Changed
    <3>2. {s, t} \in met \/ ShareSeconds(s, t)
      BY <1>2, <3>1 DEF RaceInv, CollisionsOnlyFromRaces
    <3>. QED  BY <2>4, <3>1, <3>2 DEF Recorded, ShareSeconds
  <2>. QED  BY <2>1, <2>2, <2>3, <2>4, <2>5
<1>. QED  BY <1>2 DEF CollisionsOnlyFromRaces

\* Rows that stay or are emptied collide no more than they did.
LEMMA EmptyingCollides ==
  ASSUME RaceInv, Recorded, \A id \in Ids : slot'[id] = slot[id] \/ slot'[id] = NoBlock
  PROVE  CollisionsOnlyFromRaces'
<1>1. Written = {}
  BY DEF Written, Changed
<1>2. met \subseteq met'
  BY <1>1 DEF Recorded
<1>3. ASSUME NEW s \in Ids, NEW t \in Ids, slot'[s] = slot[s], slot'[t] = slot[t], ShareSeconds(s, t)
      PROVE  ShareSeconds(s, t)'
  <2>1. {s, t} \cap Changed = {}
    BY <1>3 DEF Changed
  <2>. QED  BY <1>3, <2>1 DEF ShareSeconds, Recorded
<1>. QED  BY <1>2, <1>3 DEF RaceInv, CollisionsOnlyFromRaces

LEMMA InsertCollides ==
  ASSUME RaceInv, Recorded, NEW r \in Requests, Insert(r)
  PROVE  CollisionsOnlyFromRaces'
<1>0. Typed /\ JobTyped(job[r]) /\ job[r].batch \in Seq(Blocks)
  BY DEF RaceInv, Typed, JobTyped, SoundJob
<1>1. /\ job[r].pc = "checking" /\ job'[r] # job[r] /\ job[r].id \notin Ids
      /\ \A k \in DOMAIN job[r].batch : job[r].stage[k] = "free"
  BY <1>0 DEF Insert, Checked, Done, Job, Typed, JobTyped, SoundJob
<1>2. CASE BatchCompatible(job[r].batch)
  <2>. DEFINE W == {id \in Ids : id[1] = r /\ id[2] \in DOMAIN job[r].batch}
  <2>1. /\ \A id \in W : slot'[id] = job[r].batch[id[2]] /\ id[2] \in DOMAIN job[r].batch
        /\ \A id \in Ids \ W : slot'[id] = slot[id]
    BY <1>2 DEF Insert
  <2>2. \A s, t \in W : s # t => s[2] # t[2]
    BY DEF Ids
  <2>5. \A s \in W : s \in Written
    <3>. SUFFICES ASSUME NEW s \in W  PROVE s \in Written
      OBVIOUS
    <3>1. PICK k \in 1..MaxBatch : s = <<r, k>>
      BY DEF Ids
    <3>2. slot[s] = NoBlock
      BY <1>1, <3>1 DEF RaceInv, Entering, Submitted, Unwritten
    <3>3. slot'[s] \in Blocks
      BY <1>0, <2>1
    <3>. QED  BY <3>2, <3>3, BlocksAssumption DEF Written, Changed
  <2>3. \A s, t \in W : s # t => s \in Written /\ CompatiblePair(slot'[s], slot'[t])
    BY <1>0, <1>2, <2>1, <2>2, <2>5, BatchFits
  <2>4. W \in SUBSET Ids
    OBVIOUS
  <2>. HIDE DEF W
  <2>. QED  BY <1>1, <2>1, <2>3, <2>4, WritesCollide
<1>3. CASE ~BatchCompatible(job[r].batch)
  <2>1. \A id \in Ids : slot'[id] = slot[id]
    BY <1>3 DEF Insert
  <2>. QED  BY <2>1, EmptyingCollides
<1>. QED  BY <1>2, <1>3

LEMMA UpdateCollides ==
  ASSUME RaceInv, Recorded, NEW r \in Requests, UpdateRow(r)
  PROVE  CollisionsOnlyFromRaces'
<1>0. Typed /\ JobTyped(job[r]) /\ job[r].batch \in Seq(Blocks) /\ 1 \in DOMAIN job[r].batch
  BY DEF RaceInv, Typed, JobTyped, SoundJob, UpdateRow, Checked
<1>1. /\ job[r].pc = "checking" /\ job'[r] # job[r] /\ job[r].id \in Ids
      /\ \A k \in DOMAIN job[r].batch : job[r].stage[k] = "free"
  BY <1>0 DEF UpdateRow, Checked, Done, Job, Typed, JobTyped, SoundJob
<1>2. CASE slot[job[r].id] # NoBlock
  <2>. DEFINE W == {job[r].id}
  <2>1. /\ \A id \in W : slot'[id] = job[r].batch[1]
        /\ \A id \in Ids \ W : slot'[id] = slot[id]
    BY <1>0, <1>1, <1>2 DEF UpdateRow, Typed
  <2>2. W \in SUBSET Ids /\ job[r].id \in W /\ \A s, t \in W : s = t
    BY <1>1
  <2>. HIDE DEF W
  <2>. QED  BY <1>0, <1>1, <2>1, <2>2, WritesCollide
<1>3. CASE slot[job[r].id] = NoBlock
  <2>1. \A id \in Ids : slot'[id] = slot[id]
    BY <1>3 DEF UpdateRow
  <2>. QED  BY <2>1, EmptyingCollides
<1>. QED  BY <1>2, <1>3

LEMMA CollisionsKept ==
  ASSUME RaceInv, Recorded, [Next]_vars
  PROVE  CollisionsOnlyFromRaces'
<1>1. ASSUME NEW r \in Requests, Insert(r)  PROVE CollisionsOnlyFromRaces'
  BY <1>1, InsertCollides
<1>2. ASSUME NEW r \in Requests, UpdateRow(r)  PROVE CollisionsOnlyFromRaces'
  BY <1>2, UpdateCollides
<1>3. ASSUME NEW r \in Requests, NEW k \in 1..MaxBatch, Check(r, k)
      PROVE  CollisionsOnlyFromRaces'
  <2>1. \A id \in Ids : slot'[id] = slot[id] \/ slot'[id] = NoBlock
    BY <1>3 DEF Check, Validate, FindsNone, FindsConflict, DeleteConflict, RaceInv, Typed
  <2>. QED  BY <2>1, EmptyingCollides
<1>4. ASSUME NEW id \in Ids, Remove(id)  PROVE CollisionsOnlyFromRaces'
  <2>1. \A i \in Ids : slot'[i] = slot[i] \/ slot'[i] = NoBlock
    BY <1>4 DEF Remove, RaceInv, Typed
  <2>. QED  BY <2>1, EmptyingCollides
<1>5. CASE slot' = slot
  BY <1>5, EmptyingCollides
<1>. QED
  BY <1>1, <1>2, <1>3, <1>4, <1>5
     DEF Next, Arrives, CreateMany, CreateManyResolved, Update, Fails, vars
-----------------------------------------------------------------------------
LEMMA RaceInit == RInit => RaceInv
<1>. SUFFICES ASSUME RInit  PROVE RaceInv
  OBVIOUS
<1>1. Typed /\ Entering
  BY InitTyped, EnteringInit DEF RInit
<1>2. \A r \in Requests : Serving(r)
  BY DEF RInit, Init, Serving, Idle, Job
<1>3. CollisionsOnlyFromRaces
  BY DEF RInit, Init, CollisionsOnlyFromRaces
<1>. QED  BY <1>1, <1>2, <1>3 DEF RaceInv

LEMMA RaceStep == RaceInv /\ RNext => RaceInv'
<1>. SUFFICES ASSUME RaceInv, RNext  PROVE RaceInv'
  OBVIOUS
<1>1. Typed /\ Entering /\ Recorded /\ [Next]_vars /\ \A r \in Requests : Serving(r)
  BY DEF RaceInv, RNext, Recorded
<1>. QED  BY <1>1, StepTyped, EnteringStep, ServingKept, CollisionsKept DEF RaceInv

LEMMA RaceStutter == RaceInv /\ UNCHANGED rvars => RaceInv'
BY DEF rvars, vars, RaceInv, Typed, Serving, Seen, Victim, CollisionsOnlyFromRaces,
       ShareSeconds, Entering, ValidRows, Submitted, Unwritten

LEMMA RaceInvariant == RSpec => []RaceInv
BY RaceInit, RaceStep, RaceStutter, PTL DEF RSpec

\* Rows hold blocks, and a conflict is kept to be deleted only for a block that
\* overwrites.
THEOREM ScheduleTypeCorrect == RSpec => []TypeOK
<1>1. RaceInv => TypeOK
  BY TypedIsTypeOK DEF RaceInv
<1>. QED  BY <1>1, RaceInvariant, PTL

\* No sequence of statements of any number of requests leaves a collision that
\* a race does not excuse.
THEOREM CollisionsOnlyFromRacesCorrect == RSpec => []CollisionsOnlyFromRaces
<1>1. RaceInv => CollisionsOnlyFromRaces
  BY DEF RaceInv
<1>. QED  BY <1>1, RaceInvariant, PTL

\* A request deletes the conflict it found, and nothing else.
LEMMA RequestsDeleteVictims ==
  ASSUME RaceInv, RNext, NEW r \in Requests, NEW id \in Ids,
         job'[r] # job[r], slot[id] # NoBlock, slot'[id] = NoBlock
  PROVE  \E k \in job[r].over : id \in since[r] \/ Collide(slot[id], job[r].batch[k])
<1>0. Typed /\ NoBlock \notin Blocks /\ job = [q \in Requests |-> job[q]]
        /\ \A q \in Requests : JobTyped(job[q])
  BY BlocksAssumption DEF RaceInv, Typed
<1>1. ASSUME NEW q \in Requests, NEW k \in 1..MaxBatch, DeleteConflict(q, k)
      PROVE  \E h \in job[r].over : id \in since[r] \/ Collide(slot[id], job[r].batch[h])
  <2>1. /\ q = r /\ id = job[r].found[k] /\ job[r].pc = "checking"
        /\ k \in DOMAIN job[r].batch /\ job[r].found[k] # NoId
    BY <1>0, <1>1 DEF DeleteConflict, Turn, Typed
  <2>2. k \in job[r].over /\ job[r].stage[k] \in Lookups
    BY <1>0, <2>1 DEF JobTyped
  <2>3. Victim(r, k)
    BY <2>1 DEF RaceInv, Serving
  <2>4. id \in since[r] \/ Clashes(job[r].stage[k], slot[id], job[r].batch[k])
    BY <2>1, <2>3 DEF Victim
  <2>5. \A a, b : Clashes(job[r].stage[k], a, b) => Collide(a, b)
    <3>. SUFFICES ASSUME NEW a, NEW b, Clashes(job[r].stage[k], a, b)  PROVE Collide(a, b)
      OBVIOUS
    <3>1. a.end > b.start => b.start < a.end
      OBVIOUS
    <3>. QED  BY <3>1 DEF Clashes, Collide
  <2>. QED  BY <2>2, <2>4, <2>5
<1>2. ASSUME NEW q \in Requests, Insert(q)  PROVE FALSE
  BY <1>0, <1>2, InsertWrites
<1>3. ASSUME NEW q \in Requests, UpdateRow(q)  PROVE FALSE
  BY <1>0, <1>3, UpdateWrites
<1>4. ~\E i \in Ids : Remove(i)
  BY DEF Remove
<1>5. slot' # slot
  OBVIOUS
<1>. QED
  BY <1>1, <1>2, <1>3, <1>4, <1>5
     DEF RNext, Next, Arrives, CreateMany, CreateManyResolved, Update, Fails, Check,
         Validate, FindsNone, FindsConflict

\* An overwrite takes away only rows that collide with it, or newer ones.
THEOREM OverwriteDeletesClashesCorrect == RSpec => OverwriteDeletesClashes
<1>. DEFINE Deletes ==
       \A r \in Requests, id \in Ids :
         job'[r] # job[r] /\ slot[id] # NoBlock /\ slot'[id] = NoBlock =>
           \E k \in job[r].over : id \in since[r] \/ Collide(slot[id], job[r].batch[k])
<1>1. RaceInv /\ RNext => Deletes
  BY RequestsDeleteVictims
<1>2. RaceInv /\ [RNext]_rvars => [Deletes]_rvars
  BY <1>1
<1>. QED  BY <1>2, RaceInvariant, PTL DEF RSpec, OverwriteDeletesClashes
-----------------------------------------------------------------------------
\* One request at a time.
Alone ==
  \A q, r \in Requests : job[q].pc = "checking" /\ job[r].pc = "checking" => q = r
NoRaces == RaceInv /\ met = {} /\ \A r \in Requests : since[r] = {}

LEMMA SerialStep ==
  ASSUME NoRaces, Alone, RNext
  PROVE  NoRaces'
<1>1. RaceInv' /\ Recorded /\ Typed /\ job = [r \in Requests |-> job[r]]
  BY RaceStep DEF NoRaces, RaceInv, RNext, Recorded, Typed
<1>2. Unseen = {}
  BY DEF NoRaces, Unseen
<1>3. met' = {}
  BY <1>1, <1>2 DEF Recorded, NoRaces
<1>4. CASE Written = {}
  BY <1>1, <1>3, <1>4 DEF NoRaces, Recorded
<1>5. CASE Written # {}
  <2>1. PICK r \in Requests : job[r].pc = "checking" /\ job' = [job EXCEPT ![r] = Done]
    BY <1>1, <1>5
       DEF RNext, Next, Arrives, CreateMany, CreateManyResolved, Update, Fails, Check, Validate,
           FindsNone, FindsConflict, DeleteConflict, Remove, Insert, UpdateRow, Checked,
           Written, Changed, Typed
  <2>2. \A q \in Requests : job'[q].pc # "checking"
    BY <1>1, <2>1 DEF Alone, Done, Job
  <2>. QED  BY <1>1, <1>3, <2>2 DEF NoRaces, Recorded
<1>. QED  BY <1>4, <1>5

\* No two rows collide, but those of one submission within a minute.
CollideBySecondsOnly ==
  \A s, t \in Ids :
    s # t /\ slot[s] # NoBlock /\ slot[t] # NoBlock /\ Collide(slot[s], slot[t])
      => ShareSeconds(s, t)

\* Served one at a time, requests leave two blocks that collide only if a single
\* submission entered both and they share no more than part of a minute.
THEOREM SerialCollidesBySecondsOnly == RSpec /\ []Alone => []CollideBySecondsOnly
<1>1. RInit => NoRaces
  BY RaceInit DEF RInit, NoRaces
<1>2. NoRaces /\ Alone /\ RNext => NoRaces'
  BY SerialStep
<1>3. NoRaces /\ UNCHANGED rvars => NoRaces'
  BY RaceStutter DEF NoRaces, rvars
<1>4. NoRaces => CollideBySecondsOnly
  BY DEF NoRaces, RaceInv, CollisionsOnlyFromRaces, CollideBySecondsOnly
<1>. QED  BY <1>1, <1>2, <1>3, <1>4, PTL DEF RSpec
-----------------------------------------------------------------------------
\* Where no pair of rows was missed, the rows fit as the timetable says.
LEMMA RowsFit ==
  ASSUME CollisionsOnlyFromRaces', met' = {}
  PROVE  Atomic!Fits'
<1>1. ASSUME NEW s \in Ids, NEW t \in Ids, s # t, slot'[s] # NoBlock, slot'[t] # NoBlock,
             slot'[s] \in Blocks, slot'[t] \in Blocks, ~CompatiblePair(slot'[s], slot'[t])
      PROVE  FALSE
  <2>1. Collide(slot'[s], slot'[t])
    BY <1>1, MinutesCollide
  <2>2. {s, t} \in met' \/ ShareSeconds(s, t)'
    BY <1>1, <2>1 DEF CollisionsOnlyFromRaces
  <2>. QED  BY <1>1, <2>2 DEF ShareSeconds
<1>. QED  BY <1>1 DEF Atomic!Fits, Atomic!Taken

LEMMA InsertEnters ==
  ASSUME RaceInv, NEW r \in Requests, Insert(r), Atomic!Fits'
  PROVE  Atomic!TNext \/ UNCHANGED slot
<1>. DEFINE batch == job[r].batch
            row == [k \in DOMAIN batch |-> <<r, k>>]
<1>1. /\ Typed /\ JobTyped(job[r]) /\ Checked(r) /\ job[r].kind # "update"
      /\ \A k \in DOMAIN batch : batch[k] \in Blocks /\ Valid(batch[k]) /\ k \in 1..MaxBatch
  <2>1. Typed /\ JobTyped(job[r]) /\ Checked(r) /\ job[r].kind # "update"
    BY DEF RaceInv, Typed, Insert
  <2>2. batch \in Seq(Blocks) /\ Len(batch) <= MaxBatch /\ MaxBatch \in Nat
    BY <2>1, BatchesAssumption DEF JobTyped, SoundJob
  <2>3. \A k \in DOMAIN batch : batch[k] \in Blocks /\ k \in 1..MaxBatch
    BY <2>2
  <2>. QED  BY <2>1, <2>3, CheckedBlocks DEF RaceInv
<1>2. batch \in Batches /\ Unwritten(r)
  BY <1>1 DEF RaceInv, Entering, Submitted, Checked
<1>3. CASE BatchCompatible(batch)
  <2>1. /\ row \in [DOMAIN batch -> Ids \ Atomic!Taken]
        /\ \A k \in DOMAIN batch : row[k] = <<r, k>> /\ row[k] \in Ids
    BY <1>1, <1>2 DEF Unwritten, Atomic!Taken, Ids
  <2>2. /\ \A k \in DOMAIN batch : batch[k] \in {b \in Blocks : Valid(b)}
        /\ \A j, k \in DOMAIN batch : j # k => row[j] # row[k]
    BY <1>1, <2>1
  <2>3. \A k \in DOMAIN batch : slot'[row[k]] = batch[k]
    BY <1>3, <2>1 DEF Insert
  <2>4. \A id \in Ids \ {row[k] : k \in DOMAIN batch} : slot'[id] = slot[id]
    <3>1. ASSUME NEW id \in Ids, id[1] = r, id[2] \in DOMAIN batch
          PROVE  id = row[id[2]]
      BY <2>1, <3>1 DEF Ids
    <3>. QED  BY <1>3, <3>1 DEF Insert
  <2>. HIDE DEF row
  <2>5. Atomic!Enter(batch, row)
    BY <2>2, <2>3, <2>4 DEF Atomic!Enter
  <2>. QED  BY <1>2, <2>1, <2>5 DEF Atomic!TNext
<1>4. CASE ~BatchCompatible(batch)
  BY <1>4 DEF Insert
<1>. QED  BY <1>3, <1>4

LEMMA UpdateMoves ==
  ASSUME RaceInv, NEW r \in Requests, UpdateRow(r), Atomic!Fits'
  PROVE  Atomic!TNext \/ UNCHANGED slot
<1>1. Typed /\ JobTyped(job[r]) /\ Checked(r) /\ job[r].kind = "update"
  BY DEF RaceInv, Typed, UpdateRow
<1>2. /\ job[r].id \in Ids /\ 1 \in DOMAIN job[r].batch
      /\ job[r].batch[1] \in Blocks /\ Valid(job[r].batch[1])
  BY <1>1, CheckedBlocks DEF RaceInv, JobTyped, SoundJob, Checked
<1>3. CASE slot[job[r].id] # NoBlock
  <2>1. job[r].id \in Atomic!Taken /\ Atomic!Move(job[r].id, job[r].batch[1])
    BY <1>2, <1>3 DEF UpdateRow, Atomic!Taken, Atomic!Move
  <2>. QED  BY <1>2, <2>1 DEF Atomic!TNext
<1>4. CASE slot[job[r].id] = NoBlock
  BY <1>4 DEF UpdateRow
<1>. QED  BY <1>3, <1>4

\* A row that is emptied, by its id, is removed or was not there any more.
LEMMA EmptyingRemoves ==
  ASSUME Typed, NEW id \in Ids, slot' = [slot EXCEPT ![id] = NoBlock]
  PROVE  Atomic!TNext \/ UNCHANGED slot
<1>1. CASE slot[id] = NoBlock
  BY <1>1 DEF Typed
<1>2. CASE slot[id] # NoBlock
  <2>1. id \in Atomic!Taken /\ Atomic!Remove(id)
    BY <1>2 DEF Atomic!Taken, Atomic!Remove
  <2>. QED  BY <2>1 DEF Atomic!TNext
<1>. QED  BY <1>1, <1>2

LEMMA StepIsAtomic ==
  ASSUME RaceInv, RNext, met' = {}
  PROVE  Atomic!TNext \/ UNCHANGED slot
<1>0. Typed /\ Atomic!Fits'
  BY RaceStep, RowsFit DEF RaceInv
<1>1. ASSUME NEW r \in Requests, NEW k \in 1..MaxBatch, DeleteConflict(r, k)
      PROVE  Atomic!TNext \/ UNCHANGED slot
  <2>1. job[r].found[k] \in Ids /\ slot' = [slot EXCEPT ![job[r].found[k]] = NoBlock]
    BY <1>0, <1>1 DEF DeleteConflict, Turn, Typed, JobTyped, SoundJob
  <2>. QED  BY <1>0, <2>1, EmptyingRemoves
<1>2. ASSUME NEW id \in Ids, Remove(id)  PROVE Atomic!TNext \/ UNCHANGED slot
  BY <1>0, <1>2, EmptyingRemoves DEF Remove
<1>. QED
  BY <1>0, <1>1, <1>2, InsertEnters, UpdateMoves
     DEF RNext, Next, Arrives, CreateMany, CreateManyResolved, Update, Fails, Check,
         Validate, FindsNone, FindsConflict

\* Until a race is met, every step of any number of interleaved requests is a
\* step of the atomic timetable, or leaves the rows alone.
THEOREM AtomicUnlessRacedCorrect == RSpec => AtomicUnlessRaced
<1>. DEFINE Step == met' = {} => Atomic!TNext \/ UNCHANGED slot
<1>1. RInit => Atomic!TInit
  BY DEF RInit, Init, Atomic!TInit
<1>2. RaceInv /\ [RNext]_rvars => [Step]_rvars
  BY StepIsAtomic
<1>. QED  BY <1>1, <1>2, RaceInvariant, PTL DEF RSpec, AtomicUnlessRaced

\* Served one at a time, requests implement the atomic timetable.
THEOREM SerialIsAtomic == RSpec /\ []Alone => Atomic!TSpec
<1>1. RInit => NoRaces /\ Atomic!TInit
  BY RaceInit DEF RInit, NoRaces, Init, Atomic!TInit
<1>2. NoRaces /\ Alone /\ [RNext]_rvars => NoRaces'
  BY SerialStep, RaceStutter DEF NoRaces, rvars
<1>3. NoRaces /\ NoRaces' /\ [RNext]_rvars => [Atomic!TNext]_slot
  BY StepIsAtomic DEF NoRaces, rvars, vars
<1>. QED  BY <1>1, <1>2, <1>3, PTL DEF RSpec, Atomic!TSpec
=============================================================================
