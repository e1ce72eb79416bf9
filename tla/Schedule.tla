------------------------------ MODULE Schedule ------------------------------
(***************************************************************************)
(* The timetable: the rows of schedule_slots and the requests that write    *)
(* them (ScheduleService over PgScheduleSlotRepository).                     *)
(*                                                                          *)
(* No constraint of the table keeps two blocks from colliding: a request     *)
(* looks for conflicts with SELECTs, with "overwrite" deletes those it       *)
(* finds one by one, and writes its rows with a last statement.  None of     *)
(* this is a transaction; the statements of different requests interleave.   *)
(*                                                                          *)
(* "create" is CreateMany with a single block, "create_resolved" is          *)
(* CreateManyResolved with one.  A row is named by the request and the       *)
(* position of the input that inserted it, as only the uniqueness of the     *)
(* SERIAL id matters.  Catalogs are not kept: a missing teacher, subject,    *)
(* room or group ends the request as any failing statement does (Fails).     *)
(* Publication and authorship of a block are left out.                      *)
(***************************************************************************)
EXTENDS Integers, Sequences

CONSTANTS
  Requests,   \* the requests that write blocks, each served once
  Blocks,     \* the blocks they ask for
  Batches,    \* the submissions: sequences of blocks
  MaxBatch,   \* bound on the length of a submission
  NoTeacher,  \* teacher_id NULL
  Whole,      \* subgroup NULL or blank: the whole group
  NoBlock,    \* no row
  NoId        \* no row id

ASSUME BlocksAssumption ==
  /\ NoBlock \notin Blocks
  /\ \A b \in Blocks : {"teacher", "room", "group", "sub", "day", "start", "end"}
                         \subseteq DOMAIN b /\ b.start \in Nat /\ b.end \in Nat
ASSUME BatchesAssumption ==
  MaxBatch \in Nat \ {0} /\ \A q \in Batches : Len(q) \in 1..MaxBatch /\ q \in Seq(Blocks)
ASSUME NoIdAssumption == NoId \notin Requests \X (1..MaxBatch)

VARIABLES
  slot,  \* schedule_slots: the block of each row
  job    \* progress of each request

vars == <<slot, job>>
Ids == Requests \X (1..MaxBatch)
-----------------------------------------------------------------------------
\* Times are seconds of the day (HH:MM:SS is accepted and kept); the service
\* compares minutes, SQL compares TIMEs.
TimeToMinutes(t) == t \div 60
Valid(b) == TimeToMinutes(b.start) < TimeToMinutes(b.end)
IntervalsOverlap(a, b) ==
  TimeToMinutes(a.start) < TimeToMinutes(b.end) /\ TimeToMinutes(a.end) > TimeToMinutes(b.start)
RelatedGroups(a, b) ==
  a.group = b.group /\ (a.sub = Whole \/ b.sub = Whole \/ a.sub = b.sub)
SameTeacher(a, b) == a.teacher # NoTeacher /\ a.teacher = b.teacher

\* The blocks of a submission do not collide with each other.
CompatiblePair(a, b) ==
  ~ /\ a.day = b.day
    /\ RelatedGroups(a, b) \/ SameTeacher(a, b) \/ a.room = b.room
    /\ IntervalsOverlap(a, b)
\* (mutated form: the first block is left out)
BatchCompatibleButFirst(batch) ==
  \A i, j \in DOMAIN batch : 1 < j /\ j < i => CompatiblePair(batch[j], batch[i])
BatchCompatible(batch) ==
  \A i, j \in DOMAIN batch : j < i => CompatiblePair(batch[j], batch[i])

\* The WHERE of the three conflict queries.
ClashesInSubgroup(stage, a, b) ==
  /\ a.day = b.day /\ a.start < b.end /\ a.end > b.start
  /\ \/ stage = "group" /\ a.group = b.group /\ a.sub = b.sub
     \/ stage = "teacher" /\ SameTeacher(a, b)
     \/ stage = "room" /\ a.room = b.room
\* (mutated forms: above, the common trunk of a group is not looked at; below,
\* the day is not)
ClashesAnyDay(stage, a, b) ==
  /\ a.start < b.end /\ a.end > b.start
  /\ \/ stage = "group" /\ RelatedGroups(a, b)
     \/ stage = "teacher" /\ SameTeacher(a, b)
     \/ stage = "room" /\ a.room = b.room
Clashes(stage, a, b) ==
  /\ a.day = b.day /\ a.start < b.end /\ a.end > b.start
  /\ \/ stage = "group" /\ RelatedGroups(a, b)
     \/ stage = "teacher" /\ SameTeacher(a, b)
     \/ stage = "room" /\ a.room = b.room
FindConflict(stage, block, excludeId) ==
  {id \in Ids : slot[id] # NoBlock /\ id # excludeId /\ Clashes(stage, slot[id], block)}

\* What handle_collisions looks at, in its order.
Lookups == {"group", "teacher", "room"}
Stages == Lookups \cup {"new", "free"}
After(stage) == CASE stage = "new" -> "group" [] stage = "group" -> "teacher"
                  [] stage = "teacher" -> "room" [] OTHER -> "free"

\* A request: its blocks, those that overwrite, the row it updates, and for
\* each block how far its checks are and the conflict to be deleted.
Job(pc, kind, batch, over, id, stage) ==
  [pc |-> pc, kind |-> kind, batch |-> batch, over |-> over, id |-> id,
   stage |-> [k \in DOMAIN batch |-> stage], found |-> [k \in DOMAIN batch |-> NoId]]
Idle == Job("idle", "none", <<>>, {}, NoId, "new")
Done == Job("done", "none", <<>>, {}, NoId, "new")

Init == slot = [id \in Ids |-> NoBlock] /\ job = [r \in Requests |-> Idle]
-----------------------------------------------------------------------------
\* Arrivals.  An invalid or inconsistent upload is refused before any query.
CreateMany(r, batch, over) ==
  /\ job[r].pc = "idle"
  /\ job' = [job EXCEPT ![r] = Job("checking", "many", batch, over, NoId, "new")]
  /\ UNCHANGED slot

CreateManyResolved(r, batch, over) ==
  /\ job[r].pc = "idle"
  /\ job' = [job EXCEPT ![r] =
       IF (\A k \in DOMAIN batch : Valid(batch[k])) /\ BatchCompatible(batch)
       THEN Job("checking", "resolved", batch, over, NoId, "group") ELSE Done]
  /\ UNCHANGED slot

\* The row is read, then merged with the fields of the request.
Update(r, id, merged) ==
  /\ job[r].pc = "idle" /\ slot[id] # NoBlock
  /\ job' = [job EXCEPT ![r] = Job("checking", "update", <<merged>>, {}, id, "new")]
  /\ UNCHANGED slot

Arrives(r) ==
  \/ \E batch \in Batches : \E over \in SUBSET DOMAIN batch :
       CreateMany(r, batch, over) \/ CreateManyResolved(r, batch, over)
  \/ \E id \in Ids, merged \in Blocks : Update(r, id, merged)
-----------------------------------------------------------------------------
\* Block k is being checked: one after the other, but all at once in an upload.
Turn(r, k) ==
  /\ job[r].pc = "checking" /\ k \in DOMAIN job[r].batch
  /\ job[r].kind = "resolved" \/ \A j \in DOMAIN job[r].batch :
                                     j < k => job[r].stage[j] = "free"
Progress(j, k, stage, found) ==
  [j EXCEPT !.stage = [j.stage EXCEPT ![k] = stage], !.found = [j.found EXCEPT ![k] = found]]

Validate(r, k) ==
  /\ Turn(r, k) /\ job[r].stage[k] = "new"
  /\ job' = [job EXCEPT ![r] =
       IF Valid(job[r].batch[k]) THEN Progress(job[r], k, "group", NoId) ELSE Done]
  /\ UNCHANGED slot

Looking(r, k) == Turn(r, k) /\ job[r].stage[k] \in Lookups /\ job[r].found[k] = NoId
ConflictsOf(r, k) == FindConflict(job[r].stage[k], job[r].batch[k], job[r].id)

FindsNone(r, k) ==
  /\ Looking(r, k) /\ ConflictsOf(r, k) = {}
  /\ job' = [job EXCEPT ![r] = Progress(job[r], k, After(job[r].stage[k]), NoId)]
  /\ UNCHANGED slot

\* (mutated form: the flag is not looked at)
FindsConflictAnyway(r, k) ==
  /\ Looking(r, k)
  /\ \E id \in ConflictsOf(r, k) :
       job' = [job EXCEPT ![r] = Progress(job[r], k, job[r].stage[k], id)]
  /\ UNCHANGED slot
\* LIMIT 1 without ORDER BY: any conflict.  Refused, or kept to be deleted.
FindsConflict(r, k) ==
  /\ Looking(r, k)
  /\ \E id \in ConflictsOf(r, k) :
       job' = [job EXCEPT ![r] =
         IF k \in job[r].over THEN Progress(job[r], k, job[r].stage[k], id) ELSE Done]
  /\ UNCHANGED slot

DeleteConflict(r, k) ==
  /\ Turn(r, k) /\ job[r].found[k] # NoId
  /\ slot' = [slot EXCEPT ![job[r].found[k]] = NoBlock]
  /\ job' = [job EXCEPT ![r] = Progress(job[r], k, job[r].stage[k], NoId)]

Checked(r) ==
  job[r].pc = "checking" /\ \A k \in DOMAIN job[r].batch : job[r].stage[k] = "free"

\* One INSERT for all blocks.  create_many compares them only now, after the
\* deletions; an upload has compared them on arrival.
Insert(r) ==
  /\ Checked(r) /\ job[r].kind # "update"
  /\ slot' = IF BatchCompatible(job[r].batch)
             THEN [id \in Ids |-> IF id[1] = r /\ id[2] \in DOMAIN job[r].batch
                                  THEN job[r].batch[id[2]] ELSE slot[id]]
             ELSE slot
  /\ job' = [job EXCEPT ![r] = Done]

\* The UPDATE fails if the row was deleted meanwhile.
UpdateRow(r) ==
  /\ Checked(r) /\ job[r].kind = "update"
  /\ slot' = IF slot[job[r].id] = NoBlock THEN slot
             ELSE [slot EXCEPT ![job[r].id] = job[r].batch[1]]
  /\ job' = [job EXCEPT ![r] = Done]

\* A dependency is missing, a statement fails, or the server stops.
Fails(r) ==
  /\ job[r].pc = "checking"
  /\ job' = [job EXCEPT ![r] = Done]
  /\ UNCHANGED slot

Remove(id) ==
  /\ slot[id] # NoBlock
  /\ slot' = [slot EXCEPT ![id] = NoBlock]
  /\ UNCHANGED job

Check(r, k) ==
  Validate(r, k) \/ FindsNone(r, k) \/ FindsConflict(r, k) \/ DeleteConflict(r, k)
Next ==
  \/ \E r \in Requests : Arrives(r) \/ Insert(r) \/ UpdateRow(r) \/ Fails(r)
  \/ \E r \in Requests : \E k \in 1..MaxBatch : Check(r, k)
  \/ \E id \in Ids : Remove(id)
Spec == Init /\ [][Next]_vars
-----------------------------------------------------------------------------
SoundJob(j) ==
  /\ j.pc \in {"idle", "checking", "done"}
  /\ j.kind \in {"none", "many", "resolved", "update"}
  /\ j.kind = "update" <=> j.id \in Ids
  /\ j.batch \in Seq(Blocks) /\ Len(j.batch) <= MaxBatch
  /\ j.over \subseteq DOMAIN j.batch /\ j.id \in Ids \cup {NoId}
  /\ j.stage \in [DOMAIN j.batch -> Stages]
  /\ j.found \in [DOMAIN j.batch -> Ids \cup {NoId}]

\* Rows hold blocks, and only a block that overwrites has a conflict to delete.
TypeOK ==
  /\ slot \in [Ids -> Blocks \cup {NoBlock}]
  /\ \A r \in Requests : SoundJob(job[r]) /\
       \A k \in DOMAIN job[r].batch :
         job[r].found[k] # NoId => job[r].stage[k] \in Lookups /\ k \in job[r].over

\* Two rows that collide: a teacher, a room or a group in two places at once.
Collide(a, b) ==
  /\ a.day = b.day /\ a.start < b.end /\ b.start < a.end
  /\ RelatedGroups(a, b) \/ SameTeacher(a, b) \/ a.room = b.room

=============================================================================
