---------------------- MODULE SharedTaskLocking_proofs ----------------------
(***************************************************************************)
(* What the row locks are for: an unlink finds at its commit what it read,   *)
(* so the service keeps the promise of Membership, cancels the invitations   *)
(* nobody stands behind and tells whoever is left alone, for any set of      *)
(* people and any number of requests.                                       *)
(***************************************************************************)
EXTENDS SharedTask_proofs, SharedTaskHistory

\* From the first UPDATE to the commit of an unlink, and of a forward.
Leaving == {"unlink.lock", "unlink.count", "unlink.snap", "unlink.cancel"}
Counting == {"unlink.count", "unlink.snap", "unlink.cancel"}
Forwarding == {"forward.next", "forward.upsert"}

\* Nothing happens before the task exists.
Started ==
  ownerLink = "absent" =>
    /\ \A r \in Requests : job[r] = Idle
    /\ \A u \in Users : row[u].status = "NONE"

\* The link that a leaving person has cut is still there for the others, and
\* nobody else can cut or restore it.
LeaverHolds(r) ==
  job[r].pc \in Leaving =>
    IF job[r].user = Owner THEN taskLock = r /\ ownerLink = "linked"
    ELSE /\ rowLock[job[r].user] = r
         /\ row[job[r].user].status # "NONE"
         /\ row[job[r].user].sub # "UNLINKED"

\* The rows an open transaction has written are locked by it, and those it
\* cancels are PENDING.
WriterHolds(r) ==
  /\ job[r].pc \in Leaving \cup Forwarding =>
       \A v \in job[r].hit : rowLock[v] = r
  /\ job[r].pc \in Leaving => \A v \in job[r].hit : row[v].status = "PENDING"
  /\ job[r].pc = "unlink.begin" => job[r].hit = {}

\* The task's lock is held from the count to the commit.
CounterHolds(r) == job[r].pc \in Counting => taskLock = r

\* The person who answers has a row, and gives an answer.
AnswererHasRow(r) ==
  job[r].pc \in {"respond.inviter", "respond.set"} =>
    row[job[r].user].status # "NONE" /\ job[r].choice \in {"ACCEPTED", "REJECTED"}

RequestInv(r) ==
  LeaverHolds(r) /\ WriterHolds(r) /\ CounterHolds(r) /\ AnswererHasRow(r)
LockInv == Started /\ \A r \in Requests : RequestInv(r)
-----------------------------------------------------------------------------
(* A step of one request leaves what another one relies on.                  *)

Undisturbed(r) ==
  /\ job'[r] = job[r]
  /\ taskLock = r => taskLock' = r /\ ownerLink' = ownerLink
  /\ \A v \in Users : rowLock[v] = r => rowLock'[v] = r /\ row'[v] = row[v]
RowsStay ==
  \A v \in Users : row[v].status # "NONE" => row'[v].status # "NONE"
\* ... for a step of request q.
KeepsOthers(q) == RowsStay /\ \A r \in Requests \ {q} : Undisturbed(r)

LEMMA UndisturbedKeeps ==
  ASSUME Typed, NEW r \in Requests, RequestInv(r), Undisturbed(r), RowsStay
  PROVE  RequestInv(r)'
<1>. /\ job[r].user \in Users /\ job[r].hit \in SUBSET Users
  BY DEF Typed, TypeOK, Job
<1>1. LeaverHolds(r)'
  BY DEF RequestInv, LeaverHolds, Undisturbed
<1>2. WriterHolds(r)'
  BY DEF RequestInv, WriterHolds, Undisturbed
<1>3. CounterHolds(r)'
  BY DEF RequestInv, CounterHolds, Undisturbed
<1>4. AnswererHasRow(r)'
  BY DEF RequestInv, AnswererHasRow, Undisturbed, RowsStay
<1>. QED  BY <1>1, <1>2, <1>3, <1>4 DEF RequestInv

\* A request outside the two transactions, and not answering, relies on nothing.
LEMMA RestingKeeps ==
  ASSUME NEW r \in Requests,
         \/ job'[r].pc \notin Leaving \cup Forwarding
                                \cup {"respond.inviter", "respond.set", "unlink.begin"}
         \/ job'[r].pc = "unlink.begin" /\ job'[r].hit = {}
  PROVE  RequestInv(r)'
BY DEF RequestInv, LeaverHolds, WriterHolds, CounterHolds, AnswererHasRow,
       Leaving, Counting, Forwarding

LEMMA OverRests ==
  ASSUME NEW j, NEW msgs
  PROVE  /\ \/ Over(j).pc = "idle"
            \/ Over(j).pc = "unlink.begin" /\ Over(j).hit = {}
         /\ \/ Emitting(j, msgs).pc \in {"idle", "emit"}
            \/ Emitting(j, msgs).pc = "unlink.begin" /\ Emitting(j, msgs).hit = {}
BY DEF Over, Emitting, Idle

\* Releasing the locks of one transaction leaves those of the others.
LEMMA ReleaseSpares ==
  ASSUME Typed, NEW q \in Requests, ReleaseLocks(q), NEW r \in Requests \ {q}
  PROVE  /\ taskLock = r => taskLock' = r
         /\ \A v \in Users : rowLock[v] = r => rowLock'[v] = r
BY DEF ReleaseLocks, Typed, TypeOK
-----------------------------------------------------------------------------
(* The locking invariant is inductive.                                       *)

LEMMA InitLocks == Init => LockInv
BY DEF Init, LockInv, Started, NoRow, Idle, RequestInv, LeaverHolds, WriterHolds,
       CounterHolds, AnswererHasRow, Leaving, Counting, Forwarding

LEMMA IdleRests ==
  ASSUME NEW r \in Requests, job'[r] = Idle
  PROVE  RequestInv(r)'
BY RestingKeeps DEF Idle, Leaving, Forwarding

\* Enough for a step of request q, once the task exists.
LEMMA FromKeepsOthers ==
  ASSUME Typed, LockInv, NEW q \in Requests, KeepsOthers(q), RequestInv(q)',
         ownerLink' # "absent"
  PROVE  LockInv'
BY UndisturbedKeeps DEF LockInv, Started, KeepsOthers

LEMMA ArrivalLocks ==
  ASSUME Typed, LockInv, NEW q \in Requests, Arrival(q)
  PROVE  LockInv'
<1>. USE DEF db, locks
<1>typ. /\ job \in [Requests -> Job]
        /\ row \in [Users -> Row]
        /\ NoRequest \notin Requests
  BY RequestsAssumption DEF Typed, TypeOK
\* The actions that write no row and take no lock.
<1>0. ASSUME UNCHANGED <<db, locks>>, NEW k \in Job, Goto(q, k), RequestInv(q)',
             ownerLink # "absent"
      PROVE  LockInv'
  BY <1>0, <1>typ, FromKeepsOthers DEF KeepsOthers, RowsStay, Undisturbed, Goto
\* A row of somebody gives the task away.
<1>started. (\E u \in Users : row[u].status # "NONE") => ownerLink # "absent"
  BY DEF LockInv, Started
<1>1. ASSUME NEW S \in SUBSET Users, ShareTask(q, S)  PROVE LockInv'
  <2>1. \A r \in Requests \ {q} : job'[r] = Idle
    BY <1>1, <1>typ DEF ShareTask, LockInv, Started, Goto
  <2>2. RequestInv(q)'
    BY <1>1, <1>typ, OverRests, RestingKeeps DEF ShareTask, Goto, Leaving, Forwarding
  <2>. QED  BY <1>1, <2>1, <2>2, IdleRests DEF ShareTask, LockInv, Started
<1>2. ASSUME NEW u \in Users, NEW answer \in Status, RespondReadsStatus(q, u, answer)
      PROVE  LockInv'
  <2>. DEFINE k == [Idle EXCEPT !.pc = "respond.inviter", !.user = u, !.choice = answer]
  <2>1. k \in Job
    BY IdleIsJob DEF Idle, SoundJob, Job, PCs
  <2>2. /\ k.pc = "respond.inviter" /\ k.user = u
        /\ k.choice = answer
    BY DEF Idle
  <2>3. job'[q] = k /\ row' = row
    BY <1>2, <1>typ DEF RespondReadsStatus, Goto
  <2>4. RequestInv(q)'
    BY <1>2, <2>2, <2>3 DEF RespondReadsStatus, RequestInv, LeaverHolds, WriterHolds,
         CounterHolds, AnswererHasRow, Leaving, Counting, Forwarding
  <2>. QED  BY <1>0, <1>2, <1>started, <2>1, <2>4 DEF RespondReadsStatus
\* An UPDATE of a free row, by a request that then rests.
<1>write. ASSUME NEW u \in Users, NEW x \in Row, x.status # "NONE",
                 row' = [row EXCEPT ![u] = x], RowFree(u, q), job[q] = Idle,
                 \A r \in Requests \ {q} : job'[r] = job[r],
                 RequestInv(q)', UNCHANGED <<ownerLink, locks>>, ownerLink # "absent"
          PROVE  LockInv'
  <2>1. RowsStay
    BY <1>write, <1>typ DEF RowsStay
  <2>2. ASSUME NEW r \in Requests \ {q}  PROVE Undisturbed(r)
    BY <1>write, <1>typ, <2>2 DEF Undisturbed, RowFree
  <2>. QED  BY <1>write, <2>1, <2>2, FromKeepsOthers DEF KeepsOthers
<1>3. ASSUME NEW u \in Users, NEW completed \in BOOLEAN,
             SetRecipientCompleted(q, u, completed)
      PROVE  LockInv'
  <2>. DEFINE x == [row[u] EXCEPT !.sub = IF completed THEN "COMPLETED" ELSE "OPEN",
                                  !.done = completed]
  <2>1. x \in Row /\ x.status # "NONE"
    BY <1>3, <1>typ DEF SetRecipientCompleted, HasCopy, Row, SubState
  <2>2. RequestInv(q)'
    BY <1>3, <1>typ, OverRests, RestingKeeps DEF SetRecipientCompleted, Goto, Leaving, Forwarding
  <2>3. ownerLink # "absent"
    BY <1>3, <1>started DEF SetRecipientCompleted, HasCopy
  <2>4. \A r \in Requests \ {q} : job'[r] = job[r]
    BY <1>3, <1>typ DEF SetRecipientCompleted, Goto
  <2>. QED  BY <1>3, <1>write, <2>1, <2>2, <2>3, <2>4 DEF SetRecipientCompleted, Arrives
<1>4. ASSUME NEW u \in Users, NEW sub \in SubState, MarkSubState(q, u, sub)
      PROVE  LockInv'
  <2>. DEFINE x == [row[u] EXCEPT !.sub = sub, !.done = SetsCompletedAt(sub)]
  <2>0. SetsCompletedAt(sub) \in BOOLEAN
    BY DEF SetsCompletedAt
  <2>1. x \in Row /\ x.status = row[u].status
    BY <2>0, <1>typ, RowsTyped DEF Row
  <2>2. RequestInv(q)'
    BY <1>4, IdleRests DEF MarkSubState, Arrives
  <2>3. ownerLink # "absent" /\ row[u].status # "NONE"
    BY <1>4, <1>started DEF MarkSubState, HasCopy
  <2>. QED  BY <1>4, <1>write, <2>1, <2>2, <2>3 DEF MarkSubState, Arrives
<1>5. ASSUME NEW u \in Users, NEW peer \in Users, RemindReadsSender(q, u, peer)
      PROVE  LockInv'
  <2>. DEFINE k == [Idle EXCEPT !.pc = "remind.peer", !.user = u, !.mark = peer]
  <2>1. k \in Job /\ k.pc = "remind.peer"
    BY IdleIsJob DEF Idle, SoundJob, Job, PCs
  <2>2. RequestInv(q)'
    BY <1>5, <1>typ, <2>1, RestingKeeps DEF RemindReadsSender, Goto, Leaving, Forwarding
  <2>. QED  BY <1>0, <1>5, <2>1, <2>2 DEF RemindReadsSender
<1>6. ASSUME NEW u \in Users, NEW S \in SUBSET Users, ForwardBegins(q, u, S)
      PROVE  LockInv'
  <2>. DEFINE k == [Idle EXCEPT !.pc = "forward.next", !.user = u, !.peers = S \ {u}]
  <2>1. k \in Job /\ k.pc = "forward.next" /\ k.hit = {}
    BY IdleIsJob DEF Idle, SoundJob, Job, PCs
  <2>2. job'[q] = k
    BY <1>6, <1>typ DEF ForwardBegins, Goto
  <2>3. RequestInv(q)'
    BY <2>1, <2>2 DEF RequestInv, LeaverHolds, WriterHolds, CounterHolds,
         AnswererHasRow, Leaving, Counting, Forwarding
  <2>4. ownerLink # "absent"
    BY <1>6, <1>started DEF ForwardBegins, CanForward, OpenCopy
  <2>. QED  BY <1>0, <1>6, <2>1, <2>3, <2>4 DEF ForwardBegins
<1>7. ASSUME NEW u \in Users, UnlinkArrives(q, u)  PROVE LockInv'
  <2>. DEFINE first == [Idle EXCEPT !.pc = "unlink.begin", !.user = u]
              second == [Idle EXCEPT !.pc = "unlink.begin", !.user = u, !.again = TRUE]
  <2>1. \A k \in {first, second} : k \in Job /\ k.pc = "unlink.begin" /\ k.hit = {}
    BY IdleIsJob DEF Idle, SoundJob, Job, PCs
  <2>2. PICK k \in Job : k.pc = "unlink.begin" /\ k.hit = {} /\ Goto(q, k)
    BY <1>7, <2>1 DEF UnlinkArrives
  <2>3. RequestInv(q)'
    BY <1>typ, <2>2, RestingKeeps DEF Goto
  <2>. QED  BY <1>0, <1>7, <2>2, <2>3 DEF UnlinkArrives
<1>. QED
  BY <1>1, <1>2, <1>3, <1>4, <1>5, <1>6, <1>7 DEF Arrival

\* A step leaves the other requests undisturbed and its own account in order.
LEMMA StepKeeps ==
  ASSUME Typed, LockInv, NEW q \in Requests, Step(q)
  PROVE  KeepsOthers(q) /\ RequestInv(q)' /\ ownerLink' # "absent"
<1>. USE DEF db, locks
<1>typ. /\ job \in [Requests -> Job] /\ job[q] \in Job
        /\ row \in [Users -> Row]
        /\ rowLock \in [Users -> Requests \cup {NoRequest}]
        /\ NoRequest \notin Requests
        /\ job[q].user \in Users /\ job[q].hit \in SUBSET Users
  BY RequestsAssumption DEF Typed, TypeOK, Job
<1>inv. RequestInv(q)
  BY DEF LockInv
<1>linked. job[q] # Idle => ownerLink # "absent"
  BY DEF LockInv, Started
<1>goto. ASSUME NEW k, Goto(q, k)
         PROVE  job'[q] = k /\ \A r \in Requests \ {q} : job'[r] = job[r]
  BY <1>goto, <1>typ DEF Goto
\* The statements that only read.
<1>read. ASSUME UNCHANGED <<db, locks>>, NEW k, Goto(q, k), job[q].pc # "idle", RequestInv(q)'
         PROVE  KeepsOthers(q) /\ RequestInv(q)' /\ ownerLink' # "absent"
  <2>1. job[q] # Idle
    BY <1>read DEF Idle
  <2>. QED  BY <2>1, <1>read, <1>goto, <1>linked DEF KeepsOthers, RowsStay, Undisturbed
\* A request that comes to rest, without touching rows or locks.
<1>rest. ASSUME NEW k, Goto(q, k),
                \/ k.pc \in {"idle", "emit", "remind.peer", "remind.closed", "remind.count",
                             "remind.create", "unlink.tell", "unlink.survivor"}
                \/ k.pc = "unlink.begin" /\ k.hit = {}
         PROVE  RequestInv(q)'
  BY <1>rest, <1>goto, RestingKeeps DEF Leaving, Forwarding
<1>1. CASE RespondReadsInviter(q)
  <2>. DEFINE k == [job[q] EXCEPT !.pc = "respond.set", !.mark = row[job[q].user].inviter]
  <2>1. k.pc = "respond.set" /\ k.user = job[q].user /\ k.choice = job[q].choice
    BY <1>typ DEF Job
  <2>2. job'[q] = k /\ row' = row
    BY <1>1, <1>goto DEF RespondReadsInviter
  <2>3. RequestInv(q)'
    BY <1>1, <1>inv, <2>1, <2>2 DEF RespondReadsInviter, RequestInv, LeaverHolds,
         WriterHolds, CounterHolds, AnswererHasRow, Leaving, Counting, Forwarding
  <2>. QED  BY <1>1, <1>read, <2>3 DEF RespondReadsInviter
<1>2. CASE SetRecipientStatus(q)
  <2>. DEFINE u == job[q].user
  <2>1. row' = [row EXCEPT ![u] = Answer(q, u)] /\ RowFree(u, q)
        /\ UNCHANGED <<ownerLink, locks>> /\ job[q].pc = "respond.set"
    BY <1>2 DEF SetRecipientStatus
  <2>2. Answer(q, u).status \in {"ACCEPTED", "REJECTED"}
    BY <1>inv, <1>typ, <2>1 DEF Answer, RequestInv, AnswererHasRow, Row
  <2>3. RequestInv(q)' /\ \A r \in Requests \ {q} : job'[r] = job[r]
    BY <1>2, <1>goto, <1>rest, OverRests DEF SetRecipientStatus
  <2>4. RowsStay
    BY <2>1, <2>2, <1>typ DEF RowsStay
  <2>5. ASSUME NEW r \in Requests \ {q}  PROVE Undisturbed(r)
    BY <2>1, <2>3, <1>typ DEF Undisturbed, RowFree
  <2>6. ownerLink' # "absent"
    BY <2>1, <1>linked DEF Idle
  <2>. QED  BY <2>3, <2>4, <2>5, <2>6 DEF KeepsOthers
<1>3. CASE RemindReadsPeer(q) \/ RemindReadsClosed(q) \/ RemindCounts(q)
  <2>1. \A pc \in {"remind.count", "remind.closed", "remind.create"} :
          [job[q] EXCEPT !.pc = pc].pc = pc
    BY <1>typ DEF Job
  <2>2. CASE RemindReadsPeer(q)
    <3>1. RequestInv(q)'
      BY <2>1, <2>2, <1>rest DEF RemindReadsPeer, Idle
    <3>. QED  BY <2>2, <3>1, <1>read DEF RemindReadsPeer
  <2>3. CASE RemindReadsClosed(q)
    <3>1. RequestInv(q)'
      BY <2>1, <2>3, <1>rest DEF RemindReadsClosed, Idle
    <3>. QED  BY <2>3, <3>1, <1>read DEF RemindReadsClosed
  <2>4. CASE RemindCounts(q)
    <3>1. RequestInv(q)'
      BY <2>1, <2>4, <1>rest DEF RemindCounts, Idle
    <3>. QED  BY <2>4, <3>1, <1>read DEF RemindCounts
  <2>. QED  BY <1>3, <2>2, <2>3, <2>4
<1>4. CASE CreateReminder(q)
  <2>1. RequestInv(q)'
    BY <1>4, <1>rest, OverRests DEF CreateReminder
  <2>2. ownerLink' # "absent"
    BY <1>4, <1>linked DEF CreateReminder, Idle
  <2>. QED  BY <1>4, <1>goto, <2>1, <2>2
            DEF CreateReminder, KeepsOthers, RowsStay, Undisturbed
<1>5. ASSUME NEW v \in Users, ForwardSorts(q, v)
      PROVE  KeepsOthers(q) /\ RequestInv(q)' /\ ownerLink' # "absent"
  <2>. DEFINE keep == row[v].status = "PENDING" \/ HasCopy(v)
              k == [job[q] EXCEPT !.peers = @ \ {v},
                                  !.pc = IF keep THEN "forward.next" ELSE "forward.upsert",
                                  !.mark = IF keep THEN NoUser ELSE v]
  <2>0. k.pc \in Forwarding /\ k.hit = job[q].hit
    BY <1>typ DEF Forwarding, Job
  <2>1. Goto(q, k)
    BY <1>5 DEF ForwardSorts
  <2>. HIDE DEF k
  <2>2. RequestInv(q)'
    BY <1>5, <1>inv, <1>goto, <2>0, <2>1 DEF ForwardSorts, RequestInv, LeaverHolds, WriterHolds,
         CounterHolds, AnswererHasRow, Leaving, Counting, Forwarding
  <2>. QED  BY <1>5, <1>read, <2>1, <2>2 DEF ForwardSorts
<1>6. CASE ForwardUpserts(q)
  <2>. DEFINE v == job[q].mark
  <2>0. v \in Users /\ RowFree(v, q) /\ rowLock' = [rowLock EXCEPT ![v] = q]
        /\ UNCHANGED <<ownerLink, row, taskLock>> /\ job[q].pc = "forward.upsert"
    BY <1>6 DEF ForwardUpserts, Typed, SoundJob
  <2>. DEFINE k == [job[q] EXCEPT !.pc = "forward.next", !.mark = NoUser,
                                  !.hit = @ \cup {v}]
  <2>1. Goto(q, k) /\ k.pc = "forward.next" /\ k.hit = job[q].hit \cup {v}
    BY <1>6, <1>typ DEF ForwardUpserts, Job
  <2>. HIDE DEF k
  <2>2. RequestInv(q)'
    BY <1>inv, <1>goto, <1>typ, <2>0, <2>1 DEF RequestInv, LeaverHolds, WriterHolds,
         CounterHolds, AnswererHasRow, Leaving, Counting, Forwarding
  <2>3. ASSUME NEW r \in Requests \ {q}  PROVE Undisturbed(r)
    BY <2>0, <2>1, <1>goto, <1>typ DEF Undisturbed, RowFree
  <2>4. ownerLink' # "absent"
    BY <2>0, <1>linked DEF Idle
  <2>. QED  BY <2>0, <2>2, <2>3, <2>4 DEF KeepsOthers, RowsStay
<1>7. CASE ForwardCommits(q)
  <2>0. /\ job[q].pc = "forward.next" /\ ReleaseLocks(q) /\ UNCHANGED ownerLink
        /\ row' = [u \in Users |-> IF u \in job[q].hit THEN Invitation(job[q].user)
                                                       ELSE row[u]]
    BY <1>7 DEF ForwardCommits
  <2>1. \A v \in job[q].hit : rowLock[v] = q
    BY <2>0, <1>inv DEF RequestInv, WriterHolds, Forwarding
  <2>2. RequestInv(q)' /\ \A r \in Requests \ {q} : job'[r] = job[r]
    BY <1>7, <1>goto, <1>rest, OverRests DEF ForwardCommits
  <2>3. RowsStay
    BY <2>0 DEF RowsStay, Invitation
  <2>4. ASSUME NEW r \in Requests \ {q}  PROVE Undisturbed(r)
    BY <2>0, <2>1, <2>2, <1>typ, ReleaseSpares DEF Undisturbed
  <2>5. ownerLink' # "absent"
    BY <2>0, <1>linked DEF Idle
  <2>. QED  BY <2>2, <2>3, <2>4, <2>5 DEF KeepsOthers
<1>8. CASE UnlinkFindsNothing(q)
  <2>1. [job[q] EXCEPT !.pc = "unlink.survivor"].pc = "unlink.survivor"
    BY <1>typ DEF Job
  <2>2. RequestInv(q)'
    BY <1>8, <1>rest, <2>1 DEF UnlinkFindsNothing
  <2>. QED  BY <1>8, <1>read, <2>2 DEF UnlinkFindsNothing
\* The first statements of an unlink.
<1>9. CASE UnlinkRecipient(q)
  <2>. DEFINE u == job[q].user
  <2>0. /\ u # Owner /\ RowFree(u, q) /\ rowLock' = [rowLock EXCEPT ![u] = q]
        /\ row[u].status # "NONE" /\ row[u].sub # "UNLINKED"
        /\ UNCHANGED <<ownerLink, row, taskLock>> /\ job[q].pc = "unlink.begin"
    BY <1>9 DEF UnlinkRecipient
  <2>1. PICK k : /\ Goto(q, k) /\ k.pc = "unlink.lock" /\ k.hit = job[q].hit
                 /\ k.user = u
    BY <1>9, <1>typ DEF UnlinkRecipient, Job
  <2>2. RequestInv(q)'
    BY <1>inv, <1>goto, <1>typ, <2>0, <2>1 DEF RequestInv, LeaverHolds, WriterHolds,
         CounterHolds, AnswererHasRow, Leaving, Counting, Forwarding
  <2>3. ASSUME NEW r \in Requests \ {q}  PROVE Undisturbed(r)
    BY <2>0, <2>1, <1>goto, <1>typ DEF Undisturbed, RowFree
  <2>4. ownerLink' # "absent"
    BY <2>0, <1>linked DEF Idle
  <2>. QED  BY <2>0, <2>2, <2>3, <2>4 DEF KeepsOthers, RowsStay
<1>10. CASE UnlinkOwner(q)
  <2>0. /\ job[q].user = Owner /\ ownerLink = "linked" /\ taskLock = NoRequest
        /\ taskLock' = q /\ UNCHANGED <<ownerLink, row, rowLock>>
        /\ job[q].pc = "unlink.begin"
    BY <1>10 DEF UnlinkOwner
  <2>1. PICK k : /\ Goto(q, k) /\ k.pc = "unlink.lock" /\ k.hit = job[q].hit
                 /\ k.user = Owner
    BY <1>10, <1>typ DEF UnlinkOwner, Job
  <2>2. RequestInv(q)'
    BY <1>inv, <1>goto, <2>0, <2>1 DEF RequestInv, LeaverHolds, WriterHolds,
         CounterHolds, AnswererHasRow, Leaving, Counting, Forwarding
  <2>3. ASSUME NEW r \in Requests \ {q}  PROVE Undisturbed(r)
    BY <2>0, <2>1, <1>goto, <1>typ DEF Undisturbed
  <2>. QED  BY <2>0, <2>2, <2>3 DEF KeepsOthers, RowsStay
\* The statements between them and the commit.
<1>11. CASE LockTask(q)
  <2>0. /\ taskLock \in {NoRequest, q} /\ taskLock' = q /\ UNCHANGED <<ownerLink, row, rowLock>>
        /\ job[q].pc = "unlink.lock"
    BY <1>11 DEF LockTask
  <2>1. PICK k : /\ Goto(q, k) /\ k.pc = "unlink.count" /\ k.hit = job[q].hit
                 /\ k.user = job[q].user
    BY <1>11, <1>typ DEF LockTask, Job
  <2>2. RequestInv(q)'
    BY <1>inv, <1>goto, <2>0, <2>1 DEF RequestInv, LeaverHolds, WriterHolds,
         CounterHolds, AnswererHasRow, Leaving, Counting, Forwarding
  <2>3. ASSUME NEW r \in Requests \ {q}  PROVE Undisturbed(r)
    BY <2>0, <2>1, <1>goto, <1>typ DEF Undisturbed
  <2>4. ownerLink' # "absent"
    BY <2>0, <1>linked DEF Idle
  <2>. QED  BY <2>0, <2>2, <2>3, <2>4 DEF KeepsOthers, RowsStay
<1>12. CASE CountActive(q) \/ SnapPending(q)
  <2>0. UNCHANGED <<db, locks>> /\ job[q].pc \in {"unlink.count", "unlink.snap"}
    BY <1>12 DEF CountActive, SnapPending
  <2>1. PICK k : /\ Goto(q, k) /\ k.pc \in Counting /\ k.hit = job[q].hit
                 /\ k.user = job[q].user
    <3>1. \A pc \in Counting, S \in SUBSET Users :
            /\ [job[q] EXCEPT !.pc = pc].pc = pc
            /\ [job[q] EXCEPT !.pc = pc].hit = job[q].hit
            /\ [job[q] EXCEPT !.pc = pc].user = job[q].user
            /\ [job[q] EXCEPT !.pc = pc, !.peers = S].pc = pc
            /\ [job[q] EXCEPT !.pc = pc, !.peers = S].hit = job[q].hit
            /\ [job[q] EXCEPT !.pc = pc, !.peers = S].user = job[q].user
      BY <1>typ DEF Job
    <3>2. CASE CountActive(q)
      <4>. DEFINE to == IF ActiveSeenBy(q) >= 2 THEN "unlink.cancel" ELSE "unlink.snap"
                  k == [job[q] EXCEPT !.pc = to]
      <4>1. Goto(q, k)
        BY <3>2 DEF CountActive
      <4>2. to \in Counting
        BY DEF Counting
      <4>3. k.pc \in Counting /\ k.hit = job[q].hit /\ k.user = job[q].user
        BY <3>1, <4>2
      <4>. HIDE DEF k
      <4>. QED  BY <4>1, <4>3
    <3>3. CASE SnapPending(q)
      <4>. DEFINE S == {v \in Users : row[v].status = "PENDING"}
                  k == [job[q] EXCEPT !.pc = "unlink.cancel", !.peers = S]
      <4>1. Goto(q, k)
        BY <3>3 DEF SnapPending
      <4>2. S \in SUBSET Users /\ "unlink.cancel" \in Counting
        BY DEF Counting
      <4>3. k.pc \in Counting /\ k.hit = job[q].hit /\ k.user = job[q].user
        BY <3>1, <4>2
      <4>. HIDE DEF k
      <4>. QED  BY <4>1, <4>3
    <3>. QED  BY <1>12, <3>2, <3>3
  <2>2. RequestInv(q)'
    BY <1>inv, <1>goto, <2>0, <2>1 DEF RequestInv, LeaverHolds, WriterHolds,
         CounterHolds, AnswererHasRow, Leaving, Counting, Forwarding
  <2>. QED  BY <1>read, <2>0, <2>1, <2>2
<1>13. ASSUME NEW v \in Users, CancelInvitation(q, v)
       PROVE  KeepsOthers(q) /\ RequestInv(q)' /\ ownerLink' # "absent"
  <2>0. /\ job[q].pc = "unlink.cancel" /\ RowFree(v, q)
        /\ rowLock' = IF StillPending(v) THEN [rowLock EXCEPT ![v] = q] ELSE rowLock
        /\ UNCHANGED <<ownerLink, row, taskLock>>
    BY <1>13 DEF CancelInvitation
  <2>. DEFINE k == [job[q] EXCEPT !.peers = @ \ {v},
                                  !.hit = IF StillPending(v) THEN @ \cup {v} ELSE @]
  <2>1. /\ Goto(q, k) /\ k.pc = "unlink.cancel" /\ k.user = job[q].user
        /\ k.hit = IF StillPending(v) THEN job[q].hit \cup {v} ELSE job[q].hit
    BY <1>13, <1>typ, <2>0 DEF CancelInvitation, Job
  <2>. HIDE DEF k
  <2>2. RequestInv(q)'
    BY <1>inv, <1>goto, <1>typ, <2>0, <2>1 DEF RequestInv, LeaverHolds, WriterHolds,
         CounterHolds, AnswererHasRow, StillPending, Leaving, Counting, Forwarding
  <2>3. ASSUME NEW r \in Requests \ {q}  PROVE Undisturbed(r)
    BY <2>0, <2>1, <1>goto, <1>typ DEF Undisturbed, RowFree
  <2>4. ownerLink' # "absent"
    BY <2>0, <1>linked DEF Idle
  <2>. QED  BY <2>0, <2>2, <2>3, <2>4 DEF KeepsOthers, RowsStay
<1>14. CASE UnlinkCommits(q)
  <2>. DEFINE u == job[q].user
  <2>0. /\ job[q].pc = "unlink.cancel" /\ ReleaseLocks(q)
        /\ ownerLink' = IF u = Owner THEN "unlinked" ELSE ownerLink
        /\ row' = [v \in Users |->
                     IF v \in job[q].hit THEN Canceled(row[v])
                     ELSE IF v = u /\ u # Owner THEN [row[v] EXCEPT !.sub = "UNLINKED"]
                     ELSE row[v]]
    BY <1>14 DEF UnlinkCommits
  <2>1. /\ \A v \in job[q].hit : rowLock[v] = q
        /\ u # Owner => rowLock[u] = q
        /\ u = Owner => taskLock = q
    BY <2>0, <1>inv DEF RequestInv, WriterHolds, LeaverHolds, Leaving
  <2>2. RequestInv(q)' /\ \A r \in Requests \ {q} : job'[r] = job[r]
    <3>. DEFINE msgs == Msgs(job[q].hit, "INVITATION_CANCELED")
                k == [job[q] EXCEPT !.hit = {}, !.todo = msgs,
                        !.pc = IF msgs = {} THEN "unlink.survivor" ELSE "unlink.tell"]
    <3>1. k.pc \in {"unlink.survivor", "unlink.tell"}
      BY <1>typ DEF Job
    <3>2. Goto(q, k)
      BY <1>14 DEF UnlinkCommits
    <3>. QED  BY <3>1, <3>2, <1>goto, <1>rest
  <2>3. RowsStay
    BY <2>0, <1>typ DEF RowsStay, Canceled, Row
  <2>4. ASSUME NEW r \in Requests \ {q}  PROVE Undisturbed(r)
    <3>1. \A v \in Users : rowLock[v] = r => row'[v] = row[v]
      BY <2>0, <2>1
    <3>. QED  BY <2>0, <2>1, <2>2, <3>1, ReleaseSpares DEF Undisturbed
  <2>5. ownerLink' # "absent"
    BY <2>0, <1>linked DEF Idle
  <2>. QED  BY <2>2, <2>3, <2>4, <2>5 DEF KeepsOthers
<1>15. CASE UnlinkFindsSurvivor(q)
  <2>1. RequestInv(q)'
    BY <1>15, <1>rest, OverRests DEF UnlinkFindsSurvivor
  <2>. QED  BY <1>15, <1>read, <2>1 DEF UnlinkFindsSurvivor
<1>16. ASSUME NEW e \in Events, EmitEvent(q, e)
       PROVE  KeepsOthers(q) /\ RequestInv(q)' /\ ownerLink' # "absent"
  <2>1. /\ job[q].pc \in {"emit", "unlink.tell"}
        /\ UNCHANGED <<ownerLink, row, locks>>
    BY <1>16 DEF EmitEvent
  <2>2. PICK k : Goto(q, k) /\ \/ k.pc \in {"idle", "emit", "unlink.tell", "unlink.survivor"}
                               \/ k.pc = "unlink.begin" /\ k.hit = {}
    <3>1. \A S : [job[q] EXCEPT !.todo = S].pc = job[q].pc
      BY <1>typ DEF Job
    <3>2. \A S : [job[q] EXCEPT !.todo = S, !.pc = "unlink.survivor"].pc = "unlink.survivor"
      BY <1>typ DEF Job
    <3>. QED  BY <1>16, <2>1, <3>1, <3>2, OverRests DEF EmitEvent
  <2>3. RequestInv(q)'
    BY <2>2, <1>rest
  <2>4. ownerLink' # "absent"
    BY <2>1, <1>linked DEF Idle
  <2>. QED  BY <2>1, <2>2, <2>3, <2>4, <1>goto DEF KeepsOthers, RowsStay, Undisturbed
<1>17. CASE DeadlockVictim(q)
  <2>0. ReleaseLocks(q) /\ UNCHANGED db /\ Goto(q, Over(job[q]))
    BY <1>17 DEF DeadlockVictim
  <2>1. RequestInv(q)'
    BY <2>0, <1>rest, OverRests
  <2>2. job[q] # Idle
    <3>1. WaitsFor(q) # {}
      BY <1>17 DEF DeadlockVictim, Cycle
    <3>. QED  BY <3>1 DEF WaitsFor, Idle
  <2>3. ASSUME NEW r \in Requests \ {q}  PROVE Undisturbed(r)
    BY <2>0, <1>goto, ReleaseSpares DEF Undisturbed
  <2>. QED  BY <2>0, <2>1, <2>2, <2>3, <1>linked DEF KeepsOthers, RowsStay
<1>. QED
  BY <1>1, <1>2, <1>3, <1>4, <1>5, <1>6, <1>7, <1>8, <1>9, <1>10, <1>11, <1>12, <1>13,
     <1>14, <1>15, <1>16, <1>17
  DEF Step

LEMMA NextLocks == Typed /\ LockInv /\ [Next]_vars => LockInv'
<1>. SUFFICES ASSUME Typed, LockInv, [Next]_vars  PROVE LockInv'
  OBVIOUS
<1>unseen. ASSUME UNCHANGED <<ownerLink, row, locks, job>>  PROVE LockInv'
  BY <1>unseen DEF locks, LockInv, Started, RequestInv, LeaverHolds, WriterHolds,
       CounterHolds, AnswererHasRow
<1>1. ASSUME NEW q \in Requests, Step(q)  PROVE LockInv'
  BY <1>1, StepKeeps, FromKeepsOthers
<1>2. ASSUME NEW sender \in Users, NEW peer \in Users, ReminderAges(sender, peer)
      PROVE  LockInv'
  BY <1>2, <1>unseen DEF ReminderAges
<1>3. ASSUME NEW e \in Events, AckEvent(e)  PROVE LockInv'
  BY <1>3, <1>unseen DEF AckEvent
<1>4. CASE ServerStops
  <2>1. \A r \in Requests : job'[r] = Idle
    BY <1>4 DEF ServerStops
  <2>. QED  BY <1>4, <2>1, IdleRests DEF ServerStops, LockInv, Started, db
<1>5. CASE UNCHANGED vars
  BY <1>5, <1>unseen DEF vars, locks
<1>. QED  BY <1>1, <1>2, <1>3, <1>4, <1>5, ArrivalLocks DEF Next

\* The locking discipline holds in every reachable state.
THEOREM LocksCorrect == Spec => [](Typed /\ LockInv)
<1>1. Init => Typed /\ LockInv
  BY InitTyped, InitLocks
<1>2. (Typed /\ LockInv) /\ [Next]_vars => (Typed /\ LockInv)'
  BY NextTyped, NextLocks
<1>. QED  BY <1>1, <1>2, PTL DEF Spec

\* What an unlink counted and selected is not undone before it commits.
THEOREM CancelsOnlyPendingCorrect == Spec => []CancelsOnlyPending
<1>1. LockInv => CancelsOnlyPending
  BY DEF LockInv, RequestInv, WriterHolds, CancelsOnlyPending, Leaving
<1>. QED  BY <1>1, LocksCorrect, PTL

\* Two unlinks are never both between their count and their commit.
THEOREM UnlinksSerializedCorrect == Spec => []UnlinksSerialized
<1>1. LockInv => UnlinksSerialized
  BY DEF LockInv, RequestInv, CounterHolds, UnlinksSerialized, Counting
<1>. QED  BY <1>1, LocksCorrect, PTL

-----------------------------------------------------------------------------
(* SharedTask implements Membership, and takes an accepted copy away only    *)
(* by its holder's own unlink.                                               *)

\* The actions that change who belongs to the task.
Writes(r) ==
  \/ \E S \in SUBSET Users : ShareTask(r, S)
  \/ \E u \in Users, completed \in BOOLEAN : SetRecipientCompleted(r, u, completed)
  \/ \E u \in Users, sub \in SubState : MarkSubState(r, u, sub)
  \/ SetRecipientStatus(r) \/ ForwardCommits(r) \/ UnlinkCommits(r)

LEMMA OthersOnlyRead ==
  ASSUME [Next]_vars, \A r \in Requests : ~Writes(r)
  PROVE  UNCHANGED <<ownerLink, row>>
<1>. USE DEF db, locks
<1>1. ASSUME NEW r \in Requests, Arrival(r)  PROVE UNCHANGED <<ownerLink, row>>
  BY <1>1 DEF Writes, Arrival, RespondReadsStatus, RemindReadsSender, ForwardBegins,
       UnlinkArrives
<1>2. ASSUME NEW r \in Requests, Step(r)  PROVE UNCHANGED <<ownerLink, row>>
  BY <1>2 DEF Writes, Step, RespondReadsInviter, RemindReadsPeer, RemindReadsClosed,
       RemindCounts, CreateReminder, ForwardSorts, ForwardUpserts, UnlinkFindsNothing,
       UnlinkRecipient, UnlinkOwner, LockTask, CountActive, SnapPending, CancelInvitation,
       UnlinkFindsSurvivor, EmitEvent, DeadlockVictim
<1>. QED
  BY <1>1, <1>2 DEF Next, ReminderAges, AckEvent, ServerStops, vars
-----------------------------------------------------------------------------
\* Only a person's own unlink takes an accepted copy away, even when an
\* acceptance races with the cancellation of invitations.
THEOREM OnlySelfUnlinksCorrect == Spec => OnlySelfUnlinks
<1>. DEFINE Own(u) == \E r \in Requests : job[r].user = u /\ job[r].pc = "unlink.cancel"
                                          /\ job'[r].pc # "unlink.cancel"
            OwnOnly == \A u \in Users : HasCopy(u) /\ row'[u].sub = "UNLINKED" => Own(u)
<1>1. ASSUME Typed, LockInv, [Next]_vars, NEW u \in Users, HasCopy(u), row'[u].sub = "UNLINKED"
      PROVE  Own(u)
  <2>typ. row \in [Users -> Row] /\ job \in [Requests -> Job]
    BY <1>1 DEF Typed, TypeOK
  <2>copy. row[u].status = "ACCEPTED" /\ row[u].sub # "UNLINKED"
    BY <1>1 DEF HasCopy
  <2>1. PICK r \in Requests : Writes(r)
    BY <1>1, <2>copy, OthersOnlyRead
  <2>2. ASSUME NEW S \in SUBSET Users, ShareTask(r, S)  PROVE FALSE
    BY <1>1, <2>copy, <2>2 DEF ShareTask, Invitation
  <2>3. ASSUME NEW v \in Users, NEW completed \in BOOLEAN, SetRecipientCompleted(r, v, completed)
        PROVE  FALSE
    BY <1>1, <2>typ, <2>copy, <2>3 DEF SetRecipientCompleted, Row
  <2>4. ASSUME NEW v \in Users, NEW sub \in SubState, MarkSubState(r, v, sub)  PROVE FALSE
    <3>1. [row[v] EXCEPT !.sub = sub, !.done = SetsCompletedAt(sub)].sub = sub
      BY <2>typ DEF Row
    <3>2. row' = [row EXCEPT ![v] = [row[v] EXCEPT !.sub = sub, !.done = SetsCompletedAt(sub)]]
          /\ sub # "UNLINKED"
      BY <2>4 DEF MarkSubState
    <3>. QED  BY <1>1, <2>typ, <2>copy, <3>1, <3>2
  <2>5. CASE SetRecipientStatus(r)
    BY <1>1, <2>5, <2>typ, <2>copy DEF SetRecipientStatus, Answer, Row
  <2>6. CASE ForwardCommits(r)
    BY <1>1, <2>6, <2>copy DEF ForwardCommits, Invitation
  <2>7. CASE UnlinkCommits(r)
    <3>1. job[r].pc = "unlink.cancel" /\ u \notin job[r].hit
      BY <1>1, <2>7, <2>copy DEF UnlinkCommits, LockInv, RequestInv, WriterHolds, Leaving
    <3>2. job[r].user = u
      BY <1>1, <2>7, <2>copy, <3>1 DEF UnlinkCommits
    <3>3. job'[r].pc # "unlink.cancel"
      <4>. DEFINE msgs == Msgs(job[r].hit, "INVITATION_CANCELED")
                  k == [job[r] EXCEPT !.hit = {}, !.todo = msgs,
                          !.pc = IF msgs = {} THEN "unlink.survivor" ELSE "unlink.tell"]
      <4>1. k.pc # "unlink.cancel"
        BY <2>typ DEF Job
      <4>2. job'[r] = k
        BY <2>7, <2>typ DEF UnlinkCommits, Goto
      <4>. QED  BY <4>1, <4>2
    <3>. QED  BY <3>1, <3>2, <3>3
  <2>. QED  BY <2>1, <2>2, <2>3, <2>4, <2>5, <2>6, <2>7 DEF Writes
<1>2. Typed /\ LockInv /\ [Next]_vars => [OwnOnly]_vars
  BY <1>1
<1>. QED  BY <1>2, LocksCorrect, PTL DEF Spec, OnlySelfUnlinks

\* completed_at agrees with sub_state, whichever of the writers of a row ran
\* in whatever order.
THEOREM CompletionConsistentCorrect == Spec => []CompletionConsistent
<1>. DEFINE Consistent(x) == /\ x.sub = "OPEN" => ~x.done
                             /\ x.sub \in {"COMPLETED", "DISMISSED_DONE"} => x.done
            Inv == \A u \in Users : Consistent(row[u])
<1>1. Init => Inv
  BY DEF Init, NoRow
<1>2. ASSUME Typed, Inv, [Next]_vars  PROVE Inv'
  <2>. SUFFICES ASSUME NEW u \in Users  PROVE Consistent(row'[u])
    OBVIOUS
  <2>typ. row \in [Users -> Row]
    BY <1>2 DEF Typed, TypeOK
  <2>0. CASE \A r \in Requests : ~Writes(r)
    BY <1>2, <2>0, OthersOnlyRead
  <2>. SUFFICES ASSUME NEW r \in Requests, Writes(r)  PROVE Consistent(row'[u])
    BY <2>0
  <2>1. ASSUME NEW S \in SUBSET Users, ShareTask(r, S)  PROVE Consistent(row'[u])
    BY <1>2, <2>1 DEF ShareTask, Invitation
  <2>2. ASSUME NEW v \in Users, NEW completed \in BOOLEAN, SetRecipientCompleted(r, v, completed)
        PROVE  Consistent(row'[u])
    <3>. DEFINE x == [row[v] EXCEPT !.sub = IF completed THEN "COMPLETED" ELSE "OPEN",
                                    !.done = completed]
    <3>1. Consistent(x)
      BY <2>typ DEF Row
    <3>2. row' = [row EXCEPT ![v] = x]
      BY <2>2 DEF SetRecipientCompleted
    <3>. QED  BY <1>2, <2>typ, <3>1, <3>2
  <2>3. ASSUME NEW v \in Users, NEW sub \in SubState, MarkSubState(r, v, sub)
        PROVE  Consistent(row'[u])
    <3>. DEFINE x == [row[v] EXCEPT !.sub = sub, !.done = SetsCompletedAt(sub)]
    <3>1. x.sub = sub /\ x.done = SetsCompletedAt(sub)
      BY <2>typ DEF Row
    <3>2. Consistent(x)
      BY <3>1 DEF SetsCompletedAt
    <3>3. row' = [row EXCEPT ![v] = x]
      BY <2>3 DEF MarkSubState
    <3>. QED  BY <1>2, <2>typ, <3>2, <3>3
  <2>4. CASE SetRecipientStatus(r)
    <3>1. \A v \in Users : Answer(r, v).sub = row[v].sub /\ Answer(r, v).done = row[v].done
      BY <2>typ DEF Answer, Row
    <3>. QED  BY <1>2, <2>4, <2>typ, <3>1 DEF SetRecipientStatus
  <2>5. CASE ForwardCommits(r)
    BY <1>2, <2>5 DEF ForwardCommits, Invitation
  <2>6. CASE UnlinkCommits(r)
    <3>1. row'[u] = row[u] \/ row'[u].sub = "UNLINKED"
      BY <2>6, <2>typ DEF UnlinkCommits, Canceled, Row
    <3>. QED  BY <1>2, <3>1
  <2>. QED  BY <2>1, <2>2, <2>3, <2>4, <2>5, <2>6 DEF Writes
<1>3. Inv <=> CompletionConsistent
  BY DEF CompletionConsistent
<1>4. Typed /\ Inv /\ [Next]_vars => Inv'
  BY <1>2
<1>. HIDE DEF Inv
<1>. QED  BY <1>1, <1>3, <1>4, LocksCorrect, PTL DEF Spec
-----------------------------------------------------------------------------
(* The refinement.                                                           *)

Member == [u \in Users |-> Standing(u)]

\* How a row shows in Membership.
LEMMA StandingIs ==
  ASSUME Typed, NEW u \in Users
  PROVE  /\ row[u].status = "NONE" => Standing(u) = "none"
         /\ row[u].status # "NONE" /\ row[u].sub = "UNLINKED" => Standing(u) = "gone"
         /\ row[u].sub # "UNLINKED" =>
              /\ row[u].status = "PENDING" => Standing(u) = "invited"
              /\ row[u].status = "ACCEPTED" => Standing(u) = "joined"
              /\ row[u].status = "REJECTED" => Standing(u) = "declined"
<1>. row[u].status \in Status
  BY DEF Typed, TypeOK, Row
<1>. QED  BY DEF Standing, Status

\* ... and after the step.
LEMMA StandingBecomes ==
  ASSUME Typed', NEW u \in Users
  PROVE  /\ row'[u].status = "NONE" => Standing(u)' = "none"
         /\ row'[u].status # "NONE" /\ row'[u].sub = "UNLINKED" => Standing(u)' = "gone"
         /\ row'[u].sub # "UNLINKED" =>
              /\ row'[u].status = "PENDING" => Standing(u)' = "invited"
              /\ row'[u].status = "ACCEPTED" => Standing(u)' = "joined"
              /\ row'[u].status = "REJECTED" => Standing(u)' = "declined"
<1>. row'[u].status \in Status
  BY DEF Typed, TypeOK, Row
<1>. QED  BY DEF Standing, Status

LEMMA StandingKept ==
  ASSUME NEW u \in Users, row'[u] = row[u]
  PROVE  Standing(u)' = Standing(u)
BY DEF Standing

LEMMA InitRefines == Init => Abstract!MInit
BY DEF Init, Abstract!MInit, Standing, NoRow

\* The actions that change neither the rows' standing nor the owner's link.
LEMMA Stutters ==
  ASSUME ownerLink' = ownerLink, \A u \in Users : Standing(u)' = Standing(u)
  PROVE  UNCHANGED Abstract!mvars
BY DEF Abstract!mvars

LEMMA ShareRefines ==
  ASSUME Typed, Typed', NEW r \in Requests, NEW S \in SUBSET Users, ShareTask(r, S)
  PROVE  Abstract!MShare(S)
<1>1. \A u \in Users : Standing(u)' = IF u \in S THEN "invited" ELSE Standing(u)
  BY StandingKept, StandingBecomes DEF ShareTask, Invitation
<1>. QED  BY <1>1 DEF Abstract!MShare, ShareTask

LEMMA AnswerRefines ==
  ASSUME Typed, Typed', LockInv, NEW r \in Requests, SetRecipientStatus(r)
  PROVE  \/ \E u \in Users, standing \in {"joined", "declined"} : Abstract!MAnswer(u, standing)
         \/ UNCHANGED Abstract!mvars
<1>. PICK u \in Users : u = job[r].user
  BY DEF Typed, TypeOK, Job
<1>typ. row \in [Users -> Row]
  BY DEF Typed, TypeOK
<1>1. /\ row[u].status # "NONE" /\ job[r].choice \in {"ACCEPTED", "REJECTED"}
      /\ row' = [row EXCEPT ![u] = Answer(r, u)] /\ ownerLink' = ownerLink
  BY DEF SetRecipientStatus, LockInv, RequestInv, AnswererHasRow
<1>2. row'[u].status = job[r].choice /\ row'[u].sub = row[u].sub
  BY <1>1, <1>typ DEF Answer, Row
<1>3. \A v \in Users \ {u} : Standing(v)' = Standing(v)
  BY <1>1, <1>typ, StandingKept
<1>4. CASE row[u].sub = "UNLINKED"
  <2>1. Standing(u)' = Standing(u)
    BY <1>1, <1>2, <1>4, <1>typ, StandingIs, StandingBecomes
  <2>. QED  BY <1>1, <1>3, <2>1, Stutters
<1>5. CASE row[u].sub # "UNLINKED"
  <2>1. Standing(u)' \in {"joined", "declined"}
    BY <1>1, <1>2, <1>5, <1>typ, StandingBecomes
  <2>2. Standing(u) \in {"invited", "joined", "declined"}
    BY <1>1, <1>5, <1>typ, StandingIs DEF Row, Status
  <2>3. Abstract!MAnswer(u, Standing(u)')
    BY <1>1, <1>3, <1>typ, <2>1, <2>2 DEF Abstract!MAnswer
  <2>. QED  BY <1>typ, <2>1, <2>3
<1>. QED  BY <1>4, <1>5

\* Completing, reopening and dismissing a copy leave its holder a holder.
LEMMA CopyUpdatesStutter ==
  ASSUME Typed, Typed', NEW r \in Requests, NEW u \in Users,
         \/ \E completed \in BOOLEAN : SetRecipientCompleted(r, u, completed)
         \/ \E sub \in SubState : MarkSubState(r, u, sub)
  PROVE  UNCHANGED Abstract!mvars
<1>typ. row \in [Users -> Row]
  BY DEF Typed, TypeOK
<1>1. PICK sub \in SubState \ {"UNLINKED"}, done \in BOOLEAN :
        row' = [row EXCEPT ![u] = [row[u] EXCEPT !.sub = sub, !.done = done]]
  <2>1. ASSUME NEW completed \in BOOLEAN, SetRecipientCompleted(r, u, completed)
        PROVE  \E sub \in SubState \ {"UNLINKED"}, done \in BOOLEAN :
                 row' = [row EXCEPT ![u] = [row[u] EXCEPT !.sub = sub, !.done = done]]
    BY <2>1 DEF SetRecipientCompleted, SubState
  <2>2. ASSUME NEW sub \in SubState, MarkSubState(r, u, sub)
        PROVE  \E done \in BOOLEAN :
                 /\ sub # "UNLINKED"
                 /\ row' = [row EXCEPT ![u] = [row[u] EXCEPT !.sub = sub, !.done = done]]
    <3>1. SetsCompletedAt(sub) \in BOOLEAN
      BY DEF SetsCompletedAt
    <3>. QED  BY <2>2, <3>1 DEF MarkSubState
  <2>. QED  BY <2>1, <2>2
<1>2. HasCopy(u) /\ ownerLink' = ownerLink
  BY DEF SetRecipientCompleted, MarkSubState
<1>3. row'[u].status = "ACCEPTED" /\ row'[u].sub # "UNLINKED"
  BY <1>1, <1>2, <1>typ DEF HasCopy, Row
<1>4. Standing(u)' = Standing(u)
  BY <1>2, <1>3, StandingIs, StandingBecomes DEF HasCopy
<1>5. \A v \in Users \ {u} : Standing(v)' = Standing(v)
  BY <1>1, <1>typ, StandingKept
<1>. QED  BY <1>2, <1>4, <1>5, Stutters

LEMMA ForwardRefines ==
  ASSUME Typed, Typed', LockInv, NEW r \in Requests, ForwardCommits(r)
  PROVE  Abstract!MInvite(job[r].hit)
<1>1. \A u \in Users : Standing(u)' = IF u \in job[r].hit THEN "invited" ELSE Standing(u)
  BY StandingKept, StandingBecomes DEF ForwardCommits, Invitation
<1>2. ownerLink # "absent"
  BY DEF ForwardCommits, LockInv, Started, Idle
<1>. QED  BY <1>1, <1>2 DEF Abstract!MInvite, ForwardCommits

LEMMA UnlinkRefines ==
  ASSUME Typed, Typed', LockInv, NEW r \in Requests, UnlinkCommits(r)
  PROVE  \E S \in SUBSET Users :
           \/ job[r].user # Owner /\ Abstract!MLeave(job[r].user, S)
           \/ job[r].user = Owner /\ Abstract!MOwnerLeaves(S)
<1>. PICK u \in Users : u = job[r].user
  BY DEF Typed, TypeOK, Job
<1>. PICK S \in SUBSET Users : S = {v \in job[r].hit : row[v].sub # "UNLINKED"}
  BY DEF Typed, TypeOK, Job
<1>typ. row \in [Users -> Row] /\ job[r].hit \in SUBSET Users
  BY DEF Typed, TypeOK, Job
<1>pc. job[r].pc = "unlink.cancel"
  BY DEF UnlinkCommits
<1>1. \A v \in job[r].hit : row[v].status = "PENDING"
  BY <1>pc DEF LockInv, RequestInv, WriterHolds, Leaving
<1>2. \A v \in S : Standing(v) = "invited"
  BY <1>1, <1>typ, StandingIs
<1>3. \A v \in job[r].hit : Standing(v)' = "gone"
  BY <1>typ, StandingBecomes DEF UnlinkCommits, Canceled, Row
<1>4. \A v \in job[r].hit \ S : Standing(v) = "gone"
  BY <1>1, <1>typ, StandingIs
<1>5. \A v \in Users \ (job[r].hit \cup {u}) : Standing(v)' = Standing(v)
  BY <1>typ, StandingKept DEF UnlinkCommits
<1>6. CASE u = Owner
  <2>1. ownerLink = "linked" /\ ownerLink' = "unlinked"
    BY <1>6, <1>pc DEF UnlinkCommits, LockInv, RequestInv, LeaverHolds, Leaving
  <2>2. u \notin job[r].hit => Standing(u)' = Standing(u)
    BY <1>6, <1>typ, StandingKept DEF UnlinkCommits
  <2>3. \A v \in Users : Standing(v)' = IF v \in S THEN "gone" ELSE Standing(v)
    BY <1>3, <1>4, <1>5, <2>2
  <2>4. Abstract!MOwnerLeaves(S)
    BY <1>2, <2>1, <2>3 DEF Abstract!MOwnerLeaves
  <2>. QED  BY <1>6, <1>typ, <2>4
<1>7. CASE u # Owner
  <2>1. row[u].status # "NONE" /\ row[u].sub # "UNLINKED" /\ ownerLink' = ownerLink
    BY <1>7, <1>pc DEF UnlinkCommits, LockInv, RequestInv, LeaverHolds, Leaving
  <2>2. Standing(u) \in {"invited", "joined", "declined"}
    BY <2>1, <1>typ, StandingIs DEF Row, Status
  <2>3. Standing(u)' = "gone"
    <3>1. CASE u \in job[r].hit
      BY <3>1, <1>3
    <3>2. CASE u \notin job[r].hit
      <4>1. row'[u] = [row[u] EXCEPT !.sub = "UNLINKED"]
        BY <1>7, <1>typ, <3>2 DEF UnlinkCommits
      <4>. QED  BY <4>1, <2>1, <1>typ, StandingBecomes DEF Row
    <3>. QED  BY <3>1, <3>2
  <2>4. \A v \in Users : Standing(v)' = IF v \in S \cup {u} THEN "gone" ELSE Standing(v)
    BY <1>3, <1>4, <1>5, <2>3
  <2>5. Abstract!MLeave(u, S)
    BY <1>2, <2>1, <2>2, <2>4 DEF Abstract!MLeave
  <2>. QED  BY <1>7, <1>typ, <2>5
<1>. QED  BY <1>6, <1>7

\* Every step of the service is a step of Membership, or none.
LEMMA NextRefines ==
  ASSUME Typed, Typed', LockInv, [Next]_vars
  PROVE  [Abstract!MNext]_Abstract!mvars
<1>1. CASE \A r \in Requests : ~Writes(r)
  BY <1>1, OthersOnlyRead, StandingKept, Stutters
<1>2. ASSUME NEW r \in Requests, Writes(r)  PROVE [Abstract!MNext]_Abstract!mvars
  <2>1. ASSUME NEW S \in SUBSET Users, ShareTask(r, S)
        PROVE  Abstract!MNext
    BY <2>1, ShareRefines DEF Abstract!MNext
  <2>2. CASE \E u \in Users, completed \in BOOLEAN : SetRecipientCompleted(r, u, completed)
    BY <2>2, CopyUpdatesStutter
  <2>3. CASE \E u \in Users, sub \in SubState : MarkSubState(r, u, sub)
    BY <2>3, CopyUpdatesStutter
  <2>4. CASE SetRecipientStatus(r)
    <3>. {"joined", "declined"} \subseteq Abstract!Standing
      BY DEF Abstract!Standing
    <3>. QED  BY <2>4, AnswerRefines DEF Abstract!MNext
  <2>5. CASE ForwardCommits(r)
    <3>. job[r].hit \in SUBSET Users
      BY DEF Typed, TypeOK, Job
    <3>. QED  BY <2>5, ForwardRefines DEF Abstract!MNext
  <2>6. CASE UnlinkCommits(r)
    <3>. job[r].user \in Users
      BY DEF Typed, TypeOK, Job
    <3>. QED  BY <2>6, UnlinkRefines DEF Abstract!MNext
  <2>. QED  BY <1>2, <2>1, <2>2, <2>3, <2>4, <2>5, <2>6 DEF Writes
<1>. QED  BY <1>1, <1>2

\* The service implements Membership.
THEOREM MembershipRefined == Spec => RefinesMembership
<1>1. Typed /\ Typed' /\ LockInv /\ [Next]_vars => [Abstract!MNext]_Abstract!mvars
  BY NextRefines
<1>2. (Typed /\ LockInv) /\ [Next]_vars => Typed'
  BY NextTyped
<1>. QED
  BY <1>1, <1>2, InitRefines, LocksCorrect, PTL DEF Spec, RefinesMembership, Abstract!MSpec
-----------------------------------------------------------------------------
(* How a request comes to hold what the history properties look at.          *)

Left == {"unlink.tell", "unlink.survivor"}

Goes(r) ==
  /\ job'[r].pc \in Forwarding =>
       \/ \E u \in Users, S \in SUBSET Users : ForwardBegins(r, u, S)
       \/ \E v \in Users : ForwardSorts(r, v)
       \/ ForwardUpserts(r)
  /\ job'[r].pc \in Counting =>
       \/ LockTask(r) \/ CountActive(r) \/ SnapPending(r)
       \/ \E v \in Users : CancelInvitation(r, v)
  /\ job[r].pc = "unlink.cancel" /\ job'[r].pc \in Left => UnlinkCommits(r)

LEMMA ComesToRest ==
  ASSUME NEW j, NEW msgs
  PROVE  /\ Over(j).pc \in {"idle", "unlink.begin"}
         /\ Emitting(j, msgs).pc \in {"idle", "emit", "unlink.begin"}
BY DEF Over, Emitting, Idle

LEMMA ArrivalGoes ==
  ASSUME Typed, NEW r \in Requests, Arrival(r)
  PROVE  Goes(r)
<1>idle. \A k : Goto(r, k) => job'[r] = k
  BY DEF Goto, Typed, TypeOK
<1>0. ASSUME job[r] = Idle, job'[r].pc \in {"idle", "emit", "unlink.begin", "remind.peer",
                                            "respond.inviter"}
      PROVE  Goes(r)
  BY <1>0 DEF Goes, Idle, Left, Forwarding, Counting
<1>1. ASSUME NEW S \in SUBSET Users, ShareTask(r, S)  PROVE Goes(r)
  BY <1>1, <1>0, <1>idle, ComesToRest DEF ShareTask, Arrives
<1>2. ASSUME NEW u \in Users, NEW answer \in Status, RespondReadsStatus(r, u, answer)
      PROVE  Goes(r)
  <2>1. job'[r].pc = "respond.inviter"
    BY <1>2, <1>idle DEF RespondReadsStatus, Idle
  <2>. QED  BY <1>2, <2>1, <1>0 DEF RespondReadsStatus, Arrives
<1>3. ASSUME NEW u \in Users, NEW completed \in BOOLEAN, SetRecipientCompleted(r, u, completed)
      PROVE  Goes(r)
  BY <1>3, <1>0, <1>idle, ComesToRest DEF SetRecipientCompleted, Arrives
<1>4. ASSUME NEW u \in Users, NEW sub \in SubState, MarkSubState(r, u, sub)
      PROVE  Goes(r)
  <2>1. job[r] = Idle /\ job'[r].pc = "idle"
    BY <1>4 DEF MarkSubState, Arrives, Idle
  <2>. QED  BY <2>1, <1>0
<1>5. ASSUME NEW u \in Users, NEW peer \in Users, RemindReadsSender(r, u, peer)
      PROVE  Goes(r)
  <2>1. job'[r].pc = "remind.peer"
    BY <1>5, <1>idle DEF RemindReadsSender, Idle
  <2>. QED  BY <1>5, <2>1, <1>0 DEF RemindReadsSender, Arrives
<1>6. ASSUME NEW u \in Users, UnlinkArrives(r, u)  PROVE Goes(r)
  <2>1. job[r] = Idle /\ job'[r].pc = "unlink.begin"
    BY <1>6, <1>idle DEF UnlinkArrives, Arrives, Idle
  <2>. QED  BY <2>1, <1>0
<1>7. ASSUME NEW u \in Users, NEW S \in SUBSET Users, ForwardBegins(r, u, S)
      PROVE  Goes(r)
  <2>1. job[r] = Idle /\ job'[r].pc = "forward.next"
    BY <1>7, <1>idle DEF ForwardBegins, Arrives, Idle
  <2>. QED  BY <1>7, <2>1 DEF Goes, Idle, Left, Forwarding, Counting
<1>. QED  BY <1>1, <1>2, <1>3, <1>4, <1>5, <1>6, <1>7 DEF Arrival

LEMMA StepGoes ==
  ASSUME Typed, NEW r \in Requests, Step(r)
  PROVE  Goes(r)
<1>typ. job \in [Requests -> Job] /\ job[r] \in Job
  BY DEF Typed, TypeOK
<1>goto. \A k : Goto(r, k) => job'[r] = k
  BY <1>typ DEF Goto
<1>pc. \A pc : [job[r] EXCEPT !.pc = pc].pc = pc
  BY <1>typ DEF Job
<1>rest. ASSUME NEW msgs,
                Goto(r, Emitting(job[r], msgs)) \/ Goto(r, Over(job[r])) \/ Goto(r, Idle)
         PROVE  Goes(r)
  <2>1. job'[r].pc \in {"idle", "emit", "unlink.begin"}
    BY <1>rest, <1>goto, ComesToRest DEF Idle
  <2>. QED  BY <2>1 DEF Goes, Left, Forwarding, Counting
<1>on. ASSUME job'[r].pc \notin Forwarding \cup Counting, job[r].pc # "unlink.cancel"
       PROVE  Goes(r)
  BY <1>on DEF Goes
<1>1. CASE RespondReadsInviter(r)
  <2>1. job'[r].pc = "respond.set"
    BY <1>1, <1>goto, <1>typ DEF RespondReadsInviter, Job
  <2>. QED  BY <1>1, <2>1, <1>on DEF RespondReadsInviter, Forwarding, Counting
<1>2. CASE SetRecipientStatus(r)
  BY <1>2, <1>rest DEF SetRecipientStatus
<1>3. CASE RemindReadsPeer(r) \/ RemindReadsClosed(r) \/ RemindCounts(r)
  <2>. DEFINE Ends == job'[r].pc \in {"idle", "remind.count", "remind.closed", "remind.create"}
  <2>0. Idle.pc = "idle"
    BY DEF Idle
  <2>1. RemindReadsPeer(r) => Ends /\ job[r].pc # "unlink.cancel"
    BY <2>0, <1>goto, <1>pc DEF RemindReadsPeer
  <2>2. RemindReadsClosed(r) => Ends /\ job[r].pc # "unlink.cancel"
    BY <2>0, <1>goto, <1>pc DEF RemindReadsClosed
  <2>3. RemindCounts(r) => Ends /\ job[r].pc # "unlink.cancel"
    BY <2>0, <1>goto, <1>pc DEF RemindCounts
  <2>. QED  BY <1>3, <2>1, <2>2, <2>3, <1>on DEF Forwarding, Counting
<1>4. CASE CreateReminder(r)
  BY <1>4, <1>rest DEF CreateReminder
<1>5. CASE UnlinkFindsNothing(r)
  BY <1>5, <1>goto, <1>pc, <1>on DEF UnlinkFindsNothing, Forwarding, Counting
<1>6. CASE UnlinkRecipient(r) \/ UnlinkOwner(r)
  BY <1>6, <1>goto, <1>pc, <1>on DEF UnlinkRecipient, UnlinkOwner, Forwarding, Counting
<1>7. CASE LockTask(r)
  BY <1>7, <1>goto, <1>pc DEF LockTask, Goes, Forwarding
<1>8. CASE CountActive(r)
  BY <1>8, <1>goto, <1>pc DEF CountActive, Goes, Forwarding
<1>9. CASE SnapPending(r)
  <2>1. job'[r].pc = "unlink.cancel"
    BY <1>9, <1>goto, <1>typ DEF SnapPending, Job
  <2>. QED  BY <1>9, <2>1 DEF Goes, Left, Forwarding
<1>10. ASSUME NEW v \in Users, CancelInvitation(r, v)  PROVE Goes(r)
  <2>1. job'[r].pc = "unlink.cancel"
    BY <1>10, <1>goto, <1>typ DEF CancelInvitation, Job
  <2>. QED  BY <1>10, <2>1 DEF Goes, Left, Forwarding
<1>11. CASE UnlinkCommits(r)
  <2>1. job'[r].pc \in Left
    BY <1>11, <1>goto, <1>typ DEF UnlinkCommits, Job, Left
  <2>. QED  BY <1>11, <2>1 DEF Goes, Left, Forwarding, Counting
<1>12. CASE UnlinkFindsSurvivor(r)
  BY <1>12, <1>rest DEF UnlinkFindsSurvivor
<1>13. ASSUME NEW e \in Events, EmitEvent(r, e)  PROVE Goes(r)
  <2>. DEFINE j == job[r]  rest == Remaining(j, e)
  <2>1. CASE rest = {} /\ j.pc = "emit"
    BY <1>13, <2>1, <1>rest DEF EmitEvent
  <2>2. CASE ~(rest = {} /\ j.pc = "emit")
    <3>1. job'[r].pc \in {"emit", "unlink.tell", "unlink.survivor"}
      BY <1>13, <2>2, <1>goto, <1>typ DEF EmitEvent, Job
    <3>. QED  BY <1>13, <3>1, <1>on DEF EmitEvent, Forwarding, Counting
  <2>. QED  BY <2>1, <2>2
<1>14. CASE DeadlockVictim(r)
  BY <1>14, <1>rest DEF DeadlockVictim
<1>15. ASSUME NEW v \in Users, ForwardSorts(r, v)  PROVE Goes(r)
  <2>1. job'[r].pc \in Forwarding /\ job[r].pc # "unlink.cancel"
    BY <1>15, <1>goto, <1>typ DEF ForwardSorts, Job, Forwarding
  <2>. QED  BY <1>15, <2>1 DEF Goes, Forwarding, Counting
<1>16. CASE ForwardUpserts(r)
  <2>1. job'[r].pc = "forward.next" /\ job[r].pc # "unlink.cancel"
    BY <1>16, <1>goto, <1>typ DEF ForwardUpserts, Job
  <2>. QED  BY <1>16, <2>1 DEF Goes, Forwarding, Counting
<1>17. CASE ForwardCommits(r)
  BY <1>17, <1>rest DEF ForwardCommits
<1>. QED
  BY <1>1, <1>2, <1>3, <1>4, <1>5, <1>6, <1>7, <1>8, <1>9, <1>10, <1>11, <1>12, <1>13,
     <1>14, <1>15, <1>16, <1>17 DEF Step

LEMMA OthersWait ==
  ASSUME Typed, NEW q \in Requests, Arrival(q) \/ Step(q)
  PROVE  \A r \in Requests \ {q} : job'[r] = job[r]
<1>typ. job \in [Requests -> Job]
  BY DEF Typed, TypeOK
<1>0. \A k : Goto(q, k) => \A r \in Requests \ {q} : job'[r] = job[r]
  BY <1>typ DEF Goto
<1>1. CASE Arrival(q)
  BY <1>0, <1>1 DEF Arrival, ShareTask, RespondReadsStatus, SetRecipientCompleted, MarkSubState,
       RemindReadsSender, ForwardBegins, UnlinkArrives
<1>2. CASE Step(q)
  BY <1>0, <1>2 DEF Step, RespondReadsInviter, SetRecipientStatus, RemindReadsPeer,
       RemindReadsClosed, RemindCounts, CreateReminder, ForwardSorts, ForwardUpserts,
       ForwardCommits, UnlinkFindsNothing, UnlinkRecipient, UnlinkOwner, LockTask, CountActive,
       SnapPending, CancelInvitation, UnlinkCommits, UnlinkFindsSurvivor, EmitEvent,
       DeadlockVictim
<1>. QED  BY <1>1, <1>2

\* One request moves, or the server stops, or no request is concerned.
LEMMA Moves ==
  ASSUME Typed, [Next]_vars
  PROVE  \/ \E q \in Requests : (Arrival(q) \/ Step(q)) /\ Goes(q)
                                 /\ \A r \in Requests \ {q} : job'[r] = job[r]
         \/ \A r \in Requests : job'[r] = Idle
         \/ UNCHANGED <<locks, job>>
<1>1. ASSUME NEW q \in Requests, Arrival(q) \/ Step(q)
      PROVE  Goes(q) /\ \A r \in Requests \ {q} : job'[r] = job[r]
  BY <1>1, ArrivalGoes, StepGoes, OthersWait
<1>. QED
  BY <1>1 DEF Next, ServerStops, ReminderAges, AckEvent, vars, locks
-----------------------------------------------------------------------------
(* How a step changes who takes part and who is invited.                     *)

SameStanding ==
  /\ ownerLink' = ownerLink
  /\ \A u \in Users : /\ row'[u].status = row[u].status
                      /\ row'[u].sub = "UNLINKED" <=> row[u].sub = "UNLINKED"

LEMMA SameStandingLive ==
  ASSUME SameStanding
  PROVE  /\ Live' = Live /\ CopyHolders' = CopyHolders
         /\ \A u \in Users : Invited(u)' <=> Invited(u)
<1>1. \A u \in Users : HasCopy(u)' <=> HasCopy(u)
  BY DEF SameStanding, HasCopy
<1>2. CopyHolders' = CopyHolders
  BY <1>1 DEF CopyHolders
<1>. QED  BY <1>2 DEF SameStanding, Live, Invited

LEMMA StandingChanges ==
  ASSUME Typed, [Next]_vars
  PROVE  \/ SameStanding
         \/ \E r \in Requests : \/ \E S \in SUBSET Users : ShareTask(r, S)
                                \/ SetRecipientStatus(r) \/ ForwardCommits(r) \/ UnlinkCommits(r)
<1>typ. row \in [Users -> Row]
  BY DEF Typed, TypeOK
<1>1. CASE \A r \in Requests : ~Writes(r)
  BY <1>1, OthersOnlyRead DEF SameStanding
<1>. SUFFICES ASSUME NEW r \in Requests, Writes(r), ~SetRecipientStatus(r), ~ForwardCommits(r),
                     ~UnlinkCommits(r), \A S \in SUBSET Users : ~ShareTask(r, S)
              PROVE  SameStanding
  BY <1>1
<1>3. ASSUME NEW u \in Users, NEW sub \in SubState \ {"UNLINKED"}, NEW done, HasCopy(u),
             row' = [row EXCEPT ![u] = [row[u] EXCEPT !.sub = sub, !.done = done]],
             ownerLink' = ownerLink
      PROVE  SameStanding
  <2>. DEFINE x == [row[u] EXCEPT !.sub = sub, !.done = done]
  <2>1. x.status = row[u].status /\ x.sub = sub
    BY <1>typ DEF Row
  <2>2. row'[u] = x /\ \A v \in Users \ {u} : row'[v] = row[v]
    BY <1>3, <1>typ
  <2>. QED  BY <2>1, <2>2, <1>3 DEF SameStanding, HasCopy
<1>4. ASSUME NEW u \in Users, NEW completed \in BOOLEAN, SetRecipientCompleted(r, u, completed)
      PROVE  SameStanding
  <2>1. (IF completed THEN "COMPLETED" ELSE "OPEN") \in SubState \ {"UNLINKED"}
    BY DEF SubState
  <2>. QED  BY <2>1, <1>3, <1>4 DEF SetRecipientCompleted
<1>5. ASSUME NEW u \in Users, NEW sub \in SubState, MarkSubState(r, u, sub)
      PROVE  SameStanding
  BY <1>3, <1>5 DEF MarkSubState
<1>. QED  BY <1>4, <1>5 DEF Writes

\* The participants a leaving request will leave behind.
Others(r) ==
  IF job[r].user = Owner THEN CopyHolders
  ELSE (CopyHolders \ {job[r].user}) \cup (IF ownerLink = "linked" THEN {Owner} ELSE {})

\* An unlink leaves the others, and ends the invitations it cancels.
LEMMA CommitLeaves ==
  ASSUME Typed, LockInv, NEW r \in Requests, UnlinkCommits(r)
  PROVE  /\ Live' = Others(r)
         /\ \A u \in Users : Invited(u)' => Invited(u) /\ u \notin job[r].hit
         /\ \A u \in Users : row[u].status # "NONE" => row'[u].status # "NONE"
         /\ job[r].pc = "unlink.cancel" /\ job[r].peers = {}
         /\ job'[r].pc \in Left /\ job'[r].user = job[r].user
<1>typ. /\ row \in [Users -> Row] /\ job[r].user \in Users /\ job[r].hit \in SUBSET Users
        /\ job \in [Requests -> Job]
  BY DEF Typed, TypeOK, Job
<1>inv. \A u \in job[r].hit : row[u].status = "PENDING"
  BY DEF LockInv, RequestInv, WriterHolds, Leaving, UnlinkCommits
<1>0. \A u \in Users : /\ Canceled(row[u]).status = "REJECTED" /\ Canceled(row[u]).sub = "UNLINKED"
                       /\ [row[u] EXCEPT !.sub = "UNLINKED"].sub = "UNLINKED"
                       /\ [row[u] EXCEPT !.sub = "UNLINKED"].status = row[u].status
  BY <1>typ DEF Canceled, Row
<1>1. \A u \in Users :
        row'[u] = IF u \in job[r].hit THEN Canceled(row[u])
                  ELSE IF u = job[r].user /\ u # Owner THEN [row[u] EXCEPT !.sub = "UNLINKED"]
                  ELSE row[u]
  BY DEF UnlinkCommits
<1>2. \A u \in Users : /\ u \in job[r].hit => row'[u].status = "REJECTED" /\ row'[u].sub = "UNLINKED"
                       /\ u \notin job[r].hit /\ u = job[r].user /\ u # Owner =>
                            row'[u].status = row[u].status /\ row'[u].sub = "UNLINKED"
                       /\ u \notin job[r].hit /\ ~(u = job[r].user /\ u # Owner) => row'[u] = row[u]
  BY <1>0, <1>1
<1>3. \A u \in Users : HasCopy(u)' <=> HasCopy(u) /\ ~(u = job[r].user /\ u # Owner)
  BY <1>inv, <1>2 DEF HasCopy
<1>4. ownerLink' = IF job[r].user = Owner THEN "unlinked" ELSE ownerLink
  BY DEF UnlinkCommits
<1>5. CopyHolders' = IF job[r].user = Owner THEN CopyHolders ELSE CopyHolders \ {job[r].user}
  BY <1>3 DEF CopyHolders
<1>6. Live' = Others(r)
  BY <1>4, <1>5 DEF Live, Others
<1>7. \A u \in Users : /\ Invited(u)' => Invited(u) /\ u \notin job[r].hit
                       /\ row[u].status # "NONE" => row'[u].status # "NONE"
  BY <1>2 DEF Invited
<1>8. job'[r].pc \in Left /\ job'[r].user = job[r].user
  BY <1>typ DEF UnlinkCommits, Goto, Job, Left
<1>. QED  BY <1>6, <1>7, <1>8 DEF UnlinkCommits

\* An answer closes the invitation it answers, and leaves the other rows alone.
LEMMA AnswerCloses ==
  ASSUME Typed, LockInv, NEW q \in Requests, SetRecipientStatus(q)
  PROVE  /\ ownerLink' = ownerLink /\ job[q].pc = "respond.set"
         /\ \A u \in Users : /\ Invited(u)' => Invited(u)
                             /\ row[u].status # "NONE" => row'[u].status # "NONE"
<1>typ. row \in [Users -> Row] /\ job[q].user \in Users
  BY DEF Typed, TypeOK, Job
<1>1. job[q].choice \in {"ACCEPTED", "REJECTED"}
  BY DEF LockInv, RequestInv, AnswererHasRow, SetRecipientStatus
<1>2. row' = [row EXCEPT ![job[q].user] = Answer(q, job[q].user)]
  BY DEF SetRecipientStatus
<1>3. row'[job[q].user].status \in {"ACCEPTED", "REJECTED"}
  BY <1>1, <1>2, <1>typ DEF Answer, Row
<1>4. \A u \in Users \ {job[q].user} : row'[u] = row[u]
  BY <1>2, <1>typ
<1>. QED  BY <1>3, <1>4 DEF SetRecipientStatus, Invited

\* The first share finds nobody else at work.
LEMMA ShareIsFirst ==
  ASSUME LockInv, NEW q \in Requests, NEW S \in SUBSET Users, ShareTask(q, S)
  PROVE  \A r \in Requests : job[r] = Idle
BY DEF LockInv, Started, ShareTask

\* A row, once inserted, stays.
LEMMA RowsAreKept ==
  ASSUME Typed, LockInv, [Next]_vars
  PROVE  RowsStay
<1>1. CASE SameStanding
  BY <1>1 DEF SameStanding, RowsStay
<1>2. ASSUME NEW r \in Requests, NEW S \in SUBSET Users, ShareTask(r, S)  PROVE RowsStay
  BY <1>2 DEF ShareTask, Invitation, RowsStay
<1>3. ASSUME NEW r \in Requests, SetRecipientStatus(r)  PROVE RowsStay
  BY <1>3, AnswerCloses DEF RowsStay
<1>4. ASSUME NEW r \in Requests, ForwardCommits(r)  PROVE RowsStay
  BY <1>4 DEF ForwardCommits, Invitation, RowsStay
<1>5. ASSUME NEW r \in Requests, UnlinkCommits(r)  PROVE RowsStay
  BY <1>5, CommitLeaves DEF RowsStay
<1>. QED  BY <1>1, <1>2, <1>3, <1>4, <1>5, StandingChanges
-----------------------------------------------------------------------------
(* The foreign key keeps new invitations out while an unlink counts.         *)

KeyInv ==
  \A r \in Requests :
    /\ job[r].pc \in Forwarding =>
         \A v \in job[r].hit : row[v].status = "NONE" => r \in keyShare
    /\ job[r].pc \in Counting => keyShare \subseteq {r}

LEMMA InitKeys == Init => KeyInv
BY DEF Init, KeyInv, Idle, Forwarding, Counting

LEMMA KeySteps ==
  ASSUME Typed, NEW q \in Requests, Arrival(q) \/ Step(q)
  PROVE  /\ \A r \in Requests \ {q} : r \in keyShare => r \in keyShare'
         /\ keyShare' \subseteq keyShare \/ KeyShareFree
<1>. USE DEF locks
<1>0. \/ UNCHANGED keyShare
      \/ ReleaseLocks(q)
      \/ ForwardUpserts(q)
  BY DEF Arrival, Step, ShareTask, RespondReadsStatus, SetRecipientCompleted, MarkSubState,
       RemindReadsSender, ForwardBegins, UnlinkArrives, RespondReadsInviter, SetRecipientStatus,
       RemindReadsPeer, RemindReadsClosed, RemindCounts, CreateReminder, ForwardSorts,
       ForwardCommits, UnlinkFindsNothing, UnlinkRecipient, UnlinkOwner, LockTask, CountActive,
       SnapPending, CancelInvitation, UnlinkCommits, UnlinkFindsSurvivor, EmitEvent,
       DeadlockVictim
<1>. QED  BY <1>0 DEF ReleaseLocks, ForwardUpserts

LEMMA NextKeys ==
  ASSUME Typed, Typed', LockInv, KeyInv, [Next]_vars
  PROVE  KeyInv'
<1>typ. job \in [Requests -> Job] /\ NoRequest \notin Requests
  BY RequestsAssumption DEF Typed, TypeOK
<1>typ2. \A r \in Requests : job'[r].hit \in SUBSET Users
  BY DEF Typed, TypeOK, Job
<1>rows. \A v \in Users : row'[v].status = "NONE" => row[v].status = "NONE"
  BY RowsAreKept DEF RowsStay
<1>1. CASE \A r \in Requests : job'[r] = Idle
  BY <1>1 DEF KeyInv, Idle, Forwarding, Counting
<1>2. CASE UNCHANGED <<locks, job>>
  <2>. SUFFICES ASSUME NEW r \in Requests
                PROVE  /\ job[r].pc \in Forwarding =>
                            \A v \in job[r].hit : row'[v].status = "NONE" => r \in keyShare
                       /\ job[r].pc \in Counting => keyShare \subseteq {r}
    BY <1>2 DEF KeyInv, locks
  <2>1. job[r].hit \in SUBSET Users
    BY <1>typ DEF Job
  <2>. QED  BY <2>1, <1>rows DEF KeyInv
<1>. SUFFICES ASSUME NEW q \in Requests, Arrival(q) \/ Step(q), Goes(q),
                     \A r \in Requests \ {q} : job'[r] = job[r],
                     NEW r \in Requests
              PROVE  /\ job'[r].pc \in Forwarding =>
                          \A v \in job'[r].hit : row'[v].status = "NONE" => r \in keyShare'
                     /\ job'[r].pc \in Counting => keyShare' \subseteq {r}
  BY <1>1, <1>2, Moves DEF KeyInv
<1>goto. \A k : Goto(q, k) => job'[q] = k
  BY <1>typ DEF Goto
<1>3. ASSUME job'[r].pc \in Forwarding, NEW v \in job'[r].hit, row'[v].status = "NONE"
      PROVE  r \in keyShare'
  <2>0. v \in Users /\ row[v].status = "NONE"
    BY <1>3, <1>typ2, <1>rows
  <2>1. CASE r # q
    BY <2>0, <2>1, <1>3, KeySteps DEF KeyInv
  <2>2. ASSUME r = q, NEW u \in Users, NEW S \in SUBSET Users, ForwardBegins(q, u, S)
        PROVE  FALSE
    <3>1. job'[q].hit = {}
      BY <2>2, <1>goto DEF ForwardBegins, Idle
    <3>. QED  BY <3>1, <2>2, <1>3
  <2>3. ASSUME r = q, NEW w \in Users, ForwardSorts(q, w)  PROVE r \in keyShare'
    <3>1. job'[q].hit = job[q].hit /\ job[q].pc \in Forwarding /\ keyShare' = keyShare
      BY <2>3, <1>goto, <1>typ DEF ForwardSorts, Job, Forwarding, locks
    <3>. QED  BY <3>1, <2>0, <2>3, <1>3 DEF KeyInv
  <2>4. CASE r = q /\ ForwardUpserts(q)
    <3>1. /\ job'[q].hit = job[q].hit \cup {job[q].mark} /\ job[q].pc \in Forwarding
          /\ keyShare' = IF row[job[q].mark].status = "NONE" THEN keyShare \cup {q} ELSE keyShare
      BY <2>4, <1>goto, <1>typ DEF ForwardUpserts, Job, Forwarding
    <3>. QED  BY <3>1, <2>0, <2>4, <1>3 DEF KeyInv
  <2>. QED  BY <2>1, <2>2, <2>3, <2>4, <1>3 DEF Goes
<1>4. ASSUME job'[r].pc \in Counting  PROVE keyShare' \subseteq {r}
  <2>1. CASE r # q
    <3>1. job[r].pc \in Counting /\ taskLock = r
      BY <2>1, <1>4 DEF LockInv, RequestInv, CounterHolds
    <3>2. ~KeyShareFree
      BY <3>1, <1>typ DEF KeyShareFree, Counting
    <3>. QED  BY <3>1, <3>2, KeySteps DEF KeyInv
  <2>2. CASE r = q /\ LockTask(q)
    BY <2>2 DEF LockTask
  <2>3. ASSUME r = q, \/ CountActive(q) \/ SnapPending(q)
                      \/ \E v \in Users : CancelInvitation(q, v)
        PROVE  keyShare' \subseteq {r}
    <3>1. job[q].pc \in Counting /\ keyShare' = keyShare
      BY <2>3 DEF CountActive, SnapPending, CancelInvitation, Counting, locks
    <3>. QED  BY <3>1, <2>3 DEF KeyInv
  <2>. QED  BY <2>1, <2>2, <2>3, <1>4 DEF Goes
<1>. QED  BY <1>3, <1>4
-----------------------------------------------------------------------------
(* The invitations that stay behind.                                         *)

\* An unlink that leaves nobody behind cancels every open invitation that did
\* not escape its selection.
LeavesSome(r) ==
  job[r].pc = "unlink.cancel" =>
    \/ Others(r) # {}
    \/ \A v \in Users : Invited(v) => v \in job[r].peers \cup job[r].hit \cup strays
StrayInv == NoOrphanInvitation /\ \A r \in Requests : LeavesSome(r)

LEMMA HNextIsNext == HNext => Next
BY DEF HNext, Next

\* A request that moves elsewhere commits no unlink.
LEMMA NoneCommits ==
  ASSUME NEW q \in Requests, \A r \in Requests \ {q} : job'[r] = job[r],
         job[q].pc # "unlink.cancel"
  PROVE  Committing = {}
<1>. SUFFICES ASSUME NEW r \in Committing  PROVE FALSE
  OBVIOUS
<1>1. job[r].pc = "unlink.cancel" /\ job'[r].pc # "unlink.cancel" /\ r \in Requests
  BY DEF Committing
<1>. QED  BY <1>1

\* The last copy, or one that was counted on, goes without an unlink.
LEMMA CopyOverwritten ==
  ASSUME NEW q \in Requests, \A r \in Requests \ {q} : job'[r] = job[r],
         job[q].pc # "unlink.cancel", ~(CopyHolders \subseteq CopyHolders'),
         Live' = {} \/ Selected
  PROVE  Overwriting
BY NoneCommits DEF Overwriting

LEMMA NextStrays ==
  ASSUME Typed, Typed', LockInv, KeyInv, StrayInv, [HNext]_hvars
  PROVE  StrayInv'
<1>0. CASE UNCHANGED hvars
  BY <1>0 DEF hvars, vars, StrayInv, NoOrphanInvitation, LeavesSome, Others, Live, CopyHolders,
       HasCopy, Invited
<1>. SUFFICES ASSUME HNext  PROVE StrayInv'
  BY <1>0
<1>next. [Next]_vars
  BY HNextIsNext
<1>strays. \A u \in Users : u \in strays' <=> Invited(u)' /\ (u \in strays \/ Overwriting \/ Belated(u))
  BY DEF HNext
<1>typ. job \in [Requests -> Job]
  BY DEF Typed, TypeOK
<1>inv. /\ Live = {} => \A u \in Users : Invited(u) => u \in strays
        /\ \A r \in Requests : LeavesSome(r)
  BY DEF StrayInv, NoOrphanInvitation
\* The two actions that write rows and are no unlink.
<1>moves. ASSUME NEW q \in Requests, SetRecipientStatus(q) \/ ForwardCommits(q)
          PROVE  /\ ownerLink' = ownerLink /\ job[q].pc # "unlink.cancel"
                 /\ \A r \in Requests \ {q} : job'[r] = job[r]
  <2>1. Step(q)
    BY <1>moves DEF Step
  <2>. QED  BY <1>moves, <2>1, OthersWait DEF SetRecipientStatus, ForwardCommits
<1>1. NoOrphanInvitation'
  <2>. SUFFICES ASSUME Live' = {}, NEW u \in Users, Invited(u)'  PROVE u \in strays'
    BY DEF NoOrphanInvitation
  <2>1. CASE ~Invited(u)
    BY <2>1, <1>strays DEF Belated
  <2>2. CASE Live = {}
    BY <2>1, <2>2, <1>inv, <1>strays
  <2>. SUFFICES ASSUME Invited(u), Live # {}  PROVE u \in strays \/ Overwriting
    BY <2>1, <2>2, <1>strays
  <2>3. CASE SameStanding
    BY <2>3, SameStandingLive
  <2>4. ASSUME NEW q \in Requests, NEW S \in SUBSET Users, ShareTask(q, S)  PROVE FALSE
    BY <2>4 DEF ShareTask, Live
  <2>5. ASSUME NEW q \in Requests, SetRecipientStatus(q) \/ ForwardCommits(q)
        PROVE  Overwriting
    <3>1. CopyHolders # {} /\ CopyHolders' = {}
      BY <2>5, <1>moves DEF Live
    <3>. QED  BY <3>1, <2>5, <1>moves, CopyOverwritten
  <2>6. ASSUME NEW q \in Requests, UnlinkCommits(q)  PROVE u \in strays
    <3>1. Others(q) = {} /\ job[q].peers = {} /\ u \notin job[q].hit
      BY <2>6, CommitLeaves
    <3>. QED  BY <3>1, <2>6, <1>inv DEF LeavesSome, UnlinkCommits
  <2>. QED  BY <2>3, <2>4, <2>5, <2>6, <1>next, StandingChanges
<1>2. ASSUME NEW r \in Requests  PROVE LeavesSome(r)'
  <2>. DEFINE Chosen(v) == v \in job'[r].peers \cup job'[r].hit \cup strays'
  <2>. SUFFICES ASSUME job'[r].pc = "unlink.cancel", Others(r)' = {}, NEW v \in Users, Invited(v)'
                PROVE  Chosen(v)
    BY DEF LeavesSome
  <2>old. Others(r) = {} /\ Invited(v) /\ job[r].pc = "unlink.cancel"
            => v \in job[r].peers \cup job[r].hit \cup strays
    BY <1>inv DEF LeavesSome
  <2>keep. Invited(v) /\ v \in strays => v \in strays'
    BY <1>strays
  \* The request's own statements read, and do not write.
  <2>own. ASSUME UNCHANGED db, job'[r].user = job[r].user
          PROVE  Others(r)' = Others(r) /\ Invited(v)
    <3>1. row' = row /\ ownerLink' = ownerLink
      BY <2>own DEF db
    <3>2. CopyHolders' = CopyHolders
      BY <3>1 DEF CopyHolders, HasCopy
    <3>. QED  BY <2>own, <3>1, <3>2 DEF Others, Invited
  <2>1. CASE CountActive(r)
    <3>1. job'[r].user = job[r].user /\ UNCHANGED db
      BY <2>1, <1>typ DEF CountActive, Goto, Job
    <3>2. ActiveSeenBy(r) >= 2
      BY <2>1, <1>typ DEF CountActive, Goto, Job
    <3>. DEFINE A == {u \in Users : OpenCopy(u) /\ (u = Owner \/ u # job[r].user)}
    <3>3. CASE A = {}
      <4>1. Cardinality(A) = 0
        BY <3>3, FS_EmptySet
      <4>. QED  BY <3>2, <4>1 DEF ActiveSeenBy
    <3>4. CASE A # {}
      <4>1. PICK u \in Users : OpenCopy(u) /\ (u = Owner \/ u # job[r].user)
        BY <3>4
      <4>2. u \in Others(r)
        BY <4>1 DEF Others, CopyHolders, HasCopy, OpenCopy
      <4>. QED  BY <3>1, <4>2, <2>own
    <3>. QED  BY <3>3, <3>4
  <2>2. CASE SnapPending(r)
    <3>1. /\ job'[r].user = job[r].user /\ UNCHANGED db
          /\ job'[r].peers = {u \in Users : row[u].status = "PENDING"}
      BY <2>2, <1>typ DEF SnapPending, Goto, Job
    <3>. QED  BY <3>1, <2>own DEF Invited
  <2>3. ASSUME NEW u \in Users, CancelInvitation(r, u)  PROVE Chosen(v)
    <3>1. /\ job'[r].user = job[r].user /\ UNCHANGED db
          /\ job'[r].peers = job[r].peers \ {u}
          /\ job'[r].hit = IF StillPending(u) THEN job[r].hit \cup {u} ELSE job[r].hit
          /\ job[r].pc = "unlink.cancel"
      BY <2>3, <1>typ DEF CancelInvitation, Goto, Job
    <3>2. Others(r) = {} /\ Invited(v)
      BY <3>1, <2>own
    <3>3. StillPending(v)
      BY <3>2 DEF StillPending, Invited
    <3>. QED  BY <3>1, <3>2, <3>3, <2>old, <2>keep
  <2>4. CASE LockTask(r)
    BY <2>4, <1>typ DEF LockTask, Goto, Job
  \* A bystander between its selection and its commit.
  <2>. SUFFICES ASSUME job'[r] = job[r]  PROVE Chosen(v)
    <3>1. Counting' = Counting /\ "unlink.cancel" \in Counting
      BY DEF Counting
    <3>2. ~(\A q \in Requests : job'[q] = Idle)
      BY DEF Idle
    <3>3. job'[r] = job[r] \/ Goes(r)
      BY <3>2, <1>next, Moves
    <3>. QED  BY <3>1, <3>3, <2>1, <2>2, <2>3, <2>4 DEF Goes
  <2>sel. Selected /\ job[r].pc = "unlink.cancel" /\ job[r] # Idle
    BY DEF Selected, Idle
  <2>5. CASE SameStanding
    <3>1. Others(r)' = Others(r) /\ Invited(v)
      BY <2>5, SameStandingLive DEF SameStanding, Others
    <3>. QED  BY <3>1, <2>old, <2>keep, <2>sel
  <2>6. ASSUME NEW q \in Requests, NEW S \in SUBSET Users, ShareTask(q, S)  PROVE FALSE
    BY <2>6, <2>sel, ShareIsFirst
  <2>7. ASSUME NEW q \in Requests, SetRecipientStatus(q) \/ ForwardCommits(q), Invited(v)
        PROVE  Chosen(v)
    <3>1. CASE Others(r) = {}
      BY <3>1, <2>7, <2>old, <2>keep, <2>sel
    <3>2. CASE Others(r) # {}
      <4>1. ~(CopyHolders \subseteq CopyHolders')
        BY <3>2, <2>7, <1>moves DEF Others
      <4>2. Overwriting
        BY <4>1, <2>7, <2>sel, <1>moves, CopyOverwritten
      <4>. QED  BY <4>2, <1>strays
    <3>. QED  BY <3>1, <3>2
  <2>8. ASSUME NEW q \in Requests, SetRecipientStatus(q)  PROVE Invited(v)
    BY <2>8, AnswerCloses
  <2>9. ASSUME NEW q \in Requests, ForwardCommits(q), ~Invited(v)  PROVE Chosen(v)
    <3>1. v \in job[q].hit
      BY <2>9 DEF ForwardCommits, Invited
    <3>2. row[v].status # "NONE"
      <4>. SUFFICES ASSUME row[v].status = "NONE"  PROVE FALSE
        OBVIOUS
      <4>1. q \in keyShare
        BY <3>1, <2>9 DEF KeyInv, ForwardCommits, Forwarding
      <4>2. keyShare \subseteq {r}
        BY <2>sel DEF KeyInv, Counting
      <4>3. q # r
        BY <2>9, <2>sel DEF ForwardCommits
      <4>. QED  BY <4>1, <4>2, <4>3
    <3>3. Belated(v)
      BY <3>2, <2>9, <2>sel DEF Belated
    <3>. QED  BY <3>3, <1>strays
  <2>10. ASSUME NEW q \in Requests, UnlinkCommits(q)  PROVE FALSE
    <3>1. q = r
      BY <2>10, <2>sel DEF LockInv, RequestInv, CounterHolds, Counting, UnlinkCommits
    <3>2. job'[q].pc \in Left
      BY <2>10, CommitLeaves
    <3>. QED  BY <3>1, <3>2 DEF Left
  <2>. QED  BY <2>5, <2>6, <2>7, <2>8, <2>9, <2>10, <1>next, StandingChanges
<1>. QED  BY <1>1, <1>2 DEF StrayInv

\* No invitation stays open once nobody takes part any more, whatever the order
\* in which unlinks, answers and forwards run and wherever the server stops:
\* the last to leave cancels what is still open.  Those that escape are the
\* strays: open when the copy behind them was overwritten, or committed too late.
THEOREM OrphansCanceled == HSpec => []NoOrphanInvitation
<1>. DEFINE Inv == Typed /\ LockInv /\ KeyInv /\ StrayInv
<1>1. HInit => Inv
  <2>1. HInit => StrayInv
    BY UsersAssumption DEF HInit, Init, StrayInv, NoOrphanInvitation, LeavesSome, Invited, NoRow, Idle
  <2>. QED  BY <2>1, InitTyped, InitLocks, InitKeys DEF HInit
<1>2. Inv /\ [HNext]_hvars => Inv'
  <2>. SUFFICES ASSUME Inv, [HNext]_hvars  PROVE Inv'
    OBVIOUS
  <2>1. [Next]_vars
    BY HNextIsNext DEF hvars
  <2>2. Typed'
    BY <2>1, NextTyped
  <2>. QED  BY <2>1, <2>2, NextLocks, NextKeys, NextStrays
<1>3. Inv => NoOrphanInvitation
  BY DEF StrayInv
<1>. QED  BY <1>1, <1>2, <1>3, PTL DEF HSpec
-----------------------------------------------------------------------------
(* The person left alone is told.                                            *)

\* A request will tell the person left alone, or is about to look for them.
Telling(r) ==
  \/ job[r].pc \in Left /\ job[r].user \notin alone
  \/ job[r].pc = "emit" /\ \E u \in alone : <<u, "SHARED_TASK_ORPHANED">> \in job[r].todo
\* An owner who has both link and copy makes two rows of the search.
FoundTwice == twice /\ alone = {Owner}
AloneInv ==
  /\ alone # {} => \E u \in Users : alone = {u} /\ Live = {u}
  /\ HasCopy(Owner) /\ ownerLink = "linked" => twice
  /\ ~lost /\ alone # {} => FoundTwice \/ \E r \in Requests : Telling(r)

LEMMA HSteps ==
  ASSUME HNext, ~lost'
  PROVE  /\ ~lost
         /\ \/ \E r \in Requests : Arrival(r) /\ ~Drops
            \/ \E r \in Requests : Step(r) /\ ~Drops
            \/ UNCHANGED job
<1>1. ASSUME (\E r \in Requests : Arrival(r) \/ Step(r)) /\ lost' = (lost \/ Drops)
      PROVE  /\ ~lost
             /\ \/ \E r \in Requests : Arrival(r) /\ ~Drops
                \/ \E r \in Requests : Step(r) /\ ~Drops
  <2>1. ~lost /\ ~Drops
    BY ONLY <1>1, ~lost'
  <2>. QED  BY ONLY <1>1, <2>1
<1>2. ASSUME \E sender, peer \in Users : ReminderAges(sender, peer)  PROVE UNCHANGED job
  BY <1>2 DEF ReminderAges
<1>3. ASSUME \E e \in Events : AckEvent(e)  PROVE UNCHANGED job
  BY <1>3 DEF AckEvent
<1>4. \/ (\E r \in Requests : Arrival(r) \/ Step(r)) /\ lost' = (lost \/ Drops)
      \/ (\E sender, peer \in Users : ReminderAges(sender, peer)) /\ UNCHANGED lost
      \/ (\E e \in Events : AckEvent(e)) /\ UNCHANGED lost
      \/ ServerStops /\ lost' = TRUE
  BY ZenonT(20) DEF HNext
<1>5. UNCHANGED lost => ~lost
  BY SMT
<1>. QED  BY ONLY <1>1, <1>2, <1>3, <1>4, <1>5, ~lost', Zenon

\* An unlink that leaves somebody alone goes on to look for them.
LEMMA CommitterTells ==
  ASSUME Typed, LockInv, AloneInv, NEW r \in Requests, UnlinkCommits(r),
         NEW u \in Users, alone' = {u}, Live' = {u}
  PROVE  Telling(r)' \/ (twice /\ u = Owner)
<1>1. Others(r) = {u} /\ job'[r].pc \in Left /\ job'[r].user = job[r].user
  BY CommitLeaves
<1>2. CASE job[r].user # u
  BY <1>1, <1>2 DEF Telling
<1>3. CASE job[r].user = u
  <2>1. u = Owner /\ HasCopy(u)
    BY <1>1, <1>3 DEF Others, CopyHolders
  <2>2. ownerLink = "linked"
    BY <2>1, <1>3 DEF LockInv, RequestInv, LeaverHolds, Leaving, UnlinkCommits
  <2>. QED  BY <2>1, <2>2 DEF AloneInv
<1>. QED  BY <1>2, <1>3

\* The search finds the one who is alone, unless it fails or finds the owner twice.
LEMMA SurvivorIsTold ==
  ASSUME "SHARED_TASK_ORPHANED" \in Watched, Typed, AloneInv, ~Drops,
         NEW u \in Users, alone = {u}, alone' = {u}, Live = {u},
         NEW r \in Requests, UnlinkFindsSurvivor(r), job[r].user # u
  PROVE  Telling(r)' \/ (twice /\ u = Owner)
<1>. DEFINE rows == Cardinality(CopyHolders) + (IF ownerLink = "linked" THEN 1 ELSE 0)
<1>1. CASE HasCopy(Owner) /\ ownerLink = "linked"
  BY <1>1 DEF Live, AloneInv
<1>2. CASE ~(HasCopy(Owner) /\ ownerLink = "linked")
  <2>1. rows = 1
    <3>1. CASE ownerLink = "linked"
      <4>1. u = Owner /\ CopyHolders = {}
        BY <3>1, <1>2 DEF Live, CopyHolders
      <4>. QED  BY <3>1, <4>1, FS_EmptySet
    <3>2. CASE ownerLink # "linked"
      <4>1. CopyHolders = {u}
        BY <3>2 DEF Live
      <4>2. Cardinality({u}) = 1
        BY FS_Singleton
      <4>. QED  BY <3>2, <4>1, <4>2
    <3>. QED  BY <3>1, <3>2
  <2>2. Survivors \ {job[r].user} = {u}
    BY <2>1 DEF Survivors
  <2>3. Msgs({u}, "SHARED_TASK_ORPHANED") = {<<u, "SHARED_TASK_ORPHANED">>}
    BY DEF Msgs
  <2>4. job[r].pc = "unlink.survivor" /\ job'[r].todo # {}
    BY <2>2 DEF UnlinkFindsSurvivor, Drops
  <2>5. Over(job[r]).todo = {}
    BY DEF Over, Idle
  <2>6. job'[r] = Emitting(job[r], {<<u, "SHARED_TASK_ORPHANED">>})
    BY <2>2, <2>3, <2>4, <2>5 DEF UnlinkFindsSurvivor, Goto, Typed, TypeOK
  <2>7. job'[r].pc = "emit" /\ <<u, "SHARED_TASK_ORPHANED">> \in job'[r].todo
    BY <2>6 DEF Emitting, Idle
  <2>. QED  BY <2>7 DEF Telling
<1>. QED  BY <1>1, <1>2

\* What a request that is telling does next.
LEMMA TellingSteps ==
  ASSUME NEW r \in Requests, Arrival(r) \/ Step(r), job[r].pc \in Left \cup {"emit"}
  PROVE  UnlinkFindsSurvivor(r) \/ \E e \in Events : EmitEvent(r, e)
<1>0. Arrival(r) => job[r] = Idle
  BY DEF Arrival, ShareTask, RespondReadsStatus, SetRecipientCompleted, MarkSubState,
     RemindReadsSender, ForwardBegins, UnlinkArrives, Arrives
<1>1. ~Arrival(r)
  BY <1>0 DEF Idle, Left
<1>2. ~DeadlockVictim(r)
  BY DEF DeadlockVictim, Cycle, WaitsFor, Left
<1>. QED
  BY <1>1, <1>2 DEF Step, Left, RespondReadsInviter, SetRecipientStatus, RemindReadsPeer,
     RemindReadsClosed, RemindCounts, CreateReminder, ForwardSorts, ForwardUpserts,
     ForwardCommits, UnlinkFindsNothing, UnlinkRecipient, UnlinkOwner, LockTask, CountActive,
     SnapPending, CancelInvitation, UnlinkCommits

LEMMA EmitKeepsTelling ==
  ASSUME Typed, NEW u \in Users, alone = {u}, alone' = {u},
         NEW r \in Requests, Telling(r), NEW e \in Events, EmitEvent(r, e), ~Drops,
         u \notin Told("SHARED_TASK_ORPHANED")
  PROVE  Telling(r)'
<1>. DEFINE j == job[r]  rest == Remaining(j, e)  o == <<u, "SHARED_TASK_ORPHANED">>
<1>typ. job \in [Requests -> Job] /\ job[r] \in Job
  BY DEF Typed, TypeOK
<1>go. job'[r] = IF rest # {} THEN [j EXCEPT !.todo = rest]
                 ELSE IF j.pc = "emit" THEN Over(j)
                 ELSE [j EXCEPT !.todo = {}, !.pc = "unlink.survivor"]
  BY <1>typ DEF EmitEvent, Goto
<1>1. CASE j.pc # "emit"
  <2>1. job'[r].pc \in Left /\ job'[r].user = job[r].user
    BY <1>1, <1>go, <1>typ DEF EmitEvent, Job, Left
  <2>. QED  BY <2>1, <1>1 DEF Telling
<1>2. CASE j.pc = "emit"
  <2>1. o \in j.todo
    BY <1>2 DEF Telling, Left
  <2>2. CASE e = o
    <3>1. job'[r].todo = rest \/ job'[r].todo = {}
      BY <1>2, <1>go, <1>typ DEF Job, Over, Idle
    <3>2. o \in job[r].todo \ job'[r].todo
      BY <3>1, <2>1, <2>2 DEF Remaining
    <3>3. o \in events'
      BY <3>2 DEF Drops
    <3>4. u \in Told("SHARED_TASK_ORPHANED")
      BY <3>2, <3>3 DEF Told
    <3>. QED  BY <3>4
  <2>3. CASE e # o
    <3>1. o \in rest
      BY <2>1, <2>3 DEF Remaining
    <3>2. job'[r].pc = "emit" /\ o \in job'[r].todo
      BY <3>1, <1>2, <1>go, <1>typ DEF Job
    <3>. QED  BY <3>2 DEF Telling
  <2>. QED  BY <2>2, <2>3
<1>. QED  BY <1>1, <1>2

LEMMA NextAlone ==
  ASSUME "SHARED_TASK_ORPHANED" \in Watched, Typed, Typed', LockInv, AloneInv, [HNext]_hvars
  PROVE  AloneInv'
<1>0. CASE UNCHANGED hvars
  BY <1>0 DEF hvars, vars, AloneInv, FoundTwice, Telling, Live, CopyHolders, HasCopy
<1>. SUFFICES ASSUME HNext  PROVE AloneInv'
  BY <1>0
<1>upd. alone' = (IF LeftAlone # {} THEN LeftAlone ELSE alone \ Told("SHARED_TASK_ORPHANED"))
                   \cap (IF Cardinality(Live') = 1 THEN Live' ELSE {})
  BY DEF HNext
<1>twice. twice' = (twice \/ (ownerLink' = "linked" /\ HasCopy(Owner)'))
  BY DEF HNext
<1>fin. IsFiniteSet(Live') /\ Live' \subseteq Users
  <2>1. Live' \subseteq Users
    BY UsersAssumption DEF Live, CopyHolders
  <2>. QED  BY <2>1, UsersAssumption, FS_Subset
<1>1. ASSUME alone' # {}  PROVE \E u \in Users : alone' = {u} /\ Live' = {u}
  <2>1. Cardinality(Live') = 1 /\ alone' \subseteq Live'
    BY <1>1, <1>upd
  <2>2. PICK u : Live' = {u}
    BY <2>1, <1>fin, FS_Singleton
  <2>. QED  BY <1>1, <1>fin, <2>1, <2>2
<1>2. ASSUME ~lost', alone' # {}  PROVE FoundTwice' \/ \E r \in Requests : Telling(r)'
  <2>u. PICK u \in Users : alone' = {u} /\ Live' = {u}
    BY <1>1, <1>2
  <2>1. CASE LeftAlone # {}
    <3>1. PICK r \in Requests : job[r].pc = "unlink.cancel" /\ job'[r].pc \in Left
      BY <2>1 DEF LeftAlone, Committing, Left
    <3>2. UnlinkCommits(r)
      <4>1. job'[r] # job[r] /\ job'[r] # Idle
        BY <3>1 DEF Left, Idle
      <4>. QED  BY <3>1, <4>1, HNextIsNext, Moves DEF Goes
    <3>. QED  BY <3>2, <2>u, <1>twice, CommitterTells DEF FoundTwice
  <2>2. CASE LeftAlone = {}
    <3>1. alone' \subseteq alone \ Told("SHARED_TASK_ORPHANED")
      BY <2>2, <1>upd
    <3>2. ~lost /\ alone # {}
      BY <3>1, <1>2, HSteps
    <3>3. alone = {u} /\ Live = {u} /\ u \notin Told("SHARED_TASK_ORPHANED")
      BY <3>1, <3>2, <2>u DEF AloneInv
    <3>4. CASE FoundTwice
      BY <3>3, <3>4, <2>u, <1>twice DEF FoundTwice
    <3>. SUFFICES ASSUME NEW r \in Requests, Telling(r)
                  PROVE  Telling(r)' \/ (twice /\ u = Owner)
      BY <3>2, <3>4, <2>u, <1>twice DEF AloneInv, FoundTwice
    <3>6. CASE job'[r] = job[r]
      BY <3>3, <3>6, <2>u DEF Telling
    <3>7. CASE job'[r] # job[r]
      <4>1. (Arrival(r) \/ Step(r)) /\ ~Drops
        BY <3>7, <1>2, HSteps, OthersWait
      <4>2. job[r].pc \in Left \cup {"emit"}
        BY DEF Telling
      <4>3. CASE UnlinkFindsSurvivor(r)
        <5>1. job[r].user # u
          BY <4>3, <3>3 DEF Telling, UnlinkFindsSurvivor
        <5>. QED  BY <4>1, <4>3, <5>1, <3>3, <2>u, SurvivorIsTold
      <4>4. ASSUME NEW e \in Events, EmitEvent(r, e)  PROVE Telling(r)'
        BY <3>3, <2>u, <4>1, <4>4, EmitKeepsTelling
      <4>. QED  BY <4>1, <4>2, <4>3, <4>4, TellingSteps
    <3>. QED  BY <3>6, <3>7
  <2>. QED  BY <2>1, <2>2
<1>. QED  BY <1>1, <1>2, <1>twice DEF AloneInv

\* Whoever the unlinks leave alone with the task has been told when the last
\* request ends, whatever requests of whomever run in whatever order; only a
\* failed search, a lost INSERT or a stop of the server keeps it from them, or
\* that the one left is an owner who had a copy, too.
THEOREM AloneTold ==
  ASSUME "SHARED_TASK_ORPHANED" \in Watched
  PROVE  HSpec => []AloneIsTold
<1>. DEFINE Inv == Typed /\ LockInv /\ AloneInv
<1>1. HInit => Inv
  <2>1. HInit => AloneInv
    BY DEF HInit, Init, AloneInv
  <2>. QED  BY <2>1, InitTyped, InitLocks DEF HInit
<1>2. Inv /\ [HNext]_hvars => Inv'
  <2>. SUFFICES ASSUME Inv, [HNext]_hvars  PROVE Inv'
    OBVIOUS
  <2>1. [Next]_vars
    BY HNextIsNext DEF hvars
  <2>2. Typed'
    BY <2>1, NextTyped
  <2>. QED  BY <2>1, <2>2, NextLocks, NextAlone
<1>3. Inv => AloneIsTold
  <2>. SUFFICES ASSUME Inv, ~lost, \A r \in Requests : job[r] = Idle, alone # {}, ~FoundTwice
                PROVE  FALSE
    BY DEF AloneIsTold, FoundTwice
  <2>1. PICK r \in Requests : Telling(r)
    BY DEF AloneInv
  <2>. QED  BY <2>1 DEF Telling, Idle, Left
<1>. QED  BY <1>1, <1>2, <1>3, PTL DEF HSpec
=============================================================================
