-------------------------- MODULE SharedTask_proofs --------------------------
(***************************************************************************)
(* Theorems about SharedTask for any set of people and any number of        *)
(* requests in flight.                                                      *)
(***************************************************************************)
EXTENDS SharedTask, FiniteSetTheorems, TLAPS

-----------------------------------------------------------------------------
(* Type correctness.                                                         *)

\* A request that reminds or invites somebody knows whom.  CreateReminder and
\* ForwardUpserts rely on it, so type correctness is proved together with it.
SoundJob ==
  {j \in Job : j.pc \in {"remind.peer", "remind.closed", "remind.count",
                         "remind.create", "forward.upsert"} => j.mark \in Users}
Typed == TypeOK /\ job \in [Requests -> SoundJob]

LEMMA IdleIsJob == Idle \in SoundJob
BY UsersAssumption DEF Idle, Job, SoundJob, PCs, Status

\* The event lists the actions build.
LEMMA MsgsAreEvents ==
  ASSUME NEW S \in SUBSET Users, NEW type \in EventTypes
  PROVE  Msgs(S, type) \in SUBSET Events
BY DEF Msgs, Events

LEMMA EmittingIsJob ==
  ASSUME NEW j \in Job, NEW msgs \in SUBSET Events
  PROVE  Emitting(j, msgs) \in SoundJob
<1>1. Over(j) \in SoundJob
  BY IdleIsJob DEF Over, Idle, Job, SoundJob, PCs, Status
<1>2. [Idle EXCEPT !.pc = "emit", !.user = j.user, !.again = j.again,
                   !.todo = msgs] \in SoundJob
  BY IdleIsJob DEF Idle, Job, SoundJob, PCs, Status
<1>. QED  BY <1>1, <1>2 DEF Emitting

LEMMA GotoTyped ==
  ASSUME Typed, NEW r \in Requests, NEW j \in SoundJob, Goto(r, j)
  PROVE  job' \in [Requests -> Job] /\ job' \in [Requests -> SoundJob]
BY DEF Goto, Typed, SoundJob

LEMMA ReleaseTyped ==
  ASSUME Typed, NEW r \in Requests, ReleaseLocks(r)
  PROVE  /\ taskLock' \in Requests \cup {NoRequest}
         /\ keyShare' \subseteq Requests
         /\ rowLock' \in [Users -> Requests \cup {NoRequest}]
BY DEF Typed, TypeOK, ReleaseLocks

\* What the actions write into a row is a row.
LEMMA RowsTyped ==
  /\ \A u \in Users : Invitation(u) \in Row
  /\ \A x \in Row : Canceled(x) \in Row
  /\ \A x \in Row : [x EXCEPT !.sub = "UNLINKED"] \in Row
  /\ \A x \in Row, sub \in SubState, done \in BOOLEAN :
       [x EXCEPT !.sub = sub, !.done = done] \in Row
BY DEF Invitation, Canceled, Row, Status, SubState

LEMMA InitTyped == Init => Typed
BY IdleIsJob, UsersAssumption
   DEF Init, Typed, SoundJob, TypeOK, Row, NoRow, Status, SubState, Events

\* Every step keeps the variables in their types.
LEMMA ArrivalTyped ==
  ASSUME Typed, NEW r \in Requests, Arrival(r)
  PROVE  Typed'
<1>. USE DEF db, locks
<1>idle. Idle \in SoundJob
  BY IdleIsJob
<1>1. ASSUME NEW S \in SUBSET Users, ShareTask(r, S)  PROVE Typed'
  <2>1. S \in SUBSET Users /\ Msgs(S, "TASK_SHARED") \in SUBSET Events
    BY MsgsAreEvents DEF EventTypes
  <2>2. [Idle EXCEPT !.user = Owner] \in Job
    BY <1>idle, UsersAssumption DEF Idle, Job, SoundJob
  <2>3. job' \in [Requests -> Job] /\ job' \in [Requests -> SoundJob]
    BY <1>1, <2>1, <2>2, EmittingIsJob, GotoTyped DEF ShareTask, Typed, TypeOK
  <2>4. row' \in [Users -> Row]
    BY <1>1, RowsTyped, UsersAssumption DEF ShareTask, Typed, TypeOK
  <2>. QED  BY <1>1, <2>3, <2>4 DEF ShareTask, Typed, TypeOK
<1>2. ASSUME NEW u \in Users, NEW answer \in Status, RespondReadsStatus(r, u, answer)
      PROVE  Typed'
  <2>1. [Idle EXCEPT !.pc = "respond.inviter", !.user = u, !.choice = answer] \in SoundJob
    BY <1>idle DEF Idle, Job, SoundJob, PCs
  <2>. QED  BY <1>2, <2>1, GotoTyped DEF RespondReadsStatus, Typed, TypeOK
<1>3. ASSUME NEW u \in Users, NEW completed \in BOOLEAN,
             SetRecipientCompleted(r, u, completed)
      PROVE  Typed'
  <2>1. [Idle EXCEPT !.user = u] \in Job
    BY <1>idle DEF Idle, Job, SoundJob
  <2>2. (IF completed THEN Msgs({Owner}, "TASK_COMPLETED") ELSE {}) \in SUBSET Events
    BY MsgsAreEvents, UsersAssumption DEF EventTypes
  <2>3. job' \in [Requests -> Job] /\ job' \in [Requests -> SoundJob]
    BY <1>3, <2>1, <2>2, EmittingIsJob, GotoTyped DEF SetRecipientCompleted, Typed, TypeOK
  <2>4. row' \in [Users -> Row]
    BY <1>3 DEF SetRecipientCompleted, Typed, TypeOK, Row, SubState
  <2>. QED  BY <1>3, <2>3, <2>4 DEF SetRecipientCompleted, Typed, TypeOK
<1>4. ASSUME NEW u \in Users, NEW sub \in SubState, MarkSubState(r, u, sub)
      PROVE  Typed'
  <2>0. SetsCompletedAt(sub) \in BOOLEAN
    BY DEF SetsCompletedAt
  <2>1. row' \in [Users -> Row]
    BY <1>4, <2>0, RowsTyped DEF MarkSubState, Typed, TypeOK
  <2>. QED  BY <1>4, <2>1 DEF MarkSubState, Typed, TypeOK
<1>5. ASSUME NEW u \in Users, NEW peer \in Users, RemindReadsSender(r, u, peer)
      PROVE  Typed'
  <2>1. [Idle EXCEPT !.pc = "remind.peer", !.user = u, !.mark = peer] \in SoundJob
    BY <1>idle DEF Idle, Job, SoundJob, PCs
  <2>. QED  BY <1>5, <2>1, GotoTyped DEF RemindReadsSender, Typed, TypeOK
<1>6. ASSUME NEW u \in Users, NEW S \in SUBSET Users, ForwardBegins(r, u, S)
      PROVE  Typed'
  <2>1. [Idle EXCEPT !.pc = "forward.next", !.user = u, !.peers = S \ {u}] \in SoundJob
    BY <1>idle DEF Idle, Job, SoundJob, PCs
  <2>. QED  BY <1>6, <2>1, GotoTyped DEF ForwardBegins, Typed, TypeOK
<1>7. ASSUME NEW u \in Users, UnlinkArrives(r, u)  PROVE Typed'
  <2>1. /\ [Idle EXCEPT !.pc = "unlink.begin", !.user = u] \in SoundJob
        /\ [Idle EXCEPT !.pc = "unlink.begin", !.user = u, !.again = TRUE] \in SoundJob
    BY <1>idle DEF Idle, Job, SoundJob, PCs
  <2>. QED  BY <1>7, <2>1, GotoTyped DEF UnlinkArrives, Typed, TypeOK
<1>. QED
  BY <1>1, <1>2, <1>3, <1>4, <1>5, <1>6, <1>7 DEF Arrival


\* What a job remembers has its type.
LEMMA JobFields ==
  ASSUME NEW j \in Job
  PROVE  /\ j.user \in Users /\ j.peers \in SUBSET Users
         /\ j.mark \in Users \cup {NoUser} /\ j.choice \in Status
         /\ j.hit \in SUBSET Users /\ j.todo \in SUBSET Events /\ j.again \in BOOLEAN
BY DEF Job

\* The program counters that need no mark.
Unmarked == PCs \ {"remind.peer", "remind.closed", "remind.count", "remind.create",
                   "forward.upsert"}

LEMMA StepTyped ==
  ASSUME Typed, NEW r \in Requests, Step(r)
  PROVE  Typed'
<1>. DEFINE j == job[r]
<1>. USE DEF db, locks
<1>job. /\ j \in Job /\ j \in SoundJob
        /\ j.user \in Users /\ j.peers \in SUBSET Users
        /\ j.mark \in Users \cup {NoUser} /\ j.choice \in Status
        /\ j.hit \in SUBSET Users /\ j.todo \in SUBSET Events /\ j.again \in BOOLEAN
  BY JobFields DEF Typed, SoundJob
<1>. HIDE DEF j
<1>goto. ASSUME NEW k \in SoundJob, Goto(r, k)
         PROVE  job' \in [Requests -> Job] /\ job' \in [Requests -> SoundJob]
  BY <1>goto, GotoTyped
<1>1. CASE RespondReadsInviter(r)
  <2>1. row[j.user].inviter \in Users \cup {NoUser}
    BY <1>job DEF Typed, TypeOK, Row
  <2>2. [j EXCEPT !.pc = "respond.set", !.mark = row[j.user].inviter] \in SoundJob
    BY <1>job, <2>1 DEF Job, SoundJob, PCs
  <2>. QED  BY <1>1, <1>goto, <2>2 DEF j, RespondReadsInviter, Typed, TypeOK
<1>2. CASE SetRecipientStatus(r)
  <2>1. row' \in [Users -> Row]
    BY <1>2, <1>job DEF j, SetRecipientStatus, Answer, Typed, TypeOK, Row
  <2>2. PICK msgs \in SUBSET Events : Goto(r, Emitting(j, msgs))
    <3>1. ASSUME NEW S \in SUBSET Users, NEW T \in SUBSET Users,
                 NEW type \in {"TASK_ACCEPTED", "TASK_REJECTED"}
          PROVE  Msgs(S, type) \cup Msgs(T, "TASK_INVITATION_RESPONDED") \in SUBSET Events
      BY MsgsAreEvents DEF EventTypes
    <3>. QED  BY <1>2, <1>job, <3>1, UsersAssumption DEF j, SetRecipientStatus
  <2>. QED  BY <1>2, <1>job, <1>goto, <2>1, <2>2, EmittingIsJob
            DEF SetRecipientStatus, Typed, TypeOK
<1>3. CASE RemindReadsPeer(r) \/ RemindReadsClosed(r) \/ RemindCounts(r)
  <2>1. /\ [j EXCEPT !.pc = "remind.count"] \in SoundJob
        /\ [j EXCEPT !.pc = "remind.closed"] \in SoundJob
        /\ [j EXCEPT !.pc = "remind.create"] \in SoundJob
    BY <1>job, <1>3 DEF j, RemindReadsPeer, RemindReadsClosed, RemindCounts, Job, SoundJob, PCs
  <2>2. CASE RemindReadsPeer(r)
    BY <2>2, <2>1, <1>goto, IdleIsJob DEF j, RemindReadsPeer, Typed, TypeOK
  <2>3. CASE RemindReadsClosed(r)
    BY <2>3, <2>1, <1>goto, IdleIsJob DEF j, RemindReadsClosed, Typed, TypeOK
  <2>4. CASE RemindCounts(r)
    BY <2>4, <2>1, <1>goto, IdleIsJob DEF j, RemindCounts, Typed, TypeOK
  <2>. QED  BY <1>3, <2>2, <2>3, <2>4
<1>4. CASE CreateReminder(r)
  <2>1. j.mark \in Users
    BY <1>4, <1>job DEF j, CreateReminder, SoundJob
  <2>2. Msgs({j.mark}, "TASK_REMINDER") \in SUBSET Events
    BY <2>1, MsgsAreEvents DEF EventTypes
  <2>3. reminders' \in [Users \X Users -> Nat]
    BY <1>4, <1>job, <2>1 DEF j, CreateReminder, Typed, TypeOK
  <2>. QED  BY <1>4, <1>job, <1>goto, <2>2, <2>3, EmittingIsJob
            DEF j, CreateReminder, Typed, TypeOK
<1>5. ASSUME NEW v \in Users, ForwardSorts(r, v)  PROVE Typed'
  <2>1. \A keep \in BOOLEAN :
          [j EXCEPT !.peers = @ \ {v},
                    !.pc = IF keep THEN "forward.next" ELSE "forward.upsert",
                    !.mark = IF keep THEN NoUser ELSE v] \in SoundJob
    BY <1>job DEF Job, SoundJob, PCs
  <2>2. (row[v].status = "PENDING" \/ HasCopy(v)) \in BOOLEAN
    BY DEF HasCopy
  <2>. QED  BY <1>5, <1>goto, <2>1, <2>2 DEF j, ForwardSorts, Typed, TypeOK
<1>6. CASE ForwardUpserts(r)
  <2>1. j.mark \in Users
    BY <1>6, <1>job DEF j, ForwardUpserts, SoundJob
  <2>2. [j EXCEPT !.pc = "forward.next", !.mark = NoUser, !.hit = @ \cup {j.mark}]
          \in SoundJob
    BY <1>job, <2>1 DEF Job, SoundJob, PCs
  <2>. QED  BY <1>6, <1>job, <1>goto, <2>1, <2>2 DEF j, ForwardUpserts, Typed, TypeOK
<1>7. CASE ForwardCommits(r)
  <2>1. Msgs(j.hit, "TASK_SHARED") \in SUBSET Events
    BY <1>job, MsgsAreEvents DEF EventTypes
  <2>2. row' \in [Users -> Row]
    BY <1>7, <1>job, RowsTyped DEF j, ForwardCommits, Typed, TypeOK
  <2>3. job' \in [Requests -> Job] /\ job' \in [Requests -> SoundJob]
    BY <1>7, <1>job, <1>goto, <2>1, EmittingIsJob DEF j, ForwardCommits
  <2>. QED  BY <1>7, <2>2, <2>3, ReleaseTyped DEF ForwardCommits, Typed, TypeOK
<1>8. CASE UnlinkFindsNothing(r) \/ UnlinkRecipient(r) \/ UnlinkOwner(r)
           \/ LockTask(r) \/ CountActive(r) \/ SnapPending(r)
  <2>1. \A pc \in Unmarked : [j EXCEPT !.pc = pc] \in SoundJob
    BY <1>job DEF Job, SoundJob, Unmarked
  <2>2. {"unlink.survivor", "unlink.lock", "unlink.count", "unlink.cancel",
         "unlink.snap"} \subseteq Unmarked
    BY DEF Unmarked, PCs
  <2>3. CASE UnlinkFindsNothing(r)
    BY <2>3, <2>1, <2>2, <1>goto DEF j, UnlinkFindsNothing, Typed, TypeOK
  <2>4. CASE UnlinkRecipient(r)
    BY <2>4, <2>1, <2>2, <1>job, <1>goto DEF j, UnlinkRecipient, Typed, TypeOK
  <2>5. CASE UnlinkOwner(r)
    BY <2>5, <2>1, <2>2, <1>goto DEF j, UnlinkOwner, Typed, TypeOK
  <2>6. CASE LockTask(r)
    BY <2>6, <2>1, <2>2, <1>goto DEF j, LockTask, Typed, TypeOK
  <2>7. CASE CountActive(r)
    BY <2>7, <2>1, <2>2, <1>goto DEF j, CountActive, Typed, TypeOK
  <2>8. CASE SnapPending(r)
    <3>1. \A S \in SUBSET Users : [j EXCEPT !.pc = "unlink.cancel", !.peers = S] \in SoundJob
      BY <1>job DEF Job, SoundJob, PCs
    <3>. QED  BY <2>8, <3>1, <1>goto DEF j, SnapPending, Typed, TypeOK
  <2>. QED  BY <1>8, <2>3, <2>4, <2>5, <2>6, <2>7, <2>8
<1>9. ASSUME NEW v \in Users, CancelInvitation(r, v)  PROVE Typed'
  <2>1. \A still \in BOOLEAN :
          [j EXCEPT !.peers = @ \ {v}, !.hit = IF still THEN @ \cup {v} ELSE @] \in SoundJob
    BY <1>job DEF Job, SoundJob
  <2>2. StillPending(v) \in BOOLEAN
    BY DEF StillPending
  <2>3. rowLock' \in [Users -> Requests \cup {NoRequest}]
    BY <1>9 DEF CancelInvitation, Typed, TypeOK
  <2>. QED  BY <1>9, <1>goto, <2>1, <2>2, <2>3 DEF j, CancelInvitation, Typed, TypeOK
<1>10. CASE UnlinkCommits(r)
  <2>1. Msgs(j.hit, "INVITATION_CANCELED") \in SUBSET Events
    BY <1>job, MsgsAreEvents DEF EventTypes
  <2>2. \A todo \in SUBSET Events, pc \in {"unlink.survivor", "unlink.tell"} :
          [j EXCEPT !.hit = {}, !.todo = todo, !.pc = pc] \in SoundJob
    BY <1>job DEF Job, SoundJob, PCs
  <2>3. job' \in [Requests -> Job] /\ job' \in [Requests -> SoundJob]
    BY <1>10, <1>goto, <2>1, <2>2 DEF j, UnlinkCommits
  <2>4. row' \in [Users -> Row]
    BY <1>10, RowsTyped DEF UnlinkCommits, Typed, TypeOK
  <2>. QED  BY <1>10, <2>3, <2>4, ReleaseTyped DEF UnlinkCommits, Typed, TypeOK
<1>11. CASE UnlinkFindsSurvivor(r)
  <2>1. Survivors \ {j.user} \in SUBSET Users
    BY UsersAssumption DEF Survivors, Live, CopyHolders
  <2>2. Msgs(Survivors \ {j.user}, "SHARED_TASK_ORPHANED") \in SUBSET Events
    BY <2>1, MsgsAreEvents DEF EventTypes
  <2>3. Over(j) \in SoundJob
    BY <1>job, IdleIsJob DEF Over, Idle, Job, SoundJob, PCs, Status
  <2>4. job' \in [Requests -> Job] /\ job' \in [Requests -> SoundJob]
    BY <1>11, <1>job, <1>goto, <2>2, <2>3, EmittingIsJob DEF j, UnlinkFindsSurvivor
  <2>. QED  BY <1>11, <2>4 DEF UnlinkFindsSurvivor, Typed, TypeOK
<1>12. ASSUME NEW e \in Events, EmitEvent(r, e)  PROVE Typed'
  <2>1. Over(j) \in SoundJob
    BY <1>job, IdleIsJob DEF Over, Idle, Job, SoundJob, PCs, Status
  <2>2. /\ [j EXCEPT !.todo = Remaining(j, e)] \in SoundJob
        /\ [j EXCEPT !.todo = {}, !.pc = "unlink.survivor"] \in SoundJob
    BY <1>job DEF Remaining, Job, SoundJob, PCs
  <2>3. job' \in [Requests -> Job] /\ job' \in [Requests -> SoundJob]
    BY <1>12, <1>goto, <2>1, <2>2 DEF j, EmitEvent
  <2>. QED  BY <1>12, <2>3 DEF EmitEvent, Typed, TypeOK
<1>13. CASE DeadlockVictim(r)
  <2>1. Over(j) \in SoundJob
    BY <1>job, IdleIsJob DEF Over, Idle, Job, SoundJob, PCs, Status
  <2>. QED  BY <1>13, <1>goto, <2>1, ReleaseTyped DEF j, DeadlockVictim, Typed, TypeOK
<1>. QED
  BY <1>1, <1>2, <1>3, <1>4, <1>5, <1>6, <1>7, <1>8, <1>9, <1>10, <1>11, <1>12, <1>13
  DEF Step

\* The type invariant of every run, for any constants.
LEMMA NextTyped == Typed /\ [Next]_vars => Typed'
<1>. SUFFICES ASSUME Typed, [Next]_vars  PROVE Typed'
  OBVIOUS
<1>1. ASSUME NEW sender \in Users, NEW peer \in Users, ReminderAges(sender, peer)
      PROVE  Typed'
  <2>1. reminders' \in [Users \X Users -> Nat]
    BY <1>1 DEF ReminderAges, Typed, TypeOK
  <2>. QED  BY <1>1, <2>1 DEF ReminderAges, Typed, TypeOK, locks
<1>2. ASSUME NEW e \in Events, AckEvent(e)  PROVE Typed'
  BY <1>2 DEF AckEvent, Typed, TypeOK, locks
<1>3. CASE ServerStops
  BY <1>3, IdleIsJob DEF ServerStops, Typed, TypeOK, SoundJob, db
<1>4. CASE UNCHANGED vars
  BY <1>4 DEF vars, Typed, TypeOK
<1>. QED  BY <1>1, <1>2, <1>3, <1>4, ArrivalTyped, StepTyped DEF Next

THEOREM TypeCorrect == Spec => []TypeOK
<1>1. Typed => TypeOK
  BY DEF Typed
<1>. QED  BY <1>1, InitTyped, NextTyped, PTL DEF Spec

-----------------------------------------------------------------------------
(* The reminder quota: the requests that have passed the count and not yet   *)
(* written their reminder are counted with the reminders written.            *)

\* The requests that are about to write a reminder from p[1] to p[2].
Counted(p) ==
  {r \in Requests : job[r].pc = "remind.create" /\ <<job[r].user, job[r].mark>> = p}
QuotaInv ==
  \A p \in Users \X Users :
    reminders[p] + Cardinality(Counted(p)) < MAX_REMINDERS_PER_24H + Cardinality(Requests)

LEMMA CountedIsFinite ==
  ASSUME NEW p \in Users \X Users
  PROVE  /\ IsFiniteSet(Counted(p))
         /\ Cardinality(Counted(p)) \in Nat /\ Cardinality(Requests) \in Nat
         /\ Cardinality(Counted(p)) <= Cardinality(Requests)
BY RequestsAssumption, FS_Subset, FS_CardinalityType DEF Counted

\* ... in the next state.
LEMMA CountedStaysFinite ==
  ASSUME NEW p \in Users \X Users
  PROVE  /\ IsFiniteSet(Counted(p)')
         /\ Cardinality(Counted(p)') \in Nat
         /\ Cardinality(Counted(p)') <= Cardinality(Requests)
<1>1. Counted(p)' \in SUBSET Requests
  BY DEF Counted
<1>. QED  BY <1>1, RequestsAssumption, FS_Subset, FS_CardinalityType

\* No request has newly passed the count, and no reminder was written.
NothingNew ==
  /\ \A p \in Users \X Users : reminders'[p] <= reminders[p]
  /\ \A r \in Requests : job'[r].pc = "remind.create" => job'[r] = job[r]

LEMMA NothingNewKeeps ==
  ASSUME Typed, Typed', QuotaInv, NothingNew
  PROVE  QuotaInv'
<1>. SUFFICES ASSUME NEW p \in Users \X Users
              PROVE  reminders'[p] + Cardinality(Counted(p)')
                       < MAX_REMINDERS_PER_24H + Cardinality(Requests)
  BY DEF QuotaInv
<1>1. Counted(p)' \subseteq Counted(p)
  BY DEF NothingNew, Counted
<1>2. Cardinality(Counted(p)') <= Cardinality(Counted(p))
  BY <1>1, CountedIsFinite, FS_Subset
<1>3. reminders[p] \in Nat /\ reminders'[p] \in Nat /\ reminders'[p] <= reminders[p]
  BY DEF Typed, TypeOK, NothingNew
<1>4. reminders[p] + Cardinality(Counted(p)) < MAX_REMINDERS_PER_24H + Cardinality(Requests)
  BY DEF QuotaInv
<1>. QED
  BY <1>2, <1>3, <1>4, CountedIsFinite, CountedStaysFinite DEF MAX_REMINDERS_PER_24H

\* The INSERT turns a counted request into a reminder.
LEMMA CreateKeeps ==
  ASSUME Typed, Typed', QuotaInv, NEW q \in Requests, CreateReminder(q)
  PROVE  QuotaInv'
<1>. DEFINE k == <<job[q].user, job[q].mark>>
<1>typ. /\ job \in [Requests -> SoundJob] /\ k \in Users \X Users
        /\ reminders \in [Users \X Users -> Nat] /\ reminders' \in [Users \X Users -> Nat]
  BY DEF Typed, TypeOK, SoundJob, Job, CreateReminder
<1>1. job'[q].pc # "remind.create" /\ \A r \in Requests \ {q} : job'[r] = job[r]
  BY <1>typ DEF CreateReminder, Goto, Emitting, Over, Idle
<1>. SUFFICES ASSUME NEW p \in Users \X Users
              PROVE  reminders'[p] + Cardinality(Counted(p)')
                       < MAX_REMINDERS_PER_24H + Cardinality(Requests)
  BY DEF QuotaInv
<1>2. reminders[p] + Cardinality(Counted(p)) < MAX_REMINDERS_PER_24H + Cardinality(Requests)
  BY DEF QuotaInv
<1>3. Counted(p)' = Counted(p) \ {q}
  BY <1>1 DEF Counted
<1>4. CASE p = k
  <2>1. q \in Counted(p) /\ reminders'[p] = reminders[p] + 1
    BY <1>4, <1>typ DEF Counted, CreateReminder
  <2>2. Cardinality(Counted(p)') = Cardinality(Counted(p)) - 1
    BY <1>3, <2>1, CountedIsFinite, FS_RemoveElement
  <2>. QED  BY <1>2, <1>typ, <2>1, <2>2, CountedIsFinite DEF MAX_REMINDERS_PER_24H
<1>5. CASE p # k
  <2>1. q \notin Counted(p) /\ reminders'[p] = reminders[p]
    BY <1>5, <1>typ DEF Counted, CreateReminder
  <2>. QED  BY <1>2, <1>3, <2>1
<1>. QED  BY <1>4, <1>5

\* The count lets a request pass only below the quota.
LEMMA CountKeeps ==
  ASSUME Typed, Typed', QuotaInv, NEW q \in Requests, RemindCounts(q)
  PROVE  QuotaInv'
<1>. DEFINE k == <<job[q].user, job[q].mark>>
<1>typ. /\ job \in [Requests -> SoundJob] /\ job[q] \in Job /\ k \in Users \X Users
        /\ reminders \in [Users \X Users -> Nat]
  BY DEF Typed, TypeOK, SoundJob, Job, RemindCounts
<1>0. reminders' = reminders /\ \A r \in Requests \ {q} : job'[r] = job[r]
  BY <1>typ DEF RemindCounts, Goto, db
<1>. SUFFICES ASSUME NEW p \in Users \X Users
              PROVE  reminders'[p] + Cardinality(Counted(p)')
                       < MAX_REMINDERS_PER_24H + Cardinality(Requests)
  BY DEF QuotaInv
<1>1. CASE p = k /\ ~QuotaReached(reminders[k])
  BY <1>1, <1>0, <1>typ, CountedIsFinite, CountedStaysFinite
     DEF QuotaReached, MAX_REMINDERS_PER_24H
<1>2. CASE p # k \/ QuotaReached(reminders[k])
  <2>1. job'[q].pc = "remind.create" => <<job'[q].user, job'[q].mark>> = k /\ p # k
    BY <1>2, <1>typ DEF RemindCounts, Goto, Idle, Job
  <2>2. Counted(p)' \subseteq Counted(p)
    BY <1>0, <2>1 DEF Counted
  <2>3. Cardinality(Counted(p)') <= Cardinality(Counted(p))
    BY <2>2, CountedIsFinite, FS_Subset
  <2>4. reminders[p] + Cardinality(Counted(p)) < MAX_REMINDERS_PER_24H + Cardinality(Requests)
    BY DEF QuotaInv
  <2>. QED
    BY <1>0, <1>typ, <2>3, <2>4, CountedIsFinite, CountedStaysFinite DEF MAX_REMINDERS_PER_24H
<1>. QED  BY <1>1, <1>2
-----------------------------------------------------------------------------
(* No other action passes the count or writes a reminder.                    *)

LEMMA GotoNothingNew ==
  ASSUME Typed, NEW q \in Requests, NEW k, Goto(q, k), k.pc # "remind.create",
         reminders' = reminders
  PROVE  NothingNew
BY DEF NothingNew, Goto, Typed, TypeOK

LEMMA RestingPc ==
  ASSUME NEW j, NEW msgs
  PROVE  Emitting(j, msgs).pc # "remind.create" /\ Over(j).pc # "remind.create"
BY DEF Emitting, Over, Idle

LEMMA ArrivalNothingNew ==
  ASSUME Typed, NEW q \in Requests, Arrival(q)
  PROVE  NothingNew
<1>. USE DEF db
<1>1. ASSUME NEW S \in SUBSET Users, ShareTask(q, S)  PROVE NothingNew
  BY <1>1, GotoNothingNew, RestingPc DEF ShareTask
<1>2. ASSUME NEW u \in Users, NEW answer \in Status, RespondReadsStatus(q, u, answer)
      PROVE  NothingNew
  <2>1. [Idle EXCEPT !.pc = "respond.inviter", !.user = u, !.choice = answer].pc
          # "remind.create"
    BY DEF Idle
  <2>. QED  BY <1>2, <2>1, GotoNothingNew DEF RespondReadsStatus
<1>3. ASSUME NEW u \in Users, NEW completed \in BOOLEAN, SetRecipientCompleted(q, u, completed)
      PROVE  NothingNew
  BY <1>3, GotoNothingNew, RestingPc DEF SetRecipientCompleted
<1>4. ASSUME NEW u \in Users, NEW sub \in SubState, MarkSubState(q, u, sub)
      PROVE  NothingNew
  BY <1>4 DEF MarkSubState, NothingNew, Typed, TypeOK
<1>5. ASSUME NEW u \in Users, NEW peer \in Users, RemindReadsSender(q, u, peer)
      PROVE  NothingNew
  <2>1. [Idle EXCEPT !.pc = "remind.peer", !.user = u, !.mark = peer].pc # "remind.create"
    BY DEF Idle
  <2>. QED  BY <1>5, <2>1, GotoNothingNew DEF RemindReadsSender
<1>6. ASSUME NEW u \in Users, NEW S \in SUBSET Users, ForwardBegins(q, u, S)
      PROVE  NothingNew
  <2>1. [Idle EXCEPT !.pc = "forward.next", !.user = u, !.peers = S \ {u}].pc
          # "remind.create"
    BY DEF Idle
  <2>. QED  BY <1>6, <2>1, GotoNothingNew DEF ForwardBegins
<1>7. ASSUME NEW u \in Users, UnlinkArrives(q, u)  PROVE NothingNew
  <2>1. /\ [Idle EXCEPT !.pc = "unlink.begin", !.user = u].pc # "remind.create"
        /\ [Idle EXCEPT !.pc = "unlink.begin", !.user = u, !.again = TRUE].pc
             # "remind.create"
    BY DEF Idle
  <2>. QED  BY <1>7, <2>1, GotoNothingNew DEF UnlinkArrives
<1>. QED  BY <1>1, <1>2, <1>3, <1>4, <1>5, <1>6, <1>7 DEF Arrival

LEMMA StepNothingNew ==
  ASSUME Typed, NEW q \in Requests, Step(q), ~CreateReminder(q), ~RemindCounts(q)
  PROVE  NothingNew
<1>. USE DEF db
<1>j. job[q] \in Job
  BY DEF Typed, TypeOK
<1>1. CASE RespondReadsInviter(q)
  <2>1. [job[q] EXCEPT !.pc = "respond.set", !.mark = row[job[q].user].inviter].pc
          # "remind.create"
    BY <1>j DEF Job
  <2>. QED  BY <1>1, <2>1, GotoNothingNew DEF RespondReadsInviter
<1>2. CASE SetRecipientStatus(q)
  BY <1>2, RestingPc, GotoNothingNew DEF SetRecipientStatus
<1>3. CASE RemindReadsPeer(q) \/ RemindReadsClosed(q)
  <2>1. /\ [job[q] EXCEPT !.pc = "remind.count"].pc # "remind.create"
        /\ [job[q] EXCEPT !.pc = "remind.closed"].pc # "remind.create"
        /\ Idle.pc # "remind.create"
    BY <1>j DEF Job, Idle
  <2>2. CASE RemindReadsPeer(q)
    <3>1. PICK k : Goto(q, k) /\ k.pc # "remind.create"
      BY <2>1, <2>2 DEF RemindReadsPeer
    <3>. QED  BY <2>2, <3>1, GotoNothingNew DEF RemindReadsPeer
  <2>3. CASE RemindReadsClosed(q)
    BY <2>1, <2>3, GotoNothingNew DEF RemindReadsClosed
  <2>. QED  BY <1>3, <2>2, <2>3
<1>5. ASSUME NEW v \in Users, ForwardSorts(q, v)  PROVE NothingNew
  <2>. DEFINE keep == row[v].status = "PENDING" \/ HasCopy(v)
              k == [job[q] EXCEPT !.peers = @ \ {v},
                                  !.pc = IF keep THEN "forward.next" ELSE "forward.upsert",
                                  !.mark = IF keep THEN NoUser ELSE v]
  <2>1. k.pc # "remind.create"
    BY <1>j DEF Job
  <2>2. Goto(q, k) /\ reminders' = reminders
    BY <1>5 DEF ForwardSorts
  <2>. HIDE DEF k
  <2>. QED  BY <2>1, <2>2, GotoNothingNew
<1>6. CASE ForwardUpserts(q)
  <2>. DEFINE k == [job[q] EXCEPT !.pc = "forward.next", !.mark = NoUser,
                                  !.hit = @ \cup {job[q].mark}]
  <2>1. Goto(q, k) /\ reminders' = reminders /\ k.pc # "remind.create"
    BY <1>6, <1>j DEF ForwardUpserts, Job
  <2>. HIDE DEF k
  <2>. QED  BY <2>1, GotoNothingNew
<1>7. CASE ForwardCommits(q)
  BY <1>7, RestingPc, GotoNothingNew DEF ForwardCommits
<1>8. CASE UnlinkFindsNothing(q) \/ UnlinkRecipient(q) \/ UnlinkOwner(q) \/ LockTask(q)
  <2>1. /\ [job[q] EXCEPT !.pc = "unlink.survivor"].pc # "remind.create"
        /\ [job[q] EXCEPT !.pc = "unlink.lock"].pc # "remind.create"
        /\ [job[q] EXCEPT !.pc = "unlink.count"].pc # "remind.create"
    BY <1>j DEF Job
  <2>. QED  BY <1>8, <2>1, GotoNothingNew
            DEF UnlinkFindsNothing, UnlinkRecipient, UnlinkOwner, LockTask
<1>9. CASE CountActive(q)
  <2>1. /\ [job[q] EXCEPT !.pc = "unlink.cancel"].pc # "remind.create"
        /\ [job[q] EXCEPT !.pc = "unlink.snap"].pc # "remind.create"
    BY <1>j DEF Job
  <2>2. PICK k : Goto(q, k) /\ k.pc # "remind.create"
    BY <1>9, <2>1 DEF CountActive
  <2>. QED  BY <1>9, <2>2, GotoNothingNew DEF CountActive
<1>10. CASE SnapPending(q)
  <2>1. [job[q] EXCEPT !.pc = "unlink.cancel",
                       !.peers = {v \in Users : row[v].status = "PENDING"}].pc
          # "remind.create"
    BY <1>j DEF Job
  <2>. QED  BY <1>10, <2>1, GotoNothingNew DEF SnapPending
<1>11. ASSUME NEW v \in Users, CancelInvitation(q, v)  PROVE NothingNew
  <2>. DEFINE k == [job[q] EXCEPT !.peers = @ \ {v},
                                  !.hit = IF StillPending(v) THEN @ \cup {v} ELSE @]
  <2>1. Goto(q, k) /\ reminders' = reminders /\ k.pc # "remind.create"
    BY <1>11, <1>j DEF CancelInvitation, Job
  <2>. HIDE DEF k
  <2>. QED  BY <2>1, GotoNothingNew
<1>12. CASE UnlinkCommits(q)
  <2>. DEFINE msgs == Msgs(job[q].hit, "INVITATION_CANCELED")
              k == [job[q] EXCEPT !.hit = {}, !.todo = msgs,
                      !.pc = IF msgs = {} THEN "unlink.survivor" ELSE "unlink.tell"]
  <2>1. k.pc # "remind.create"
    BY <1>j DEF Job
  <2>2. Goto(q, k) /\ reminders' = reminders
    BY <1>12 DEF UnlinkCommits
  <2>. HIDE DEF k
  <2>. QED  BY <2>1, <2>2, GotoNothingNew
<1>13. CASE UnlinkFindsSurvivor(q)
  BY <1>13, RestingPc, GotoNothingNew DEF UnlinkFindsSurvivor
<1>14. ASSUME NEW e \in Events, EmitEvent(q, e)  PROVE NothingNew
  <2>1. job[q].pc # "remind.create" /\ reminders' = reminders
    BY <1>14 DEF EmitEvent
  <2>2. PICK k : Goto(q, k) /\ k.pc # "remind.create"
    <3>1. /\ \A S : [job[q] EXCEPT !.todo = S].pc = job[q].pc
          /\ \A S : [job[q] EXCEPT !.todo = S, !.pc = "unlink.survivor"].pc = "unlink.survivor"
      BY <1>j DEF Job
    <3>. QED  BY <1>14, <2>1, <3>1, RestingPc DEF EmitEvent
  <2>. QED  BY <2>1, <2>2, GotoNothingNew
<1>15. CASE DeadlockVictim(q)
  BY <1>15, RestingPc, GotoNothingNew DEF DeadlockVictim
<1>. QED
  BY <1>1, <1>2, <1>3, <1>5, <1>6, <1>7, <1>8, <1>9, <1>10, <1>11, <1>12, <1>13,
     <1>14, <1>15
  DEF Step

\* However many requests race past the count, two of the quota's three and
\* one per request slot are the most reminders a pair gets in 24 hours.
THEOREM ReminderOvershootCorrect == Spec => []ReminderOvershoot
<1>1. Init => QuotaInv
  <2>. SUFFICES ASSUME Init, NEW p \in Users \X Users
                PROVE  reminders[p] + Cardinality(Counted(p))
                         < MAX_REMINDERS_PER_24H + Cardinality(Requests)
    BY DEF QuotaInv
  <2>1. reminders[p] = 0
    BY DEF Init
  <2>. QED  BY <2>1, CountedIsFinite DEF MAX_REMINDERS_PER_24H
<1>2. ASSUME Typed, Typed', QuotaInv, [Next]_vars  PROVE QuotaInv'
  <2>1. ASSUME NEW q \in Requests, Arrival(q)  PROVE QuotaInv'
    BY <1>2, <2>1, ArrivalNothingNew, NothingNewKeeps
  <2>2. ASSUME NEW q \in Requests, Step(q)  PROVE QuotaInv'
    BY <1>2, <2>2, StepNothingNew, NothingNewKeeps, CreateKeeps, CountKeeps
  <2>3. ASSUME NEW sender \in Users, NEW peer \in Users, ReminderAges(sender, peer)
        PROVE  QuotaInv'
    <3>1. NothingNew
      BY <1>2, <2>3 DEF ReminderAges, NothingNew, Typed, TypeOK
    <3>. QED  BY <1>2, <3>1, NothingNewKeeps
  <2>4. CASE (\E e \in Events : AckEvent(e)) \/ UNCHANGED vars
    <3>1. NothingNew
      BY <1>2, <2>4 DEF AckEvent, vars, NothingNew, Typed, TypeOK
    <3>. QED  BY <1>2, <3>1, NothingNewKeeps
  <2>5. CASE ServerStops
    <3>1. NothingNew
      BY <1>2, <2>5 DEF ServerStops, NothingNew, Idle, db, Typed, TypeOK
    <3>. QED  BY <1>2, <3>1, NothingNewKeeps
  <2>. QED  BY <1>2, <2>1, <2>2, <2>3, <2>4, <2>5 DEF Next
<1>3. Typed /\ QuotaInv => ReminderOvershoot
  <2>. SUFFICES ASSUME Typed, QuotaInv, NEW p \in Users \X Users
                PROVE  reminders[p] < MAX_REMINDERS_PER_24H + Cardinality(Requests)
    BY DEF ReminderOvershoot
  <2>1. reminders[p] \in Nat
        /\ reminders[p] + Cardinality(Counted(p)) < MAX_REMINDERS_PER_24H + Cardinality(Requests)
    BY DEF Typed, TypeOK, QuotaInv
  <2>. QED  BY <2>1, CountedIsFinite DEF MAX_REMINDERS_PER_24H
<1>4. Typed /\ Typed' /\ QuotaInv /\ [Next]_vars => QuotaInv'
  BY <1>2
<1>. QED  BY <1>1, <1>3, <1>4, InitTyped, NextTyped, PTL DEF Spec
=============================================================================
