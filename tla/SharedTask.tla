----------------------------- MODULE SharedTask -----------------------------
(***************************************************************************)
(* One shared task of the collaboration service, over PostgreSQL.           *)
(*                                                                          *)
(* A request is one call of a GraphQL mutation.  Its steps are the SQL      *)
(* statements of CollaborationService and PgCollaborationRepository, in     *)
(* their order; statements of different requests interleave.  The database  *)
(* variables hold committed data.  The writes of an open transaction stay   *)
(* in the request's record (field "hit") until it commits, guarded by the   *)
(* row locks PostgreSQL takes (READ COMMITTED): an UPDATE waits for the     *)
(* lock of the row it matches and evaluates its WHERE again afterwards.     *)
(*                                                                          *)
(* Recipients are assumed active and not administrators (checked by the     *)
(* code against the user table, which this module does not keep).  Payload  *)
(* texts, timestamps and push delivery are left out.                        *)
(***************************************************************************)
EXTENDS Integers, FiniteSets

CONSTANTS
  Users,        \* people, the owner included
  Owner,        \* the person who shares the task
  Requests,     \* slots for requests in flight; a slot is reused
  NoUser,       \* no person
  NoRequest,    \* no lock holder
  Ops,          \* operations enabled in this instance
  Watched,      \* event types this instance records (bounds the state)
  SerialUsers,  \* TRUE: a person has at most one request in flight
  FaultsAllowed \* TRUE: the server may stop, and what follows a commit may fail

ASSUME UsersAssumption ==
  IsFiniteSet(Users) /\ Owner \in Users /\ NoUser \notin Users
ASSUME RequestsAssumption ==
  IsFiniteSet(Requests) /\ NoRequest \notin Requests
ASSUME SwitchesAssumption == SerialUsers \in BOOLEAN /\ FaultsAllowed \in BOOLEAN

VARIABLES
  ownerLink,  \* shared_tasks: absent before the INSERT, then owner_unlinked_at
  row,        \* shared_task_recipients, one row per person
  reminders,  \* task_reminders of the last 24 hours, per sender and addressee
  events,     \* notification_events not yet acknowledged
  taskLock,   \* holder of the row lock on shared_tasks
  keyShare,   \* transactions holding its FOR KEY SHARE lock (foreign keys)
  rowLock,    \* holder of each recipient row lock
  job         \* progress of each request

vars == <<ownerLink, row, reminders, events, taskLock, keyShare, rowLock, job>>
db == <<ownerLink, row, reminders, events>>
locks == <<taskLock, keyShare, rowLock>>
-----------------------------------------------------------------------------
Status == {"NONE", "PENDING", "ACCEPTED", "REJECTED"}
SubState == {"OPEN", "COMPLETED", "DISMISSED_DONE", "UNLINKED"}
EventTypes == {"TASK_SHARED", "TASK_ACCEPTED", "TASK_REJECTED", "TASK_REMINDER",
  "TASK_COMPLETED", "INVITATION_CANCELED", "TASK_INVITATION_RESPONDED",
  "SHARED_TASK_ORPHANED"}
MAX_REMINDERS_PER_24H == 3

\* A recipient row; status NONE stands for no row.  "done" is completed_at
\* being set, "inviter" is inviter_user_id.
Row == [status : Status, sub : SubState, done : BOOLEAN,
        inviter : Users \cup {NoUser}]
NoRow == [status |-> "NONE", sub |-> "OPEN", done |-> FALSE, inviter |-> NoUser]
\* (mutated form: a status nobody else writes or reads)
InvitationMisspelt(inviter) ==
  [status |-> "INVITED", sub |-> "OPEN", done |-> FALSE, inviter |-> inviter]
Invitation(inviter) ==
  [status |-> "PENDING", sub |-> "OPEN", done |-> FALSE, inviter |-> inviter]
Canceled(r) == [r EXCEPT !.status = "REJECTED", !.sub = "UNLINKED"]

Events == Users \X EventTypes

PCs == {"idle", "emit",
  "respond.inviter", "respond.set",
  "remind.peer", "remind.closed", "remind.count", "remind.create",
  "forward.next", "forward.upsert",
  "unlink.begin", "unlink.lock", "unlink.count", "unlink.snap",
  "unlink.cancel", "unlink.tell", "unlink.survivor"}

\* What a request remembers between statements.
Job == [pc : PCs,
        user : Users,                  \* who calls
        peers : SUBSET Users,          \* people still to process
        mark : Users \cup {NoUser},    \* the person read or written next
        choice : Status,               \* the answer to an invitation
        hit : SUBSET Users,            \* rows written by the open transaction
        todo : SUBSET Events,          \* events still to emit
        again : BOOLEAN]               \* a second unlink call follows
Idle == [pc |-> "idle", user |-> Owner, peers |-> {}, mark |-> NoUser,
         choice |-> "NONE", hit |-> {}, todo |-> {}, again |-> FALSE]

TypeOK ==
  /\ ownerLink \in {"absent", "linked", "unlinked"}
  /\ row \in [Users -> Row]
  /\ reminders \in [Users \X Users -> Nat]
  /\ events \subseteq Events
  /\ taskLock \in Requests \cup {NoRequest}
  /\ keyShare \subseteq Requests
  /\ rowLock \in [Users -> Requests \cup {NoRequest}]
  /\ job \in [Requests -> Job]

Init ==
  /\ ownerLink = "absent"
  /\ row = [u \in Users |-> NoRow]
  /\ reminders = [p \in Users \X Users |-> 0]
  /\ events = {}
  /\ taskLock = NoRequest
  /\ keyShare = {}
  /\ rowLock = [u \in Users |-> NoRequest]
  /\ job = [r \in Requests |-> Idle]
-----------------------------------------------------------------------------
(* Conditions the SQL statements test. *)

\* status = 'ACCEPTED' AND sub_state <> 'UNLINKED'
HasCopy(u) == row[u].status = "ACCEPTED" /\ row[u].sub # "UNLINKED"
\* status = 'ACCEPTED' AND sub_state = 'OPEN'
OpenCopy(u) == row[u].status = "ACCEPTED" /\ row[u].sub = "OPEN"
CopyHolders == {u \in Users : HasCopy(u)}
\* The people who take part: the linked owner and the holders of a copy.
Live == CopyHolders \cup (IF ownerLink = "linked" THEN {Owner} ELSE {})

RowFree(u, r) == rowLock[u] \in {NoRequest, r}
\* The task's row lock in the mode an INSERT's foreign key waits for.  The
\* owner's UPDATE leaves the key alone and blocks nobody's foreign key;
\* SELECT ... FOR UPDATE does.
KeyShareFree == taskLock # NoRequest => job[taskLock].pc = "unlink.lock"

\* A request of user u for operation op may take slot r.
Arrives(r, op, u) ==
  /\ op \in Ops
  /\ job[r] = Idle
  /\ SerialUsers => \A q \in Requests : job[q] = Idle \/ job[q].user # u

\* The state after a service call ends: the second call of ArchiveSharedTask,
\* or nothing.
Over(j) == IF j.again THEN [Idle EXCEPT !.pc = "unlink.begin", !.user = j.user]
                      ELSE Idle
\* The last part of a call: emit these events, then end.
Emitting(j, msgs) ==
  IF msgs = {} THEN Over(j)
  ELSE [Idle EXCEPT !.pc = "emit", !.user = j.user, !.again = j.again, !.todo = msgs]
Goto(r, j) == job' = [job EXCEPT ![r] = j]
\* The events of one type to emit to the people of S, if they are recorded.
Msgs(S, type) == IF type \in Watched THEN S \X {type} ELSE {}
-----------------------------------------------------------------------------
(* share_task: the task and its invitations are inserted in one transaction, *)
(* invisible to the others until it commits; the events follow.              *)
ShareTask(r, S) ==
  /\ Arrives(r, "share", Owner)
  /\ ownerLink = "absent"
  /\ S \subseteq Users \ {Owner} /\ S # {}
  /\ ownerLink' = "linked"
  /\ row' = [u \in Users |-> IF u \in S THEN Invitation(Owner) ELSE row[u]]
  /\ Goto(r, Emitting([Idle EXCEPT !.user = Owner], Msgs(S, "TASK_SHARED")))
  /\ UNCHANGED <<reminders, events, locks>>

(* respond: reads the status, then the inviter, then writes the answer.      *)
\* Anything but PENDING is a Conflict, and no row NotFound: nothing changes.
RespondReadsStatus(r, u, answer) ==
  /\ Arrives(r, "respond", u)
  /\ row[u].status = "PENDING"
  /\ answer \in {"ACCEPTED", "REJECTED"}
  /\ Goto(r, [Idle EXCEPT !.pc = "respond.inviter", !.user = u, !.choice = answer])
  /\ UNCHANGED <<db, locks>>

RespondReadsInviter(r) ==
  /\ job[r].pc = "respond.inviter"
  /\ Goto(r, [job[r] EXCEPT !.pc = "respond.set", !.mark = row[job[r].user].inviter])
  /\ UNCHANGED <<db, locks>>

\* The UPDATE's WHERE names the row only, not the status read before, and it
\* leaves sub_state alone.
AnswerReopens(r, u) == [row[u] EXCEPT !.status = job[r].choice, !.sub = "OPEN"] \* (mutated form)
Answer(r, u) == [row[u] EXCEPT !.status = job[r].choice]
SetRecipientStatus(r) ==
  LET u == job[r].user
      inviter == job[r].mark
      answered == IF job[r].choice = "ACCEPTED" THEN "TASK_ACCEPTED" ELSE "TASK_REJECTED"
  IN /\ job[r].pc = "respond.set"
     /\ RowFree(u, r)
     /\ row' = [row EXCEPT ![u] = Answer(r, u)]
     /\ Goto(r, Emitting(job[r],
          Msgs({Owner} \ {inviter, u}, answered)
            \cup Msgs({inviter} \ {NoUser, u}, "TASK_INVITATION_RESPONDED")))
     /\ UNCHANGED <<ownerLink, reminders, events, locks>>

(* mark_completed and set_sub_state: one UPDATE of a live copy each.         *)
SetRecipientCompleted(r, u, completed) ==
  /\ Arrives(r, "complete", u)
  /\ HasCopy(u) /\ RowFree(u, r)
  /\ row' = [row EXCEPT ![u] = [row[u] EXCEPT
       !.sub = IF completed THEN "COMPLETED" ELSE "OPEN", !.done = completed]]
  /\ Goto(r, Emitting([Idle EXCEPT !.user = u],
                      IF completed THEN Msgs({Owner}, "TASK_COMPLETED") ELSE {}))
  /\ UNCHANGED <<ownerLink, reminders, events, locks>>

MarkForgetsDismissed(sub) == sub = "COMPLETED" \* (mutated form)
SetsCompletedAt(sub) == sub \in {"COMPLETED", "DISMISSED_DONE"}
MarkSubState(r, u, sub) ==
  /\ Arrives(r, "substate", u)
  /\ sub \in SubState \ {"UNLINKED"}
  /\ HasCopy(u) /\ RowFree(u, r)
  /\ row' = [row EXCEPT ![u] = [row[u] EXCEPT
       !.sub = sub, !.done = SetsCompletedAt(sub)]]
  /\ UNCHANGED <<ownerLink, reminders, events, locks, job>>

(* send_reminder: participant_role of both, the addressee's sub-state, the   *)
(* count of the last 24 hours and the INSERT are separate statements.        *)
\* participant_role: OWNER whatever owner_unlinked_at says, RECIPIENT when
\* ACCEPTED whatever sub_state says.
HasRole(u) == u = Owner \/ row[u].status = "ACCEPTED"

RemindReadsSender(r, sender, peer) ==
  /\ Arrives(r, "remind", sender)
  /\ peer # sender
  /\ ownerLink # "absent"
  /\ HasRole(sender)
  /\ Goto(r, [Idle EXCEPT !.pc = "remind.peer", !.user = sender, !.mark = peer])
  /\ UNCHANGED <<db, locks>>

RemindReadsPeer(r) ==
  /\ job[r].pc = "remind.peer"
  /\ Goto(r, IF ~HasRole(job[r].mark) THEN Idle
             ELSE [job[r] EXCEPT !.pc = IF job[r].mark = Owner THEN "remind.count"
                                        ELSE "remind.closed"])
  /\ UNCHANGED <<db, locks>>

RemindReadsClosed(r) ==
  /\ job[r].pc = "remind.closed"
  /\ Goto(r, IF row[job[r].mark].sub \in {"COMPLETED", "DISMISSED_DONE"} THEN Idle
             ELSE [job[r] EXCEPT !.pc = "remind.count"])
  /\ UNCHANGED <<db, locks>>

QuotaOffByOne(n) == n > MAX_REMINDERS_PER_24H \* (mutated form)
QuotaReached(n) == n >= MAX_REMINDERS_PER_24H
RemindCounts(r) ==
  /\ job[r].pc = "remind.count"
  /\ Goto(r, IF QuotaReached(reminders[<<job[r].user, job[r].mark>>]) THEN Idle
             ELSE [job[r] EXCEPT !.pc = "remind.create"])
  /\ UNCHANGED <<db, locks>>

CreateReminder(r) ==
  /\ job[r].pc = "remind.create"
  /\ KeyShareFree
  /\ reminders' = [reminders EXCEPT ![<<job[r].user, job[r].mark>>] = @ + 1]
  /\ Goto(r, Emitting(job[r], Msgs({job[r].mark}, "TASK_REMINDER")))
  /\ UNCHANGED <<ownerLink, row, events, locks>>

\* A reminder becomes older than 24 hours.
ReminderAges(sender, peer) ==
  /\ reminders[<<sender, peer>>] > 0
  /\ reminders' = [reminders EXCEPT ![<<sender, peer>>] = @ - 1]
  /\ UNCHANGED <<ownerLink, row, events, locks, job>>
-----------------------------------------------------------------------------
(* forward_share: one transaction.  It tests the forwarder's eligibility     *)
(* once, without a lock; then, person by person, it reads the row to sort    *)
(* the person out and writes the invitation; then it commits.                *)
CanForward(u) == (u = Owner /\ ownerLink = "linked") \/ OpenCopy(u)

ForwardBegins(r, u, S) ==
  /\ Arrives(r, "forward", u)
  /\ S # {}
  /\ CanForward(u)
  /\ Goto(r, [Idle EXCEPT !.pc = "forward.next", !.user = u, !.peers = S \ {u}])
  /\ UNCHANGED <<db, locks>>

\* already_invited, already_has_copy, or to be invited.
ForwardSorts(r, v) ==
  LET keep == row[v].status = "PENDING" \/ HasCopy(v)
  IN /\ job[r].pc = "forward.next"
     /\ v \in job[r].peers
     /\ Goto(r, [job[r] EXCEPT !.peers = @ \ {v},
                               !.pc = IF keep THEN "forward.next" ELSE "forward.upsert",
                               !.mark = IF keep THEN NoUser ELSE v])
     /\ UNCHANGED <<db, locks>>

\* INSERT ... ON CONFLICT DO UPDATE.  Only the INSERT takes the foreign key's
\* lock on the task.
ForwardUpserts(r) ==
  LET v == job[r].mark
      inserts == row[v].status = "NONE"
  IN /\ job[r].pc = "forward.upsert"
     /\ RowFree(v, r)
     /\ inserts => KeyShareFree
     /\ rowLock' = [rowLock EXCEPT ![v] = r]
     /\ keyShare' = IF inserts THEN keyShare \cup {r} ELSE keyShare
     /\ Goto(r, [job[r] EXCEPT !.pc = "forward.next", !.mark = NoUser,
                               !.hit = @ \cup {v}])
     /\ UNCHANGED <<db, taskLock>>

\* The locks a transaction holds go when it commits or rolls back.
ReleaseAllButKeyShare(r) == \* (mutated form)
  /\ taskLock' = IF taskLock = r THEN NoRequest ELSE taskLock
  /\ rowLock' = [u \in Users |-> IF rowLock[u] = r THEN NoRequest ELSE rowLock[u]]
  /\ UNCHANGED keyShare
ReleaseLocks(r) ==
  /\ taskLock' = IF taskLock = r THEN NoRequest ELSE taskLock
  /\ keyShare' = keyShare \ {r}
  /\ rowLock' = [u \in Users |-> IF rowLock[u] = r THEN NoRequest ELSE rowLock[u]]

ForwardCommits(r) ==
  LET j == job[r]
  IN /\ j.pc = "forward.next" /\ j.peers = {}
     /\ row' = [u \in Users |-> IF u \in j.hit THEN Invitation(j.user) ELSE row[u]]
     /\ ReleaseLocks(r)
     /\ Goto(r, Emitting(j, Msgs(j.hit, "TASK_SHARED")))
     /\ UNCHANGED <<ownerLink, reminders, events>>
-----------------------------------------------------------------------------
(* unlink: one transaction that cuts the caller's link and cancels the open  *)
(* invitations when too few people are left; then the events to those        *)
(* canceled; then the search for a last survivor, outside the transaction.   *)
(* ArchiveSharedTask calls it twice, once per side, ignoring errors.         *)
UnlinkArrives(r, u) ==
  /\ ownerLink # "absent"
  /\ \/ Arrives(r, "unlink", u) /\ Goto(r, [Idle EXCEPT !.pc = "unlink.begin", !.user = u])
     \/ Arrives(r, "archive", u)
          /\ Goto(r, [Idle EXCEPT !.pc = "unlink.begin", !.user = u, !.again = TRUE])
  /\ UNCHANGED <<db, locks>>

\* The first UPDATE matches no row: an empty list is returned, without error.
UnlinkFindsNothing(r) ==
  LET u == job[r].user
  IN /\ job[r].pc = "unlink.begin"
     /\ IF u = Owner THEN ownerLink = "unlinked"
                     ELSE row[u].status = "NONE" \/ row[u].sub = "UNLINKED"
     /\ Goto(r, [job[r] EXCEPT !.pc = "unlink.survivor"])
     /\ UNCHANGED <<db, locks>>

UnlinkRecipient(r) ==
  LET u == job[r].user
  IN /\ job[r].pc = "unlink.begin"
     /\ u # Owner
     /\ row[u].status # "NONE" /\ row[u].sub # "UNLINKED"
     /\ RowFree(u, r)
     /\ rowLock' = [rowLock EXCEPT ![u] = r]
     /\ Goto(r, [job[r] EXCEPT !.pc = "unlink.lock"])
     /\ UNCHANGED <<db, taskLock, keyShare>>

UnlinkOwner(r) ==
  /\ job[r].pc = "unlink.begin"
  /\ job[r].user = Owner
  /\ ownerLink = "linked"
  /\ taskLock = NoRequest
  /\ taskLock' = r
  /\ Goto(r, [job[r] EXCEPT !.pc = "unlink.lock"])
  /\ UNCHANGED <<db, keyShare, rowLock>>

\* SELECT id FROM shared_tasks ... FOR UPDATE
SelectWithoutLock(r) == \* (mutated form: FOR UPDATE dropped)
  /\ job[r].pc = "unlink.lock"
  /\ Goto(r, [job[r] EXCEPT !.pc = "unlink.count"])
  /\ UNCHANGED <<db, locks>>
LockTask(r) ==
  /\ job[r].pc = "unlink.lock"
  /\ taskLock \in {NoRequest, r}
  /\ keyShare \subseteq {r}
  /\ taskLock' = r
  /\ Goto(r, [job[r] EXCEPT !.pc = "unlink.count"])
  /\ UNCHANGED <<db, keyShare, rowLock>>

\* Participants ACCEPTED and OPEN plus the linked owner, as the transaction
\* sees them: without the link it has just cut.
ActiveSeenBy(r) ==
  Cardinality({u \in Users : OpenCopy(u) /\ (u = Owner \/ u # job[r].user)})
    + (IF ownerLink = "linked" /\ job[r].user # Owner THEN 1 ELSE 0)

CountActive(r) ==
  /\ job[r].pc = "unlink.count"
  /\ Goto(r, [job[r] EXCEPT !.pc = IF ActiveSeenBy(r) >= 2 THEN "unlink.cancel"
                                   ELSE "unlink.snap"])
  /\ UNCHANGED <<db, locks>>

\* The canceling UPDATE starts: the rows its snapshot matches ...
SnapPending(r) ==
  /\ job[r].pc = "unlink.snap"
  /\ Goto(r, [job[r] EXCEPT !.pc = "unlink.cancel",
                            !.peers = {v \in Users : row[v].status = "PENDING"}])
  /\ UNCHANGED <<db, locks>>

\* ... are locked one by one, each waited for and tested again.
CancelUntested(v) == TRUE \* (mutated form: AND status = 'PENDING' dropped)
StillPending(v) == row[v].status = "PENDING"
CancelInvitation(r, v) ==
  LET still == StillPending(v)
  IN /\ job[r].pc = "unlink.cancel"
     /\ v \in job[r].peers
     /\ RowFree(v, r)
     /\ rowLock' = IF still THEN [rowLock EXCEPT ![v] = r] ELSE rowLock
     /\ Goto(r, [job[r] EXCEPT !.peers = @ \ {v},
                               !.hit = IF still THEN @ \cup {v} ELSE @])
     /\ UNCHANGED <<db, taskLock, keyShare>>

UnlinkCommits(r) ==
  LET j == job[r]
      msgs == Msgs(j.hit, "INVITATION_CANCELED")
  IN /\ j.pc = "unlink.cancel" /\ j.peers = {}
     /\ ownerLink' = IF j.user = Owner THEN "unlinked" ELSE ownerLink
     /\ row' = [u \in Users |->
                  IF u \in j.hit THEN Canceled(row[u])
                  ELSE IF u = j.user /\ u # Owner THEN [row[u] EXCEPT !.sub = "UNLINKED"]
                  ELSE row[u]]
     /\ ReleaseLocks(r)
     /\ Goto(r, [j EXCEPT !.hit = {}, !.todo = msgs,
                          !.pc = IF msgs = {} THEN "unlink.survivor" ELSE "unlink.tell"])
     /\ UNCHANGED <<reminders, events>>

\* find_last_survivor reads the owner and the copies as separate rows and
\* wants exactly one.  When it fails the call ends with that error.
SurvivorsWithoutOwner == \* (mutated form)
  IF Cardinality(CopyHolders) = 1 THEN CopyHolders ELSE {}
Survivors ==
  LET rows == Cardinality(CopyHolders) + (IF ownerLink = "linked" THEN 1 ELSE 0)
  IN IF rows = 1 THEN Live ELSE {}

UnlinkFindsSurvivor(r) ==
  /\ job[r].pc = "unlink.survivor"
  /\ \/ Goto(r, Emitting(job[r], Msgs(Survivors \ {job[r].user}, "SHARED_TASK_ORPHANED")))
     \/ FaultsAllowed /\ Goto(r, Over(job[r]))
  /\ UNCHANGED <<db, locks>>
-----------------------------------------------------------------------------
(* emit_durable: one INSERT per event; a failure is logged and forgotten.    *)
OnlyTheFirst(j, e) == {} \* (mutated form: a return inside the loop)
Remaining(j, e) == j.todo \ {e}
EmitEvent(r, e) ==
  LET j == job[r]
      rest == Remaining(j, e)
  IN /\ j.pc \in {"emit", "unlink.tell"}
     /\ e \in j.todo
     /\ KeyShareFree
     /\ \/ events' = events \cup {e}
        \/ FaultsAllowed /\ UNCHANGED events
     /\ Goto(r, IF rest # {} THEN [j EXCEPT !.todo = rest]
                ELSE IF j.pc = "emit" THEN Over(j)
                ELSE [j EXCEPT !.todo = {}, !.pc = "unlink.survivor"])
     /\ UNCHANGED <<ownerLink, row, reminders, locks>>

\* ack_notification_events
AckEvent(e) ==
  /\ "ack" \in Ops
  /\ e \in events
  /\ events' = events \ {e}
  /\ UNCHANGED <<ownerLink, row, reminders, locks, job>>
-----------------------------------------------------------------------------
(* PostgreSQL's deadlock detector.                                           *)

\* The transactions a blocked transaction waits for.  Single statements hold
\* no lock while they wait and take part in no cycle.
WaitsFor(r) ==
  LET j == job[r]
  IN CASE j.pc = "unlink.lock" -> ({taskLock} \cup keyShare) \ {r, NoRequest}
       [] j.pc = "unlink.cancel" /\ \A v \in j.peers : ~RowFree(v, r)
            -> {rowLock[v] : v \in j.peers}
       [] j.pc = "forward.upsert" /\ ~RowFree(j.mark, r) -> {rowLock[j.mark]}
       [] j.pc = "forward.upsert" /\ RowFree(j.mark, r)
            /\ row[j.mark].status = "NONE" /\ ~KeyShareFree -> {taskLock}
       [] OTHER -> {}

\* S is a cycle: each member waits for a member, and no smaller set does.
Cycle(S) ==
  LET Closed(T) == T # {} /\ \A q \in T : WaitsFor(q) \cap T # {}
  IN Closed(S) /\ \A T \in SUBSET S : Closed(T) => T = S

\* A member of the cycle is rolled back; its caller gets an error, which
\* ArchiveSharedTask ignores.
DeadlockVictim(r) ==
  /\ \E S \in SUBSET Requests : r \in S /\ Cycle(S)
  /\ ReleaseLocks(r)
  /\ Goto(r, Over(job[r]))
  /\ UNCHANGED db

\* The server stops: its requests end where they are, PostgreSQL rolls back.
ServerStops ==
  /\ FaultsAllowed
  /\ job' = [r \in Requests |-> Idle]
  /\ taskLock' = NoRequest
  /\ keyShare' = {}
  /\ rowLock' = [u \in Users |-> NoRequest]
  /\ UNCHANGED db
-----------------------------------------------------------------------------
\* A request arrives.
Arrival(r) ==
  \/ \E S \in SUBSET Users : ShareTask(r, S)
  \/ \E u \in Users :
       \/ \E answer \in Status : RespondReadsStatus(r, u, answer)
       \/ \E completed \in BOOLEAN : SetRecipientCompleted(r, u, completed)
       \/ \E sub \in SubState : MarkSubState(r, u, sub)
       \/ \E peer \in Users : RemindReadsSender(r, u, peer)
       \/ \E S \in SUBSET Users : ForwardBegins(r, u, S)
       \/ UnlinkArrives(r, u)

\* A request in flight executes its next statement.
Step(r) ==
  \/ RespondReadsInviter(r) \/ SetRecipientStatus(r)
  \/ RemindReadsPeer(r) \/ RemindReadsClosed(r) \/ RemindCounts(r) \/ CreateReminder(r)
  \/ \E v \in Users : ForwardSorts(r, v)
  \/ ForwardUpserts(r) \/ ForwardCommits(r)
  \/ UnlinkFindsNothing(r) \/ UnlinkRecipient(r) \/ UnlinkOwner(r)
  \/ LockTask(r) \/ CountActive(r) \/ SnapPending(r)
  \/ \E v \in Users : CancelInvitation(r, v)
  \/ UnlinkCommits(r) \/ UnlinkFindsSurvivor(r)
  \/ \E e \in Events : EmitEvent(r, e)
  \/ DeadlockVictim(r)

Next ==
  \/ \E r \in Requests : Arrival(r) \/ Step(r)
  \/ \E sender, peer \in Users : ReminderAges(sender, peer)
  \/ \E e \in Events : AckEvent(e)
  \/ ServerStops

Spec == Init /\ [][Next]_vars

\* A request that can go on does (tokio schedules every task), and one that
\* waits for a lock is not passed over for ever (PostgreSQL queues waiters).
Fairness == \A r \in Requests : SF_vars(Step(r))
FairSpec == Spec /\ Fairness
-----------------------------------------------------------------------------
(* Correctness.                                                              *)

\* completed_at says the same as sub_state whatever the four writers of a row
\* (answer, complete, sub-state, invitation) do to it in whatever order.
CompletionConsistent ==
  \A u \in Users :
    /\ row[u].sub = "OPEN" => ~row[u].done
    /\ row[u].sub \in {"COMPLETED", "DISMISSED_DONE"} => row[u].done

\* Only a person's own unlink takes an accepted copy away; the cancellation
\* that comes with somebody else's unlink may race with the acceptance and
\* must then let the copy be.
OnlySelfUnlinks ==
  [][\A u \in Users :
       HasCopy(u) /\ row'[u].sub = "UNLINKED"
         => \E r \in Requests : job[r].user = u /\ job[r].pc = "unlink.cancel"
                                /\ job'[r].pc # "unlink.cancel"]_vars

\* The rows an unlink is about to cancel stay PENDING until it commits: what
\* it counted and selected is not undone underneath it.
CancelsOnlyPending ==
  \A r \in Requests : job[r].pc = "unlink.cancel" =>
    \A v \in job[r].hit : row[v].status = "PENDING"

\* The task row's lock serializes the unlinks from the count to the commit.
UnlinksSerialized ==
  \A r, q \in Requests :
    {job[r].pc, job[q].pc} \subseteq {"unlink.count", "unlink.snap", "unlink.cancel"}
      => r = q

\* RQNF-APP-45 allows three reminders from one person to another in 24 hours.
\* However many requests race past the count, that is exceeded at most by the
\* requests in flight.
ReminderOvershoot ==
  \A p \in Users \X Users :
    reminders[p] < MAX_REMINDERS_PER_24H + Cardinality(Requests)

\* Forwarding writes an invitation over a rejected, unlinked or missing row,
\* never over a live copy.
ForwardSparesCopies ==
  [][\A u \in Users : HasCopy(u) => row'[u].status # "PENDING"]_vars

\* Every request ends, deadlocks and waits included.
RequestsEnd == \A r \in Requests : job[r] # Idle ~> job[r] = Idle

\* The service keeps the promise stated by Membership.
Standing(u) ==
  CASE row[u].status = "NONE" -> "none"
    [] row[u].status # "NONE" /\ row[u].sub = "UNLINKED" -> "gone"
    [] row[u].status = "PENDING" /\ row[u].sub # "UNLINKED" -> "invited"
    [] row[u].status = "ACCEPTED" /\ row[u].sub # "UNLINKED" -> "joined"
    [] row[u].status = "REJECTED" /\ row[u].sub # "UNLINKED" -> "declined"
Abstract == INSTANCE Membership WITH
  member <- [u \in Users |-> Standing(u)], owning <- ownerLink
RefinesMembership == Abstract!MSpec
=============================================================================
