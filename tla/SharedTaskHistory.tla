------------------------- MODULE SharedTaskHistory -------------------------
(***************************************************************************)
(* SharedTask with history variables: which open invitations escape the      *)
(* cancellations, and who is still to be told of what an unlink did to them.  *)
(* The notices are sent after the transaction, so nothing in the database    *)
(* keeps this account.                                                       *)
(***************************************************************************)
EXTENDS SharedTask

VARIABLES
  strays,    \* the people whose invitation no unlink could count on or see
  alone,     \* the person left alone with the task and not told, if any
  untold,    \* the people whose invitation was canceled and who were not told
  twice,     \* the linked owner has held a copy, too
  lost       \* a notice was lost: the lookup or its INSERT failed, or the server stopped

hvars == <<vars, strays, alone, untold, twice, lost>>

Invited(u) == row[u].status = "PENDING" /\ row[u].sub # "UNLINKED"

\* The unlinks that commit in this step.
Committing ==
  {r \in Requests : job[r].pc = "unlink.cancel"
                      /\ job'[r].pc \in {"unlink.tell", "unlink.survivor"}}

\* An unlink has counted who stays and selected whom to cancel.
Selected == \E r \in Requests : job[r].pc = "unlink.cancel"

\* A copy that is the last one, or that an unlink has counted on, is overwritten:
\* a second answer rejects it, or a forward invites its holder, sorted out
\* before, again.
Overwriting ==
  /\ Committing = {} /\ ~(CopyHolders \subseteq CopyHolders')
  /\ Live' = {} \/ Selected

\* An invitation is committed when nobody takes part any more, or it is written
\* over an older row after an unlink's selection (the INSERT of a new row and
\* the unlink wait for each other).
Belated(u) ==
  /\ ~Invited(u) /\ Invited(u)'
  /\ Live' = {} \/ (row[u].status # "NONE" /\ Selected)

\* The person they leave alone with the task.
LeftAlone ==
  IF Committing # {} /\ Cardinality(Live) >= 2 /\ Cardinality(Live') = 1
  THEN Live' ELSE {}

\* The people to whom an event of this type is written in this step.
Told(type) ==
  {u \in Users : /\ <<u, type>> \in events'
                 /\ \E r \in Requests : <<u, type>> \in job[r].todo \ job'[r].todo}

\* A request strikes an event off its list without having written it, or ends
\* without the notice the search for a survivor would have it send.
Drops ==
  \E r \in Requests :
    \/ \E e \in job[r].todo \ job'[r].todo : e \notin events'
    \/ job[r].pc = "unlink.survivor" /\ Survivors \ {job[r].user} # {} /\ job'[r].todo = {}

HInit == Init /\ strays = {} /\ alone = {} /\ untold = {} /\ twice = FALSE /\ lost = FALSE
HNext ==
  /\ \/ (\E r \in Requests : Arrival(r) \/ Step(r)) /\ lost' = (lost \/ Drops)
     \/ (\E sender, peer \in Users : ReminderAges(sender, peer)) /\ UNCHANGED lost
     \/ (\E e \in Events : AckEvent(e)) /\ UNCHANGED lost
     \/ ServerStops /\ lost' = TRUE
  /\ strays' = {u \in Users : Invited(u)' /\ (u \in strays \/ Overwriting \/ Belated(u))}
  /\ alone' = (IF LeftAlone # {} THEN LeftAlone ELSE alone \ Told("SHARED_TASK_ORPHANED"))
                \cap (IF Cardinality(Live') = 1 THEN Live' ELSE {})
  /\ untold' = (untold \ Told("INVITATION_CANCELED"))
                 \cup UNION {job[r].hit : r \in Committing}
  /\ twice' = (twice \/ (ownerLink' = "linked" /\ HasCopy(Owner)'))
HSpec == HInit /\ [][HNext]_hvars
HFairSpec == HSpec /\ Fairness
-----------------------------------------------------------------------------
\* An open invitation has somebody left behind it: the linked owner or the
\* holder of a copy.  The cancellation of orphans exists for this.  Only
\* invitations that were open when the copy that stood behind them was
\* overwritten, or that a forward committed when nobody was left or too late to
\* be selected, escape it.
NoOrphanInvitation == Live = {} => \A u \in Users : Invited(u) => u \in strays

\* When the last request ends, whoever the unlinks left alone with the task
\* has been told (SHARED_TASK_ORPHANED), whatever the order in which their
\* transactions, their notices and the searches for a survivor ran, unless the
\* search failed, the INSERT was lost or the server stopped; or the one left is
\* an owner who has held a copy as well and was found twice.
AloneIsTold ==
  ~lost /\ (\A r \in Requests : job[r] = Idle) => alone = {} \/ (twice /\ alone = {Owner})

\* Whoever loses an invitation to a cancellation is told so by a durable
\* INVITATION_CANCELED event, deadlocks and lock waits included, as long as the
\* INSERTs succeed and the server runs.
CanceledAreTold == \A u \in Users : u \in untold ~> u \notin untold
=============================================================================
