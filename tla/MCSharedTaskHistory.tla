------------------------ MODULE MCSharedTaskHistory ------------------------
(* Instances of SharedTaskHistory for TLC. *)
EXTENDS SharedTaskHistory, TLC

\* Requests are interchangeable, and so are the people other than the owner.
\* Used where only safety is checked.
Symmetry == Permutations(Requests) \cup Permutations(Users \ {Owner})

\* Who sent an invitation, kept in its row and read to be told of the answer, has
\* no influence where no answers are recorded; the histories do not read it.  A
\* notice recorded before only spares one that fails again the name of being lost.
\* Once one is lost, nothing is claimed of whom it told.
WithoutInviters ==
  <<ownerLink, reminders, locks, strays, lost,
    IF lost THEN {} ELSE <<alone, twice>>,
    [u \in Users |-> [row[u] EXCEPT !.inviter = NoUser]],
    [r \in Requests |-> IF job[r].pc = "respond.set" THEN [job[r] EXCEPT !.mark = NoUser] ELSE job[r]]>>

ShareAnswerForwardUnlink == {"share", "respond", "forward", "unlink"}
ShareForwardUnlink == {"share", "forward", "unlink", "archive", "ack"}

OrphanEvents == {"SHARED_TASK_ORPHANED"}
CancelEvents == {"INVITATION_CANCELED"}
=============================================================================
