----------------------------- MODULE Membership -----------------------------
(***************************************************************************)
(* What the shared-task service promises each person about belonging to    *)
(* one shared task, with every operation a single step.                     *)
(*                                                                          *)
(*   - nobody takes part without having been invited;                      *)
(*   - whoever left, or was removed, is out until a new invitation;        *)
(*   - removing people is something a leaver does, and it only ever        *)
(*     removes open invitations: never somebody who accepted;              *)
(*   - the owner's link is created once and cut at most once.              *)
(*                                                                          *)
(* SharedTask refines this module (see SharedTask!Abstract).                *)
(***************************************************************************)

CONSTANTS
  Users,  \* the people who can be invited, the owner of the task included
  Owner   \* who shares the task

VARIABLES
  member,  \* how each person stands with the task
  owning   \* the owner's own link: absent before the task exists

mvars == <<member, owning>>

Standing == {"none", "invited", "joined", "declined", "gone"}

MTypeOK ==
  /\ member \in [Users -> Standing]
  /\ owning \in {"absent", "linked", "unlinked"}

MInit ==
  /\ member = [u \in Users |-> "none"]
  /\ owning = "absent"

\* The owner shares the task with S.
MShare(S) ==
  /\ owning = "absent"
  /\ owning' = "linked"
  /\ member' = [u \in Users |-> IF u \in S THEN "invited" ELSE member[u]]

\* A participant invites S, people who left before among them.
MInvite(S) ==
  /\ owning # "absent"
  /\ member' = [u \in Users |-> IF u \in S THEN "invited" ELSE member[u]]
  /\ UNCHANGED owning

\* An invited person answers; a second answer may replace the first.
MAnswer(u, standing) ==
  /\ standing \in {"joined", "declined"}
  /\ member[u] \in {"invited", "joined", "declined"}
  /\ member' = [member EXCEPT ![u] = standing]
  /\ UNCHANGED owning

\* Person u leaves, which withdraws the open invitations of S.
MLeave(u, S) ==
  /\ member[u] \in {"invited", "joined", "declined"}
  /\ \A v \in S : member[v] = "invited"
  /\ member' = [v \in Users |-> IF v \in S \cup {u} THEN "gone" ELSE member[v]]
  /\ UNCHANGED owning

\* The owner cuts the link, which withdraws the open invitations of S.
MOwnerLeaves(S) ==
  /\ owning = "linked"
  /\ owning' = "unlinked"
  /\ \A v \in S : member[v] = "invited"
  /\ member' = [v \in Users |-> IF v \in S THEN "gone" ELSE member[v]]

MNext ==
  \/ \E S \in SUBSET Users : MShare(S) \/ MInvite(S) \/ MOwnerLeaves(S)
  \/ \E u \in Users, standing \in Standing : MAnswer(u, standing)
  \/ \E u \in Users, S \in SUBSET Users : MLeave(u, S)

MSpec == MInit /\ [][MNext]_mvars
=============================================================================
