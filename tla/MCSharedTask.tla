---------------------------- MODULE MCSharedTask ----------------------------
(* Instances of SharedTask for TLC. *)
EXTENDS SharedTask, TLC

\* Requests are interchangeable, and so are the people other than the owner.
\* Used where only safety is checked.
Symmetry == Permutations(Requests) \cup Permutations(Users \ {Owner})

Everything ==
  {"share", "respond", "complete", "substate", "forward", "unlink", "remind", "ack"}
ShareAnswerForward == {"share", "respond", "forward"}

NoEvents == {}
CompletedEvents == {"TASK_COMPLETED"}
=============================================================================
