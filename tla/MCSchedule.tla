----------------------------- MODULE MCSchedule -----------------------------
(* Instances of ScheduleRaces for TLC. *)
EXTENDS ScheduleRaces, TLC

CONSTANTS T1, R1, R2, G1, G2, SubA, SubB, WholeGroup

Block(teacher, room, group, sub, day, from, to) ==
  [teacher |-> teacher, room |-> room, group |-> group, sub |-> sub,
   day |-> day, start |-> from * 3600, end |-> to * 3600]
Later(block, seconds) == [block EXCEPT !.end = @ + seconds]

\* A lecture of the whole group; the labs of its two subgroups, which share a
\* room; a class of another group that shares the teacher of the lecture, and
\* the lab's room until half a minute after the lab began; the lecture on
\* another day; an empty interval.
Lecture  == Block(T1, R1, G1, WholeGroup, 1, 8, 10)
LabA     == Block(NoTeacher, R2, G1, SubA, 1, 9, 11)
LabB     == Block(NoTeacher, R2, G1, SubB, 1, 10, 11)
Other    == Later(Block(T1, R2, G2, WholeGroup, 1, 8, 9), 30)
Tuesday  == Block(T1, R1, G1, WholeGroup, 2, 8, 10)
Empty    == Block(T1, R1, G1, WholeGroup, 2, 8, 8)
MCBlocks == {Lecture, LabA, LabB, Other, Tuesday, Empty}

\* A single block; two that fit by the minute; two that collide.
MCBatches == {<<Lecture>>, <<LabA, Other>>, <<LabA, LabB>>}
Symmetry == Permutations(Requests)
=============================================================================
