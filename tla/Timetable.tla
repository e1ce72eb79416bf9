------------------------------ MODULE Timetable ------------------------------
(***************************************************************************)
(* What the schedule service promises of the timetable, with every request  *)
(* a single step: a submission is entered as a whole or not at all, a block  *)
(* is moved only to where it fits, and nothing ever shares a minute it may  *)
(* not share.                                                               *)
(*                                                                          *)
(* ScheduleRaces implements this module as long as no race is met (see       *)
(* ScheduleRaces!AtomicUnlessRaced).                                        *)
(***************************************************************************)
EXTENDS Sequences

CONSTANTS
  Ids,        \* the ids a row can have
  Blocks,     \* the blocks that can be entered
  Batches,    \* the submissions: sequences of blocks
  Colliding,  \* the pairs of blocks that are in each other's way
  NoBlock     \* no row

VARIABLE slot  \* the block of each row

Taken == {id \in Ids : slot[id] # NoBlock}
Fits ==
  \A s, t \in Taken : s # t => <<slot[s], slot[t]>> \notin Colliding

TInit == slot = [id \in Ids |-> NoBlock]

\* Every block of a submission is entered in a free row; all other rows stay.
Enter(batch, row) ==
  /\ \A k \in DOMAIN batch : batch[k] \in Blocks
  /\ \A j, k \in DOMAIN batch : j # k => row[j] # row[k]
  /\ \A k \in DOMAIN batch : slot'[row[k]] = batch[k]
  /\ \A id \in Ids \ {row[k] : k \in DOMAIN batch} : slot'[id] = slot[id]
  /\ Fits'

Move(id, block) ==
  /\ slot' = [slot EXCEPT ![id] = block]
  /\ Fits'

Remove(id) == slot' = [slot EXCEPT ![id] = NoBlock]

TNext ==
  \/ \E batch \in Batches : \E row \in [DOMAIN batch -> Ids \ Taken] : Enter(batch, row)
  \/ \E id \in Taken, block \in Blocks : Move(id, block)
  \/ \E id \in Taken : Remove(id)
TSpec == TInit /\ [][TNext]_slot
=============================================================================
