---------------------------- MODULE ScheduleRaces ----------------------------
(***************************************************************************)
(* Schedule with history variables that tell how two blocks came to collide: *)
(* what was written while a request was under way, which rows were therefore *)
(* never compared, and which were compared by the minute only.               *)
(***************************************************************************)
EXTENDS Schedule

VARIABLES
  since,    \* the rows written since each request arrived, while it is served
  met,      \* the pairs of rows the later of which was checked before the other was there
  together \* the pairs of rows entered by one INSERT and not changed since

rvars == <<vars, since, met, together>>

\* The rows changed in this step, those written, and those written while its
\* request was served.
Changed == {id \in Ids : slot'[id] # slot[id]}
Written == {id \in Changed : slot'[id] # NoBlock}
Unseen == UNION {since[r] : r \in {q \in Requests : job'[q] # job[q]}}

RInit == Init /\ since = [r \in Requests |-> {}] /\ met = {} /\ together = {}
RNext ==
  /\ Next
  /\ since' = [r \in Requests |-> IF job'[r].pc = "checking" THEN since[r] \cup Written ELSE {}]
  /\ met' = {p \in met : p \cap Written = {}} \cup {{i, j} : i \in Written, j \in Unseen}
  /\ together' = {p \in together : p \cap Changed = {}}
                   \cup UNION {{{i, j} : j \in Written \ {i}} : i \in Written}
RSpec == RInit /\ [][RNext]_rvars
-----------------------------------------------------------------------------
\* Rows of one submission that share no more than part of a minute: they collide
\* for SQL, but not for the service.
ShareSeconds(s, t) == {s, t} \in together /\ CompatiblePair(slot[s], slot[t])

\* Two rows collide only if one was written while the request that wrote the
\* other was already under way, or if a single submission entered both and they
\* share no more than part of a minute.  No other sequence of inserts, updates,
\* overwrites, removals and failures leaves a collision behind.
CollisionsOnlyFromRaces ==
  \A s, t \in Ids :
    s # t /\ slot[s] # NoBlock /\ slot[t] # NoBlock /\ Collide(slot[s], slot[t])
      => {s, t} \in met \/ ShareSeconds(s, t)

\* A request deletes only rows that collide with a block of its own for which
\* overwriting was asked, or that were written after the request arrived (the
\* row is found by one statement and deleted by another, by its id).
OverwriteDeletesClashes ==
  [][\A r \in Requests, id \in Ids :
       job'[r] # job[r] /\ slot[id] # NoBlock /\ slot'[id] = NoBlock =>
         \E k \in job[r].over : id \in since[r] \/ Collide(slot[id], job[r].batch[k])]_rvars

\* The service implements the atomic timetable until a request writes a row that
\* another one, under way, has not compared: every row holds a block of positive
\* length, no two rows share a minute they may not share, and each step enters a
\* whole submission in free rows, moves one row, removes one row, or leaves the
\* rows alone.
Atomic == INSTANCE Timetable WITH
  Blocks <- {b \in Blocks : Valid(b)},
  Colliding <- {p \in Blocks \X Blocks : ~CompatiblePair(p[1], p[2])}
AtomicUnlessRaced == Atomic!TInit /\ [][met' = {} => Atomic!TNext \/ UNCHANGED slot]_rvars
=============================================================================
