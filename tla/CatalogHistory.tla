---------------------------- MODULE CatalogHistory ----------------------------
(***************************************************************************)
(* Catalog with history variables that tell which deviations a race or a     *)
(* failure excuses, and the properties.                                      *)
(***************************************************************************)
EXTENDS Catalog

VARIABLES
  met,     \* the pairs of requests one of which took a step while the other was served
  failed,  \* the requests of which a statement failed
  writer,  \* the request that wrote each entry last
  taken,   \* the subgroups that an update renamed or moved
  stale,   \* of each upload, the entries changed after it read them, as they were then
  lost     \* the uploads that deleted a block

hvars == <<vars, met, failed, writer, taken, stale, lost>>

HInit ==
  /\ Init /\ met = {} /\ failed = {} /\ taken = {} /\ lost = {}
  /\ writer = [e \in Ids |-> NoRow] /\ stale = [r \in Requests |-> {}]
HNext ==
  \/ /\ \E r \in Requests :
          \/ /\ Serve(r) /\ failed' = failed
             /\ writer' = [e \in Ids |-> IF row'[e] # row[e] THEN r ELSE writer[e]]
             /\ taken' = taken \cup {row[e] : e \in {f \in Ids :
                            job[r].pc = "write" /\ Exists(f) /\ row'[f] # row[f]}}
             /\ stale' = [q \in Requests |-> stale[q] \cup
                            {<<e, row[e]>> : e \in {f \in Ids : job[q].index[f] # NoRow /\ row'[f] # row[f]}}]
             /\ lost' = lost \cup {q \in {r} : job[r].op.kind = "upload" /\ blocks \ blocks' # {}}
             /\ met' = met \cup {{r, q} : q \in {p \in Requests \ {r} : InService(p)}}
          \/ /\ Fails(r) /\ failed' = failed \cup {r}
             /\ UNCHANGED <<met, writer, taken, stale, lost>>
  \/ /\ \E b \in blocks : Remove(b)
     /\ UNCHANGED <<met, failed, writer, taken, stale, lost>>
HSpec == HInit /\ [][HNext]_hvars

\* As long as a request is served, some statement is answered.
FairSpec == HSpec /\ WF_vars(\E r \in Requests : Serve(r))
-----------------------------------------------------------------------------
Met(r, q) == {r, q} \in met

\* Groups are each other's ancestors only if two of the updates that made them
\* so overlapped (group_service.rs: "Un grupo no puede ser su propio subgrupo").
NoCycleUnlessRaced ==
  \A C \in (SUBSET {e \in Ids : Exists(e) /\ row[e].of # NoRow}) \ {{}} :
    C = {row[e].of : e \in C} => \E e, f \in C : e # f /\ Met(writer[e], writer[f])

\* Every request is answered: the walk up the ancestors ends although a cycle
\* may be there, or be made while it goes on.
Answered == \A r \in Requests : <>(job[r].pc = "done")

\* A block of a subgroup that a file gave has its subgroup, unless that very
\* subgroup was renamed or moved by an update, or deleted after the upload had read
\* it (001_init.sql: "impedir eliminar un grupo o subgrupo con horarios asociados").
\* Nothing is said of a block last written by hand, whose subgroup is any text.
SubgroupsOfBlocksExist ==
  \A b \in blocks : b.sub # Whole /\ (b.by # NoRow => job[b.by].op.kind = "upload") =>
    LET subgroup == [kind |-> "group", name |-> b.sub, of |-> b.group]
    IN  \/ Like(subgroup) # {} \/ subgroup \in taken
        \/ b.by # NoRow /\ \E e \in Ids : <<e, subgroup>> \in stale[b.by]

\* What an upload inserts has the names the file gives, the room in the building
\* and the subgroup in the group that it names, unless the subject, the room, its
\* building or the group it refers to was changed after the upload had read it.
Stale(r) == {c[1] : c \in stale[r]}
Says(line, b) ==
  /\ KeyOf[row[b.subject].name] = KeyOf[line.subject]
  /\ KeyOf[row[b.room].name] = KeyOf[line.room]
  /\ KeyOf[row[row[b.room].of].name] = KeyOf[line.building]
  /\ KeyOf[row[b.group].name] = KeyOf[line.group] /\ row[b.group].of = NoRow
  /\ IF line.sub = Whole THEN b.sub = Whole ELSE b.sub # Whole /\ KeyOf[b.sub] = KeyOf[line.sub]
  /\ b.time = line.time
ResolvedAsNamed ==
  [][\A b \in blocks' \ blocks : job[b.by].op.kind = "upload" =>
       \/ \E line \in job[b.by].op.file : Says(line, b)
       \/ {b.subject, b.room, row[b.room].of, b.group} \cap Stale(b.by) # {}]_hvars

\* An upload that has deleted blocks to make room inserts its own before it is over,
\* unless one of the entries these refer to was deleted after the upload had read
\* it, or a statement of the upload failed.
NothingLostForNothing ==
  [][\A r \in lost : job[r].pc # "done" /\ job'[r].pc = "done" =>
       \/ job[r].new \subseteq blocks' \/ r \in failed'
       \/ \E b \in job[r].new : \E e \in {b.subject, b.room, b.group} : ~Exists(e) /\ e \in Stale(r)]_hvars
=============================================================================
