------------------------------ MODULE MCCatalog ------------------------------
(* Instances of CatalogHistory for TLC. *)
EXTENDS CatalogHistory, TLC

CONSTANTS r1, r2, r3, g1, g2, g3, s, b1, b2, c1, c2, one, One, two, three, t1

MCKeyOf == [n \in Names |-> IF n = One THEN one ELSE n]
Row(kind, name, of) == [kind |-> kind, name |-> name, of |-> of]
Group(name, of) == Row("group", name, of)
Update(e, v) == [kind |-> "update", row |-> e, new |-> v]
Create(v) == [kind |-> "create", row |-> NoRow, new |-> v]
Delete(e) == [kind |-> "delete", row |-> e]

\* Requests are interchangeable: of the assignments of operations that differ by
\* a permutation of the requests there is one; at most n ask for the first.
Assignments(ops, n) ==
  {[r \in Requests |-> ops[f[r]]] :
     f \in {g \in [Requests -> DOMAIN ops] : g[r1] <= g[r2] /\ g[r2] <= g[r3] /\ Cardinality({r \in Requests : g[r] = 1}) <= n}}
ScenariosOf(rows, bs, ops, n) ==
  {[row |-> [e \in Entries |-> IF e \in DOMAIN rows THEN rows[e] ELSE NoRow],
    blocks |-> bs, operations |-> a] : a \in Assignments(ops, n)}

\* Three groups, perhaps one below the other, are moved below each other.
Forest(p) == (g1 :> Group(one, p)) @@ (g2 :> Group(two, NoRow)) @@ (g3 :> Group(three, NoRow))
MoveScenarios ==
  UNION {ScenariosOf(Forest(p), {},
     <<Update(g1, Group(one, g2)), Update(g2, Group(two, g3)), Update(g3, Group(three, g1)),
       Update(g2, Group(two, g1)), Update(g1, Group(one, NoRow)), Delete(g2),
       Create(Group(two, g3))>>, 3) : p \in {NoRow, g2}}

\* Group one with its subgroup two, a subject, two buildings with a room "one" each.
Line(room, sub) == [subject |-> one, building |-> two, room |-> room, group |-> one, sub |-> sub, time |-> t1]
Block(room, sub) == [id |-> <<NoRow, room, t1>>, by |-> NoRow, subject |-> s, room |-> room, group |-> g1, sub |-> sub, time |-> t1]
School == (g1 :> Group(one, NoRow)) @@ (g2 :> Group(two, g1)) @@ (s :> Row("subject", one, NoRow))
            @@ (b1 :> Row("building", one, NoRow)) @@ (b2 :> Row("building", two, NoRow))
            @@ (c1 :> Row("classroom", one, b1)) @@ (c2 :> Row("classroom", one, b2))
File == {Line(one, two), Line(three, Whole)}
UploadScenarios ==
  ScenariosOf(School, {Block(c1, two)},
     <<[kind |-> "upload", file |-> File],
       Delete(g2), Update(g2, Group(three, g1)), Create(Group(two, g1)), Delete(b2)>>, 2)
  \cup
  ScenariosOf(School, {Block(c1, Whole)},
     <<[kind |-> "upload", file |-> {Line(One, two)}],
       Delete(c2), Update(c1, Row("classroom", one, b2)), Update(b1, Row("building", three, NoRow)),
       Update(s, Row("subject", three, NoRow)), Create(Row("classroom", one, NoRow))>>, 1)

\* Blocks written by hand: two that refer to each other's place, one of them over
\* what is there; a block given another text.  No two requests are the same.
Slot1(room, sub, overwrite) ==
  [subject |-> s, room |-> room, group |-> g1, sub |-> sub, time |-> t1, overwrite |-> overwrite]
HandScenarios ==
  {h \in ScenariosOf(School, {Block(c1, two)},
     <<[kind |-> "upload", file |-> {Line(one, two)}],
       [kind |-> "createSlots", slots |-> <<Slot1(c1, three, TRUE), Slot1(c2, two, FALSE)>>],
       [kind |-> "createSlots", slots |-> <<Slot1(c2, two, FALSE), Slot1(c2, one, TRUE)>>],
       [kind |-> "updateSlot", id |-> <<NoRow, c1, t1>>, fields |-> {"room"}, slot |-> Slot1(c2, one, FALSE)],
       [kind |-> "updateSlot", id |-> <<NoRow, c1, t1>>, fields |-> {"time"}, slot |-> Slot1(c2, one, FALSE)],
       Delete(g2)>>, 1) :
     \A r, q \in Requests : r # q => h.operations[r] # h.operations[q]}

MCScenarios == MoveScenarios \cup UploadScenarios \cup HandScenarios
=============================================================================
