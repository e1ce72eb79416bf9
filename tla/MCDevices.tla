------------------------------ MODULE MCDevices ------------------------------
(* Instances of DevicesHistory for TLC. *)
EXTENDS DevicesHistory, Sequences, FiniteSets

CONSTANTS r1, r2, r3, ana, luis, phone, tablet

Op(kind, user, token) == [kind |-> kind, user |-> user, token |-> token]
Notice(user) == [kind |-> "notify", user |-> user]

\* Requests are interchangeable: of the assignments of operations that differ by
\* a permutation of the requests there is one; at most n ask for the first.
Assignments(ops, n) ==
  {[r \in Requests |-> ops[f[r]]] :
     f \in {g \in [Requests -> DOMAIN ops] : g[r1] <= g[r2] /\ g[r2] <= g[r3] /\ Cardinality({r \in Requests : g[r] = 1}) <= n}}
ScenariosOf(devices, ops, n) ==
  {[device |-> d, operations |-> a] : d \in devices, a \in Assignments(ops, n)}

\* A device changes hands; a notice goes to two devices; two notices go to one.
Changes == <<Op("register", ana, phone), Op("register", luis, phone), Op("unregister", luis, phone)>>
MCScenarios ==
  ScenariosOf({{<<luis, phone>>}}, Changes, 3)
    \cup ScenariosOf({{<<luis, phone>>, <<luis, tablet>>}},
           <<Notice(luis), Op("register", ana, phone), Op("unregister", luis, tablet)>>, 1)
    \cup ScenariosOf({{<<luis, phone>>}}, <<Notice(luis), Op("unregister", luis, phone)>>, 2)
=============================================================================
