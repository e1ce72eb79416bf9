------------------------------ MODULE MCRealtime ------------------------------
(* Instances of RealtimeHistory for TLC. *)
EXTENDS RealtimeHistory

CONSTANTS a, b

Page(scopes, watches, insists) == [scopes |-> scopes, watches |-> watches, insists |-> insists]

\* The classrooms, loaded at every announcement of them or of the buildings; the
\* users, refreshed at those of the allowed domains too; and the groups and the
\* timetable, whose queries are about several scopes.
MCPages == {Page({a}, {a, b}, FALSE), Page({a}, {a, b}, TRUE), Page({a, b}, {a, b}, TRUE)}
MCChanges == {{a}, {b}, {a, b}}
=============================================================================
