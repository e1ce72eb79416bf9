------------------------------ MODULE MCAccounts ------------------------------
(* Instances of AccountsHistory for TLC. *)
EXTENDS AccountsHistory, TLC

CONSTANTS ana, luis, eva, n1, n2, n3, uni, ext, t0, c0

Op(kind, email, name, row, on) ==
  [kind |-> kind, email |-> email, name |-> name, row |-> row, on |-> on]
MCDomainOf == [e \in Emails |-> IF e = eva THEN ext ELSE uni]

\* Ana is registering; Luis uses the app; Eva administers, or did, or used the
\* app from another domain.
Account(role, active, name) == [role |-> role, active |-> active, name |-> name]
Admin == Account("ADMIN_HORARIOS", TRUE, n2)
Evas == {Admin, Account("ADMIN_HORARIOS", FALSE, n2), Account("STUDENT", FALSE, n2)}
Scenario(evas, roles, listed, allowed, ops) ==
  {s \in [account : {[e \in Emails |-> CASE e = ana -> NoAccount [] e = luis -> Account(role, TRUE, n1)
                                        [] e = eva -> v] : role \in roles, v \in evas},
          teacher : [Listings -> listed], allowed : allowed,
          pending : {[p \in Codes |-> [email |-> ana, name |-> n3]]}, operations : {ops}] :
     Consistent(s)}

Verify(p, right) == Op("verify", NoEmail, NoName, p, right)
Listing(kind, e, t) == Op(kind, e, NoName, t, FALSE)
AboutDomain(kind) == Op(kind, NoEmail, NoName, ext, FALSE)
Access(kind, on) == Op(kind, eva, NoName, NoRow, on)

RoleWork == {Verify(c0, TRUE), Listing("listTeacher", ana, NoRow), Listing("listTeacher", luis, NoRow),
  Listing("updateTeacher", luis, t0), Listing("updateTeacher", ana, t0),
  Listing("updateTeacher", NoEmail, t0), Listing("deleteTeacher", NoEmail, t0),
  Listing("listTeacher", eva, NoRow)}
\* The teacher listed by one request is moved or deleted by another.
NewRowWork == {Verify(c0, TRUE), Listing("listTeacher", ana, NoRow)}
  \cup {Listing("updateTeacher", luis, r) : r \in Requests}
  \cup {Listing("deleteTeacher", NoEmail, r) : r \in Requests}
CodeWork == {Verify(c0, FALSE), Verify(c0, TRUE),
  Op("register", ana, n3, NoRow, FALSE)}
AdminWork == {AboutDomain("removeDomain"), AboutDomain("createDomain"),
  Access("toggleAdmin", TRUE), Access("toggleAdmin", FALSE), Access("toggleApp", TRUE),
  Op("createAdmin", ana, NoName, NoRow, FALSE), Op("createAdmin", eva, NoName, NoRow, FALSE)}
YearWork == {Op("setYear", NoEmail, NoName, NoRow, FALSE)}
MCScenarios ==
  LET both == {{uni, ext}}
  IN  Scenario({Admin}, {"STUDENT", "TEACHER"}, {luis, NoEmail, ana}, both, RoleWork)
        \cup Scenario({Admin}, {"STUDENT"}, {NoEmail}, both, NewRowWork)
        \cup Scenario({Admin}, {"STUDENT"}, {NoEmail}, both, CodeWork)
        \cup Scenario(Evas, {"STUDENT"}, {NoEmail}, {{uni, ext}, {uni}}, AdminWork)
        \cup Scenario({Admin}, {"STUDENT"}, {NoEmail}, both, YearWork)
Symmetry == Permutations(Requests)
=============================================================================
