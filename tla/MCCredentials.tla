---------------------------- MODULE MCCredentials ----------------------------
(* Instances of CredentialsHistory for TLC. *)
EXTENDS CredentialsHistory, TLC

CONSTANTS p1, p2, student, teacher, admin, c0

User(failures) == [password |-> p1, temp |-> FALSE, failed |-> failures, lockout |-> 0,
                 active |-> TRUE, role |-> student, invalidBefore |-> 0]
Op(kind) == [kind |-> kind, password |-> p1, web |-> FALSE, on |-> FALSE, role |-> student, row |-> c0]
Scenario(failures, ops) ==
  [user |-> User(failures), tokens |-> {[iat |-> 0, scope |-> "session"]}, operations |-> ops]

LoginWork == {Op("login"), [Op("login") EXCEPT !.password = p2], [Op("change") EXCEPT !.password = p1]}
ResetWork == {Op("ask"), Op("guess"), [Op("guess") EXCEPT !.on = TRUE],
  [Op("complete") EXCEPT !.password = p2], Op("complete"), Op("login"), Op("refresh")}
SessionWork == {Op("query"), Op("toggle"), [Op("toggle") EXCEPT !.on = TRUE],
  [Op("role") EXCEPT !.role = teacher], Op("force"), [Op("login") EXCEPT !.password = Temporary]}
MCScenarios == {Scenario(1, LoginWork), Scenario(2, LoginWork), Scenario(0, ResetWork), Scenario(0, SessionWork)}
\* The password is reset, the user signs in again, and calls go on with both tokens.
RevokedScenarios ==
  {Scenario(0, {Op("query"), Op("force"), [Op("login") EXCEPT !.password = Temporary]})}
Symmetry == Permutations(Requests)
=============================================================================
