------------------------------ MODULE Accounts ------------------------------
(***************************************************************************)
(* Who has an account, with which role: registration by e-mailed code,       *)
(* the teacher catalog that decides between students and teachers, the       *)
(* administrators, the allowed domains, and the current school year.         *)
(*                                                                          *)
(* Every statement commits on its own and the statements of different        *)
(* requests interleave.  A request is one mutation; it has its operation     *)
(* from the start and is served once, only a mistyped code may be sent       *)
(* again.  A row is named by the request that inserted it.                   *)
(*                                                                          *)
(* Passwords and sessions are in Credentials.  Employee numbers and names,   *)
(* the texts of the mails and the dates of a school year are left out: a     *)
(* request refused because of them ends as any failing statement does.       *)
(***************************************************************************)
EXTENDS Integers, FiniteSets

CONSTANTS
  Requests,   \* the mutations
  Emails,     \* addresses, normalized
  Names,      \* user names, normalized
  Domains,    \* what follows the @
  DomainOf,   \* the domain of each address
  Listings,   \* rows of the teacher catalog at the start
  Codes,      \* registrations pending at the start
  Scenarios,  \* what there may be at the start, and the operations then served
  NoEmail, NoName, NoAccount,
  NoRow       \* no such row

Ids == Requests \cup Listings \cup Codes
Roles == {"STUDENT", "TEACHER", "ADMIN_HORARIOS", "SUPER_ADMIN"}
Kinds == {"register", "verify", "listTeacher", "updateTeacher", "deleteTeacher", "createAdmin",
          "toggleAdmin", "toggleApp", "createDomain", "removeDomain", "setYear"}

\* What a request asks for: an address, a name, a row or domain, and a flag (the
\* code is right; access is given).
Operations ==
  {op \in [kind : Kinds, email : Emails \cup {NoEmail}, name : Names \cup {NoName},
           on : BOOLEAN, row : Ids \cup Domains \cup {NoRow}] :
     /\ op.kind \in {"register", "createAdmin", "toggleAdmin", "toggleApp"} => op.email \in Emails
     /\ op.kind = "register" => op.name \in Names
     /\ op.kind \in {"verify", "updateTeacher", "deleteTeacher"} => op.row \in Ids
     /\ op.kind \in {"createDomain", "removeDomain"} => op.row \in Domains}

ASSUME DomainOfAssumption == DomainOf \in [Emails -> Domains]
AccountRows == [role : Roles, active : BOOLEAN, name : Names]
PendingRows == [email : Emails, name : Names, attempts : Nat, expired : BOOLEAN]

\* A scenario is consistent: names and addresses are unique, app users have the
\* teacher's role exactly if they are listed, active accounts an allowed domain.
Consistent(s) ==
  LET has(e) == s.account[e] # NoAccount
  IN  /\ s.account \in [Emails -> AccountRows \cup {NoAccount}]
      /\ s.teacher \in [Listings -> Emails \cup {NoEmail}]
      /\ s.allowed \subseteq Domains
      /\ s.pending \in [Codes -> [email : Emails, name : Names]]
      /\ s.operations \subseteq Operations
      /\ \A e, f \in Emails : has(e) /\ has(f) /\ s.account[e].name = s.account[f].name => e = f
      /\ \A t, u \in Listings : s.teacher[t] = s.teacher[u] /\ s.teacher[t] # NoEmail => t = u
      /\ \A p, q \in Codes : s.pending[p].email = s.pending[q].email => p = q
      /\ \A e \in Emails : has(e) =>
           /\ s.account[e].role \in {"STUDENT", "TEACHER"} =>
                (s.account[e].role = "TEACHER" <=> \E t \in Listings : s.teacher[t] = e)
           /\ s.account[e].active => DomainOf[e] \in s.allowed
ASSUME ScenariosAssumption == \A s \in Scenarios : Consistent(s)
ASSUME NothingAssumption ==
  /\ NoEmail \notin Emails /\ NoName \notin Names
  /\ NoRow \notin Ids \cup Domains \cup Emails \cup {NoEmail} \cup PendingRows /\ NoAccount \notin AccountRows
ASSUME IdsAreDistinct ==
  Requests \cap (Listings \cup Codes) = {} /\ Listings \cap Codes = {} /\ Ids \cap Domains = {}

VARIABLES
  account,  \* users: the account of each address
  teacher,  \* teachers: the address of each row, NoRow when there is none
  domain,   \* allowed_domains: the row of each domain
  pending,  \* pending_registrations
  years,    \* school_years: its rows
  job       \* progress of each request

db == <<account, teacher, domain, pending, years>>
vars == <<db, job>>
-----------------------------------------------------------------------------
HasAccount(e) == account[e] # NoAccount
NameTaken(n) == \E e \in Emails : HasAccount(e) /\ account[e].name = n
Listed(e) == \E t \in Ids : teacher[t] = e
Allowed(e) == domain[DomainOf[e]] # NoRow
ActiveIn(d) == {e \in Emails : DomainOf[e] = d /\ HasAccount(e) /\ account[e].active}
PendingOf(e) == {p \in Ids : pending[p] # NoRow /\ pending[p].email = e}

\* The first statement of each operation, after the tests that need no database.
First(op) ==
  CASE op.kind = "register" -> "register.name"
    [] op.kind = "verify" -> "verify.find"
    [] op.kind = "listTeacher" -> IF op.email = NoEmail THEN "list.insert" ELSE "list.domain"
    [] op.kind = "updateTeacher" -> "update.read"
    [] op.kind = "deleteTeacher" -> "delete.read"
    [] op.kind = "createAdmin" -> "admin.domain"
    [] op.kind \in {"toggleAdmin", "toggleApp"} -> "toggle.read"
    [] op.kind = "createDomain" -> "allow.find"
    [] op.kind = "removeDomain" -> "forbid.find"
    [] OTHER -> "year.find"

\* A request: its next statement, the address and name at hand, the role read,
\* the row it works on, and the address a teacher had before.
Arrived(op) == [op |-> op, pc |-> First(op), email |-> op.email, name |-> op.name,
                role |-> "STUDENT", row |-> op.row, old |-> NoEmail]
InService(r) == job[r].pc \notin {"done", First(job[r].op)}

Goto(r, pc) == job' = [job EXCEPT ![r].pc = pc]
Check(r, pc, test, next) ==
  /\ job[r].pc = pc
  /\ Goto(r, IF test THEN next ELSE "done")
  /\ UNCHANGED db
-----------------------------------------------------------------------------
\* Register.  The name of a listed teacher is looked up, but no decision is made of it.
NameIsFree(r) == Check(r, "register.name", ~NameTaken(job[r].name), "register.domain")
DomainIsAllowed(r) == Check(r, "register.domain", Allowed(job[r].email), "register.email")
EmailIsFree(r) == Check(r, "register.email", ~HasAccount(job[r].email), "register.delete")

\* The upsert: a DELETE and an INSERT.  A mail that is not sent is only logged.
\* (mutated form: earlier registrations stay)
KeepPending(r) ==
  /\ job[r].pc = "register.delete"
  /\ Goto(r, "register.insert")
  /\ UNCHANGED db
DeletePending(r) ==
  /\ job[r].pc = "register.delete"
  /\ pending' = [p \in Ids |-> IF p \in PendingOf(job[r].email) THEN NoRow ELSE pending[p]]
  /\ Goto(r, "register.insert")
  /\ UNCHANGED <<account, teacher, domain, years>>

InsertPending(r) ==
  /\ job[r].pc = "register.insert"
  /\ pending' = [pending EXCEPT ![r] = [email |-> job[r].email, name |-> job[r].name,
                                        attempts |-> 0, expired |-> FALSE]]
  /\ Goto(r, "done")
  /\ UNCHANGED <<account, teacher, domain, years>>

Register(r) ==
  NameIsFree(r) \/ DomainIsAllowed(r) \/ EmailIsFree(r) \/ DeletePending(r) \/ InsertPending(r)
-----------------------------------------------------------------------------
\* VerifyEmail.  The code is compared with the row read here.
FindPending(r) ==
  LET p == pending[job[r].row]
  IN  /\ job[r].pc = "verify.find"
      /\ job' = [job EXCEPT ![r] =
           IF p = NoRow THEN [@ EXCEPT !.pc = "done"]
           ELSE [@ EXCEPT !.email = p.email, !.name = p.name,
                          !.pc = IF p.expired THEN "verify.delete"
                                 ELSE IF job[r].op.on THEN "verify.role" ELSE "verify.count"]]
      /\ UNCHANGED db

\* UPDATE ... SET attempts = attempts + 1 ... RETURNING, an error if the row is
\* gone; the fifth wrong code deletes it, another may be tried.
\* (mutated form: the fifth is let through)
SixAttempts(n) == n >= 6
TooManyAttempts(n) == n >= 5
CountAttempt(r) ==
  LET p == job[r].row
  IN  /\ job[r].pc = "verify.count"
      /\ pending' = IF pending[p] = NoRow THEN pending
                    ELSE [pending EXCEPT ![p].attempts = @ + 1]
      /\ Goto(r, IF pending[p] # NoRow /\ TooManyAttempts(pending'[p].attempts)
                 THEN "verify.delete" ELSE "verify.find")
      /\ UNCHANGED <<account, teacher, domain, years>>

DeleteVerified(r) ==
  /\ job[r].pc = "verify.delete"
  /\ pending' = [pending EXCEPT ![job[r].row] = NoRow]
  /\ Goto(r, "done")
  /\ UNCHANGED <<account, teacher, domain, years>>

\* (mutated form: everybody is a student)
DecideStudent(r) ==
  /\ job[r].pc = "verify.role"
  /\ Goto(r, "verify.create")
  /\ UNCHANGED db
DecideRole(r) ==
  /\ job[r].pc = "verify.role"
  /\ job' = [job EXCEPT ![r].pc = "verify.create",
                        ![r].role = IF Listed(job[r].email) THEN "TEACHER" ELSE "STUDENT"]
  /\ UNCHANGED db

\* users.email and lower(users.username) are UNIQUE: the INSERT fails on either.
InsertAccount(r, pc, role, next) ==
  LET clash == HasAccount(job[r].email) \/ NameTaken(job[r].name)
  IN  /\ job[r].pc = pc
      /\ account' = IF clash THEN account
           ELSE [account EXCEPT ![job[r].email] =
                   [role |-> role, active |-> TRUE, name |-> job[r].name]]
      /\ Goto(r, IF clash THEN "done" ELSE next)
      /\ UNCHANGED <<teacher, domain, pending, years>>
CreateUserWithRole(r) == InsertAccount(r, "verify.create", job[r].role, "verify.delete")

\* Ten minutes have passed.
Expire(p) ==
  /\ pending[p] # NoRow /\ ~pending[p].expired
  /\ pending' = [pending EXCEPT ![p].expired = TRUE]
  /\ UNCHANGED <<account, teacher, domain, years, job>>

VerifyEmail(r) ==
  FindPending(r) \/ CountAttempt(r) \/ DeleteVerified(r) \/ DecideRole(r) \/ CreateUserWithRole(r)
-----------------------------------------------------------------------------
\* The teacher catalog.  An address belongs to an allowed domain and to one row.
TeacherDomain(r, pc, next) ==
  Check(r, pc, job[r].email = NoEmail \/ Allowed(job[r].email), next)
NobodyElseListed(r, pc, next) ==
  Check(r, pc, \A t \in Ids : job[r].email # NoEmail /\ teacher[t] = job[r].email
                                => t = job[r].row, next)

\* teachers_email_unique_idx
WriteTeacher(t, e) ==
  IF e # NoEmail /\ \E s \in Ids \ {t} : teacher[s] = e THEN teacher
  ELSE [teacher EXCEPT ![t] = e]

ListTeacher(r) ==
  \/ TeacherDomain(r, "list.domain", "list.email")
  \/ NobodyElseListed(r, "list.email", "list.insert")
  \/ /\ job[r].pc = "list.insert"
     /\ teacher' = WriteTeacher(r, job[r].email)
     /\ Goto(r, IF teacher'[r] = NoRow THEN "done" ELSE "promote.read")
     /\ UNCHANGED <<account, domain, pending, years>>

\* The row is read, the new address tested, and the row written; then the role
\* of the old address is reconsidered, and that of the new one.
UpdateTeacher(r) ==
  \/ /\ job[r].pc = "update.read"
     /\ job' = [job EXCEPT ![r].old = IF teacher[job[r].row] = NoRow THEN NoEmail
                                      ELSE teacher[job[r].row],
                           ![r].pc = IF teacher[job[r].row] = NoRow THEN "done"
                                     ELSE "update.domain"]
     /\ UNCHANGED db
  \/ TeacherDomain(r, "update.domain", "update.email")
  \/ NobodyElseListed(r, "update.email", "update.write")
  \/ /\ job[r].pc = "update.write"
     /\ teacher' = IF teacher[job[r].row] = NoRow THEN teacher
                   ELSE WriteTeacher(job[r].row, job[r].email)
     /\ Goto(r, IF teacher'[job[r].row] = job[r].email /\ job[r].old # job[r].email
                THEN "demote.listed" ELSE "done")
     /\ UNCHANGED <<account, domain, pending, years>>

\* A teacher with blocks is not deleted: such a request fails.
DeleteTeacher(r) ==
  \/ /\ job[r].pc = "delete.read"
     /\ job' = [job EXCEPT ![r].pc = "delete.row",
                           ![r].old = IF teacher[job[r].row] = NoRow THEN NoEmail
                                      ELSE teacher[job[r].row]]
     /\ UNCHANGED db
  \/ /\ job[r].pc = "delete.row"
     /\ teacher' = [teacher EXCEPT ![job[r].row] = NoRow]
     /\ Goto(r, IF teacher[job[r].row] = NoRow THEN "done" ELSE "demote.listed")
     /\ UNCHANGED <<account, domain, pending, years>>

SetRole(r, pc, e, role, next) ==
  /\ job[r].pc = pc
  /\ account' = [account EXCEPT ![e].role = role]
  /\ Goto(r, next)
  /\ UNCHANGED <<teacher, domain, pending, years>>
HasRole(e, role) == e # NoEmail /\ HasAccount(e) /\ account[e].role = role

\* promote_if_user_exists, and demote_if_orphan with what comes after it.
\* (mutated forms: an administrator is promoted too; nobody is looked for)
PromoteAnyone(r) ==
  \/ Check(r, "promote.read", job[r].email # NoEmail /\ HasAccount(job[r].email), "promote.write")
  \/ SetRole(r, "promote.write", job[r].email, "TEACHER", "done")
PromoteUnread(r) ==
  \/ Check(r, "promote.read", job[r].email # NoEmail, "promote.write")
  \/ SetRole(r, "promote.write", job[r].email, "TEACHER", "done")
PromoteIfUserExists(r) ==
  \/ Check(r, "promote.read", HasRole(job[r].email, "STUDENT"), "promote.write")
  \/ SetRole(r, "promote.write", job[r].email, "TEACHER", "done")
AfterDemotion(r) == IF job[r].op.kind = "updateTeacher" THEN "promote.read" ELSE "done"
DemoteIfOrphan(r) ==
  \/ /\ job[r].pc = "demote.listed"
     /\ Goto(r, IF Listed(job[r].old) THEN AfterDemotion(r) ELSE "demote.read")
     /\ UNCHANGED db
  \/ /\ job[r].pc = "demote.read"
     /\ Goto(r, IF HasRole(job[r].old, "TEACHER") THEN "demote.write" ELSE AfterDemotion(r))
     /\ UNCHANGED db
  \/ SetRole(r, "demote.write", job[r].old, "STUDENT", AfterDemotion(r))
-----------------------------------------------------------------------------
\* Administrators are created by a super administrator, without verification.
\* The name is derived from the address; the first that is not in use is taken.
CreateAdmin(r) ==
  \/ Check(r, "admin.domain", Allowed(job[r].email), "admin.email")
  \/ Check(r, "admin.email", ~HasAccount(job[r].email), "admin.name")
  \/ /\ job[r].pc = "admin.name"
     /\ \E n \in {m \in Names : ~NameTaken(m)} :
          job' = [job EXCEPT ![r].name = n, ![r].pc = "admin.insert"]
     /\ UNCHANGED db
  \/ InsertAccount(r, "admin.insert", "ADMIN_HORARIOS", "done")

\* Access is withdrawn from, or given back to, an administrator or an app user.
Manageable(kind) == IF kind = "toggleAdmin" THEN {"ADMIN_HORARIOS"} ELSE {"STUDENT", "TEACHER"}
ToggleRead(r) ==
  Check(r, "toggle.read",
        /\ HasAccount(job[r].email)
        /\ account[job[r].email].role \in Manageable(job[r].op.kind)
        /\ account[job[r].email].active # job[r].op.on, "toggle.write")
ToggleWrite(r) ==
  /\ job[r].pc = "toggle.write"
  /\ account' = [account EXCEPT ![job[r].email].active = job[r].op.on]
  /\ Goto(r, "done")
  /\ UNCHANGED <<teacher, domain, pending, years>>
-----------------------------------------------------------------------------
CreateDomain(r) ==
  \/ Check(r, "allow.find", domain[job[r].op.row] = NoRow, "allow.insert")
  \/ /\ job[r].pc = "allow.insert"
     /\ domain' = IF domain[job[r].op.row] # NoRow THEN domain
                  ELSE [domain EXCEPT ![job[r].op.row] = r]
     /\ Goto(r, "done")
     /\ UNCHANGED <<account, teacher, pending, years>>

\* Found by its id, tested, and deleted by its id.
\* (mutated form: users are not looked for)
RemoveUsedDomain(r) ==
  LET d == job[r].op.row
  IN  \/ /\ job[r].pc = "forbid.find"
         /\ job' = [job EXCEPT ![r].row = domain[d],
                               ![r].pc = IF domain[d] = NoRow THEN "done" ELSE "forbid.delete"]
         /\ UNCHANGED db
      \/ /\ job[r].pc = "forbid.delete"
         /\ domain' = IF domain[d] = job[r].row THEN [domain EXCEPT ![d] = NoRow] ELSE domain
         /\ Goto(r, "done")
         /\ UNCHANGED <<account, teacher, pending, years>>
RemoveDomain(r) ==
  LET d == job[r].op.row
  IN  \/ /\ job[r].pc = "forbid.find"
         /\ job' = [job EXCEPT ![r].row = domain[d],
                               ![r].pc = IF domain[d] = NoRow THEN "done" ELSE "forbid.users"]
         /\ UNCHANGED db
      \/ Check(r, "forbid.users", ActiveIn(d) = {}, "forbid.delete")
      \/ /\ job[r].pc = "forbid.delete"
         /\ domain' = IF domain[d] = job[r].row THEN [domain EXCEPT ![d] = NoRow] ELSE domain
         /\ Goto(r, "done")
         /\ UNCHANGED <<account, teacher, pending, years>>

\* The current school year is updated, or inserted when there is none yet.
\* (mutated form: always inserted)
InsertYear(r) ==
  \/ Check(r, "year.find", TRUE, "year.insert")
  \/ /\ job[r].pc = "year.insert"
     /\ years' = years \cup {r}
     /\ Goto(r, "done")
     /\ UNCHANGED <<account, teacher, domain, pending>>
SetCurrentYear(r) ==
  \/ /\ job[r].pc = "year.find"
     /\ Goto(r, IF years = {} THEN "year.insert" ELSE "year.update")
     /\ UNCHANGED db
  \/ /\ job[r].pc = "year.insert"
     /\ years' = years \cup {r}
     /\ Goto(r, "done")
     /\ UNCHANGED <<account, teacher, domain, pending>>
  \/ /\ job[r].pc = "year.update"
     /\ Goto(r, "done")
     /\ UNCHANGED db
-----------------------------------------------------------------------------
\* A statement fails, or the server stops.  In a demotion a failure is at most
\* logged and the request goes on; an address whose listing cannot be looked up
\* is demoted as one that is not listed.
Fails(r) ==
  /\ job[r].pc # "done"
  /\ \/ Goto(r, "done")
     \/ job[r].pc = "demote.listed" /\ Goto(r, "demote.read")
     \/ job[r].pc \in {"demote.read", "demote.write"} /\ Goto(r, AfterDemotion(r))
  /\ UNCHANGED db

\* A domain's first row has its name.
Init ==
  \E s \in Scenarios :
    /\ account = s.account
    /\ teacher = [t \in Ids |-> IF t \in Listings THEN s.teacher[t] ELSE NoRow]
    /\ domain = [d \in Domains |-> IF d \in s.allowed THEN d ELSE NoRow]
    /\ pending = [p \in Ids |-> IF p \notin Codes THEN NoRow ELSE
         [email |-> s.pending[p].email, name |-> s.pending[p].name, attempts |-> 0, expired |-> FALSE]]
    /\ years = {}
    /\ job \in [Requests -> {Arrived(op) : op \in s.operations}]

Sync(r) == PromoteIfUserExists(r) \/ DemoteIfOrphan(r)
Catalog(r) == ListTeacher(r) \/ UpdateTeacher(r) \/ DeleteTeacher(r) \/ Sync(r)
Administer(r) ==
  \/ CreateAdmin(r) \/ ToggleRead(r) \/ ToggleWrite(r)
  \/ CreateDomain(r) \/ RemoveDomain(r) \/ SetCurrentYear(r)
Serve(r) == Register(r) \/ VerifyEmail(r) \/ Catalog(r) \/ Administer(r)
Next ==
  \/ \E r \in Requests : Serve(r) \/ Fails(r)
  \/ \E p \in Ids : Expire(p)
Spec == Init /\ [][Next]_vars
-----------------------------------------------------------------------------
PCs == {"register.name", "register.domain", "register.email", "register.delete",
  "register.insert", "verify.find", "verify.count", "verify.delete", "verify.role",
  "verify.create", "list.domain", "list.email", "list.insert", "update.read",
  "update.domain", "update.email", "update.write", "delete.read", "delete.row",
  "promote.read", "promote.write", "demote.listed", "demote.read", "demote.write",
  "admin.domain", "admin.email", "admin.name", "admin.insert", "toggle.read",
  "toggle.write", "allow.find", "allow.insert", "forbid.find", "forbid.users",
  "forbid.delete", "year.find", "year.insert", "year.update", "done"}

\* Every row has its type; what is about to be written has an account or an
\* address to be written to.
TypeOK ==
  /\ account \in [Emails -> AccountRows \cup {NoAccount}]
  /\ teacher \in [Ids -> Emails \cup {NoEmail, NoRow}]
  /\ domain \in [Domains -> Requests \cup Domains \cup {NoRow}]
  /\ pending \in [Ids -> PendingRows \cup {NoRow}]
  /\ years \subseteq Requests
  /\ job \in [Requests -> [op : Operations, pc : PCs, email : Emails \cup {NoEmail},
        name : Names \cup {NoName}, role : {"STUDENT", "TEACHER"},
        row : Ids \cup Domains \cup {NoRow}, old : Emails \cup {NoEmail}]]
  /\ \A r \in Requests :
       /\ job[r].pc \in {"promote.write", "toggle.write"} => HasAccount(job[r].email)
       /\ job[r].pc = "demote.write" => HasAccount(job[r].old)
=============================================================================
