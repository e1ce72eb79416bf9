--------------------------- MODULE Accounts_proofs ---------------------------
(***************************************************************************)
(* Type correctness; no administrator's role is touched; one registration    *)
(* per address and one school year unless requests overlapped; no domain is  *)
(* removed from under an account that was active all along; wrong codes are  *)
(* bounded; roles follow the catalog unless requests overlapped or failed:   *)
(* for any requests, addresses, domains and scenarios.                       *)
(***************************************************************************)
EXTENDS AccountsHistory, FiniteSetTheorems, TLAPS

AppRoles == {"STUDENT", "TEACHER"}
AppUser(e) == e \in Emails /\ HasAccount(e) /\ account[e].role \in AppRoles

Jobs == [op : Operations, pc : PCs, email : Emails \cup {NoEmail}, name : Names \cup {NoName},
         role : AppRoles, row : Ids \cup Domains \cup {NoRow}, old : Emails \cup {NoEmail}]
Tables ==
  /\ account \in [Emails -> AccountRows \cup {NoAccount}]
  /\ teacher \in [Ids -> Emails \cup {NoEmail, NoRow}]
  /\ domain \in [Domains -> Requests \cup Domains \cup {NoRow}]
  /\ pending \in [Ids -> PendingRows \cup {NoRow}]
  /\ years \subseteq Requests
Typed == Tables /\ job \in [Requests -> Jobs]

\* What a request has in its hands before the statements that need it.
Registering == {"register.name", "register.domain", "register.email", "register.delete",
                "register.insert"}
WithRow == {"verify.find", "verify.count", "update.read", "delete.read"}
WithName == {"verify.role", "verify.create", "admin.insert"}
Toggling == {"toggle.read", "toggle.write"}
Prepared(r) ==
  /\ job[r].pc \in Registering => job[r].email \in Emails /\ job[r].name \in Names
  /\ job[r].pc \in WithRow => job[r].row \in Ids
  /\ job[r].pc \in WithName => job[r].name \in Names
  /\ job[r].pc \in Toggling => job[r].email \in Emails
  /\ job[r].pc = "forbid.find" => job[r].op.row \in Domains
  /\ job[r].pc = "toggle.write" => HasAccount(job[r].email)
  /\ job[r].pc = "promote.write" => AppUser(job[r].email)
  /\ job[r].pc = "demote.write" => AppUser(job[r].old)
IInv == Typed /\ \A r \in Requests : Prepared(r)

\* The statements that nothing has to be ready for.
Quiet == PCs \ (Registering \cup WithRow \cup WithName \cup Toggling \cup
  {"forbid.find", "forbid.delete", "promote.write", "demote.write", "year.insert"})
-----------------------------------------------------------------------------
\* What a step of a request does: the others and its operation stay, no account
\* goes, none but an app user's role changes, and what is next is prepared.
Alone(r) ==
  /\ job' \in [Requests -> Jobs]
  /\ job'[r].op = job[r].op
  /\ \A q \in Requests \ {r} : job'[q] = job[q]
Kept ==
  \A e \in Emails : HasAccount(e) =>
    /\ HasAccount(e)'
    /\ AppUser(e) => AppUser(e)'
    /\ ~AppUser(e) => account'[e].role = account[e].role
Entered(r) ==
  /\ job'[r].pc = "register.insert" => DeletePending(r) /\ job'[r].email = job[r].email
  /\ job'[r].pc = "year.insert" => years = {} /\ years' = {}
  /\ job'[r].pc = "forbid.delete" => ActiveIn(job[r].op.row) = {} /\ account' = account
Served(r) == Alone(r) /\ Tables' /\ Kept /\ Prepared(r)' /\ Entered(r)

\* A step that changes nothing of a request but its next statement.
Sent(r, pc) ==
  /\ Alone(r) /\ job'[r].pc = pc
  /\ job'[r].email = job[r].email /\ job'[r].name = job[r].name
  /\ job'[r].row = job[r].row /\ job'[r].old = job[r].old

LEMMA Going ==
  ASSUME Typed, NEW r \in Requests, NEW pc \in PCs, Goto(r, pc)
  PROVE  Sent(r, pc)
<1>1. job[r] \in Jobs
  BY DEF Typed
<1>2. job'[r] = [job[r] EXCEPT !.pc = pc]
  BY DEF Goto, Typed
<1>3. job'[r] \in Jobs
  BY <1>1, <1>2 DEF Jobs
<1>4. /\ job'[r].op = job[r].op /\ job'[r].pc = pc /\ job'[r].email = job[r].email
      /\ job'[r].name = job[r].name /\ job'[r].row = job[r].row /\ job'[r].old = job[r].old
  BY <1>1, <1>2 DEF Jobs
<1>. QED
  BY <1>3, <1>4 DEF Goto, Typed, Alone, Sent

LEMMA Reading ==
  ASSUME Tables, account' = account, UNCHANGED db
  PROVE  Tables' /\ Kept
BY DEF Tables, Kept, db, HasAccount, AppUser

LEMMA KeptAccounts ==
  ASSUME account' = account
  PROVE  Kept
BY DEF Kept, HasAccount, AppUser

LEMMA QuietStep ==
  ASSUME NEW r, job'[r].pc \in Quiet
  PROVE  Prepared(r)' /\ Entered(r)
BY DEF Quiet, Prepared, Entered, Registering, WithRow, WithName, Toggling

LEMMA Checking ==
  ASSUME Typed, NEW r \in Requests, NEW pc \in PCs, NEW next \in PCs, NEW test,
         Check(r, pc, test, next)
  PROVE  /\ job[r].pc = pc /\ Tables' /\ Kept /\ UNCHANGED db
         /\ (test /\ Sent(r, next)) \/ Sent(r, "done")
<1>1. Goto(r, IF test THEN next ELSE "done") /\ UNCHANGED db /\ job[r].pc = pc
  BY DEF Check
<1>2. Tables' /\ Kept
  BY <1>1, Reading DEF Typed, db
<1>. QED
  BY <1>1, <1>2, Going DEF PCs
-----------------------------------------------------------------------------
\* The two statements about accounts.
LEMMA Inserting ==
  ASSUME Typed, NEW r \in Requests, NEW pc, NEW role \in Roles, NEW next \in PCs,
         job[r].name \in Names, InsertAccount(r, pc, role, next)
  PROVE  Tables' /\ Kept /\ (Sent(r, next) \/ Sent(r, "done"))
<1>. DEFINE clash == HasAccount(job[r].email) \/ NameTaken(job[r].name)
            new == [role |-> role, active |-> TRUE, name |-> job[r].name]
<1>1. /\ account' = IF clash THEN account ELSE [account EXCEPT ![job[r].email] = new]
      /\ Goto(r, IF clash THEN "done" ELSE next)
      /\ UNCHANGED <<teacher, domain, pending, years>>
  BY DEF InsertAccount
<1>2. new \in AccountRows
  BY DEF AccountRows
<1>3. ~clash => ~HasAccount(job[r].email)
  OBVIOUS
<1>4. Sent(r, next) \/ Sent(r, "done")
  <2>1. (IF clash THEN "done" ELSE next) \in {next, "done"} /\ "done" \in PCs
    BY DEF PCs
  <2>. QED
    BY <1>1, <2>1, Going
<1>. HIDE DEF clash, new
<1>5. Tables' /\ Kept
  BY <1>1, <1>2, <1>3, NothingAssumption DEF Typed, Tables, Kept, HasAccount, AppUser
<1>. QED
  BY <1>4, <1>5

LEMMA Promoting ==
  ASSUME Typed, NEW r \in Requests, NEW pc, NEW e \in Emails, NEW role \in AppRoles,
         NEW next \in PCs, AppUser(e), SetRole(r, pc, e, role, next)
  PROVE  Tables' /\ Kept /\ Sent(r, next)
<1>1. account' = [account EXCEPT ![e].role = role] /\ UNCHANGED <<teacher, domain, pending, years>>
      /\ Goto(r, next)
  BY DEF SetRole
<1>2. account[e] \in AccountRows /\ role \in Roles
  BY DEF Typed, Tables, AppUser, HasAccount, AppRoles, Roles
<1>3. account'[e] \in AccountRows /\ account'[e].role = role
  BY <1>1, <1>2 DEF AccountRows, Typed, Tables
<1>4. \A f \in Emails \ {e} : account'[f] = account[f]
  BY <1>1 DEF Typed, Tables
<1>5. account' \in [Emails -> AccountRows \cup {NoAccount}]
  BY <1>1, <1>3, <1>4 DEF Typed, Tables
<1>6. Tables' /\ Kept
  BY <1>1, <1>3, <1>4, <1>5, NothingAssumption DEF Typed, Tables, Kept, HasAccount, AppUser
<1>. QED
  BY <1>1, <1>6, Going

\* What is required of a request by its operation.
LEMMA OperationTyped ==
  ASSUME NEW op \in Operations
  PROVE  /\ op.email \in Emails \cup {NoEmail} /\ op.name \in Names \cup {NoName}
         /\ op.row \in Ids \cup Domains \cup {NoRow} /\ op.kind \in Kinds
         /\ op.kind \in {"register", "toggleAdmin", "toggleApp"} => op.email \in Emails
         /\ op.kind = "register" => op.name \in Names
         /\ op.kind \in {"verify", "updateTeacher", "deleteTeacher"} => op.row \in Ids
         /\ op.kind \in {"createDomain", "removeDomain"} => op.row \in Domains
BY DEF Operations

LEMMA InitIInv == ASSUME HInit PROVE IInv
<1>1. PICK s \in Scenarios :
    /\ account = s.account
    /\ teacher = [t \in Ids |-> IF t \in Listings THEN s.teacher[t] ELSE NoRow]
    /\ domain = [d \in Domains |-> IF d \in s.allowed THEN d ELSE NoRow]
    /\ pending = [p \in Ids |-> IF p \notin Codes THEN NoRow ELSE
         [email |-> s.pending[p].email, name |-> s.pending[p].name, attempts |-> 0, expired |-> FALSE]]
    /\ years = {}
    /\ job \in [Requests -> {Arrived(op) : op \in s.operations}]
  BY DEF HInit, Init
<1>2. /\ s.account \in [Emails -> AccountRows \cup {NoAccount}]
      /\ s.teacher \in [Listings -> Emails \cup {NoEmail}]
      /\ s.pending \in [Codes -> [email : Emails, name : Names]]
      /\ s.operations \subseteq Operations
  BY ScenariosAssumption DEF Consistent
<1>3. Tables
  <2>1. \A p \in Codes : [email |-> s.pending[p].email, name |-> s.pending[p].name,
                          attempts |-> 0, expired |-> FALSE] \in PendingRows
    BY <1>2 DEF PendingRows
  <2>2. pending \in [Ids -> PendingRows \cup {NoRow}]
    BY <1>1, <2>1
  <2>3. teacher \in [Ids -> Emails \cup {NoEmail, NoRow}]
    BY <1>1, <1>2
  <2>. QED
    BY <1>1, <1>2, <2>2, <2>3 DEF Tables
<1>4. ASSUME NEW r \in Requests PROVE job[r] \in Jobs /\ Prepared(r)
  <2>1. PICK op \in Operations : job[r] = Arrived(op)
    BY <1>1, <1>2
  <2>2. First(op) \in PCs
    BY DEF First, PCs
  <2>3. job[r] \in Jobs
    BY <2>1, <2>2, OperationTyped DEF Arrived, Jobs, AppRoles
  <2>4. /\ job[r].pc = First(op) /\ job[r].op = op
        /\ job[r].email = op.email /\ job[r].name = op.name /\ job[r].row = op.row
    BY <2>1 DEF Arrived
  <2>5. /\ First(op) \in Registering => op.kind = "register"
        /\ First(op) \in WithRow => op.kind \in {"verify", "updateTeacher", "deleteTeacher"}
        /\ First(op) \in Toggling => op.kind \in {"toggleAdmin", "toggleApp"}
        /\ First(op) \notin WithName \cup {"toggle.write", "promote.write", "demote.write"}
        /\ First(op) = "forbid.find" => op.kind = "removeDomain"
    BY DEF First, Registering, WithRow, WithName, Toggling
  <2>. QED
    BY <2>3, <2>4, <2>5, OperationTyped DEF Prepared
<1>5. job \in [Requests -> Jobs]
  BY <1>1, <1>4
<1>. QED
  BY <1>3, <1>4, <1>5 DEF IInv, Typed
-----------------------------------------------------------------------------
LEMMA SentQuiet ==
  ASSUME NEW r, NEW pc \in Quiet, Sent(r, pc), Tables', Kept
  PROVE  Served(r)
BY QuietStep DEF Sent, Served

LEMMA QuietPcs ==
  /\ Quiet \subseteq PCs
  /\ {"register.name", "register.domain", "register.email", "register.delete", "register.insert",
      "verify.find", "verify.count", "update.read", "delete.read", "verify.role", "verify.create",
      "admin.insert", "forbid.find", "forbid.delete", "toggle.read", "toggle.write", "promote.write",
      "demote.write", "year.insert"} \subseteq PCs
  /\ {"verify.delete", "list.domain", "list.email", "list.insert", "update.domain",
      "update.email", "update.write", "delete.row", "promote.read", "demote.listed",
      "demote.read", "admin.domain", "admin.email", "admin.name", "allow.find",
      "allow.insert", "forbid.users", "year.find", "year.update", "done"} \subseteq Quiet
BY DEF Quiet, PCs, Registering, WithRow, WithName, Toggling

LEMMA RegisterServed ==
  ASSUME IInv, NEW r \in Requests, Register(r)
  PROVE  Served(r)
<1>. Typed /\ Prepared(r)
  BY DEF IInv
<1>1. ASSUME NEW pc \in Registering, job[r].pc \in Registering, Sent(r, pc), Tables', Kept,
             pc = "register.insert" => DeletePending(r)
      PROVE  Served(r)
  BY <1>1 DEF Served, Sent, Prepared, Entered, Registering, WithRow, WithName, Toggling
<1>2. ASSUME NEW pc \in Registering, NEW next \in Registering, NEW test, Check(r, pc, test, next),
             next # "register.insert"
      PROVE  Served(r)
  <2>1. pc \in PCs /\ next \in PCs
    BY QuietPcs DEF Registering
  <2>2. job[r].pc = pc /\ Tables' /\ Kept /\ (Sent(r, next) \/ Sent(r, "done"))
    BY <1>2, <2>1, Checking
  <2>. QED
    BY <1>1, <1>2, <2>2, QuietPcs, SentQuiet
<1>3. CASE NameIsFree(r)
  BY <1>2, <1>3 DEF NameIsFree, Registering
<1>4. CASE DomainIsAllowed(r)
  BY <1>2, <1>4 DEF DomainIsAllowed, Registering
<1>5. CASE EmailIsFree(r)
  BY <1>2, <1>5 DEF EmailIsFree, Registering
<1>6. CASE DeletePending(r)
  <2>1. Tables' /\ Kept
    BY <1>6, KeptAccounts DEF DeletePending, Typed, Tables
  <2>2. Sent(r, "register.insert") /\ job[r].pc = "register.delete"
    BY <1>6, Going, QuietPcs DEF DeletePending
  <2>. QED
    BY <1>1, <1>6, <2>1, <2>2 DEF Registering
<1>7. CASE InsertPending(r)
  <2>1. job[r].email \in Emails /\ job[r].name \in Names
    BY <1>7 DEF InsertPending, Prepared, Registering
  <2>. DEFINE new == [email |-> job[r].email, name |-> job[r].name, attempts |-> 0, expired |-> FALSE]
  <2>2. new \in PendingRows
    BY <2>1 DEF PendingRows
  <2>3. pending' = [pending EXCEPT ![r] = new]
    BY <1>7 DEF InsertPending
  <2>. HIDE DEF new
  <2>4. Tables' /\ Kept
    BY <1>7, <2>2, <2>3, KeptAccounts DEF InsertPending, Typed, Tables
  <2>. QED
    BY <1>7, <2>4, Going, QuietPcs, SentQuiet DEF InsertPending
<1>. QED
  BY <1>3, <1>4, <1>5, <1>6, <1>7 DEF Register

\* The rows pending after one attempt more.
LEMMA Counting ==
  ASSUME Tables, NEW p, pending[p] # NoRow,
         pending' = [pending EXCEPT ![p].attempts = @ + 1]
  PROVE  /\ pending' \in [Ids -> PendingRows \cup {NoRow}]
         /\ \A q \in Ids : /\ pending'[q] # NoRow => pending[q] # NoRow
                           /\ pending[q] # NoRow => pending'[q].email = pending[q].email
<1>1. ASSUME NEW q \in Ids, q = p
      PROVE  pending'[q] \in PendingRows /\ pending'[q].email = pending[q].email
  <2>1. pending[q] \in PendingRows
    BY <1>1 DEF Tables
  <2>2. pending'[q] = [pending[q] EXCEPT !.attempts = @ + 1]
    BY <1>1 DEF Tables
  <2>. QED
    BY <2>1, <2>2 DEF PendingRows
<1>2. \A q \in Ids : q # p => pending'[q] = pending[q]
  BY DEF Tables
<1>3. DOMAIN pending' = Ids /\ pending' = [q \in Ids |-> pending'[q]]
  BY DEF Tables
<1>4. pending' \in [Ids -> PendingRows \cup {NoRow}]
  BY <1>1, <1>2, <1>3 DEF Tables
<1>. QED
  BY <1>1, <1>2, <1>4

LEMMA VerifyServed ==
  ASSUME IInv, NEW r \in Requests, VerifyEmail(r)
  PROVE  Served(r)
<1>. Typed /\ Prepared(r)
  BY DEF IInv
<1>. job[r] \in Jobs
  BY DEF Typed
<1>1. CASE FindPending(r)
  <2>. DEFINE p == pending[job[r].row]
  <2>1. UNCHANGED db /\ job[r].pc = "verify.find"
    BY <1>1 DEF FindPending
  <2>2. Tables' /\ Kept
    BY <2>1, Reading DEF Typed, db
  <2>3. CASE p = NoRow
    <3>1. Goto(r, "done")
      BY <1>1, <2>3 DEF FindPending, Goto
    <3>. QED
      BY <2>2, <3>1, Going, QuietPcs, SentQuiet
  <2>4. CASE p # NoRow
    <3>1. p \in PendingRows /\ job[r].row \in Ids
      BY <2>1, <2>4 DEF Prepared, WithRow, Typed, Tables
    <3>2. PICK pc \in {"verify.delete", "verify.role", "verify.count"} :
            job' = [job EXCEPT ![r] = [@ EXCEPT !.email = p.email, !.name = p.name, !.pc = pc]]
      BY <1>1, <2>4 DEF FindPending
    <3>3. p.email \in Emails /\ p.name \in Names /\ pc \in PCs
      BY <3>1, QuietPcs DEF PendingRows, PCs
    <3>. DEFINE e == p.email
                n == p.name
    <3>4. job' = [job EXCEPT ![r] = [@ EXCEPT !.email = e, !.name = n, !.pc = pc]]
          /\ e \in Emails /\ n \in Names /\ pc \in PCs
      BY <3>2, <3>3
    <3>. HIDE DEF e, n
    <3>5. job'[r] = [job[r] EXCEPT !.email = e, !.name = n, !.pc = pc]
      BY <3>4 DEF Typed
    <3>6. /\ job'[r] \in Jobs /\ job'[r].op = job[r].op
          /\ job'[r].pc = pc /\ job'[r].name = n /\ job'[r].row = job[r].row
      <4>1. job'[r] = [op |-> job[r].op, pc |-> pc, email |-> e, name |-> n,
                       role |-> job[r].role, row |-> job[r].row, old |-> job[r].old]
        BY <3>5 DEF Jobs
      <4>. QED
        BY <3>4, <4>1 DEF Jobs
    <3>7. Alone(r)
      BY <3>4, <3>6 DEF Alone, Typed
    <3>8. Prepared(r)' /\ Entered(r)
      BY <3>1, <3>4, <3>6 DEF Prepared, Entered, Registering, WithRow, WithName, Toggling
    <3>. QED
      BY <2>2, <3>7, <3>8 DEF Served
  <2>. QED
    BY <2>3, <2>4
<1>2. CASE CountAttempt(r)
  <2>1. Tables' /\ Kept
    <3>1. CASE pending' = pending
      BY <1>2, <3>1, KeptAccounts DEF CountAttempt, Typed, Tables
    <3>2. CASE pending[job[r].row] # NoRow
      BY <1>2, <3>2, Counting, KeptAccounts DEF CountAttempt, Typed, Tables
    <3>. QED
      BY <1>2, <3>1, <3>2 DEF CountAttempt
  <2>2. PICK pc \in {"verify.delete", "verify.find"} : Goto(r, pc)
    BY <1>2 DEF CountAttempt
  <2>3. Sent(r, pc) /\ job[r].pc = "verify.count"
    BY <1>2, <2>2, Going, QuietPcs DEF CountAttempt, PCs
  <2>4. job'[r].row \in Ids
    BY <2>3 DEF Sent, Prepared, WithRow
  <2>. QED
    BY <2>1, <2>3, <2>4 DEF Served, Sent, Prepared, Entered, Registering, WithRow, WithName, Toggling
<1>3. CASE DeleteVerified(r)
  <2>1. Tables' /\ Kept
    BY <1>3, KeptAccounts DEF DeleteVerified, Typed, Tables
  <2>. QED
    BY <1>3, <2>1, Going, QuietPcs, SentQuiet DEF DeleteVerified
<1>4. CASE DecideRole(r)
  <2>1. PICK role \in AppRoles :
          job' = [job EXCEPT ![r].pc = "verify.create", ![r].role = role]
    BY <1>4 DEF DecideRole, AppRoles
  <2>2. Tables' /\ Kept
    BY <1>4, Reading DEF DecideRole, Typed, db
  <2>3. job'[r] = [job[r] EXCEPT !.pc = "verify.create", !.role = role]
    BY <2>1 DEF Typed
  <2>4. job'[r] \in Jobs /\ job'[r].op = job[r].op /\ job'[r].pc = "verify.create" /\ job'[r].name = job[r].name
    BY <2>3, QuietPcs DEF Jobs
  <2>5. Alone(r)
    BY <2>1, <2>4 DEF Alone, Typed
  <2>6. Prepared(r)' /\ Entered(r)
    BY <1>4, <2>4 DEF DecideRole, Prepared, Entered, Registering, WithRow, WithName, Toggling
  <2>. QED
    BY <2>2, <2>5, <2>6 DEF Served
<1>5. CASE CreateUserWithRole(r)
  <2>1. job[r].name \in Names /\ job[r].role \in Roles
    BY <1>5 DEF CreateUserWithRole, InsertAccount, Prepared, WithName, Jobs, AppRoles, Roles
  <2>2. Tables' /\ Kept /\ (Sent(r, "verify.delete") \/ Sent(r, "done"))
    BY <1>5, <2>1, Inserting, QuietPcs DEF CreateUserWithRole
  <2>. QED
    BY <2>2, QuietPcs, SentQuiet
<1>. QED
  BY <1>1, <1>2, <1>3, <1>4, <1>5 DEF VerifyEmail
-----------------------------------------------------------------------------
\* A test of which the next statement needs nothing.
LEMMA CheckQuiet ==
  ASSUME Typed, NEW r \in Requests, NEW pc \in PCs, NEW next \in Quiet, NEW test,
         Check(r, pc, test, next)
  PROVE  Served(r)
<1>1. Tables' /\ Kept /\ (Sent(r, next) \/ Sent(r, "done"))
  BY Checking, QuietPcs
<1>. QED
  BY <1>1, QuietPcs, SentQuiet

LEMMA GoQuiet ==
  ASSUME Typed, NEW r \in Requests, NEW pc \in Quiet, Goto(r, pc), Tables', Kept
  PROVE  Served(r)
BY Going, QuietPcs, SentQuiet

LEMMA OldTyped ==
  ASSUME NEW j \in Jobs, NEW pc \in PCs, NEW old \in Emails \cup {NoEmail}
  PROVE  LET new == [j EXCEPT !.old = old, !.pc = pc]
         IN  new \in Jobs /\ new.op = j.op /\ new.pc = pc
BY DEF Jobs

\* A request takes down the address a teacher had and goes on.
LEMMA TakingOld ==
  ASSUME Typed, NEW r \in Requests, NEW pc \in Quiet, NEW old \in Emails \cup {NoEmail},
         job' = [job EXCEPT ![r].old = old, ![r].pc = pc], Tables', Kept
  PROVE  Served(r)
<1>1. job[r] \in Jobs /\ pc \in PCs
  BY QuietPcs DEF Typed
<1>2. job'[r] = [job[r] EXCEPT !.old = old, !.pc = pc]
  BY DEF Typed
<1>3. job'[r] \in Jobs /\ job'[r].op = job[r].op /\ job'[r].pc = pc
  <2>1. /\ [job[r] EXCEPT !.old = old, !.pc = pc] \in Jobs
        /\ [job[r] EXCEPT !.old = old, !.pc = pc].op = job[r].op
        /\ [job[r] EXCEPT !.old = old, !.pc = pc].pc = pc
    BY <1>1, OldTyped
  <2>. QED
    BY <1>2, <2>1
<1>4. Alone(r)
  BY <1>3 DEF Alone, Typed
<1>. QED
  BY <1>3, <1>4, QuietStep DEF Served

LEMMA CatalogServed ==
  ASSUME IInv, NEW r \in Requests, ListTeacher(r) \/ UpdateTeacher(r) \/ DeleteTeacher(r)
  PROVE  Served(r)
<1>. Typed /\ Prepared(r)
  BY DEF IInv
<1>. job[r] \in Jobs
  BY DEF Typed
<1>. DEFINE t == job[r].row
            old == IF teacher[t] = NoRow THEN NoEmail ELSE teacher[t]
<1>1. \A u \in Ids : WriteTeacher(u, job[r].email) \in [Ids -> Emails \cup {NoEmail, NoRow}]
  BY DEF WriteTeacher, Typed, Tables, Jobs
<1>2. WriteTeacher(t, job[r].email) \in [Ids -> Emails \cup {NoEmail, NoRow}]
  BY DEF WriteTeacher, Typed, Tables, Jobs
<1>3. ASSUME UNCHANGED <<account, domain, pending, years>>,
             teacher' \in [Ids -> Emails \cup {NoEmail, NoRow}]
      PROVE  Tables' /\ Kept
  BY <1>3, KeptAccounts DEF Typed, Tables
<1>4. job[r].pc \in WithRow => old \in Emails \cup {NoEmail}
  BY DEF Typed, Tables, Prepared
<1>5. CASE \/ TeacherDomain(r, "list.domain", "list.email")
           \/ NobodyElseListed(r, "list.email", "list.insert")
           \/ TeacherDomain(r, "update.domain", "update.email")
           \/ NobodyElseListed(r, "update.email", "update.write")
  BY <1>5, CheckQuiet, QuietPcs DEF TeacherDomain, NobodyElseListed
<1>6. CASE /\ job[r].pc = "list.insert"
           /\ teacher' = WriteTeacher(r, job[r].email)
           /\ Goto(r, IF teacher'[r] = NoRow THEN "done" ELSE "promote.read")
           /\ UNCHANGED <<account, domain, pending, years>>
  <2>1. PICK pc \in {"done", "promote.read"} : Goto(r, pc)
    BY <1>6
  <2>. QED
    BY <1>1, <1>3, <1>6, <2>1, GoQuiet, QuietPcs DEF Ids
<1>7. CASE /\ job[r].pc = "update.read"
           /\ job' = [job EXCEPT ![r].old = IF teacher[job[r].row] = NoRow THEN NoEmail
                                            ELSE teacher[job[r].row],
                                 ![r].pc = IF teacher[job[r].row] = NoRow THEN "done"
                                           ELSE "update.domain"]
           /\ UNCHANGED db
  <2>1. PICK pc \in {"done", "update.domain"} : job' = [job EXCEPT ![r].old = old, ![r].pc = pc]
    BY <1>7
  <2>2. Tables' /\ Kept /\ old \in Emails \cup {NoEmail}
    BY <1>4, <1>7, Reading DEF Typed, db, WithRow
  <2>. HIDE DEF old
  <2>. QED
    BY <2>1, <2>2, TakingOld, QuietPcs
<1>8. CASE /\ job[r].pc = "delete.read"
           /\ job' = [job EXCEPT ![r].pc = "delete.row",
                                 ![r].old = IF teacher[job[r].row] = NoRow THEN NoEmail
                                            ELSE teacher[job[r].row]]
           /\ UNCHANGED db
  <2>1. job' = [job EXCEPT ![r].old = old, ![r].pc = "delete.row"]
    BY <1>8
  <2>2. Tables' /\ Kept /\ old \in Emails \cup {NoEmail}
    BY <1>4, <1>8, Reading DEF Typed, db, WithRow
  <2>. HIDE DEF old
  <2>. QED
    BY <2>1, <2>2, TakingOld, QuietPcs
<1>9. CASE /\ job[r].pc = "update.write"
           /\ teacher' = IF teacher[t] = NoRow THEN teacher ELSE WriteTeacher(t, job[r].email)
           /\ Goto(r, IF teacher'[t] = job[r].email /\ job[r].old # job[r].email
                      THEN "demote.listed" ELSE "done")
           /\ UNCHANGED <<account, domain, pending, years>>
  <2>1. PICK pc \in {"done", "demote.listed"} : Goto(r, pc)
    BY <1>9
  <2>2. teacher' \in [Ids -> Emails \cup {NoEmail, NoRow}]
    BY <1>2, <1>9 DEF Typed, Tables
  <2>. QED
    BY <1>3, <1>9, <2>1, <2>2, GoQuiet, QuietPcs
<1>10. CASE /\ job[r].pc = "delete.row"
            /\ teacher' = [teacher EXCEPT ![t] = NoRow]
            /\ Goto(r, IF teacher[t] = NoRow THEN "done" ELSE "demote.listed")
            /\ UNCHANGED <<account, domain, pending, years>>
  <2>1. PICK pc \in {"done", "demote.listed"} : Goto(r, pc)
    BY <1>10
  <2>2. teacher' \in [Ids -> Emails \cup {NoEmail, NoRow}]
    BY <1>10 DEF Typed, Tables
  <2>. QED
    BY <1>3, <1>10, <2>1, <2>2, GoQuiet, QuietPcs
<1>11. CASE ListTeacher(r)
  BY <1>5, <1>6, <1>11 DEF ListTeacher
<1>12. CASE UpdateTeacher(r)
  BY <1>5, <1>7, <1>9, <1>12 DEF UpdateTeacher
<1>13. CASE DeleteTeacher(r)
  BY <1>8, <1>10, <1>13 DEF DeleteTeacher
<1>. QED
  BY <1>11, <1>12, <1>13

LEMMA SyncServed ==
  ASSUME IInv, NEW r \in Requests, Sync(r)
  PROVE  Served(r)
<1>. Typed /\ Prepared(r)
  BY DEF IInv
<1>. job[r] \in Jobs
  BY DEF Typed
<1>. AfterDemotion(r) \in Quiet /\ AfterDemotion(r) \in PCs
  BY QuietPcs DEF AfterDemotion
<1>1. CASE Check(r, "promote.read", HasRole(job[r].email, "STUDENT"), "promote.write")
  <2>1. /\ Tables' /\ Kept /\ UNCHANGED db
        /\ (HasRole(job[r].email, "STUDENT") /\ Sent(r, "promote.write")) \/ Sent(r, "done")
    BY <1>1, Checking, QuietPcs
  <2>2. CASE Sent(r, "done")
    BY <2>1, <2>2, SentQuiet, QuietPcs
  <2>3. CASE HasRole(job[r].email, "STUDENT") /\ Sent(r, "promote.write")
    <3>1. AppUser(job[r].email)'
      BY <2>1, <2>3 DEF HasRole, AppUser, HasAccount, AppRoles, Sent, db, Jobs
    <3>. QED
      BY <2>1, <2>3, <3>1 DEF Served, Sent, Prepared, Entered, Registering, WithRow, WithName, Toggling
  <2>. QED
    BY <2>1, <2>2, <2>3
<1>2. CASE SetRole(r, "promote.write", job[r].email, "TEACHER", "done")
  <2>1. job[r].email \in Emails /\ AppUser(job[r].email)
    BY <1>2, NothingAssumption DEF SetRole, Prepared, AppUser, HasAccount, Jobs
  <2>2. Tables' /\ Kept /\ Sent(r, "done")
    BY <1>2, <2>1, Promoting, QuietPcs DEF AppRoles
  <2>. QED
    BY <2>2, SentQuiet, QuietPcs
<1>3. CASE /\ job[r].pc = "demote.listed"
           /\ Goto(r, IF Listed(job[r].old) THEN AfterDemotion(r) ELSE "demote.read")
           /\ UNCHANGED db
  <2>1. PICK pc \in {AfterDemotion(r), "demote.read"} : Goto(r, pc)
    BY <1>3
  <2>2. Tables' /\ Kept
    BY <1>3, Reading DEF Typed, db
  <2>. QED
    BY <2>1, <2>2, GoQuiet, QuietPcs
<1>4. CASE /\ job[r].pc = "demote.read"
           /\ Goto(r, IF HasRole(job[r].old, "TEACHER") THEN "demote.write" ELSE AfterDemotion(r))
           /\ UNCHANGED db
  <2>1. Tables' /\ Kept
    BY <1>4, Reading DEF Typed, db
  <2>2. CASE Goto(r, AfterDemotion(r))
    BY <2>1, <2>2, GoQuiet
  <2>3. CASE HasRole(job[r].old, "TEACHER") /\ Goto(r, "demote.write")
    <3>1. Sent(r, "demote.write")
      BY <2>3, Going, QuietPcs
    <3>2. AppUser(job[r].old)'
      BY <1>4, <2>3, <3>1 DEF HasRole, AppUser, HasAccount, AppRoles, Sent, db, Jobs
    <3>. QED
      BY <2>1, <3>1, <3>2 DEF Served, Sent, Prepared, Entered, Registering, WithRow, WithName, Toggling
  <2>. QED
    BY <1>4, <2>2, <2>3
<1>5. CASE SetRole(r, "demote.write", job[r].old, "STUDENT", AfterDemotion(r))
  <2>1. job[r].old \in Emails /\ AppUser(job[r].old)
    BY <1>5, NothingAssumption DEF SetRole, Prepared, AppUser, HasAccount, Jobs
  <2>2. Tables' /\ Kept /\ Sent(r, AfterDemotion(r))
    BY <1>5, <2>1, Promoting DEF AppRoles
  <2>. QED
    BY <2>2, SentQuiet
<1>. QED
  BY <1>1, <1>2, <1>3, <1>4, <1>5 DEF Sync, PromoteIfUserExists, DemoteIfOrphan
-----------------------------------------------------------------------------
LEMMA NameTyped ==
  ASSUME NEW j \in Jobs, NEW pc \in PCs, NEW n \in Names
  PROVE  LET new == [j EXCEPT !.name = n, !.pc = pc]
         IN  new \in Jobs /\ new.op = j.op /\ new.pc = pc
BY DEF Jobs

LEMMA AdminServed ==
  ASSUME IInv, NEW r \in Requests, CreateAdmin(r) \/ ToggleRead(r) \/ ToggleWrite(r)
  PROVE  Served(r)
<1>. Typed /\ Prepared(r)
  BY DEF IInv
<1>. job[r] \in Jobs
  BY DEF Typed
<1>1. CASE \/ Check(r, "admin.domain", Allowed(job[r].email), "admin.email")
           \/ Check(r, "admin.email", ~HasAccount(job[r].email), "admin.name")
  BY <1>1, CheckQuiet, QuietPcs
<1>2. CASE /\ job[r].pc = "admin.name"
           /\ \E n \in {m \in Names : ~NameTaken(m)} :
                job' = [job EXCEPT ![r].name = n, ![r].pc = "admin.insert"]
           /\ UNCHANGED db
  <2>. DEFINE next == "admin.insert"
  <2>1. PICK n \in Names : job' = [job EXCEPT ![r].name = n, ![r].pc = next]
    BY <1>2
  <2>2. Tables' /\ Kept /\ next \in PCs
    BY <1>2, Reading, QuietPcs DEF Typed, db
  <2>. HIDE DEF next
  <2>3. job'[r] = [job[r] EXCEPT !.name = n, !.pc = next]
    BY <2>1 DEF Typed
  <2>4. job'[r] \in Jobs /\ job'[r].op = job[r].op /\ job'[r].pc = next /\ job'[r].name = n
    <3>1. /\ [job[r] EXCEPT !.name = n, !.pc = next] \in Jobs
          /\ [job[r] EXCEPT !.name = n, !.pc = next].op = job[r].op
          /\ [job[r] EXCEPT !.name = n, !.pc = next].pc = next
      BY <2>1, <2>2, NameTyped
    <3>2. [job[r] EXCEPT !.name = n, !.pc = next].name = n
      BY DEF Jobs
    <3>. QED
      BY <2>3, <3>1, <3>2
  <2>5. job'[r] \in Jobs /\ job'[r].op = job[r].op /\ job'[r].pc = "admin.insert" /\ job'[r].name = n
    BY <2>4 DEF next
  <2>6. Alone(r)
    BY <2>1, <2>5 DEF Alone, Typed
  <2>7. Prepared(r)' /\ Entered(r)
    BY <2>5 DEF Prepared, Entered, Registering, WithRow, WithName, Toggling
  <2>. QED
    BY <2>2, <2>6, <2>7 DEF Served
<1>3. CASE InsertAccount(r, "admin.insert", "ADMIN_HORARIOS", "done")
  <2>1. job[r].name \in Names /\ "ADMIN_HORARIOS" \in Roles
    BY <1>3 DEF InsertAccount, Prepared, WithName, Roles
  <2>2. Tables' /\ Kept /\ Sent(r, "done")
    BY <1>3, <2>1, Inserting, QuietPcs
  <2>. QED
    BY <2>2, QuietPcs, SentQuiet
<1>4. CASE ToggleRead(r)
  <2>1. /\ Tables' /\ Kept /\ UNCHANGED db /\ job[r].pc = "toggle.read"
        /\ (HasAccount(job[r].email) /\ Sent(r, "toggle.write")) \/ Sent(r, "done")
    <3>. DEFINE test == /\ HasAccount(job[r].email)
                        /\ account[job[r].email].role \in Manageable(job[r].op.kind)
                        /\ account[job[r].email].active # job[r].op.on
    <3>1. Check(r, "toggle.read", test, "toggle.write")
      BY <1>4 DEF ToggleRead
    <3>2. test => HasAccount(job[r].email)
      OBVIOUS
    <3>. HIDE DEF test
    <3>. QED
      BY <3>1, <3>2, Checking, QuietPcs
  <2>2. CASE Sent(r, "done")
    BY <2>1, <2>2, SentQuiet, QuietPcs
  <2>3. CASE HasAccount(job[r].email) /\ Sent(r, "toggle.write")
    <3>1. HasAccount(job[r].email)' /\ job'[r].email \in Emails
      BY <2>1, <2>3 DEF HasAccount, Sent, db, Prepared, Toggling
    <3>. QED
      BY <2>1, <2>3, <3>1 DEF Served, Sent, Prepared, Entered, Registering, WithRow, WithName, Toggling
  <2>. QED
    BY <2>1, <2>2, <2>3
<1>5. CASE ToggleWrite(r)
  <2>. DEFINE e == job[r].email
              on == job[r].op.on
  <2>1. HasAccount(e) /\ on \in BOOLEAN
    BY <1>5 DEF ToggleWrite, Prepared, Jobs, Operations
  <2>2. account' = [account EXCEPT ![e].active = on]
    BY <1>5 DEF ToggleWrite
  <2>. HIDE DEF e, on
  <2>3. ASSUME e \in Emails
        PROVE  account'[e] \in AccountRows /\ account'[e].role = account[e].role
    <3>1. account[e] \in AccountRows /\ account'[e] = [account[e] EXCEPT !.active = on]
      BY <2>1, <2>2, <2>3 DEF HasAccount, Typed, Tables
    <3>. QED
      BY <2>1, <3>1 DEF AccountRows
  <2>4. \A f \in Emails : f # e => account'[f] = account[f]
    BY <2>2 DEF Typed, Tables
  <2>5. account' = [f \in Emails |-> account'[f]]
    BY <2>2 DEF Typed, Tables
  <2>6. account' \in [Emails -> AccountRows \cup {NoAccount}]
    BY <2>3, <2>4, <2>5 DEF Typed, Tables
  <2>7. Tables' /\ Kept
    BY <1>5, <2>3, <2>4, <2>6, NothingAssumption DEF ToggleWrite, Typed, Tables, Kept, HasAccount, AppUser
  <2>. QED
    BY <1>5, <2>7, GoQuiet, QuietPcs DEF ToggleWrite
<1>. QED
  BY <1>1, <1>2, <1>3, <1>4, <1>5 DEF CreateAdmin

LEMMA RowTyped ==
  ASSUME NEW j \in Jobs, NEW pc \in PCs, NEW row \in Ids \cup Domains \cup {NoRow}
  PROVE  LET new == [j EXCEPT !.row = row, !.pc = pc]
         IN  new \in Jobs /\ new.op = j.op /\ new.pc = pc
BY DEF Jobs

LEMMA ConfigServed ==
  ASSUME IInv, NEW r \in Requests, CreateDomain(r) \/ RemoveDomain(r) \/ SetCurrentYear(r)
  PROVE  Served(r)
<1>. Typed /\ Prepared(r)
  BY DEF IInv
<1>. job[r] \in Jobs
  BY DEF Typed
<1>. DEFINE d == job[r].op.row
<1>1. CASE CreateDomain(r)
  <2>1. CASE Check(r, "allow.find", domain[d] = NoRow, "allow.insert")
    BY <2>1, CheckQuiet, QuietPcs
  <2>2. CASE /\ job[r].pc = "allow.insert"
             /\ domain' = IF domain[d] # NoRow THEN domain ELSE [domain EXCEPT ![d] = r]
             /\ Goto(r, "done")
             /\ UNCHANGED <<account, teacher, pending, years>>
    <3>1. Tables' /\ Kept
      BY <2>2, KeptAccounts DEF Typed, Tables
    <3>. QED
      BY <2>2, <3>1, GoQuiet, QuietPcs
  <2>. QED
    BY <1>1, <2>1, <2>2 DEF CreateDomain
<1>2. CASE RemoveDomain(r)
  <2>1. CASE /\ job[r].pc = "forbid.find"
             /\ job' = [job EXCEPT ![r].row = domain[d],
                                   ![r].pc = IF domain[d] = NoRow THEN "done" ELSE "forbid.users"]
             /\ UNCHANGED db
    <3>. DEFINE row == domain[d]
    <3>1. row \in Ids \cup Domains \cup {NoRow}
      BY <2>1 DEF Prepared, Typed, Tables, Ids
    <3>2. PICK pc \in {"done", "forbid.users"} : job' = [job EXCEPT ![r].row = row, ![r].pc = pc]
      BY <2>1
    <3>3. Tables' /\ Kept
      BY <2>1, Reading DEF Typed, db
    <3>. HIDE DEF row
    <3>4. job'[r] = [job[r] EXCEPT !.row = row, !.pc = pc] /\ pc \in PCs /\ pc \in Quiet
      BY <3>2, QuietPcs DEF Typed
    <3>6. job'[r] \in Jobs /\ job'[r].op = job[r].op /\ job'[r].pc = pc
      <4>1. /\ [job[r] EXCEPT !.row = row, !.pc = pc] \in Jobs
            /\ [job[r] EXCEPT !.row = row, !.pc = pc].op = job[r].op
            /\ [job[r] EXCEPT !.row = row, !.pc = pc].pc = pc
        BY <3>1, <3>4, RowTyped
      <4>. QED
        BY <3>4, <4>1
    <3>7. Alone(r)
      BY <3>2, <3>6 DEF Alone, Typed
    <3>. QED
      BY <3>3, <3>4, <3>6, <3>7, QuietStep DEF Served
  <2>2. CASE Check(r, "forbid.users", ActiveIn(d) = {}, "forbid.delete")
    <3>1. /\ Tables' /\ Kept /\ UNCHANGED db
          /\ (ActiveIn(d) = {} /\ Sent(r, "forbid.delete")) \/ Sent(r, "done")
      BY <2>2, Checking, QuietPcs
    <3>2. CASE Sent(r, "done")
      BY <3>1, <3>2, SentQuiet, QuietPcs
    <3>3. CASE ActiveIn(d) = {} /\ Sent(r, "forbid.delete")
      BY <3>1, <3>3 DEF Served, Sent, Prepared, Entered, Registering, WithRow, WithName, Toggling, db
    <3>. QED
      BY <3>1, <3>2, <3>3
  <2>3. CASE /\ job[r].pc = "forbid.delete"
             /\ domain' = IF domain[d] = job[r].row THEN [domain EXCEPT ![d] = NoRow] ELSE domain
             /\ Goto(r, "done")
             /\ UNCHANGED <<account, teacher, pending, years>>
    <3>1. Tables' /\ Kept
      BY <2>3, KeptAccounts DEF Typed, Tables
    <3>. QED
      BY <2>3, <3>1, GoQuiet, QuietPcs
  <2>. QED
    BY <1>2, <2>1, <2>2, <2>3 DEF RemoveDomain
<1>3. CASE SetCurrentYear(r)
  <2>1. CASE /\ job[r].pc = "year.find"
             /\ Goto(r, IF years = {} THEN "year.insert" ELSE "year.update")
             /\ UNCHANGED db
    <3>1. Tables' /\ Kept
      BY <2>1, Reading DEF Typed, db
    <3>2. CASE Goto(r, "year.update")
      BY <3>1, <3>2, GoQuiet, QuietPcs
    <3>3. CASE years = {} /\ Goto(r, "year.insert")
      <4>1. Sent(r, "year.insert") /\ years' = {}
        BY <2>1, <3>3, Going, QuietPcs DEF db
      <4>. QED
        BY <3>1, <3>3, <4>1 DEF Served, Sent, Prepared, Entered, Registering, WithRow, WithName, Toggling
    <3>. QED
      BY <2>1, <3>2, <3>3
  <2>2. CASE /\ job[r].pc = "year.insert"
             /\ years' = years \cup {r}
             /\ Goto(r, "done")
             /\ UNCHANGED <<account, teacher, domain, pending>>
    <3>1. Tables' /\ Kept
      BY <2>2, KeptAccounts DEF Typed, Tables
    <3>. QED
      BY <2>2, <3>1, GoQuiet, QuietPcs
  <2>3. CASE job[r].pc = "year.update" /\ Goto(r, "done") /\ UNCHANGED db
    <3>1. Tables' /\ Kept
      BY <2>3, Reading DEF Typed, db
    <3>. QED
      BY <2>3, <3>1, GoQuiet, QuietPcs
  <2>. QED
    BY <1>3, <2>1, <2>2, <2>3 DEF SetCurrentYear
<1>. QED
  BY <1>1, <1>2, <1>3

LEMMA FailServed ==
  ASSUME IInv, NEW r \in Requests, Fails(r)
  PROVE  Served(r)
<1>1. PICK pc \in {"done", "demote.read", AfterDemotion(r)} : Goto(r, pc)
  BY DEF Fails
<1>2. pc \in Quiet
  BY QuietPcs DEF AfterDemotion
<1>3. Typed /\ Tables' /\ Kept
  BY Reading DEF Fails, IInv, Typed, db
<1>. QED
  BY <1>1, <1>2, <1>3, GoQuiet

LEMMA ServeServed ==
  ASSUME IInv, NEW r \in Requests, Serve(r) \/ Fails(r)
  PROVE  Served(r)
BY RegisterServed, VerifyServed, CatalogServed, SyncServed, AdminServed, ConfigServed, FailServed
   DEF Serve, Catalog, Administer
-----------------------------------------------------------------------------
LEMMA ExpireServed ==
  ASSUME IInv, NEW p \in Ids, Expire(p)
  PROVE  IInv'
<1>1. pending[p] \in PendingRows
  BY DEF Expire, IInv, Typed, Tables
<1>2. pending'[p] = [pending[p] EXCEPT !.expired = TRUE]
  BY DEF Expire, IInv, Typed, Tables
<1>3. pending'[p] \in PendingRows
  BY <1>1, <1>2 DEF PendingRows
<1>4. pending' \in [Ids -> PendingRows \cup {NoRow}]
  BY <1>3 DEF Expire, IInv, Typed, Tables
<1>. QED
  BY <1>4 DEF Expire, IInv, Typed, Tables, Prepared, AppUser, HasAccount

LEMMA StutterIInv == IInv /\ UNCHANGED vars => IInv'
BY DEF IInv, Typed, Tables, Prepared, AppUser, HasAccount, vars, db

LEMMA NextIInv == IInv /\ HNext => IInv'
<1>1. ASSUME IInv, NEW r \in Requests, Serve(r) \/ Fails(r)
      PROVE  IInv'
  <2>1. Served(r) /\ job \in [Requests -> Jobs] /\ Tables
    BY <1>1, ServeServed DEF IInv, Typed
  <2>2. ASSUME NEW q \in Requests PROVE Prepared(q)'
    <3>1. CASE q = r
      BY <2>1, <3>1 DEF Served
    <3>2. CASE q # r
      <4>1. Prepared(q) /\ job'[q] = job[q] /\ Kept
        BY <1>1, <2>1, <3>2 DEF Served, Alone, IInv
      <4>2. \A e \in Emails : (HasAccount(e) => HasAccount(e)') /\ (AppUser(e) => AppUser(e)')
        BY <4>1 DEF Kept, AppUser
      <4>3. AppUser(job[q].email) => AppUser(job[q].email)'
        BY <4>1, <4>2 DEF AppUser
      <4>4. AppUser(job[q].old) => AppUser(job[q].old)'
        BY <4>1, <4>2 DEF AppUser
      <4>5. job[q].pc = "toggle.write" => HasAccount(job[q].email)'
        BY <4>1, <4>2 DEF Prepared, Toggling
      <4>. QED
        BY <4>1, <4>3, <4>4, <4>5 DEF Prepared
    <3>. QED
      BY <3>1, <3>2
  <2>. QED
    BY <2>1, <2>2 DEF IInv, Typed, Served, Alone
<1>. QED
  BY <1>1, ExpireServed DEF HNext

LEMMA IInvTypeOK == IInv => TypeOK
<1>. SUFFICES ASSUME IInv PROVE TypeOK
  OBVIOUS
<1>1. job \in [Requests -> [op : Operations, pc : PCs, email : Emails \cup {NoEmail},
        name : Names \cup {NoName}, role : {"STUDENT", "TEACHER"},
        row : Ids \cup Domains \cup {NoRow}, old : Emails \cup {NoEmail}]]
  BY DEF IInv, Typed, Jobs, AppRoles
<1>2. \A r \in Requests :
       /\ job[r].pc \in {"promote.write", "toggle.write"} => HasAccount(job[r].email)
       /\ job[r].pc = "demote.write" => HasAccount(job[r].old)
  BY DEF IInv, Prepared, AppUser
<1>. QED
  BY <1>1, <1>2 DEF TypeOK, IInv, Typed, Tables

THEOREM IInvariant == HSpec => []IInv
<1>1. HInit => IInv
  BY InitIInv
<1>2. IInv /\ [HNext]_hvars => IInv'
  BY NextIInv, StutterIInv DEF hvars
<1>. QED
  BY <1>1, <1>2, PTL DEF HSpec

\* Every row and every request has its type, whatever interleaves: what is about
\* to be given a role or access has an account.
THEOREM AccountsTypeCorrect == HSpec => []TypeOK
BY IInvariant, IInvTypeOK, PTL

\* No registration, listing, change of address or deletion touches the role of an
\* administrator: who is about to be promoted or demoted is an app user still.
THEOREM AdministratorsUntouched == HSpec => AdminRolesAreFixed
<1>. DEFINE Fixed == \A e \in Emails :
       HasAccount(e) /\ account[e].role \in {"ADMIN_HORARIOS", "SUPER_ADMIN"}
         => account'[e].role = account[e].role
<1>1. IInv /\ [HNext]_hvars => [Fixed]_hvars
  <2>1. ASSUME IInv, NEW r \in Requests, Serve(r) \/ Fails(r)
        PROVE  Fixed
    <3>1. Kept
      BY <2>1, ServeServed DEF Served
    <3>. QED
      BY <3>1 DEF Kept, AppUser, AppRoles
  <2>2. ASSUME NEW p \in Ids, Expire(p)
        PROVE  Fixed
    BY <2>2 DEF Expire
  <2>. HIDE DEF Fixed
  <2>. QED
    BY <2>1, <2>2 DEF HNext
<1>. QED
  BY <1>1, IInvariant, PTL DEF HSpec, AdminRolesAreFixed
-----------------------------------------------------------------------------
\* Two registrations, or two first school years, met; so did a request about to
\* insert one and those that have.  A domain about to be deleted has no account
\* that has been active all along.
PendingInv ==
  /\ OnePendingUnlessRaced
  /\ \A r \in Requests, p \in Ids :
       job[r].pc = "register.insert" /\ pending[p] # NoRow /\ pending[p].email = job[r].email /\ p # r
         => {p, r} \in met
YearInv ==
  /\ OneYearUnlessRaced
  /\ \A r \in Requests, y \in years : job[r].pc = "year.insert" /\ y # r => {y, r} \in met
RemovalInv ==
  \A r \in Requests : job[r].pc = "forbid.delete" =>
    \A e \in steady[r] : DomainOf[e] # job[r].op.row
RaceInv == IInv /\ PendingInv /\ YearInv /\ RemovalInv

\* Whoever steps meets whoever is in service.
Meets(r) ==
  /\ met \subseteq met'
  /\ job'[r] # job[r] => \A q \in Requests \ {r} : InService(q) => {r, q} \in met'

LEMMA Meeting ==
  ASSUME NEW r \in Requests, Alone(r),
         met' = met \cup {{x, y} : x \in Stepped, y \in {p \in Requests \ Stepped : InService(p)}}
  PROVE  Meets(r)
<1>. DEFINE Pairs == {{x, y} : x \in Stepped, y \in {p \in Requests \ Stepped : InService(p)}}
<1>1. ASSUME NEW q \in Requests \ {r}, InService(q), job'[r] # job[r]
      PROVE  {r, q} \in Pairs
  <2>1. r \in Stepped /\ q \in {p \in Requests \ Stepped : InService(p)}
    BY <1>1 DEF Stepped, Alone
  <2>. QED
    BY <2>1
<1>. HIDE DEF Pairs
<1>2. met' = met \cup Pairs
  BY DEF Pairs
<1>. QED
  BY <1>1, <1>2 DEF Meets

LEMMA NotFirst ==
  ASSUME NEW r, job[r].pc \in {"register.insert", "year.insert", "forbid.delete"}
  PROVE  InService(r)
BY DEF InService, First

\* Which of the tables a step leaves alone.
LEMMA Untouched ==
  ASSUME NEW r \in Requests, Serve(r) \/ Fails(r)
  PROVE  /\ UNCHANGED pending \/ DeletePending(r) \/ InsertPending(r) \/ CountAttempt(r) \/ DeleteVerified(r)
         /\ UNCHANGED years \/ SetCurrentYear(r)
         /\ UNCHANGED domain \/ CreateDomain(r) \/ RemoveDomain(r)
<1>1. CASE Register(r)
  BY <1>1 DEF Register, NameIsFree, DomainIsAllowed, EmailIsFree, DeletePending, InsertPending, Check, db
<1>2. CASE VerifyEmail(r)
  BY <1>2 DEF VerifyEmail, FindPending, CountAttempt, DeleteVerified, DecideRole,
              CreateUserWithRole, InsertAccount, db
<1>3. CASE ListTeacher(r) \/ UpdateTeacher(r) \/ DeleteTeacher(r)
  BY <1>3 DEF ListTeacher, UpdateTeacher, DeleteTeacher, TeacherDomain, NobodyElseListed, Check, db
<1>4. CASE Sync(r)
  BY <1>4 DEF Sync, PromoteIfUserExists, DemoteIfOrphan, SetRole, Check, db
<1>5. CASE CreateAdmin(r) \/ ToggleRead(r) \/ ToggleWrite(r)
  BY <1>5 DEF CreateAdmin, ToggleRead, ToggleWrite, InsertAccount, Check, db
<1>6. CASE CreateDomain(r) \/ RemoveDomain(r)
  BY <1>6 DEF CreateDomain, RemoveDomain, Check, db
<1>7. CASE SetCurrentYear(r)
  BY <1>7 DEF SetCurrentYear, db
<1>8. CASE Fails(r)
  BY <1>8 DEF Fails, db
<1>. QED
  BY <1>1, <1>2, <1>3, <1>4, <1>5, <1>6, <1>7, <1>8 DEF Serve, Catalog, Administer

\* No row appears, none changes its address.
NoneNew ==
  \A p \in Ids : pending'[p] # NoRow => pending[p] # NoRow /\ pending'[p].email = pending[p].email

LEMMA PendingStep ==
  ASSUME IInv, PendingInv, NEW r \in Requests, Serve(r) \/ Fails(r), Served(r), Meets(r)
  PROVE  PendingInv'
<1>. Typed
  BY DEF IInv
<1>1. CASE InsertPending(r)
  <2>. DEFINE new == [email |-> job[r].email, name |-> job[r].name, attempts |-> 0, expired |-> FALSE]
  <2>1. pending' = [pending EXCEPT ![r] = new] /\ job[r].pc = "register.insert" /\ new.email = job[r].email
    BY <1>1 DEF InsertPending
  <2>. HIDE DEF new
  <2>2. \A p \in Ids \ {r} : pending'[p] = pending[p]
    BY <2>1 DEF Typed, Tables
  <2>3. pending'[r].email = job[r].email
    BY <2>1 DEF Typed, Tables, Ids
  <2>4. job'[r].pc = "done" /\ job'[r] # job[r]
    BY <1>1, Going, QuietPcs, <2>1 DEF InsertPending, Sent
  <2>5. \A p \in Ids \ {r} : pending[p] # NoRow /\ pending[p].email = job[r].email => {p, r} \in met'
    BY <2>1 DEF PendingInv, Meets
  <2>6. OnePendingUnlessRaced'
    <3>1. ASSUME NEW p \in Ids, NEW q \in Ids, p # q, pending'[p] # NoRow, pending'[q] # NoRow,
                 pending'[p].email = pending'[q].email
          PROVE  {p, q} \in met'
      <4>1. CASE p # r /\ q # r
        BY <2>2, <3>1, <4>1 DEF PendingInv, OnePendingUnlessRaced, Meets
      <4>2. CASE p = r
        BY <2>2, <2>3, <2>5, <3>1, <4>2
      <4>3. CASE q = r
        BY <2>2, <2>3, <2>5, <3>1, <4>3
      <4>. QED
        BY <4>1, <4>2, <4>3
    <3>. QED
      BY <3>1 DEF OnePendingUnlessRaced
  <2>7. ASSUME NEW q \in Requests, NEW p \in Ids, job'[q].pc = "register.insert",
               pending'[p] # NoRow, pending'[p].email = job'[q].email, p # q
        PROVE  {p, q} \in met'
    <3>1. q # r /\ job'[q] = job[q]
      BY <2>4, <2>7 DEF Served, Alone
    <3>2. CASE p = r
      <4>1. InService(q)
        BY <2>7, <3>1, NotFirst
      <4>. QED
        BY <2>4, <3>1, <3>2, <4>1 DEF Meets
    <3>3. CASE p # r
      BY <2>2, <2>7, <3>1, <3>3 DEF PendingInv, Meets
    <3>. QED
      BY <3>2, <3>3
  <2>. QED
    BY <2>6, <2>7 DEF PendingInv
<1>2. CASE ~InsertPending(r)
  <2>1. NoneNew
    <3>1. CASE UNCHANGED pending
      BY <3>1 DEF NoneNew
    <3>2. CASE DeletePending(r)
      BY <3>2 DEF DeletePending, NoneNew
    <3>3. CASE DeleteVerified(r)
      BY <3>3 DEF DeleteVerified, NoneNew, Typed, Tables
    <3>4. CASE CountAttempt(r)
      <4>1. CASE UNCHANGED pending
        BY <4>1 DEF NoneNew
      <4>2. CASE /\ pending[job[r].row] # NoRow
                 /\ pending' = [pending EXCEPT ![job[r].row].attempts = @ + 1]
        BY <4>2, Counting DEF NoneNew, Typed
      <4>. QED
        BY <3>4, <4>1, <4>2 DEF CountAttempt
    <3>. QED
      BY <1>2, <3>1, <3>2, <3>3, <3>4, Untouched
  <2>2. OnePendingUnlessRaced'
    BY <2>1 DEF NoneNew, PendingInv, OnePendingUnlessRaced, Meets
  <2>3. ASSUME NEW q \in Requests, NEW p \in Ids, job'[q].pc = "register.insert",
               pending'[p] # NoRow, pending'[p].email = job'[q].email, p # q
        PROVE  {p, q} \in met'
    <3>1. CASE q = r
      <4>1. DeletePending(r) /\ job'[r].email = job[r].email
        BY <2>3, <3>1 DEF Served, Entered
      <4>2. p \notin PendingOf(job[r].email) /\ pending'[p] = pending[p]
        BY <2>3, <4>1 DEF DeletePending
      <4>. QED
        BY <2>3, <3>1, <4>1, <4>2 DEF PendingOf
    <3>2. CASE q # r
      <4>1. job'[q] = job[q] /\ pending[p] # NoRow /\ pending[p].email = job[q].email
        BY <2>1, <2>3, <3>2 DEF Served, Alone, NoneNew
      <4>. QED
        BY <2>3, <4>1 DEF PendingInv, Meets
    <3>. QED
      BY <3>1, <3>2
  <2>. QED
    BY <2>2, <2>3 DEF PendingInv
<1>. QED
  BY <1>1, <1>2

LEMMA YearStep ==
  ASSUME IInv, YearInv, NEW r \in Requests, Serve(r) \/ Fails(r), Served(r), Meets(r)
  PROVE  YearInv'
<1>. Typed
  BY DEF IInv
<1>1. CASE UNCHANGED years
  <2>1. OneYearUnlessRaced'
    BY <1>1 DEF YearInv, OneYearUnlessRaced, Meets
  <2>2. ASSUME NEW q \in Requests, NEW y \in years', job'[q].pc = "year.insert", y # q
        PROVE  {y, q} \in met'
    <3>1. q # r /\ job'[q] = job[q]
      BY <1>1, <2>2 DEF Served, Entered, Alone
    <3>. QED
      BY <1>1, <2>2, <3>1 DEF YearInv, Meets
  <2>. QED
    BY <2>1, <2>2 DEF YearInv
<1>2. CASE job[r].pc = "year.insert" /\ years' = years \cup {r} /\ Goto(r, "done")
  <2>1. job'[r].pc = "done" /\ job'[r] # job[r]
    BY <1>2, Going, QuietPcs DEF Sent
  <2>2. \A y \in years : y # r => {y, r} \in met'
    BY <1>2 DEF YearInv, Meets
  <2>3. OneYearUnlessRaced'
    <3>1. ASSUME NEW y \in years', NEW z \in years', y # z
          PROVE  {y, z} \in met'
      <4>1. CASE y \in years /\ z \in years
        BY <3>1, <4>1 DEF YearInv, OneYearUnlessRaced, Meets
      <4>2. CASE y = r
        BY <1>2, <2>2, <3>1, <4>2
      <4>3. CASE z = r
        BY <1>2, <2>2, <3>1, <4>3
      <4>. QED
        BY <1>2, <4>1, <4>2, <4>3
    <3>. QED
      BY <3>1 DEF OneYearUnlessRaced
  <2>4. ASSUME NEW q \in Requests, NEW y \in years', job'[q].pc = "year.insert", y # q
        PROVE  {y, q} \in met'
    <3>1. q # r /\ job'[q] = job[q]
      BY <2>1, <2>4 DEF Served, Alone
    <3>2. InService(q)
      BY <2>4, <3>1, NotFirst
    <3>3. CASE y = r
      BY <2>1, <3>1, <3>2, <3>3 DEF Meets
    <3>4. CASE y \in years
      BY <2>4, <3>1, <3>4 DEF YearInv, Meets
    <3>. QED
      BY <1>2, <3>3, <3>4
  <2>. QED
    BY <2>3, <2>4 DEF YearInv
<1>3. SetCurrentYear(r) => UNCHANGED years \/
        (job[r].pc = "year.insert" /\ years' = years \cup {r} /\ Goto(r, "done"))
  BY DEF SetCurrentYear, db
<1>. QED
  BY <1>1, <1>2, <1>3, Untouched

LEMMA RemovalStep ==
  ASSUME IInv, RemovalInv, NEW r \in Requests, Serve(r) \/ Fails(r), Served(r),
         steady' = [q \in Requests |->
           IF InService(q)' THEN (IF InService(q) THEN steady[q] ELSE Active) \cap Active' ELSE {}]
  PROVE  RemovalInv'
<1>. SUFFICES ASSUME NEW q \in Requests, job'[q].pc = "forbid.delete",
                     NEW e \in steady'[q]
              PROVE  DomainOf[e] # job'[q].op.row
  BY DEF RemovalInv
<1>1. e \in Active'
  OBVIOUS
<1>2. CASE q = r
  <2>1. ActiveIn(job[r].op.row) = {} /\ account' = account /\ job'[r].op = job[r].op
    BY <1>2 DEF Served, Entered, Alone
  <2>. QED
    BY <1>1, <1>2, <2>1 DEF Active, ActiveIn, HasAccount
<1>3. CASE q # r
  <2>1. job'[q] = job[q]
    BY <1>3 DEF Served, Alone
  <2>2. InService(q)
    BY <2>1, NotFirst
  <2>3. e \in steady[q]
    BY <2>2
  <2>. QED
    BY <2>1, <2>3 DEF RemovalInv
<1>. QED
  BY <1>2, <1>3
-----------------------------------------------------------------------------
LEMMA InitRaceInv == HInit => RaceInv
<1>. SUFFICES ASSUME HInit PROVE RaceInv
  OBVIOUS
<1>1. IInv /\ years = {}
  BY InitIInv DEF HInit, Init
<1>2. ASSUME NEW r \in Requests
      PROVE  job[r].pc \notin {"register.insert", "year.insert", "forbid.delete"}
  <2>1. PICK s \in Scenarios : job \in [Requests -> {Arrived(op) : op \in s.operations}]
    BY DEF HInit, Init
  <2>2. PICK op \in Operations : job[r] = Arrived(op)
    BY <2>1, ScenariosAssumption DEF Consistent
  <2>. QED
    BY <2>2 DEF Arrived, First
<1>3. OnePendingUnlessRaced
  <2>1. PICK s \in Scenarios :
          pending = [p \in Ids |-> IF p \notin Codes THEN NoRow ELSE
            [email |-> s.pending[p].email, name |-> s.pending[p].name, attempts |-> 0, expired |-> FALSE]]
    BY DEF HInit, Init
  <2>2. \A p, q \in Codes : s.pending[p].email = s.pending[q].email => p = q
    BY ScenariosAssumption DEF Consistent
  <2>3. \A p \in Ids : pending[p] # NoRow => p \in Codes /\ pending[p].email = s.pending[p].email
    BY <2>1
  <2>. QED
    BY <2>2, <2>3 DEF OnePendingUnlessRaced
<1>. QED
  BY <1>1, <1>2, <1>3 DEF RaceInv, PendingInv, YearInv, RemovalInv, OneYearUnlessRaced

LEMMA NextRaceInv == RaceInv /\ [HNext]_hvars => RaceInv'
<1>. SUFFICES ASSUME RaceInv, [HNext]_hvars PROVE RaceInv'
  OBVIOUS
<1>1. IInv'
  BY NextIInv, StutterIInv DEF RaceInv, hvars
<1>2. ASSUME NEW r \in Requests, Serve(r) \/ Fails(r), HNext
      PROVE  RaceInv'
  <2>1. Served(r)
    BY <1>2, ServeServed DEF RaceInv
  <2>2. Meets(r)
    BY <1>2, <2>1, Meeting DEF HNext, Served
  <2>3. PendingInv'
    BY <1>2, <2>1, <2>2, PendingStep DEF RaceInv
  <2>4. YearInv'
    BY <1>2, <2>1, <2>2, YearStep DEF RaceInv
  <2>5. RemovalInv'
    BY <1>2, <2>1, RemovalStep DEF RaceInv, HNext
  <2>. QED
    BY <1>1, <2>3, <2>4, <2>5 DEF RaceInv
<1>3. ASSUME NEW p \in Ids, Expire(p), HNext
      PROVE  RaceInv'
  <2>1. UNCHANGED <<account, years, job>> /\ met \subseteq met'
    BY <1>3 DEF Expire, HNext
  <2>2. NoneNew
    <3>1. pending[p] \in PendingRows
      BY <1>3 DEF Expire, RaceInv, IInv, Typed, Tables
    <3>2. pending'[p] = [pending[p] EXCEPT !.expired = TRUE]
      BY <1>3 DEF Expire, RaceInv, IInv, Typed, Tables
    <3>3. pending'[p].email = pending[p].email
      BY <3>1, <3>2 DEF PendingRows
    <3>. QED
      BY <1>3, <3>3 DEF Expire, NoneNew, RaceInv, IInv, Typed, Tables
  <2>3. PendingInv'
    BY <2>1, <2>2 DEF NoneNew, RaceInv, PendingInv, OnePendingUnlessRaced
  <2>4. YearInv'
    BY <2>1 DEF RaceInv, YearInv, OneYearUnlessRaced
  <2>5. RemovalInv'
    <3>. SUFFICES ASSUME NEW r \in Requests, job'[r].pc = "forbid.delete", NEW e \in steady'[r]
                  PROVE  DomainOf[e] # job'[r].op.row
      BY DEF RemovalInv
    <3>1. InService(r)
      BY <2>1, NotFirst
    <3>2. e \in steady[r]
      BY <1>3, <3>1 DEF HNext
    <3>. QED
      BY <2>1, <3>2 DEF RaceInv, RemovalInv
  <2>. QED
    BY <1>1, <2>3, <2>4, <2>5 DEF RaceInv
<1>4. CASE UNCHANGED hvars
  <2>1. UNCHANGED <<pending, years, job, met, steady>>
    BY <1>4 DEF hvars, vars, db
  <2>. QED
    BY <1>1, <2>1 DEF RaceInv, PendingInv, YearInv, RemovalInv, OnePendingUnlessRaced, OneYearUnlessRaced
<1>5. HNext => (\E r \in Requests : Serve(r) \/ Fails(r)) \/ (\E p \in Ids : Expire(p))
  BY DEF HNext
<1>. QED
  BY <1>2, <1>3, <1>4, <1>5

THEOREM RaceInvariant == HSpec => []RaceInv
BY InitRaceInv, NextRaceInv, PTL DEF HSpec

\* Two registrations of an address, whoever verified, failed or waited meanwhile,
\* come only of two requests one of which deleted while the other was to insert.
THEOREM PendingCorrect == HSpec => []OnePendingUnlessRaced
<1>1. RaceInv => OnePendingUnlessRaced
  BY DEF RaceInv, PendingInv
<1>. QED
  BY <1>1, RaceInvariant, PTL

\* Two school years come only of two requests that both found none.
THEOREM YearsCorrect == HSpec => []OneYearUnlessRaced
<1>1. RaceInv => OneYearUnlessRaced
  BY DEF RaceInv, YearInv
<1>. QED
  BY <1>1, RaceInvariant, PTL

\* A domain that is removed has no account that was active from the first
\* statement of the removal to the last.
THEOREM RemovalCorrect == HSpec => RemovalSparesActive
<1>. DEFINE Spares == \A r \in Stepped, d \in Domains :
       domain[d] # NoRow /\ domain'[d] = NoRow
         => \A e \in steady[r] : account'[e].active => DomainOf[e] # d
<1>1. RaceInv /\ [HNext]_hvars => [Spares]_hvars
  <2>1. ASSUME RaceInv, NEW r \in Requests, Serve(r) \/ Fails(r)
        PROVE  Spares
    <3>. SUFFICES ASSUME NEW q \in Stepped, NEW d \in Domains, domain[d] # NoRow, domain'[d] = NoRow,
                         NEW e \in steady[q]
                  PROVE  DomainOf[e] # d
      OBVIOUS
    <3>1. q = r
      BY <2>1, ServeServed DEF RaceInv, Served, Alone, Stepped
    <3>2. ~CreateDomain(r)
      <4>1. r # NoRow /\ domain \in [Domains -> Requests \cup Domains \cup {NoRow}]
        BY NothingAssumption, <2>1 DEF Ids, RaceInv, IInv, Typed, Tables
      <4>. QED
        BY <4>1 DEF CreateDomain, Check, db
    <3>3. RemoveDomain(r)
      BY <2>1, <3>2, Untouched
    <3>4. job[r].pc = "forbid.delete" /\ job[r].op.row = d
      <4>1. domain \in [Domains -> Requests \cup Domains \cup {NoRow}]
        BY <2>1 DEF RaceInv, IInv, Typed, Tables
      <4>. QED
        BY <3>3, <4>1 DEF RemoveDomain, Check, db
    <3>. QED
      BY <2>1, <3>1, <3>4 DEF RaceInv, RemovalInv
  <2>2. ASSUME NEW p \in Ids, Expire(p)
        PROVE  Spares
    BY <2>2 DEF Expire
  <2>. HIDE DEF Spares
  <2>. QED
    BY <2>1, <2>2 DEF HNext
<1>. QED
  BY <1>1, RaceInvariant, PTL DEF HSpec, RemovalSparesActive
-----------------------------------------------------------------------------
(* Wrong codes.                                                              *)

\* Who is about to delete a registration, or failed to.  A request that failed
\* has a demotion and a promotion to do at most.
Blamed(p) == {r \in Requests : job[r].row = p /\ (job[r].pc = "verify.delete" \/ r \in failed)}
Promotions == {"demote.listed", "demote.read", "demote.write", "promote.read", "promote.write", "done"}
AttemptInv ==
  /\ \A r \in Requests : r \in failed => job[r].pc \in Promotions
  /\ \A p \in Ids : IsFiniteSet(Blamed(p))
  /\ \A p \in Ids : pending[p] # NoRow => pending[p].attempts <= 4 + Cardinality(Blamed(p))

LEMMA Promoted ==
  ASSUME Typed, NEW r \in Requests, Serve(r), job[r].pc \in Promotions
  PROVE  job'[r].row = job[r].row /\ job'[r].pc \in Promotions
<1>1. PromoteIfUserExists(r) \/ DemoteIfOrphan(r)
  <2>1. ~Register(r) /\ ~VerifyEmail(r)
    BY DEF Promotions, Register, NameIsFree, DomainIsAllowed, EmailIsFree, DeletePending, InsertPending, Check,
       VerifyEmail, FindPending, CountAttempt, DeleteVerified, DecideRole, CreateUserWithRole, InsertAccount
  <2>2. ~ListTeacher(r) /\ ~UpdateTeacher(r) /\ ~DeleteTeacher(r)
    BY DEF Promotions, ListTeacher, UpdateTeacher, DeleteTeacher, TeacherDomain, NobodyElseListed, Check
  <2>3. ~Administer(r)
    BY DEF Promotions, Administer, CreateAdmin, ToggleRead, ToggleWrite, InsertAccount, Check,
       CreateDomain, RemoveDomain, SetCurrentYear
  <2>. QED
    BY <2>1, <2>2, <2>3 DEF Serve, Catalog, Sync
<1>2. PICK pc \in Promotions : Goto(r, pc)
  <2>1. CASE PromoteIfUserExists(r)
    BY <2>1 DEF PromoteIfUserExists, Check, SetRole, Promotions
  <2>2. CASE DemoteIfOrphan(r)
    BY <2>2 DEF DemoteIfOrphan, AfterDemotion, SetRole, Promotions
  <2>. QED  BY <1>1, <2>1, <2>2
<1>3. Promotions \subseteq PCs
  BY DEF PCs, Promotions
<1>. QED
  BY <1>2, <1>3, Going DEF Sent

\* What a statement does to a registration.
LEMMA PendingChanges ==
  ASSUME Typed, NEW r \in Requests, Serve(r), NEW p \in Ids, pending'[p] # NoRow
  PROVE  \/ pending'[p] = pending[p]
         \/ pending'[p].attempts = 0
         \/ /\ CountAttempt(r) /\ p = job[r].row /\ pending[p] # NoRow
            /\ pending'[p].attempts = pending[p].attempts + 1
<1>1. CASE UNCHANGED pending
  BY <1>1
<1>2. CASE DeletePending(r)
  BY <1>2 DEF DeletePending
<1>3. CASE InsertPending(r)
  <2>. DEFINE new == [email |-> job[r].email, name |-> job[r].name, attempts |-> 0, expired |-> FALSE]
  <2>1. pending' = [pending EXCEPT ![r] = new] /\ new.attempts = 0
    BY <1>3 DEF InsertPending
  <2>. HIDE DEF new
  <2>. QED
    BY <2>1 DEF Typed, Tables
<1>4. CASE CountAttempt(r)
  <2>1. CASE pending[job[r].row] = NoRow
    BY <1>4, <2>1 DEF CountAttempt
  <2>2. CASE pending[job[r].row] # NoRow
    <3>1. pending' = [pending EXCEPT ![job[r].row].attempts = @ + 1]
      BY <1>4, <2>2 DEF CountAttempt
    <3>2. CASE p # job[r].row
      BY <3>1, <3>2 DEF Typed, Tables
    <3>3. CASE p = job[r].row
      <4>1. pending[p] \in PendingRows /\ pending'[p] = [pending[p] EXCEPT !.attempts = @ + 1]
        BY <2>2, <3>1, <3>3 DEF Typed, Tables
      <4>. QED
        BY <1>4, <2>2, <3>3, <4>1 DEF PendingRows
    <3>. QED
      BY <3>2, <3>3
  <2>. QED
    BY <2>1, <2>2
<1>5. CASE DeleteVerified(r)
  BY <1>5 DEF DeleteVerified, Typed, Tables
<1>. QED
  BY <1>1, <1>2, <1>3, <1>4, <1>5, Untouched

LEMMA BlamedFinite ==
  ASSUME NEW r \in Requests, Alone(r), NEW p, IsFiniteSet(Blamed(p)), failed' \subseteq failed \cup {r}
  PROVE  IsFiniteSet(Blamed(p)')
<1>1. Blamed(p)' \subseteq Blamed(p) \cup {r}
  BY DEF Blamed, Alone
<1>2. IsFiniteSet(Blamed(p) \cup {r})
  BY FS_AddElement
<1>. QED
  BY <1>1, <1>2, FS_Subset

LEMMA AttemptStep ==
  ASSUME IInv, AttemptInv, NEW r \in Requests, Serve(r), Alone(r), failed' = failed
  PROVE  AttemptInv'
<1>. Typed
  BY DEF IInv
<1>1. ASSUME NEW q \in Requests, q \in failed'
      PROVE  job'[q].pc \in Promotions
  BY <1>1, Promoted DEF AttemptInv, Alone
<1>2. ASSUME NEW p \in Ids PROVE IsFiniteSet(Blamed(p)')
  BY BlamedFinite DEF AttemptInv
<1>3. ASSUME NEW p \in Ids, pending'[p] # NoRow
      PROVE  pending'[p].attempts <= 4 + Cardinality(Blamed(p)')
  <2>1. /\ IsFiniteSet(Blamed(p)) /\ IsFiniteSet(Blamed(p)')
        /\ Cardinality(Blamed(p)) \in Nat /\ Cardinality(Blamed(p)') \in Nat
        /\ pending[p] # NoRow =>
             pending[p].attempts \in Nat /\ pending[p].attempts <= 4 + Cardinality(Blamed(p))
    BY <1>2, FS_CardinalityType DEF AttemptInv, Typed, Tables, PendingRows
  <2>2. \A q \in Requests \ {r} : q \in Blamed(p)' <=> q \in Blamed(p)
    BY DEF Blamed, Alone
  <2>3. CASE pending'[p].attempts = 0
    BY <2>1, <2>3
  <2>4. CASE pending'[p] = pending[p]
    <3>1. Blamed(p) \subseteq Blamed(p)'
      <4>1. ASSUME r \in Blamed(p) PROVE r \in Blamed(p)'
        <5>1. CASE r \in failed
          BY <4>1, <5>1, Promoted DEF AttemptInv, Blamed
        <5>2. CASE job[r].pc = "verify.delete"
          <6>1. DeleteVerified(r)
            BY <5>2 DEF Serve, Register, NameIsFree, DomainIsAllowed, EmailIsFree, DeletePending,
               InsertPending, Check, VerifyEmail, FindPending, CountAttempt, DeleteVerified, DecideRole,
               CreateUserWithRole, InsertAccount, Catalog, ListTeacher, UpdateTeacher, DeleteTeacher,
               TeacherDomain, NobodyElseListed, Sync, PromoteIfUserExists, DemoteIfOrphan, SetRole,
               Administer, CreateAdmin, ToggleRead, ToggleWrite, CreateDomain, RemoveDomain, SetCurrentYear
          <6>2. pending'[p] = NoRow
            BY <4>1, <6>1 DEF DeleteVerified, Blamed, Typed, Tables
          <6>. QED
            BY <1>3, <6>2
        <5>. QED
          BY <4>1, <5>1, <5>2 DEF Blamed
      <4>. QED
        BY <2>2, <4>1 DEF Blamed
    <3>2. Cardinality(Blamed(p)) <= Cardinality(Blamed(p)')
      BY <2>1, <3>1, FS_Subset
    <3>. QED
      BY <1>3, <2>1, <2>4, <3>2
  <2>5. CASE /\ CountAttempt(r) /\ p = job[r].row /\ pending[p] # NoRow
             /\ pending'[p].attempts = pending[p].attempts + 1
    <3>1. CASE TooManyAttempts(pending'[p].attempts)
      <4>1. Goto(r, "verify.delete") /\ "verify.delete" \in PCs /\ job[r].pc = "verify.count"
        BY <2>5, <3>1 DEF CountAttempt, PCs
      <4>2. job'[r].pc = "verify.delete" /\ job'[r].row = p
        BY <2>5, <4>1, Going DEF Sent
      <4>3. r \notin Blamed(p)
        BY <4>1 DEF Blamed, AttemptInv, Promotions
      <4>4. r \in Blamed(p)'
        BY <4>2 DEF Blamed
      <4>5. Blamed(p)' = Blamed(p) \cup {r}
        BY <2>2, <4>4 DEF Blamed
      <4>6. Cardinality(Blamed(p)') = Cardinality(Blamed(p)) + 1
        BY <2>1, <4>3, <4>5, FS_AddElement
      <4>. QED
        BY <2>1, <2>5, <4>6
    <3>2. CASE ~TooManyAttempts(pending'[p].attempts)
      BY <2>1, <2>5, <3>2 DEF TooManyAttempts
    <3>. QED
      BY <3>1, <3>2
  <2>. QED
    BY <1>3, <2>3, <2>4, <2>5, PendingChanges
<1>. QED
  BY <1>1, <1>2, <1>3 DEF AttemptInv

LEMMA AttemptFails ==
  ASSUME IInv, AttemptInv, NEW r \in Requests, Fails(r), failed' = failed \cup {r}
  PROVE  AttemptInv'
<1>1. PICK pc \in Promotions : Goto(r, pc)
  BY DEF Fails, Promotions, AfterDemotion
<1>2. Sent(r, pc)
  BY <1>1, Going DEF IInv, Promotions, PCs
<1>3. ASSUME NEW q \in Requests, q \in failed'
      PROVE  job'[q].pc \in Promotions
  BY <1>2, <1>3 DEF AttemptInv, Sent, Alone
<1>4. ASSUME NEW p \in Ids
      PROVE  /\ IsFiniteSet(Blamed(p)')
             /\ pending'[p] # NoRow => pending'[p].attempts <= 4 + Cardinality(Blamed(p)')
  <2>1. IsFiniteSet(Blamed(p)) /\ IsFiniteSet(Blamed(p)')
    BY <1>2, BlamedFinite DEF AttemptInv, Sent
  <2>2. Blamed(p) \subseteq Blamed(p)'
    BY <1>2 DEF Blamed, Sent, Alone
  <2>3. Cardinality(Blamed(p)) <= Cardinality(Blamed(p)')
    BY <2>1, <2>2, FS_Subset
  <2>4. Cardinality(Blamed(p)) \in Nat /\ Cardinality(Blamed(p)') \in Nat /\ pending' = pending
    BY <2>1, FS_CardinalityType DEF Fails, db
  <2>5. pending[p] # NoRow =>
          pending[p].attempts \in Nat /\ pending[p].attempts <= 4 + Cardinality(Blamed(p))
    BY DEF AttemptInv, IInv, Typed, Tables, PendingRows
  <2>. QED
    BY <2>1, <2>3, <2>4, <2>5
<1>. QED
  BY <1>3, <1>4 DEF AttemptInv

LEMMA AttemptExpires ==
  ASSUME IInv, AttemptInv, NEW p \in Ids, Expire(p), failed' = failed
  PROVE  AttemptInv'
<1>1. pending[p] \in PendingRows /\ pending' = [pending EXCEPT ![p].expired = TRUE] /\ job' = job
  BY DEF Expire, IInv, Typed, Tables
<1>2. pending'[p].attempts = pending[p].attempts /\ \A q \in Ids \ {p} : pending'[q] = pending[q]
  <2>1. pending'[p] = [pending[p] EXCEPT !.expired = TRUE]
    BY <1>1 DEF IInv, Typed, Tables
  <2>2. pending'[p].attempts = pending[p].attempts
    BY <1>1, <2>1 DEF PendingRows
  <2>. QED
    BY <1>1, <2>2 DEF IInv, Typed, Tables
<1>3. \A q : Blamed(q)' = Blamed(q)
  BY <1>1 DEF Blamed
<1>4. pending[p] # NoRow
  BY DEF Expire
<1>. QED
  BY <1>1, <1>2, <1>3, <1>4 DEF AttemptInv

LEMMA InitAttemptInv == HInit => AttemptInv
<1>. SUFFICES ASSUME HInit PROVE AttemptInv
  OBVIOUS
<1>1. failed = {}
  BY DEF HInit
<1>2. \A r \in Requests : job[r].pc # "verify.delete"
  <2>1. PICK s \in Scenarios : job \in [Requests -> {Arrived(op) : op \in s.operations}]
    BY DEF HInit, Init
  <2>2. ASSUME NEW r \in Requests PROVE job[r].pc # "verify.delete"
    <3>1. PICK op \in Operations : job[r] = Arrived(op)
      BY <2>1, ScenariosAssumption DEF Consistent
    <3>. QED
      BY <3>1 DEF Arrived, First
  <2>. QED
    BY <2>2
<1>3. \A p : Blamed(p) = {}
  BY <1>1, <1>2 DEF Blamed
<1>4. \A p \in Ids : pending[p] # NoRow => pending[p].attempts = 0
  <2>1. PICK s \in Scenarios :
          pending = [p \in Ids |-> IF p \notin Codes THEN NoRow ELSE
            [email |-> s.pending[p].email, name |-> s.pending[p].name, attempts |-> 0, expired |-> FALSE]]
    BY DEF HInit, Init
  <2>. QED
    BY <2>1
<1>. QED
  BY <1>1, <1>3, <1>4, FS_EmptySet DEF AttemptInv

LEMMA NextAttemptInv == IInv /\ AttemptInv /\ [HNext]_hvars => AttemptInv'
<1>. SUFFICES ASSUME IInv, AttemptInv, [HNext]_hvars PROVE AttemptInv'
  OBVIOUS
<1>1. ASSUME NEW r \in Requests, Serve(r), failed' = failed
      PROVE  AttemptInv'
  BY <1>1, ServeServed, AttemptStep DEF Served
<1>2. CASE UNCHANGED hvars
  <2>1. UNCHANGED <<job, pending, failed>>
    BY <1>2 DEF hvars, vars, db
  <2>2. \A q : Blamed(q)' = Blamed(q)
    BY <2>1 DEF Blamed
  <2>. QED
    BY <2>1, <2>2 DEF AttemptInv
<1>. QED
  BY <1>1, <1>2, AttemptFails, AttemptExpires DEF HNext

\* A registration outlives four wrong codes, and one more for every request that
\* is about to delete it or failed to, however many mistype codes at once
\* (auth_service.rs, verify_email).
THEOREM AttemptsCorrect == HSpec => []AttemptsBounded
<1>1. AttemptInv => AttemptsBounded
  BY DEF AttemptInv, AttemptsBounded, Blamed
<1>2. HSpec => []AttemptInv
  BY InitAttemptInv, NextAttemptInv, IInvariant, PTL DEF HSpec
<1>. QED
  BY <1>1, <1>2, PTL
-----------------------------------------------------------------------------
(* The role of an address.  Unless requests about it overlapped or failed,    *)
(* somebody who decides about it is at work and knows whether it is listed,   *)
(* or its app user has the role that the catalog gives it.                    *)

Deciders == {"verify", "listTeacher", "updateTeacher", "deleteTeacher"}
VerifyPcs == {"verify.find", "verify.count", "verify.role", "verify.create", "verify.delete"}
ListPcs == {"list.domain", "list.email", "list.insert"}
MovePcs == {"update.domain", "update.email", "update.write"}
DemotePcs == {"demote.listed", "demote.read", "demote.write"}
PromotePcs == {"promote.read", "promote.write"}
RolePcs == VerifyPcs \cup ListPcs \cup MovePcs \cup DemotePcs \cup PromotePcs
             \cup {"update.read", "delete.read", "delete.row"}

\* The operation tells where a request can be, and what it has read by then.
KindOf(r) ==
  LET j == job[r]
      kind == job[r].op.kind
  IN  /\ kind \in Deciders <=> j.pc \in RolePcs \/ (j.pc = "done" /\ kind \in Deciders)
      /\ j.pc \in VerifyPcs => kind = "verify"
      /\ j.pc \in ListPcs => kind = "listTeacher"
      /\ j.pc \in MovePcs \cup {"update.read"} => kind = "updateTeacher"
      /\ j.pc \in {"delete.read", "delete.row"} => kind = "deleteTeacher"
      /\ j.pc \in DemotePcs => kind \in {"updateTeacher", "deleteTeacher"}
      /\ j.pc \in PromotePcs => kind \in {"listTeacher", "updateTeacher"}
      /\ j.pc \in {"update.read", "delete.read"} \/ kind \in {"verify", "listTeacher"} => j.old = NoEmail
      /\ kind \in {"updateTeacher", "deleteTeacher"} => j.row = j.op.row
      /\ kind = "updateTeacher" /\ j.pc \in DemotePcs \cup PromotePcs => j.old # j.email

\* The role of an address, as far as the catalog decides about it.
AppRole(e) == IF AppUser(e) THEN account[e].role ELSE "NONE"
RolesSame == \A e \in Emails : AppRole(e)' = AppRole(e)
RoleSet(x, role) == \A e \in Emails : AppRole(e)' = IF e = x THEN role ELSE AppRole(e)

\* What the statements of a request do to the catalog, to the roles and to what
\* the request knows.
Sends(r, pc) == Sent(r, pc) /\ teacher' = teacher
Passes(r) ==
  \E pc \in PCs :
    /\ Sends(r, pc) /\ RolesSame
    /\ \/ pc = "done" /\ job[r].pc \in RolePcs \ (DemotePcs \cup PromotePcs)
       \/ job[r].pc = "verify.count" /\ pc \in {"verify.find", "verify.delete"}
       \/ job[r].pc \in ListPcs /\ pc \in ListPcs
       \/ job[r].pc \in MovePcs /\ pc \in MovePcs
Elsewhere(r) ==
  /\ job[r].op.kind \notin Deciders /\ job'[r].op = job[r].op /\ job'[r].pc \notin RolePcs
  /\ teacher' = teacher /\ RolesSame
Finds(r) ==
  /\ job[r].pc = "verify.find" /\ job'[r].pc \in {"done", "verify.delete", "verify.role", "verify.count"}
  /\ job'[r].op = job[r].op /\ job'[r].row = job[r].row /\ job'[r].old = job[r].old
  /\ teacher' = teacher /\ RolesSame
Judges(r) ==
  /\ job[r].pc = "verify.role" /\ job'[r].pc = "verify.create"
  /\ job'[r].op = job[r].op /\ job'[r].row = job[r].row /\ job'[r].old = job[r].old
  /\ job'[r].email = job[r].email /\ job'[r].role = (IF Listed(job[r].email) THEN "TEACHER" ELSE "STUDENT")
  /\ teacher' = teacher /\ RolesSame
Creates(r) ==
  /\ job[r].pc = "verify.create" /\ (Sends(r, "verify.delete") \/ Sends(r, "done"))
  /\ RolesSame \/ RoleSet(job[r].email, job[r].role)
Reads(r) ==
  /\ \/ job[r].pc = "update.read" /\ job'[r].pc \in {"update.domain", "done"}
     \/ job[r].pc = "delete.read" /\ job'[r].pc = "delete.row"
  /\ job'[r].old = IF teacher[job[r].row] = NoRow THEN NoEmail ELSE teacher[job[r].row]
  /\ job'[r].op = job[r].op /\ job'[r].row = job[r].row /\ job'[r].email = job[r].email
  /\ teacher' = teacher /\ RolesSame
Lists(r) ==
  /\ job[r].pc = "list.insert" /\ teacher' = WriteTeacher(r, job[r].email) /\ RolesSame
  /\ Sent(r, IF teacher'[r] = NoRow THEN "done" ELSE "promote.read")
Moves(r) ==
  /\ job[r].pc = "update.write" /\ RolesSame
  /\ teacher' = IF teacher[job[r].row] = NoRow THEN teacher ELSE WriteTeacher(job[r].row, job[r].email)
  /\ Sent(r, IF teacher'[job[r].row] = job[r].email /\ job[r].old # job[r].email
             THEN "demote.listed" ELSE "done")
Deletes(r) ==
  /\ job[r].pc = "delete.row" /\ RolesSame
  /\ teacher' = [teacher EXCEPT ![job[r].row] = NoRow]
  /\ Sent(r, IF teacher[job[r].row] = NoRow THEN "done" ELSE "demote.listed")
Promotes(r) ==
  \/ /\ job[r].pc = "promote.read" /\ RolesSame
     /\ \/ Sends(r, "promote.write")
        \/ Sends(r, "done") /\ (job[r].email \in Emails => AppRole(job[r].email) # "STUDENT")
  \/ /\ job[r].pc = "promote.write" /\ Sends(r, "done") /\ RoleSet(job[r].email, "TEACHER")
Demotes(r) ==
  \/ /\ job[r].pc = "demote.listed" /\ RolesSame
     /\ Sends(r, IF Listed(job[r].old) THEN AfterDemotion(r) ELSE "demote.read")
  \/ /\ job[r].pc = "demote.read" /\ RolesSame
     /\ \/ Sends(r, "demote.write")
        \/ Sends(r, AfterDemotion(r)) /\ (job[r].old \in Emails => AppRole(job[r].old) # "TEACHER")
  \/ job[r].pc = "demote.write" /\ Sends(r, AfterDemotion(r)) /\ RoleSet(job[r].old, "STUDENT")
Drops(r) ==
  /\ job[r].pc # "done" /\ RolesSame
  /\ \/ Sends(r, "done")
     \/ Sends(r, AfterDemotion(r)) /\ job[r].pc \in DemotePcs
     \/ Sends(r, "demote.read") /\ job[r].pc = "demote.listed"

LEMMA AccountsSame ==
  ASSUME account' = account
  PROVE  RolesSame
BY DEF RolesSame, AppRole, AppUser, HasAccount

\* A test, and what follows it.
LEMMA Tested ==
  ASSUME Typed, NEW r \in Requests, NEW pc \in PCs, NEW next \in PCs, NEW test,
         Check(r, pc, test, next)
  PROVE  /\ job[r].pc = pc /\ RolesSame
         /\ (test /\ Sends(r, next)) \/ (~test /\ Sends(r, "done"))
<1>1. Goto(r, IF test THEN next ELSE "done") /\ UNCHANGED db /\ job[r].pc = pc
  BY DEF Check
<1>2. RolesSame /\ teacher' = teacher
  BY <1>1, AccountsSame DEF db
<1>. QED
  BY <1>1, <1>2, Going DEF PCs, Sends

LEMMA VerifyDoes ==
  ASSUME IInv, NEW r \in Requests, VerifyEmail(r), Served(r)
  PROVE  Passes(r) \/ Finds(r) \/ Judges(r) \/ Creates(r)
<1>typ. Typed /\ job[r] \in Jobs /\ job \in [Requests -> Jobs] /\ job'[r].op = job[r].op /\ Prepared(r)
  BY DEF IInv, Typed, Served, Alone
<1>1. CASE FindPending(r)
  <2>1. UNCHANGED db /\ job[r].pc = "verify.find"
    BY <1>1 DEF FindPending
  <2>2. RolesSame /\ teacher' = teacher
    BY <2>1, AccountsSame DEF db
  <2>. DEFINE p == pending[job[r].row]
              pc == IF p = NoRow THEN "done" ELSE IF p.expired THEN "verify.delete"
                    ELSE IF job[r].op.on THEN "verify.role" ELSE "verify.count"
  <2>3. pc \in {"done", "verify.delete", "verify.role", "verify.count"}
    OBVIOUS
  <2>4. job'[r].pc = pc /\ job'[r].row = job[r].row /\ job'[r].old = job[r].old
    <3>1. CASE p = NoRow
      <4>1. job'[r] = [job[r] EXCEPT !.pc = "done"] /\ pc = "done"
        BY <1>1, <1>typ, <3>1 DEF FindPending
      <4>. QED  BY ONLY <4>1, <1>typ DEF Jobs
    <3>2. CASE p # NoRow
      <4>. DEFINE e == p.email
                  n == p.name
      <4>1. job'[r] = [job[r] EXCEPT !.email = e, !.name = n, !.pc = pc]
        BY <1>1, <1>typ, <3>2 DEF FindPending
      <4>. HIDE DEF e, n, pc
      <4>. QED  BY ONLY <4>1, <1>typ DEF Jobs
    <3>. QED  BY <3>1, <3>2
  <2>. HIDE DEF pc
  <2>. QED  BY <2>1, <2>2, <2>3, <2>4, <1>typ DEF Finds
<1>2. CASE CountAttempt(r)
  <2>1. PICK pc \in {"verify.delete", "verify.find"} : Goto(r, pc)
    BY <1>2 DEF CountAttempt
  <2>. QED  BY <1>2, <2>1, <1>typ, Going, AccountsSame, QuietPcs DEF CountAttempt, Passes, Sends, PCs
<1>3. CASE DeleteVerified(r)
  BY <1>3, <1>typ, Going, AccountsSame, QuietPcs
     DEF DeleteVerified, Passes, Sends, RolePcs, VerifyPcs, DemotePcs, PromotePcs, PCs
<1>4. CASE DecideRole(r)
  <2>. DEFINE role == IF Listed(job[r].email) THEN "TEACHER" ELSE "STUDENT"
  <2>1. job'[r] = [job[r] EXCEPT !.pc = "verify.create", !.role = role]
    BY <1>4, <1>typ DEF DecideRole
  <2>2. RolesSame /\ teacher' = teacher /\ job[r].pc = "verify.role"
    BY <1>4, AccountsSame DEF DecideRole, db
  <2>. HIDE DEF role
  <2>3. /\ job'[r].pc = "verify.create" /\ job'[r].role = role /\ job'[r].email = job[r].email
        /\ job'[r].row = job[r].row /\ job'[r].old = job[r].old
    BY <2>1, <1>typ DEF Jobs
  <2>. QED  BY <2>2, <2>3, <1>typ DEF Judges, role
<1>5. CASE CreateUserWithRole(r)
  <2>. DEFINE clash == HasAccount(job[r].email) \/ NameTaken(job[r].name)
              new == [role |-> job[r].role, active |-> TRUE, name |-> job[r].name]
  <2>1. /\ account' = IF clash THEN account ELSE [account EXCEPT ![job[r].email] = new]
        /\ Goto(r, IF clash THEN "done" ELSE "verify.delete") /\ teacher' = teacher
        /\ job[r].pc = "verify.create"
    BY <1>5 DEF CreateUserWithRole, InsertAccount
  <2>2. Sends(r, "verify.delete") \/ Sends(r, "done")
    BY <2>1, <1>typ, Going, QuietPcs DEF Sends, PCs
  <2>3. new.role = job[r].role /\ job[r].role \in AppRoles /\ new # NoAccount
    <3>1. new \in AccountRows
      BY <2>1, <1>typ DEF AccountRows, Roles, AppRoles, Jobs, Prepared, WithName
    <3>. QED  BY <3>1, <1>typ, NothingAssumption DEF Jobs
  <2>. HIDE DEF new, clash
  <2>4. CASE clash
    BY <2>1, <2>2, <2>4, AccountsSame DEF Creates
  <2>5. CASE ~clash
    <3>1. \A e \in Emails : account'[e] = IF e = job[r].email THEN new ELSE account[e]
      BY <2>1, <2>5, <1>typ DEF Typed, Tables
    <3>2. RoleSet(job[r].email, job[r].role)
      BY <2>3, <3>1 DEF RoleSet, AppRole, AppUser, HasAccount
    <3>. QED  BY <2>1, <2>2, <3>2 DEF Creates
  <2>. QED  BY <2>4, <2>5
<1>. QED  BY <1>1, <1>2, <1>3, <1>4, <1>5 DEF VerifyEmail

LEMMA CatalogDoes ==
  ASSUME IInv, NEW r \in Requests, ListTeacher(r) \/ UpdateTeacher(r) \/ DeleteTeacher(r), Served(r)
  PROVE  Passes(r) \/ Lists(r) \/ Reads(r) \/ Moves(r) \/ Deletes(r)
<1>typ. Typed /\ job[r] \in Jobs /\ job \in [Requests -> Jobs] /\ job'[r].op = job[r].op
  BY DEF IInv, Typed, Served, Alone
<1>goto. \A pc \in PCs : Goto(r, pc) => Sent(r, pc)
  BY <1>typ, Going
<1>pcs. {"done", "promote.read", "demote.listed"} \cup ListPcs \cup MovePcs \subseteq PCs
  BY DEF PCs, ListPcs, MovePcs
<1>0. ASSUME NEW pc \in ListPcs \cup MovePcs, NEW next \in ListPcs \cup MovePcs, NEW test,
             Check(r, pc, test, next), pc \in ListPcs <=> next \in ListPcs
      PROVE  Passes(r)
  <2>1. job[r].pc = pc /\ RolesSame /\ (Sends(r, next) \/ Sends(r, "done"))
    BY <1>0, <1>typ, <1>pcs, Tested
  <2>2. pc \in RolePcs \ (DemotePcs \cup PromotePcs)
    BY DEF RolePcs, ListPcs, MovePcs, DemotePcs, PromotePcs
  <2>3. CASE Sends(r, "done")
    BY <2>1, <2>2, <2>3, <1>pcs DEF Passes
  <2>4. CASE Sends(r, next)
    BY <1>0, <2>1, <2>4, <1>pcs DEF Passes
  <2>. QED  BY <2>1, <2>3, <2>4
<1>1. CASE \/ TeacherDomain(r, "list.domain", "list.email")
           \/ NobodyElseListed(r, "list.email", "list.insert")
           \/ TeacherDomain(r, "update.domain", "update.email")
           \/ NobodyElseListed(r, "update.email", "update.write")
  BY <1>1, <1>0 DEF TeacherDomain, NobodyElseListed, ListPcs, MovePcs
<1>2. CASE /\ job[r].pc = "list.insert"
           /\ teacher' = WriteTeacher(r, job[r].email)
           /\ Goto(r, IF teacher'[r] = NoRow THEN "done" ELSE "promote.read")
           /\ UNCHANGED <<account, domain, pending, years>>
  BY <1>2, <1>goto, <1>pcs, AccountsSame DEF Lists
<1>3. CASE \/ /\ job[r].pc = "update.read"
              /\ job' = [job EXCEPT ![r].old = IF teacher[job[r].row] = NoRow THEN NoEmail
                                               ELSE teacher[job[r].row],
                                    ![r].pc = IF teacher[job[r].row] = NoRow THEN "done"
                                              ELSE "update.domain"]
              /\ UNCHANGED db
           \/ /\ job[r].pc = "delete.read"
              /\ job' = [job EXCEPT ![r].pc = "delete.row",
                                    ![r].old = IF teacher[job[r].row] = NoRow THEN NoEmail
                                               ELSE teacher[job[r].row]]
              /\ UNCHANGED db
  <2>. DEFINE old == IF teacher[job[r].row] = NoRow THEN NoEmail ELSE teacher[job[r].row]
  <2>1. \E pc : /\ job'[r] = [job[r] EXCEPT !.old = old, !.pc = pc]
                /\ \/ job[r].pc = "update.read" /\ pc \in {"update.domain", "done"}
                   \/ job[r].pc = "delete.read" /\ pc = "delete.row"
    BY <1>3, <1>typ
  <2>2. RolesSame /\ teacher' = teacher
    BY <1>3, AccountsSame DEF db
  <2>. HIDE DEF old
  <2>3. PICK pc : /\ job'[r] = [job[r] EXCEPT !.old = old, !.pc = pc]
                  /\ \/ job[r].pc = "update.read" /\ pc \in {"update.domain", "done"}
                     \/ job[r].pc = "delete.read" /\ pc = "delete.row"
    BY <2>1
  <2>4. job'[r].pc = pc /\ job'[r].old = old /\ job'[r].email = job[r].email /\ job'[r].row = job[r].row
    BY <2>3, <1>typ DEF Jobs
  <2>. QED  BY <2>2, <2>3, <2>4, <1>typ DEF Reads, old
<1>4. CASE /\ job[r].pc = "update.write"
           /\ teacher' = IF teacher[job[r].row] = NoRow THEN teacher
                         ELSE WriteTeacher(job[r].row, job[r].email)
           /\ Goto(r, IF teacher'[job[r].row] = job[r].email /\ job[r].old # job[r].email
                      THEN "demote.listed" ELSE "done")
           /\ UNCHANGED <<account, domain, pending, years>>
  BY <1>4, <1>goto, <1>pcs, AccountsSame DEF Moves
<1>5. CASE /\ job[r].pc = "delete.row"
           /\ teacher' = [teacher EXCEPT ![job[r].row] = NoRow]
           /\ Goto(r, IF teacher[job[r].row] = NoRow THEN "done" ELSE "demote.listed")
           /\ UNCHANGED <<account, domain, pending, years>>
  BY <1>5, <1>goto, <1>pcs, AccountsSame DEF Deletes
<1>6. CASE ListTeacher(r)
  BY <1>1, <1>2, <1>6 DEF ListTeacher
<1>7. CASE UpdateTeacher(r)
  BY <1>1, <1>3, <1>4, <1>7 DEF UpdateTeacher
<1>8. CASE DeleteTeacher(r)
  BY <1>3, <1>5, <1>8 DEF DeleteTeacher
<1>. QED  BY <1>6, <1>7, <1>8

\* Writing the role of an app user.
LEMMA RoleWritten ==
  ASSUME Typed, NEW e \in Emails, AppUser(e), NEW role \in AppRoles,
         account' = [account EXCEPT ![e].role = role]
  PROVE  RoleSet(e, role)
<1>1. account[e] \in AccountRows
  BY DEF Typed, Tables, AppUser, HasAccount
<1>2. account'[e] = [account[e] EXCEPT !.role = role] /\ \A f \in Emails \ {e} : account'[f] = account[f]
  BY DEF Typed, Tables
<1>3. account'[e] \in AccountRows /\ account'[e].role = role
  BY <1>1, <1>2 DEF AccountRows, AppRoles, Roles
<1>. QED  BY <1>2, <1>3, NothingAssumption DEF RoleSet, AppRole, AppUser, HasAccount

LEMMA SyncDoes ==
  ASSUME IInv, NEW r \in Requests, Sync(r), Served(r)
  PROVE  Promotes(r) \/ Demotes(r)
<1>typ. Typed /\ job[r] \in Jobs /\ Prepared(r)
  BY DEF IInv, Typed
<1>goto. \A pc \in PCs : Goto(r, pc) => Sent(r, pc)
  BY <1>typ, Going
<1>pcs. {"done", "promote.read", "promote.write", "demote.listed", "demote.read", "demote.write"} \subseteq PCs
        /\ AfterDemotion(r) \in PCs
  BY DEF PCs, AfterDemotion
<1>role. \A e \in Emails, role \in AppRoles : HasRole(e, role) <=> AppRole(e) = role
  BY NothingAssumption DEF HasRole, AppRole, AppUser, HasAccount, AppRoles
<1>1. CASE Check(r, "promote.read", HasRole(job[r].email, "STUDENT"), "promote.write")
  BY <1>1, <1>typ, <1>pcs, <1>role, Tested DEF Promotes, AppRoles
<1>2. CASE SetRole(r, "promote.write", job[r].email, "TEACHER", "done")
  BY <1>2, <1>typ, <1>pcs, <1>goto, RoleWritten
     DEF SetRole, Prepared, AppUser, Promotes, Sends, AppRoles
<1>3. CASE /\ job[r].pc = "demote.listed"
           /\ Goto(r, IF Listed(job[r].old) THEN AfterDemotion(r) ELSE "demote.read")
           /\ UNCHANGED db
  BY <1>3, <1>goto, <1>pcs, AccountsSame DEF Demotes, Sends, db
<1>4. CASE /\ job[r].pc = "demote.read"
           /\ Goto(r, IF HasRole(job[r].old, "TEACHER") THEN "demote.write" ELSE AfterDemotion(r))
           /\ UNCHANGED db
  BY <1>4, <1>goto, <1>pcs, <1>role, AccountsSame DEF Demotes, Sends, db, AppRoles
<1>5. CASE SetRole(r, "demote.write", job[r].old, "STUDENT", AfterDemotion(r))
  BY <1>5, <1>typ, <1>pcs, <1>goto, RoleWritten
     DEF SetRole, Prepared, AppUser, Demotes, Sends, AppRoles
<1>. QED
  BY <1>1, <1>2, <1>3, <1>4, <1>5 DEF Sync, PromoteIfUserExists, DemoteIfOrphan

\* The other operations have nothing to do with the catalog or with app roles.
OtherPcs == {"register.name", "register.domain", "register.email", "register.delete", "register.insert",
  "admin.domain", "admin.email", "admin.name", "admin.insert", "toggle.read", "toggle.write",
  "allow.find", "allow.insert", "forbid.find", "forbid.users", "forbid.delete",
  "year.find", "year.insert", "year.update"}

LEMMA OtherSteps ==
  ASSUME Typed, NEW r \in Requests, Register(r) \/ Administer(r)
  PROVE  job[r].pc \in OtherPcs /\ job'[r].pc \in OtherPcs \cup {"done"} /\ teacher' = teacher
<1>typ. job[r] \in Jobs /\ job \in [Requests -> Jobs]
  BY DEF Typed
<1>1. ASSUME NEW pc \in OtherPcs, NEW next \in OtherPcs, NEW test, Check(r, pc, test, next)
      PROVE  job[r].pc \in OtherPcs /\ job'[r].pc \in OtherPcs \cup {"done"} /\ teacher' = teacher
  <2>1. pc \in PCs /\ next \in PCs
    BY DEF OtherPcs, PCs
  <2>. QED  BY <1>1, <2>1, Checking DEF Sent, db
<1>2. \A pc \in OtherPcs \cup {"done"} : Goto(r, pc) => job'[r].pc = pc
  <2>1. OtherPcs \cup {"done"} \subseteq PCs
    BY DEF OtherPcs, PCs
  <2>. QED  BY <2>1, Going DEF Sent
<1>3. CASE Register(r)
  <2>1. CASE NameIsFree(r) \/ DomainIsAllowed(r) \/ EmailIsFree(r)
    BY <2>1, <1>1 DEF NameIsFree, DomainIsAllowed, EmailIsFree, OtherPcs
  <2>2. CASE DeletePending(r) \/ InsertPending(r)
    BY <2>2, <1>2 DEF DeletePending, InsertPending, OtherPcs
  <2>. QED  BY <1>3, <2>1, <2>2 DEF Register
<1>4. CASE CreateAdmin(r)
  <2>1. CASE \/ Check(r, "admin.domain", Allowed(job[r].email), "admin.email")
             \/ Check(r, "admin.email", ~HasAccount(job[r].email), "admin.name")
    BY <2>1, <1>1 DEF OtherPcs
  <2>2. CASE /\ job[r].pc = "admin.name"
             /\ \E n \in {m \in Names : ~NameTaken(m)} :
                  job' = [job EXCEPT ![r].name = n, ![r].pc = "admin.insert"]
             /\ UNCHANGED db
    <3>1. PICK n \in Names : job' = [job EXCEPT ![r].name = n, ![r].pc = "admin.insert"]
      BY <2>2
    <3>2. job'[r] = [job[r] EXCEPT !.name = n, !.pc = "admin.insert"]
      BY <3>1, <1>typ
    <3>3. job'[r].pc = "admin.insert"
      BY <3>2, <1>typ DEF Jobs
    <3>. QED  BY <2>2, <3>3 DEF OtherPcs, db
  <2>3. CASE InsertAccount(r, "admin.insert", "ADMIN_HORARIOS", "done")
    BY <2>3, <1>2 DEF InsertAccount, OtherPcs
  <2>. QED  BY <1>4, <2>1, <2>2, <2>3 DEF CreateAdmin
<1>5. CASE ToggleRead(r) \/ ToggleWrite(r)
  BY <1>5, <1>1, <1>2 DEF ToggleRead, ToggleWrite, OtherPcs
<1>6. CASE CreateDomain(r)
  BY <1>6, <1>1, <1>2 DEF CreateDomain, OtherPcs
<1>7. CASE RemoveDomain(r)
  <2>. DEFINE d == job[r].op.row
  <2>1. CASE /\ job[r].pc = "forbid.find"
             /\ job' = [job EXCEPT ![r].row = domain[d],
                                   ![r].pc = IF domain[d] = NoRow THEN "done" ELSE "forbid.users"]
             /\ UNCHANGED db
    <3>1. job'[r] = [job[r] EXCEPT !.row = domain[d],
                                   !.pc = IF domain[d] = NoRow THEN "done" ELSE "forbid.users"]
      BY <2>1, <1>typ
    <3>2. job'[r].pc \in {"done", "forbid.users"}
      BY <3>1, <1>typ DEF Jobs
    <3>. QED  BY <2>1, <3>2 DEF OtherPcs, db
  <2>2. CASE Check(r, "forbid.users", ActiveIn(d) = {}, "forbid.delete")
    BY <2>2, <1>1 DEF OtherPcs
  <2>3. CASE job[r].pc = "forbid.delete" /\ Goto(r, "done") /\ UNCHANGED <<account, teacher, pending, years>>
    BY <2>3, <1>2 DEF OtherPcs
  <2>. QED  BY <1>7, <2>1, <2>2, <2>3 DEF RemoveDomain
<1>8. CASE SetCurrentYear(r)
  BY <1>8, <1>2 DEF SetCurrentYear, OtherPcs, db
<1>. QED  BY <1>3, <1>4, <1>5, <1>6, <1>7, <1>8 DEF Administer

LEMMA OtherRoles ==
  ASSUME IInv, NEW r \in Requests, Register(r) \/ Administer(r)
  PROVE  RolesSame
<1>typ. Typed /\ job[r] \in Jobs /\ Prepared(r)
  BY DEF IInv, Typed
<1>1. CASE account' = account
  BY <1>1, AccountsSame
<1>2. CASE InsertAccount(r, "admin.insert", "ADMIN_HORARIOS", "done")
  <2>. DEFINE clash == HasAccount(job[r].email) \/ NameTaken(job[r].name)
              new == [role |-> "ADMIN_HORARIOS", active |-> TRUE, name |-> job[r].name]
  <2>1. account' = (IF clash THEN account ELSE [account EXCEPT ![job[r].email] = new])
    BY <1>2 DEF InsertAccount
  <2>2. ~clash => ~HasAccount(job[r].email)
    OBVIOUS
  <2>3. new.role \notin AppRoles
    BY DEF AppRoles
  <2>. HIDE DEF clash, new
  <2>. QED  BY <1>typ, <2>1, <2>2, <2>3 DEF RolesSame, AppRole, AppUser, HasAccount, Typed, Tables
<1>3. CASE ToggleWrite(r)
  <2>. DEFINE x == job[r].email
  <2>1. account' = [account EXCEPT ![x].active = job[r].op.on] /\ x \in Emails /\ HasAccount(x)
    BY <1>3, <1>typ DEF ToggleWrite, Prepared, Toggling
  <2>2. account[x] \in AccountRows /\ job[r].op.on \in BOOLEAN
    BY <2>1, <1>typ DEF Typed, Tables, HasAccount, Jobs, Operations
  <2>. HIDE DEF x
  <2>3. account'[x] = [account[x] EXCEPT !.active = job[r].op.on] /\ \A f \in Emails \ {x} : account'[f] = account[f]
    BY <2>1, <1>typ DEF Typed, Tables
  <2>4. account'[x] \in AccountRows /\ account'[x].role = account[x].role
    BY <2>2, <2>3 DEF AccountRows
  <2>. QED  BY <2>2, <2>3, <2>4, NothingAssumption DEF RolesSame, AppRole, AppUser, HasAccount
<1>4. CASE Register(r)
  BY <1>4, <1>1 DEF Register, NameIsFree, DomainIsAllowed, EmailIsFree, DeletePending, InsertPending, Check, db
<1>5. CASE Administer(r)
  BY <1>5, <1>1, <1>2, <1>3 DEF Administer, CreateAdmin, ToggleRead, CreateDomain, RemoveDomain,
     SetCurrentYear, Check, db
<1>. QED  BY <1>4, <1>5

LEMMA ElsewhereDoes ==
  ASSUME IInv, NEW r \in Requests, KindOf(r), Register(r) \/ Administer(r), Served(r)
  PROVE  Elsewhere(r)
<1>1. job[r].pc \in OtherPcs /\ job'[r].pc \in OtherPcs \cup {"done"} /\ teacher' = teacher
  BY OtherSteps DEF IInv
<1>2. OtherPcs \cap (RolePcs \cup {"done"}) = {} /\ "done" \notin RolePcs
  BY DEF OtherPcs, RolePcs, VerifyPcs, ListPcs, MovePcs, DemotePcs, PromotePcs
<1>3. job[r].op.kind \notin Deciders
  BY <1>1, <1>2 DEF KindOf
<1>. QED
  BY <1>1, <1>2, <1>3, OtherRoles DEF Elsewhere, Served, Alone

LEMMA FailDoes ==
  ASSUME IInv, NEW r \in Requests, Fails(r)
  PROVE  Drops(r)
<1>1. teacher' = teacher /\ RolesSame /\ job[r].pc # "done"
  BY AccountsSame DEF Fails, db
<1>2. CASE Goto(r, "done")
  BY <1>1, <1>2, Going DEF IInv, PCs, Drops, Sends
<1>3. CASE job[r].pc \in {"demote.read", "demote.write"} /\ Goto(r, AfterDemotion(r))
  BY <1>1, <1>3, Going DEF IInv, PCs, AfterDemotion, Drops, Sends, DemotePcs
<1>4. CASE job[r].pc = "demote.listed" /\ Goto(r, "demote.read")
  BY <1>1, <1>4, Going DEF IInv, PCs, Drops, Sends
<1>. QED  BY <1>2, <1>3, <1>4 DEF Fails

\* What a statement does to roles and catalog.
Effect(r) ==
  \/ Passes(r) \/ Elsewhere(r) \/ Finds(r) \/ Judges(r) \/ Creates(r) \/ Reads(r)
  \/ Lists(r) \/ Moves(r) \/ Deletes(r) \/ Promotes(r) \/ Demotes(r)

LEMMA Does ==
  ASSUME IInv, NEW r \in Requests, KindOf(r), Serve(r), Served(r)
  PROVE  Effect(r)
BY VerifyDoes, CatalogDoes, SyncDoes, ElsewhereDoes DEF Serve, Catalog, Effect
-----------------------------------------------------------------------------
\* What a request has decided about stays; before it has found its registration,
\* a verification has no address.  An address is in trouble when one of those
\* that decide about it failed or met another about it or its row.
Window == MovePcs \cup {"delete.row"}
Commits(r, e) == Decides(r, e) /\ job[r].pc \notin {"verify.find", "verify.count"}
Near(q, r, e) == Met(q, r) /\ (Commits(q, e) \/ RowOf(q) = RowOf(r))
Troubled(e) == \E r \in Requests : Commits(r, e) /\ (r \in failed \/ \E q \in Requests : Near(q, r, e))

\* Who is about to reconsider an address that left the catalog, or entered it,
\* and who is about to insert its account.
Removing(r, e) == job[r].pc \in DemotePcs /\ job[r].old = e
Adding(r, e) ==
  job[r].pc \in DemotePcs \cup PromotePcs /\ job[r].op.kind # "deleteTeacher" /\ job[r].email = e
Creating(r, e) == job[r].pc = "verify.create" /\ job[r].email = e
Good(e) == AppRole(e) # "NONE" => (AppRole(e) = "TEACHER" <=> Listed(e))

Unique == \A s, t \in Ids : teacher[s] = teacher[t] /\ teacher[s] \in Emails => s = t
RowOpen(r) == job[r].pc \in ListPcs => teacher[r] = NoRow
KnowsOld(r) ==
  job[r].pc \in Window => \A e \in Emails : (job[r].old = e <=> teacher[job[r].row] = e) \/ Troubled(e)
Knows(r, e) ==
  /\ Removing(r, e) => ~Listed(e)
  /\ Adding(r, e) => Listed(e)
  /\ Creating(r, e) => (job[r].role = "TEACHER" <=> Listed(e))
AtWork(e) == \E r \in Requests : Removing(r, e) \/ Adding(r, e)
RoleInv ==
  /\ Unique
  /\ \A r \in Requests : KindOf(r) /\ RowOpen(r) /\ KnowsOld(r)
  /\ \A e \in Emails : ~Troubled(e) => (\A r \in Requests : Knows(r, e)) /\ (Good(e) \/ AtWork(e))

LEMMA KindKept ==
  ASSUME NEW r \in Requests, KindOf(r), Effect(r) \/ Drops(r)
  PROVE  KindOf(r)'
<1>1. CASE Passes(r)
  BY <1>1 DEF Passes, Sends, Sent, Alone, KindOf, Deciders,
     RolePcs, VerifyPcs, ListPcs, MovePcs, DemotePcs, PromotePcs
<1>2. CASE Elsewhere(r)
  BY <1>2 DEF Elsewhere, KindOf, Deciders, RolePcs, VerifyPcs, ListPcs, MovePcs, DemotePcs, PromotePcs
<1>3. CASE Finds(r)
  BY <1>3 DEF Finds, KindOf, Deciders, RolePcs, VerifyPcs, ListPcs, MovePcs, DemotePcs, PromotePcs
<1>4. CASE Judges(r)
  BY <1>4 DEF Judges, KindOf, Deciders, RolePcs, VerifyPcs, ListPcs, MovePcs, DemotePcs, PromotePcs
<1>5. CASE Creates(r)
  BY <1>5 DEF Creates, Sends, Sent, Alone, KindOf, Deciders,
     RolePcs, VerifyPcs, ListPcs, MovePcs, DemotePcs, PromotePcs
<1>6. CASE Reads(r)
  BY <1>6 DEF Reads, KindOf, Deciders, RolePcs, VerifyPcs, ListPcs, MovePcs, DemotePcs, PromotePcs
<1>7. CASE Lists(r)
  BY <1>7 DEF Lists, Sent, Alone, KindOf, Deciders,
     RolePcs, VerifyPcs, ListPcs, MovePcs, DemotePcs, PromotePcs
<1>8. CASE Moves(r)
  BY <1>8 DEF Moves, Sent, Alone, KindOf, Deciders,
     RolePcs, VerifyPcs, ListPcs, MovePcs, DemotePcs, PromotePcs
<1>9. CASE Deletes(r)
  BY <1>9 DEF Deletes, Sent, Alone, KindOf, Deciders,
     RolePcs, VerifyPcs, ListPcs, MovePcs, DemotePcs, PromotePcs
<1>10. CASE Promotes(r)
  BY <1>10 DEF Promotes, Sends, Sent, Alone, KindOf, Deciders,
     RolePcs, VerifyPcs, ListPcs, MovePcs, DemotePcs, PromotePcs
<1>11. CASE Demotes(r)
  BY <1>11 DEF Demotes, Sends, Sent, Alone, AfterDemotion, KindOf, Deciders, RolePcs, VerifyPcs, ListPcs,
     MovePcs, DemotePcs, PromotePcs
<1>12. CASE Drops(r)
  BY <1>12 DEF Drops, Sends, Sent, Alone, AfterDemotion, KindOf, Deciders, RolePcs, VerifyPcs, ListPcs,
     MovePcs, DemotePcs, PromotePcs
<1>. QED
  BY <1>1, <1>2, <1>3, <1>4, <1>5, <1>6, <1>7, <1>8, <1>9, <1>10, <1>11, <1>12 DEF Effect

LEMMA CommitsKept ==
  ASSUME NEW r \in Requests, KindOf(r), Effect(r) \/ Drops(r), NEW e \in Emails, Commits(r, e)
  PROVE  Commits(r, e)'
<1>0. NoEmail \notin Emails
  BY NothingAssumption
<1>1. CASE Passes(r)
  BY <1>1 DEF Passes, Sends, Sent, Alone, Commits, Decides, ListPcs, MovePcs
<1>2. CASE Elsewhere(r)
  BY <1>2 DEF Elsewhere, Commits, Decides, Deciders
<1>3. CASE Finds(r)
  BY <1>3 DEF Finds, Commits
<1>4. CASE Judges(r)
  BY <1>4 DEF Judges, Commits, Decides
<1>5. CASE Creates(r)
  BY <1>5 DEF Creates, Sends, Sent, Alone, Commits, Decides
<1>6. CASE Reads(r)
  BY <1>0, <1>6 DEF Reads, KindOf, Commits, Decides
<1>7. CASE Lists(r)
  BY <1>7 DEF Lists, Sent, Alone, Commits, Decides
<1>8. CASE Moves(r)
  BY <1>8 DEF Moves, Sent, Alone, Commits, Decides
<1>9. CASE Deletes(r)
  BY <1>9 DEF Deletes, Sent, Alone, Commits, Decides
<1>10. CASE Promotes(r)
  BY <1>10 DEF Promotes, Sends, Sent, Alone, Commits, Decides
<1>11. CASE Demotes(r)
  BY <1>11 DEF Demotes, Sends, Sent, Alone, AfterDemotion, Commits, Decides
<1>12. CASE Drops(r)
  BY <1>12 DEF Drops, Sends, Sent, Alone, AfterDemotion, Commits, Decides
<1>. QED
  BY <1>1, <1>2, <1>3, <1>4, <1>5, <1>6, <1>7, <1>8, <1>9, <1>10, <1>11, <1>12 DEF Effect

LEMMA TroubleGrows ==
  ASSUME NEW r \in Requests, KindOf(r), Effect(r) \/ Drops(r), Alone(r), Meets(r), failed \subseteq failed',
         NEW e \in Emails
  PROVE  /\ \A q \in Requests : Commits(q, e) => Commits(q, e)'
         /\ \A q \in Requests : RowOf(q)' = RowOf(q)
         /\ Troubled(e) => Troubled(e)'
<1>1. ASSUME NEW q \in Requests, Commits(q, e) PROVE Commits(q, e)'
  <2>1. CASE q = r
    BY <1>1, <2>1, CommitsKept
  <2>2. CASE q # r
    BY <1>1, <2>2 DEF Commits, Decides, Alone
  <2>. QED  BY <2>1, <2>2
<1>2. \A q \in Requests : RowOf(q)' = RowOf(q)
  BY DEF RowOf, Alone
<1>3. ASSUME Troubled(e) PROVE Troubled(e)'
  <2>1. PICK q \in Requests : Commits(q, e) /\ (q \in failed \/ \E p \in Requests : Near(p, q, e))
    BY <1>3 DEF Troubled
  <2>2. CASE q \in failed
    BY <1>1, <2>1, <2>2 DEF Troubled
  <2>3. CASE \E p \in Requests : Near(p, q, e)
    <3>1. PICK p \in Requests : Near(p, q, e)
      BY <2>3
    <3>2. Near(p, q, e)'
      BY <1>1, <1>2, <3>1 DEF Near, Met, Meets
    <3>. QED  BY <1>1, <2>1, <3>2 DEF Troubled
  <2>. QED  BY <2>1, <2>2, <2>3
<1>. QED  BY <1>1, <1>2, <1>3

\* Whoever steps is near whoever is in service and works on the same row, or
\* decides about the same address.
LEMMA Crowd ==
  ASSUME NEW r \in Requests, NEW q \in Requests \ {r}, Meets(r), job'[r] # job[r], InService(q), NEW e
  PROVE  /\ Commits(q, e)' /\ (Commits(r, e) \/ RowOf(r) = RowOf(q))' => Troubled(e)'
         /\ Commits(r, e)' /\ (Commits(q, e) \/ RowOf(r) = RowOf(q))' => Troubled(e)'
<1>1. {r, q} \in met' /\ {q, r} \in met' /\ r # q
  <2>1. {r, q} = {q, r}
    OBVIOUS
  <2>. QED  BY <2>1 DEF Meets
<1>. QED  BY <1>1 DEF Troubled, Near, Met

LEMMA InTheMiddle ==
  ASSUME NEW r \in Requests, job[r].pc \in Window \cup DemotePcs \cup PromotePcs \cup {"verify.create"}
  PROVE  InService(r)
BY DEF InService, First, Window, MovePcs, DemotePcs, PromotePcs

\* The row a request writes.
Target(r) == IF job[r].op.kind = "listTeacher" THEN r ELSE job[r].row
Writes(r) == Lists(r) \/ Moves(r) \/ Deletes(r)

LEMMA WriteFacts ==
  ASSUME IInv, NEW r \in Requests, KindOf(r), RowOpen(r), Writes(r)
  PROVE  /\ Target(r) \in Ids /\ Target(r) = RowOf(r)
         /\ \A t \in Ids : t # Target(r) => teacher'[t] = teacher[t]
         /\ teacher' # teacher =>
              \/ Lists(r) /\ teacher[r] = NoRow /\ teacher'[r] = job[r].email
              \/ Moves(r) /\ teacher[job[r].row] # NoRow /\ teacher'[job[r].row] = job[r].email
              \/ Deletes(r) /\ teacher'[job[r].row] = NoRow
         /\ \A e \in Emails : teacher' # teacher /\ teacher'[Target(r)] = e => Commits(r, e)'
         /\ job'[r] # job[r] /\ job'[r].op = job[r].op /\ RolesSame
         /\ job'[r].pc # "verify.create"
<1>typ. teacher \in [Ids -> Emails \cup {NoEmail, NoRow}] /\ r \in Ids /\ job[r] \in Jobs /\ NoRow \notin Emails
  BY NothingAssumption DEF IInv, Typed, Tables, Ids
<1>1. CASE Lists(r)
  <2>1. job[r].pc = "list.insert" /\ job[r].op.kind = "listTeacher" /\ teacher[r] = NoRow
    BY <1>1 DEF Lists, KindOf, RowOpen, ListPcs
  <2>2. teacher' = teacher \/ teacher' = [teacher EXCEPT ![r] = job[r].email]
    BY <1>1 DEF Lists, WriteTeacher
  <2>3. /\ job'[r].op = job[r].op /\ job'[r].email = job[r].email
        /\ job'[r].pc \in {"done", "promote.read"}
    BY <1>1 DEF Lists, Sent, Alone
  <2>. QED
    BY <1>1, <1>typ, <2>1, <2>2, <2>3 DEF Target, RowOf, Commits, Decides, Lists
<1>2. CASE Moves(r)
  <2>1. job[r].pc = "update.write" /\ job[r].op.kind = "updateTeacher" /\ job[r].row = job[r].op.row
    BY <1>2 DEF Moves, KindOf, MovePcs
  <2>2. job[r].row \in Ids
    BY <1>typ, <2>1, OperationTyped DEF Jobs
  <2>3. teacher' = teacher \/ (teacher' = [teacher EXCEPT ![job[r].row] = job[r].email]
                                /\ teacher[job[r].row] # NoRow)
    BY <1>2 DEF Moves, WriteTeacher
  <2>4. /\ job'[r].op = job[r].op /\ job'[r].email = job[r].email
        /\ job'[r].pc \in {"done", "demote.listed"}
    BY <1>2 DEF Moves, Sent, Alone
  <2>. QED
    BY <1>2, <1>typ, <2>1, <2>2, <2>3, <2>4 DEF Target, RowOf, Commits, Decides, Moves
<1>3. CASE Deletes(r)
  <2>1. job[r].pc = "delete.row" /\ job[r].op.kind = "deleteTeacher" /\ job[r].row = job[r].op.row
    BY <1>3 DEF Deletes, KindOf
  <2>2. job[r].row \in Ids
    BY <1>typ, <2>1, OperationTyped DEF Jobs
  <2>3. teacher' = [teacher EXCEPT ![job[r].row] = NoRow]
    BY <1>3 DEF Deletes
  <2>4. job'[r].op = job[r].op /\ job'[r].pc \in {"done", "demote.listed"}
    BY <1>3 DEF Deletes, Sent, Alone
  <2>. QED
    BY <1>3, <1>typ, <2>1, <2>2, <2>3, <2>4 DEF Target, RowOf, Deletes
<1>. QED  BY <1>1, <1>2, <1>3 DEF Writes

\* No address is written twice.
LEMMA UniqueKept ==
  ASSUME IInv, Unique, NEW r \in Requests, KindOf(r), RowOpen(r), Writes(r) \/ teacher' = teacher
  PROVE  Unique'
<1>typ. teacher \in [Ids -> Emails \cup {NoEmail, NoRow}] /\ NoRow \notin Emails /\ NoEmail \notin Emails
  BY NothingAssumption DEF IInv, Typed, Tables
<1>1. CASE teacher' = teacher
  BY <1>1 DEF Unique
<1>2. ASSUME NEW t, NEW e, teacher' = WriteTeacher(t, e) PROVE Unique'
  BY <1>typ, <1>2 DEF WriteTeacher, Unique
<1>3. CASE Lists(r) \/ Moves(r)
  BY <1>1, <1>2, <1>3 DEF Lists, Moves
<1>4. CASE Deletes(r)
  BY <1>typ, <1>4 DEF Deletes, Unique
<1>. QED  BY <1>1, <1>3, <1>4 DEF Writes

\* Whoever makes an address enter or leave the catalog goes on to reconsider it,
\* and knows which of the two it was.
LEMMA WriterKnows ==
  ASSUME IInv, Unique, NEW r \in Requests, KindOf(r), RowOpen(r), KnowsOld(r), Writes(r),
         NEW e \in Emails, ~Troubled(e)
  PROVE  /\ Knows(r, e)'
         /\ (Listed(e) /\ ~Listed(e)') \/ (~Listed(e) /\ Listed(e)') =>
              Commits(r, e)' /\ (Removing(r, e)' \/ Adding(r, e)')
<1>typ. /\ teacher \in [Ids -> Emails \cup {NoEmail, NoRow}] /\ r \in Ids
        /\ NoRow \notin Emails /\ NoEmail \notin Emails /\ NoEmail # NoRow
  BY NothingAssumption DEF IInv, Typed, Tables, Ids
<1>facts. /\ \A t \in Ids : t # Target(r) => teacher'[t] = teacher[t]
          /\ Target(r) \in Ids
  BY WriteFacts
<1>1. CASE Lists(r)
  <2>1. /\ teacher[r] = NoRow /\ job[r].op.kind = "listTeacher" /\ Target(r) = r
        /\ teacher' = teacher \/ teacher'[r] = job[r].email
    <3>1. job[r].pc = "list.insert" /\ job[r].op.kind = "listTeacher" /\ teacher[r] = NoRow
      BY <1>1 DEF Lists, KindOf, RowOpen, ListPcs
    <3>2. teacher' = teacher \/ teacher' = [teacher EXCEPT ![r] = job[r].email]
      BY <1>1 DEF Lists, WriteTeacher
    <3>. QED  BY <1>typ, <3>1, <3>2 DEF Target
  <2>2. /\ job'[r].op = job[r].op /\ job'[r].email = job[r].email /\ job'[r].old = job[r].old
        /\ job'[r].pc = IF teacher'[r] = NoRow THEN "done" ELSE "promote.read"
    BY <1>1 DEF Lists, Sent, Alone
  <2>3. Knows(r, e)'
    BY <1>typ, <2>1, <2>2 DEF Knows, Removing, Adding, Creating, DemotePcs, PromotePcs, Listed
  <2>4. ASSUME ~(Listed(e) <=> Listed(e)')
        PROVE  Commits(r, e)' /\ Adding(r, e)'
    <3>1. teacher'[r] = e /\ job[r].email = e
      BY <1>typ, <1>facts, <2>1, <2>4 DEF Listed
    <3>2. job'[r].pc = "promote.read" /\ job'[r].email = e /\ job'[r].op.kind = "listTeacher"
      BY <1>typ, <2>1, <2>2, <3>1
    <3>. QED  BY <3>2 DEF Commits, Decides, Adding, PromotePcs
  <2>. QED  BY <2>3, <2>4
<1>2. CASE Moves(r)
  <2>. DEFINE x == job[r].row
  <2>1. /\ job[r].op.kind = "updateTeacher" /\ Target(r) = x /\ job[r].pc \in Window
        /\ teacher' = teacher \/ teacher'[x] = job[r].email
        /\ teacher[x] = NoRow => teacher' = teacher
    <3>1. job[r].op.kind = "updateTeacher" /\ job[r].pc \in Window
      BY <1>2 DEF Moves, KindOf, MovePcs, Window
    <3>2. teacher' = teacher \/ (teacher' = [teacher EXCEPT ![x] = job[r].email] /\ teacher[x] # NoRow)
      BY <1>2 DEF Moves, WriteTeacher
    <3>. QED  BY <1>typ, <1>facts, <3>1, <3>2 DEF Target
  <2>2. /\ job'[r].op = job[r].op /\ job'[r].email = job[r].email /\ job'[r].old = job[r].old
        /\ job'[r].pc = IF teacher'[x] = job[r].email /\ job[r].old # job[r].email
                        THEN "demote.listed" ELSE "done"
    BY <1>2 DEF Moves, Sent, Alone
  <2>3. job[r].old = e <=> teacher[x] = e
    BY <2>1 DEF KnowsOld
  <2>4. \A t \in Ids : t # x => teacher'[t] = teacher[t]
    BY <1>facts, <2>1
  <2>5. x \in Ids
    BY <1>facts, <2>1
  <2>. HIDE DEF x
  <2>6. Removing(r, e)' => ~Listed(e)'
    BY <1>typ, <2>2, <2>3, <2>4, <2>5 DEF Removing, DemotePcs, Listed, Unique
  <2>7. Adding(r, e)' => Listed(e)'
    BY <2>2, <2>5 DEF Adding, DemotePcs, PromotePcs, Listed
  <2>8. ~Creating(r, e)'
    BY <2>2 DEF Creating
  <2>9. ASSUME ~(Listed(e) <=> Listed(e)')
        PROVE  Commits(r, e)' /\ (Removing(r, e)' \/ Adding(r, e)')
    <3>1. teacher'[x] = job[r].email /\ ~(teacher[x] = e <=> teacher'[x] = e)
      <4>1. ~(teacher[x] = e <=> teacher'[x] = e)
        BY <2>4, <2>5, <2>9 DEF Listed
      <4>. QED  BY <2>1, <4>1
    <3>2. job'[r].pc = "demote.listed" /\ (job[r].email = e \/ job[r].old = e)
      BY <2>2, <2>3, <3>1
    <3>. QED  BY <2>1, <2>2, <3>2 DEF Commits, Decides, Removing, Adding, DemotePcs
  <2>. QED  BY <2>6, <2>7, <2>8, <2>9 DEF Knows
<1>3. CASE Deletes(r)
  <2>. DEFINE x == job[r].row
  <2>1. /\ job[r].op.kind = "deleteTeacher" /\ Target(r) = x /\ job[r].pc \in Window
        /\ teacher'[x] = NoRow
    <3>1. job[r].op.kind = "deleteTeacher" /\ job[r].pc \in Window
      BY <1>3 DEF Deletes, KindOf, Window
    <3>. QED  BY <1>3, <1>typ, <1>facts, <3>1 DEF Target, Deletes
  <2>2. /\ job'[r].op = job[r].op /\ job'[r].old = job[r].old
        /\ job'[r].pc = IF teacher[x] = NoRow THEN "done" ELSE "demote.listed"
    BY <1>3 DEF Deletes, Sent, Alone
  <2>3. job[r].old = e <=> teacher[x] = e
    BY <2>1 DEF KnowsOld
  <2>4. \A t \in Ids : t # x => teacher'[t] = teacher[t]
    BY <1>facts, <2>1
  <2>5. x \in Ids
    BY <1>facts, <2>1
  <2>. HIDE DEF x
  <2>6. Removing(r, e)' => ~Listed(e)'
    BY <1>typ, <2>1, <2>2, <2>3, <2>4, <2>5 DEF Removing, DemotePcs, Listed, Unique
  <2>7. ~Adding(r, e)' /\ ~Creating(r, e)'
    BY <2>1, <2>2 DEF Adding, Creating
  <2>8. ASSUME ~(Listed(e) <=> Listed(e)')
        PROVE  Commits(r, e)' /\ Removing(r, e)'
    <3>1. teacher[x] = e
      BY <1>typ, <2>1, <2>4, <2>5, <2>8 DEF Listed
    <3>2. job'[r].pc = "demote.listed" /\ job[r].old = e
      BY <1>typ, <2>2, <2>3, <3>1
    <3>. QED  BY <2>1, <2>2, <3>2 DEF Commits, Decides, Removing, DemotePcs
  <2>. QED  BY <2>6, <2>7, <2>8 DEF Knows
<1>. QED  BY <1>1, <1>2, <1>3 DEF Writes

\* What a request knows of an address it still knows after its own step.
LEMMA SelfKnows ==
  ASSUME IInv, Unique, NEW r \in Requests, KindOf(r), RowOpen(r), KnowsOld(r), Effect(r) \/ Drops(r),
         NEW e \in Emails, ~Troubled(e), Knows(r, e)
  PROVE  Knows(r, e)'
<1>1. CASE Passes(r)
  BY <1>1 DEF Passes, Sends, Sent, Knows, Removing, Adding, Creating, ListPcs, MovePcs, DemotePcs, PromotePcs
<1>2. CASE Elsewhere(r)
  BY <1>2 DEF Elsewhere, Knows, Removing, Adding, Creating, RolePcs, VerifyPcs, DemotePcs, PromotePcs
<1>3. CASE Finds(r)
  BY <1>3 DEF Finds, Knows, Removing, Adding, Creating, DemotePcs, PromotePcs
<1>4. CASE Judges(r)
  <2>1. /\ job'[r].pc = "verify.create" /\ job'[r].email = job[r].email
        /\ job'[r].role = (IF Listed(job[r].email) THEN "TEACHER" ELSE "STUDENT") /\ teacher' = teacher
    BY <1>4 DEF Judges
  <2>2. Listed(e)' <=> Listed(e)
    BY <2>1 DEF Listed
  <2>3. Creating(r, e)' => (job'[r].role = "TEACHER" <=> Listed(e)')
    BY <2>1, <2>2 DEF Creating
  <2>. QED  BY <2>1, <2>3 DEF Knows, Removing, Adding, DemotePcs, PromotePcs
<1>5. CASE Creates(r)
  BY <1>5 DEF Creates, Sends, Sent, Knows, Removing, Adding, Creating, DemotePcs, PromotePcs
<1>6. CASE Reads(r)
  BY <1>6 DEF Reads, Knows, Removing, Adding, Creating, DemotePcs, PromotePcs
<1>7. CASE Writes(r)
  BY <1>7, WriterKnows
<1>8. CASE Promotes(r)
  BY <1>8 DEF Promotes, Sends, Sent, Alone, Knows, Removing, Adding, Creating, Listed, DemotePcs, PromotePcs
<1>9. CASE Demotes(r)
  BY <1>9 DEF Demotes, Sends, Sent, Alone, AfterDemotion, Knows, Removing, Adding, Creating, Listed,
     DemotePcs, PromotePcs
<1>10. CASE Drops(r)
  BY <1>10 DEF Drops, Sends, Sent, Alone, AfterDemotion, Knows, Removing, Adding, Creating, Listed,
     DemotePcs, PromotePcs
<1>. QED
  BY <1>1, <1>2, <1>3, <1>4, <1>5, <1>6, <1>7, <1>8, <1>9, <1>10 DEF Effect, Writes

\* Only the catalog's own statements change who is listed.
LEMMA ListedSame ==
  ASSUME NEW r \in Requests, Effect(r) \/ Drops(r), ~Writes(r)
  PROVE  teacher' = teacher
BY DEF Effect, Writes, Drops, Passes, Elsewhere, Finds, Judges, Creates, Reads, Promotes, Demotes, Sends

\* What the others know of it stays true, or the address is in trouble.
LEMMA OthersKnow ==
  ASSUME IInv, Unique, NEW r \in Requests, KindOf(r), RowOpen(r), KnowsOld(r), Effect(r) \/ Drops(r),
         Alone(r), Meets(r), NEW e \in Emails, ~Troubled(e), ~Troubled(e)',
         NEW q \in Requests \ {r}, KindOf(q), Knows(q, e)
  PROVE  Knows(q, e)'
<1>0. job'[q] = job[q]
  BY DEF Alone
<1>1. CASE Listed(e)' <=> Listed(e)
  BY <1>0, <1>1 DEF Knows, Removing, Adding, Creating
<1>2. CASE ~(Listed(e)' <=> Listed(e))
  <2>1. Writes(r) /\ job'[r] # job[r]
    <3>1. Writes(r)
      BY <1>2, ListedSame DEF Listed
    <3>. QED  BY <3>1, WriteFacts
  <2>2. Commits(r, e)'
    BY <1>2, <2>1, WriterKnows
  <2>3. ~(Removing(q, e) \/ Adding(q, e) \/ Creating(q, e))
    <3>. SUFFICES ASSUME Removing(q, e) \/ Adding(q, e) \/ Creating(q, e) PROVE FALSE
      OBVIOUS
    <3>1. InService(q)
      BY InTheMiddle DEF Removing, Adding, Creating
    <3>2. Commits(q, e)
      BY DEF Removing, Adding, Creating, Commits, Decides, KindOf, Deciders, VerifyPcs, DemotePcs, PromotePcs
    <3>3. Commits(q, e)'
      BY <1>0, <3>2 DEF Commits, Decides
    <3>. QED  BY <2>1, <2>2, <3>1, <3>3, Crowd
  <2>. QED  BY <1>0, <2>3 DEF Knows, Removing, Adding, Creating
<1>. QED  BY <1>1, <1>2

\* The role is right, or whoever makes it right is at work.
LEMMA GoodKept ==
  ASSUME IInv, Unique, NEW r \in Requests, KindOf(r), RowOpen(r), KnowsOld(r),
         Effect(r) \/ (Drops(r) /\ r \in failed'), Alone(r),
         NEW e \in Emails, ~Troubled(e), ~Troubled(e)', Knows(r, e),
         Good(e) \/ Removing(r, e) \/ Adding(r, e)
  PROVE  Good(e)' \/ Removing(r, e)' \/ Adding(r, e)'
<1>sets. AppRole(e) \in {"STUDENT", "TEACHER", "NONE"}
  BY DEF AppRole, AppUser, AppRoles
<1>same. ASSUME RolesSame, Listed(e)' <=> Listed(e), Good(e)
         PROVE  Good(e)'
  BY <1>same DEF RolesSame, Good
<1>idle. ASSUME job[r].pc \notin DemotePcs \cup PromotePcs
         PROVE  Good(e)
  BY <1>idle DEF Removing, Adding
<1>1. CASE Passes(r) \/ Elsewhere(r) \/ Finds(r) \/ Judges(r) \/ Reads(r)
  <2>1. RolesSame /\ teacher' = teacher
    BY <1>1 DEF Passes, Elsewhere, Finds, Judges, Reads, Sends
  <2>2. job[r].pc \notin DemotePcs \cup PromotePcs
    BY <1>1 DEF Passes, Elsewhere, Finds, Judges, Reads, KindOf, RolePcs, ListPcs, MovePcs, DemotePcs, PromotePcs
  <2>. QED  BY <1>same, <1>idle, <2>1, <2>2 DEF Listed
<1>2. CASE Creates(r)
  <2>1. job[r].pc = "verify.create" /\ teacher' = teacher
    BY <1>2 DEF Creates, Sends
  <2>2. Good(e)
    BY <1>idle, <2>1 DEF DemotePcs, PromotePcs
  <2>3. Listed(e)' <=> Listed(e)
    BY <2>1 DEF Listed
  <2>4. CASE RolesSame
    BY <1>same, <2>2, <2>3, <2>4
  <2>5. CASE RoleSet(job[r].email, job[r].role)
    <3>1. CASE job[r].email = e
      BY <2>1, <2>3, <2>5, <3>1 DEF RoleSet, Good, Knows, Creating
    <3>2. CASE job[r].email # e
      BY <2>2, <2>3, <2>5, <3>2 DEF RoleSet, Good
    <3>. QED  BY <3>1, <3>2
  <2>. QED  BY <1>2, <2>4, <2>5 DEF Creates
<1>3. CASE Writes(r)
  <2>1. RolesSame
    BY <1>3, WriteFacts
  <2>2. Good(e)
    BY <1>3, <1>idle DEF Writes, Lists, Moves, Deletes, DemotePcs, PromotePcs
  <2>. QED  BY <1>3, <1>same, <2>1, <2>2, WriterKnows
<1>4. CASE Promotes(r)
  <2>1. teacher' = teacher /\ Sent(r, job'[r].pc)
    BY <1>4 DEF Promotes, Sends, Sent
  <2>2. Listed(e)' <=> Listed(e)
    BY <2>1 DEF Listed
  <2>3. ~Removing(r, e) /\ (Adding(r, e) <=> job[r].email = e)
    BY <1>4 DEF Promotes, Removing, Adding, DemotePcs, PromotePcs, KindOf
  <2>4. CASE RolesSame /\ Sends(r, "promote.write")
    <3>1. Adding(r, e) => Adding(r, e)'
      BY <2>4 DEF Sends, Sent, Alone, Adding, PromotePcs, DemotePcs
    <3>. QED  BY <1>same, <2>2, <2>3, <2>4, <3>1
  <2>5. CASE RolesSame /\ (job[r].email \in Emails => AppRole(job[r].email) # "STUDENT")
    <3>1. Good(e)
      BY <1>sets, <2>3, <2>5 DEF Knows, Good
    <3>. QED  BY <1>same, <2>2, <2>5, <3>1
  <2>6. CASE RoleSet(job[r].email, "TEACHER")
    <3>1. CASE job[r].email = e
      BY <2>2, <2>3, <2>6, <3>1 DEF RoleSet, Good, Knows
    <3>2. CASE job[r].email # e
      BY <2>2, <2>3, <2>6, <3>2 DEF RoleSet, Good
    <3>. QED  BY <3>1, <3>2
  <2>. QED  BY <1>4, <2>4, <2>5, <2>6 DEF Promotes
<1>5. CASE Demotes(r)
  <2>1. teacher' = teacher /\ job[r].pc \in DemotePcs
    BY <1>5 DEF Demotes, Sends, DemotePcs
  <2>2. Listed(e)' <=> Listed(e)
    BY <2>1 DEF Listed
  <2>3. Removing(r, e) <=> job[r].old = e
    BY <2>1 DEF Removing
  <2>4. ASSUME Adding(r, e), Sends(r, AfterDemotion(r)) PROVE Adding(r, e)'
    BY <2>1, <2>4 DEF Adding, KindOf, Sends, Sent, Alone, AfterDemotion, DemotePcs, PromotePcs
  <2>5. ASSUME NEW pc \in DemotePcs, Sends(r, pc)
        PROVE  (Adding(r, e) => Adding(r, e)') /\ (Removing(r, e) => Removing(r, e)')
    BY <2>1, <2>5 DEF Adding, Removing, Sends, Sent, Alone
  <2>6. CASE RolesSame /\ Sends(r, IF Listed(job[r].old) THEN AfterDemotion(r) ELSE "demote.read")
    <3>1. CASE Listed(job[r].old)
      <4>1. ~Removing(r, e)
        BY <2>3, <3>1 DEF Knows
      <4>. QED  BY <1>same, <2>2, <2>4, <2>6, <3>1, <4>1
    <3>2. CASE ~Listed(job[r].old)
      BY <1>same, <2>2, <2>5, <2>6, <3>2 DEF DemotePcs
    <3>. QED  BY <3>1, <3>2
  <2>7. CASE RolesSame /\ Sends(r, "demote.write")
    BY <1>same, <2>2, <2>5, <2>7 DEF DemotePcs
  <2>8. CASE /\ RolesSame /\ Sends(r, AfterDemotion(r))
             /\ job[r].old \in Emails => AppRole(job[r].old) # "TEACHER"
    <3>1. Removing(r, e) => Good(e)
      BY <2>3, <2>8 DEF Knows, Good
    <3>. QED  BY <1>same, <2>2, <2>4, <2>8, <3>1
  <2>9. CASE Sends(r, AfterDemotion(r)) /\ RoleSet(job[r].old, "STUDENT")
    <3>1. CASE job[r].old = e
      BY <2>2, <2>3, <2>9, <3>1 DEF RoleSet, Good, Knows
    <3>2. CASE job[r].old # e
      <4>1. Good(e) => Good(e)'
        BY <2>2, <2>9, <3>2 DEF RoleSet, Good
      <4>. QED  BY <2>3, <2>4, <2>9, <3>2, <4>1
    <3>. QED  BY <3>1, <3>2
  <2>. QED  BY <1>5, <2>6, <2>7, <2>8, <2>9 DEF Demotes
<1>6. CASE Drops(r) /\ r \in failed'
  <2>1. ~Removing(r, e) /\ ~Adding(r, e)
    <3>. SUFFICES ASSUME Removing(r, e) \/ Adding(r, e) PROVE FALSE
      OBVIOUS
    <3>1. Commits(r, e)
      BY DEF Removing, Adding, Commits, Decides, KindOf, DemotePcs, PromotePcs
    <3>2. Commits(r, e)'
      BY <1>6, <3>1, CommitsKept
    <3>. QED  BY <1>6, <3>2 DEF Troubled
  <2>2. RolesSame /\ teacher' = teacher
    BY <1>6 DEF Drops, Sends
  <2>. QED  BY <1>same, <2>1, <2>2 DEF Listed
<1>. QED
  BY <1>1, <1>2, <1>3, <1>4, <1>5, <1>6 DEF Effect, Writes

\* What was read of a row stays true until the row is written, or the address
\* is in trouble: whoever else wrote the row was near.
LEMMA OldKept ==
  ASSUME IInv, NEW r \in Requests, KindOf(r), RowOpen(r), Effect(r) \/ Drops(r), Alone(r), Meets(r),
         failed \subseteq failed', NEW q \in Requests, KindOf(q), KnowsOld(q)
  PROVE  KnowsOld(q)'
<1>. SUFFICES ASSUME job'[q].pc \in Window, NEW e \in Emails, ~Troubled(e)'
              PROVE  job'[q].old = e <=> teacher'[job'[q].row] = e
  BY DEF KnowsOld
<1>grow. ~Troubled(e)
  BY TroubleGrows
<1>typ. NoEmail \notin Emails /\ NoRow \notin Emails
  BY NothingAssumption
<1>1. CASE q = r
  <2>1. CASE Passes(r)
    <3>1. job[r].pc \in Window /\ teacher' = teacher /\ job'[r].old = job[r].old /\ job'[r].row = job[r].row
      BY <1>1, <2>1 DEF Passes, Sends, Sent, Window, ListPcs, MovePcs
    <3>. QED  BY <1>1, <1>grow, <3>1 DEF KnowsOld
  <2>2. CASE Reads(r)
    <3>1. /\ job'[r].old = IF teacher[job[r].row] = NoRow THEN NoEmail ELSE teacher[job[r].row]
          /\ teacher' = teacher /\ job'[r].row = job[r].row
      BY <2>2 DEF Reads
    <3>. QED  BY <1>1, <1>typ, <3>1
  <2>3. ~(Elsewhere(r) \/ Finds(r) \/ Judges(r) \/ Creates(r) \/ Lists(r) \/ Moves(r) \/ Deletes(r))
    BY <1>1 DEF Elsewhere, Finds, Judges, Creates, Lists, Moves, Deletes, Sends, Sent, Window, MovePcs, RolePcs
  <2>4. ~(Promotes(r) \/ Demotes(r) \/ Drops(r))
    BY <1>1 DEF Promotes, Demotes, Drops, AfterDemotion, Sends, Sent, Window, MovePcs, DemotePcs
  <2>. QED  BY <2>1, <2>2, <2>3, <2>4 DEF Effect
<1>2. CASE q # r
  <2>1. job'[q] = job[q] /\ job[q].pc \in Window
    BY <1>2 DEF Alone
  <2>2. job[q].old = e <=> teacher[job[q].row] = e
    BY <1>grow, <2>1 DEF KnowsOld
  <2>3. CASE teacher'[job[q].row] = teacher[job[q].row]
    BY <2>1, <2>2, <2>3
  <2>4. CASE teacher'[job[q].row] # teacher[job[q].row]
    <3>1. Writes(r)
      BY <2>4, ListedSame
    <3>2. job[q].op.kind \in {"updateTeacher", "deleteTeacher"} /\ job[q].row = job[q].op.row /\ RowOf(q) = job[q].row
      BY <2>1 DEF KindOf, Window, MovePcs, RowOf
    <3>3. job[q].row \in Ids
      BY <3>2, OperationTyped DEF IInv, Typed, Jobs
    <3>4. RowOf(r) = RowOf(q) /\ Target(r) = job[q].row
      BY <2>4, <3>1, <3>2, <3>3, WriteFacts
    <3>5. (RowOf(r) = RowOf(q))' /\ InService(q) /\ job'[r] # job[r]
      <4>1. InService(q)
        BY <2>1, InTheMiddle
      <4>2. job'[r] # job[r]
        BY <3>1, WriteFacts
      <4>. QED  BY <3>4, <4>1, <4>2, TroubleGrows
    <3>6. ~Commits(r, e)' /\ ~Commits(q, e)'
      BY <1>2, <3>5, Crowd
    <3>7. teacher'[job[q].row] # e
      BY <2>4, <3>1, <3>4, <3>6, WriteFacts
    <3>8. job[q].old # e
      BY <2>1, <3>2, <3>6 DEF Commits, Decides, Window, MovePcs
    <3>. QED  BY <2>1, <3>7, <3>8
  <2>. QED  BY <2>3, <2>4
<1>. QED  BY <1>1, <1>2

LEMMA OpenKept ==
  ASSUME IInv, NEW r \in Requests, KindOf(r), RowOpen(r), Effect(r) \/ Drops(r), Alone(r),
         NEW q \in Requests, RowOpen(q)
  PROVE  RowOpen(q)'
<1>. SUFFICES ASSUME job'[q].pc \in ListPcs PROVE teacher'[q] = NoRow
  BY DEF RowOpen
<1>1. CASE q = r
  <2>1. CASE Passes(r)
    BY <1>1, <2>1 DEF Passes, Sends, Sent, RowOpen, ListPcs, MovePcs
  <2>2. ~(Elsewhere(r) \/ Finds(r) \/ Judges(r) \/ Creates(r) \/ Lists(r) \/ Moves(r) \/ Deletes(r) \/ Reads(r))
    BY <1>1 DEF Elsewhere, Finds, Judges, Creates, Lists, Moves, Deletes, Reads, Sends, Sent, ListPcs, RolePcs
  <2>3. ~(Promotes(r) \/ Demotes(r) \/ Drops(r))
    BY <1>1 DEF Promotes, Demotes, Drops, AfterDemotion, Sends, Sent, ListPcs, DemotePcs
  <2>. QED  BY <2>1, <2>2, <2>3 DEF Effect
<1>2. CASE q # r
  <2>1. teacher[q] = NoRow /\ q \in Ids
    BY <1>2 DEF Alone, RowOpen, Ids
  <2>2. CASE Writes(r)
    <3>1. Target(r) = q => ~Lists(r) /\ Target(r) = job[r].row
      BY <1>2 DEF Target, Lists, KindOf, ListPcs
    <3>. QED  BY <2>1, <2>2, <3>1, WriteFacts
  <2>3. CASE ~Writes(r)
    BY <2>1, <2>3, ListedSame
  <2>. QED  BY <2>2, <2>3
<1>. QED  BY <1>1, <1>2

LEMMA RoleStep ==
  ASSUME IInv, RoleInv, NEW r \in Requests, Effect(r) \/ (Drops(r) /\ r \in failed'),
         Alone(r), Meets(r), failed \subseteq failed'
  PROVE  RoleInv'
<1>0. Unique /\ KindOf(r) /\ RowOpen(r) /\ KnowsOld(r)
  BY DEF RoleInv
<1>1. Unique'
  BY <1>0, UniqueKept, ListedSame
<1>2. ASSUME NEW q \in Requests PROVE KindOf(q)' /\ RowOpen(q)' /\ KnowsOld(q)'
  <2>1. KindOf(q) /\ RowOpen(q) /\ KnowsOld(q)
    BY DEF RoleInv
  <2>2. KindOf(q)'
    <3>1. CASE q = r
      BY <1>0, <3>1, KindKept
    <3>2. CASE q # r
      BY <2>1, <3>2 DEF KindOf, Alone
    <3>. QED  BY <3>1, <3>2
  <2>. QED  BY <1>0, <2>1, <2>2, OpenKept, OldKept
<1>3. ASSUME NEW e \in Emails, ~Troubled(e)'
      PROVE  (\A q \in Requests : Knows(q, e)') /\ (Good(e)' \/ \E q \in Requests : Removing(q, e)' \/ Adding(q, e)')
  <2>1. ~Troubled(e)
    BY <1>0, <1>3, TroubleGrows
  <2>2. (\A q \in Requests : Knows(q, e) /\ KindOf(q)) /\ (Good(e) \/ AtWork(e))
    BY <2>1 DEF RoleInv
  <2>3. ASSUME NEW q \in Requests PROVE Knows(q, e)'
    BY <1>0, <1>3, <2>1, <2>2, SelfKnows, OthersKnow
  <2>4. Good(e)' \/ \E q \in Requests : Removing(q, e)' \/ Adding(q, e)'
    <3>1. CASE \E q \in Requests \ {r} : Removing(q, e) \/ Adding(q, e)
      BY <3>1 DEF Removing, Adding, Alone
    <3>2. CASE Good(e) \/ Removing(r, e) \/ Adding(r, e)
      BY <1>0, <1>3, <2>1, <2>2, <3>2, GoodKept
    <3>. QED  BY <2>2, <3>1, <3>2 DEF AtWork
  <2>. QED  BY <2>3, <2>4
<1>. QED  BY <1>1, <1>2, <1>3 DEF RoleInv, AtWork

LEMMA InitRoleInv == ASSUME HInit PROVE RoleInv
<1>1. PICK s \in Scenarios :
    /\ account = s.account
    /\ teacher = [t \in Ids |-> IF t \in Listings THEN s.teacher[t] ELSE NoRow]
    /\ job \in [Requests -> {Arrived(op) : op \in s.operations}]
  BY DEF HInit, Init
<1>2. /\ s.teacher \in [Listings -> Emails \cup {NoEmail}]
      /\ s.operations \subseteq Operations
      /\ \A t, u \in Listings : s.teacher[t] = s.teacher[u] /\ s.teacher[t] # NoEmail => t = u
      /\ \A e \in Emails : s.account[e] # NoAccount /\ s.account[e].role \in {"STUDENT", "TEACHER"} =>
                (s.account[e].role = "TEACHER" <=> \E t \in Listings : s.teacher[t] = e)
  BY ScenariosAssumption DEF Consistent
<1>typ. NoEmail \notin Emails /\ NoRow \notin Emails /\ NoRow # NoEmail /\ Listings \subseteq Ids
  BY NothingAssumption DEF Ids
<1>3. Unique
  BY <1>1, <1>2, <1>typ DEF Unique
<1>4. ASSUME NEW r \in Requests
      PROVE  /\ KindOf(r) /\ RowOpen(r) /\ KnowsOld(r)
             /\ \A e \in Emails : Knows(r, e)
  <2>1. PICK op \in Operations : job[r] = Arrived(op)
    BY <1>1, <1>2
  <2>2. /\ job[r].pc = First(op) /\ job[r].op = op /\ job[r].row = op.row /\ job[r].old = NoEmail
    BY <2>1 DEF Arrived
  <2>3. op.kind \in Kinds
    BY OperationTyped
  <2>4. /\ First(op) \notin Window \cup DemotePcs \cup PromotePcs \cup {"verify.create", "delete.row"}
        /\ First(op) \in VerifyPcs <=> op.kind = "verify"
        /\ First(op) \in ListPcs <=> op.kind = "listTeacher"
        /\ First(op) = "update.read" <=> op.kind = "updateTeacher"
        /\ First(op) = "delete.read" <=> op.kind = "deleteTeacher"
    BY <2>3 DEF First, Kinds, Window, VerifyPcs, ListPcs, MovePcs, DemotePcs, PromotePcs
  <2>5. KindOf(r)
    BY <2>2, <2>4 DEF KindOf, Deciders, RolePcs, Window
  <2>6. RowOpen(r)
    <3>1. r \in Ids /\ r \notin Listings
      BY IdsAreDistinct DEF Ids
    <3>. QED  BY <1>1, <3>1 DEF RowOpen
  <2>. QED  BY <2>2, <2>4, <2>5, <2>6 DEF KnowsOld, Knows, Removing, Adding, Creating
<1>5. ASSUME NEW e \in Emails PROVE Good(e)
  <2>1. Listed(e) <=> \E t \in Listings : s.teacher[t] = e
    BY <1>1, <1>typ DEF Listed
  <2>. QED  BY <1>1, <1>2, <2>1 DEF Good, AppRole, AppUser, AppRoles, HasAccount
<1>. QED  BY <1>3, <1>4, <1>5 DEF RoleInv

LEMMA NextRoleInv == IInv /\ RoleInv /\ [HNext]_hvars => RoleInv'
<1>. SUFFICES ASSUME IInv, RoleInv, [HNext]_hvars PROVE RoleInv'
  OBVIOUS
<1>1. ASSUME NEW r \in Requests, Serve(r) \/ (Fails(r) /\ r \in failed'), HNext
      PROVE  RoleInv'
  <2>1. Served(r) /\ Alone(r) /\ KindOf(r)
    BY <1>1, ServeServed DEF Served, RoleInv
  <2>2. Meets(r) /\ failed \subseteq failed'
    BY <1>1, <2>1, Meeting DEF HNext
  <2>3. Effect(r) \/ (Drops(r) /\ r \in failed')
    BY <1>1, <2>1, Does, FailDoes
  <2>. QED  BY <2>1, <2>2, <2>3, RoleStep
<1>2. CASE UNCHANGED <<account, teacher, job, met, failed>>
  <2>1. \A r \in Requests : (KindOf(r)' <=> KindOf(r)) /\ RowOf(r)' = RowOf(r)
    BY <1>2 DEF KindOf, RowOf
  <2>2. \A e : (Troubled(e)' <=> Troubled(e)) /\ (Good(e)' <=> Good(e)) /\ (AtWork(e)' <=> AtWork(e))
               /\ \A r : Knows(r, e)' <=> Knows(r, e)
    BY <1>2 DEF Troubled, Near, Met, Commits, Decides, RowOf, Good, AppRole, AppUser, HasAccount, Listed, AtWork,
       Knows, Removing, Adding, Creating
  <2>3. Unique' /\ \A r \in Requests : RowOpen(r)' /\ KnowsOld(r)'
    BY <1>2, <2>2 DEF RoleInv, Unique, RowOpen, KnowsOld
  <2>. QED  BY <2>1, <2>2, <2>3 DEF RoleInv
<1>3. ASSUME NEW p \in Ids, Expire(p), failed' = failed, HNext PROVE RoleInv'
  <2>1. UNCHANGED <<account, teacher, job>>
    BY <1>3 DEF Expire
  <2>2. failed' = failed /\ met' = met
    <3>. DEFINE Pairs == {{x, y} : x \in Stepped, y \in {q \in Requests \ Stepped : InService(q)}}
    <3>1. met' = met \cup Pairs
      BY <1>3 DEF HNext
    <3>2. Pairs = {}
      BY <2>1 DEF Stepped
    <3>. HIDE DEF Pairs
    <3>3. met' = met
      BY <3>1, <3>2
    <3>. QED  BY <1>3, <3>3
  <2>. QED  BY <1>2, <2>1, <2>2
<1>. QED  BY <1>1, <1>2, <1>3 DEF HNext, hvars, vars, db

\* An app user has the teacher's role exactly if the catalog lists its address,
\* in whatever order registrations, listings, changes of address and deletions
\* came, unless two of them about it overlapped or one failed
\* (auth_service.rs, verify_email; teacher_service.rs, promote_if_user_exists and
\* demote_if_orphan).
THEOREM RolesCorrect == HSpec => []RolesFollowCatalog
<1>1. ASSUME RoleInv, NEW e \in Emails, Settled(e), HasAccount(e), account[e].role \in {"STUDENT", "TEACHER"}
      PROVE  account[e].role = "TEACHER" <=> Listed(e)
  <2>1. ~Troubled(e)
    BY <1>1 DEF Settled, Troubled, Commits, Near, Interferes
  <2>2. ~AtWork(e)
    <3>. SUFFICES ASSUME NEW r \in Requests, Removing(r, e) \/ Adding(r, e) PROVE FALSE
      BY DEF AtWork
    <3>1. InService(r)
      BY InTheMiddle DEF Removing, Adding
    <3>2. Decides(r, e)
      BY <1>1 DEF RoleInv, Removing, Adding, Decides, KindOf, DemotePcs, PromotePcs
    <3>. QED  BY <1>1, <3>1, <3>2 DEF Settled
  <2>3. Good(e)
    BY <1>1, <2>1, <2>2 DEF RoleInv
  <2>. QED  BY <1>1, <2>3 DEF Good, AppRole, AppUser, AppRoles
<1>2. RoleInv => RolesFollowCatalog
  BY <1>1 DEF RolesFollowCatalog
<1>3. HInit => RoleInv
  BY InitRoleInv
<1>4. HSpec => []RoleInv
  BY <1>3, NextRoleInv, IInvariant, PTL DEF HSpec
<1>. QED  BY <1>2, <1>4, PTL
=============================================================================
