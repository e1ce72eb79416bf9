-------------------------- MODULE Credentials_proofs --------------------------
(***************************************************************************)
(* Type correctness; three failures lock the account, and a password is      *)
(* replaced by another one; a reset code changes the password once and       *)
(* outlives four wrong guesses, unless requests overlapped or a statement    *)
(* failed; a cached verdict is wrong for 30 seconds at most unless it was    *)
(* stored late: for any requests, scenarios and length of time.              *)
(***************************************************************************)
EXTENDS CredentialsHistory, FiniteSetTheorems, TLAPS

PCs == {"login.read", "login.count", "login.judge", "login.lock", "login.reset", "login.clear",
        "login.token", "ask.delete", "ask.insert", "guess.find", "guess.count", "guess.mark",
        "reset.delete", "complete.find", "complete.read", "complete.write", "force.read",
        "force.write", "toggle.read", "toggle.write", "role.write", "session.cache",
        "session.read", "session.store", "serve", "refresh.read", "change.read",
        "change.write", "done"}
Firsts == {"login.read", "ask.delete", "guess.find", "complete.find", "force.read",
           "toggle.read", "role.write", "session.cache"}
Verdicts == [token : Tokens \cup {NoToken}, scope : Scopes, role : Roles \cup {"none"}]
Jobs == [op : Operations, pc : PCs, seen : Users \cup {NoUser}, verdict : Verdicts, until : Ticks]
Rows == [attempts : Nat, verified : BOOLEAN, expired : BOOLEAN]
Entries == [iat : 0..MaxTime, scope : Scopes, role : Roles, until : Nat]

Tables ==
  /\ user \in Users
  /\ reset \in [Ids -> Rows \cup {NoRow}]
  /\ tokens \subseteq Tokens
  /\ cache \in Entries \cup {NoEntry}
  /\ now \in 0..MaxTime
Typed == Tables /\ job \in [Requests -> Jobs]

\* What a request has at hand before the statements that need it, and what the
\* cached verdict was made from.
Ready(r) ==
  /\ job[r].pc = "login.lock" => job[r].until \in 1..now + 4
  /\ job[r].pc \in {"session.read", "session.store", "serve"} => job[r].verdict.token \in tokens
  /\ job[r].pc \in {"session.read", "session.store"} =>
       job[r].verdict.scope = job[r].verdict.token.scope
  /\ job[r].pc \in {"session.store", "serve"} => job[r].verdict.role \in Roles
CacheInv ==
  cache # NoEntry =>
    /\ [iat |-> cache.iat, scope |-> cache.scope] \in tokens
    /\ cache.until <= now + Ttl
IInv == Typed /\ CacheInv /\ \A r \in Requests : Ready(r)

\* The statements that nothing has to be ready for, and those of them that may
\* follow any other.
Quiet == PCs \ {"login.lock", "session.read", "session.store", "serve"}
Plain == Quiet \ {"complete.read", "complete.write", "guess.mark"}
-----------------------------------------------------------------------------
LEMMA FirstPc ==
  ASSUME NEW op
  PROVE  First(op) \in Firsts /\ First(op) \in PCs
BY DEF First, Firsts, PCs

LEMMA PlainPcs ==
  /\ Plain \subseteq PCs /\ Firsts \subseteq Plain
  /\ {"login.count", "login.judge", "login.reset", "login.clear", "login.token", "ask.insert",
      "guess.count", "reset.delete", "force.write", "toggle.write", "refresh.read", "change.read",
      "change.write", "done"} \subseteq Plain
BY DEF Plain, Quiet, PCs, Firsts

LEMMA AtTyped ==
  ASSUME NEW op \in Operations, NEW pc \in PCs
  PROVE  At(op, pc) \in Jobs /\ At(op, pc).op = op /\ At(op, pc).pc = pc
<1>1. NoVerdict \in Verdicts
  BY DEF NoVerdict, Verdicts, Scopes
<1>2. 0 \in Ticks
  BY TimeAssumption DEF Ticks
<1>. QED
  BY <1>1, <1>2 DEF At, Jobs

\* A step of a request leaves the others and its operation alone.
Alone(r) ==
  /\ job' \in [Requests -> Jobs]
  /\ job'[r].op = job[r].op
  /\ \A q \in Requests \ {r} : job'[q] = job[q]

LEMMA PcTyped ==
  ASSUME NEW j \in Jobs, NEW pc \in PCs
  PROVE  LET new == [j EXCEPT !.pc = pc]
         IN  new \in Jobs /\ new.op = j.op /\ new.pc = pc /\ new.verdict = j.verdict
BY DEF Jobs

LEMMA Going ==
  ASSUME Typed, NEW r \in Requests, NEW pc \in PCs, Goto(r, pc)
  PROVE  /\ Alone(r) /\ job'[r].pc = pc
         /\ pc \notin Firsts \cup {"done"} => job'[r].verdict = job[r].verdict
<1>1. job[r] \in Jobs /\ job[r].op \in Operations
  BY DEF Typed, Jobs
<1>2. CASE pc \in {"done", First(job[r].op)}
  <2>1. job' = [job EXCEPT ![r] = At(job[r].op, pc)]
    BY <1>2 DEF Goto
  <2>2. job'[r] \in Jobs /\ job'[r].op = job[r].op /\ job'[r].pc = pc
    BY <1>1, <2>1, AtTyped DEF Typed
  <2>3. pc \in Firsts \cup {"done"}
    BY <1>2, FirstPc
  <2>. QED
    BY <2>1, <2>2, <2>3 DEF Typed, Alone
<1>3. CASE pc \notin {"done", First(job[r].op)}
  <2>1. job' = [job EXCEPT ![r] = [job[r] EXCEPT !.pc = pc]]
    BY <1>3 DEF Goto
  <2>2. /\ [job[r] EXCEPT !.pc = pc] \in Jobs
        /\ [job[r] EXCEPT !.pc = pc].op = job[r].op
        /\ [job[r] EXCEPT !.pc = pc].pc = pc
        /\ [job[r] EXCEPT !.pc = pc].verdict = job[r].verdict
    BY <1>1, PcTyped
  <2>3. /\ job'[r] \in Jobs /\ job'[r].op = job[r].op
        /\ job'[r].pc = pc /\ job'[r].verdict = job[r].verdict
    BY <2>1, <2>2 DEF Typed
  <2>. QED
    BY <2>1, <2>3 DEF Typed, Alone
<1>. QED
  BY <1>2, <1>3
-----------------------------------------------------------------------------
\* From where the statements come that have something to rely on.
Entered(r) ==
  /\ job[r].pc # "done"
  /\ job'[r].pc = "complete.read" =>
       /\ job[r].pc = "complete.find" /\ reset' = reset
       /\ reset[job[r].op.row] # NoRow /\ reset[job[r].op.row].verified
  /\ job'[r].pc = "complete.write" => job[r].pc = "complete.read" /\ reset' = reset
  /\ job'[r].pc = "guess.mark" => job[r].pc = "guess.find" /\ reset' = reset
  /\ job'[r].pc = "session.store" =>
       /\ user' = user /\ user.active /\ job'[r].verdict.role = user.role
       /\ job'[r].verdict.token.iat >= user.invalidBefore
Served(r) ==
  /\ Alone(r) /\ Tables' /\ Ready(r)' /\ Entered(r) /\ tokens \subseteq tokens' /\ now' = now

LEMMA GoPlain ==
  ASSUME Typed, NEW r \in Requests, NEW pc \in Plain, Goto(r, pc), job[r].pc # "done",
         Tables', tokens \subseteq tokens', now' = now
  PROVE  Served(r)
<1>1. Alone(r) /\ job'[r].pc = pc
  BY Going, PlainPcs
<1>. QED
  BY <1>1 DEF Served, Ready, Entered, Plain, Quiet

LEMMA Reading ==
  ASSUME Tables, UNCHANGED <<db, tokens, cache, now>>
  PROVE  Tables'
BY DEF Tables, db

LEMMA WritingUser ==
  ASSUME Tables, user' \in Users, UNCHANGED <<reset, tokens, cache, now>>
  PROVE  Tables'
BY DEF Tables

LEMMA WritingReset ==
  ASSUME Tables, reset' \in [Ids -> Rows \cup {NoRow}], UNCHANGED <<user, tokens, cache, now>>
  PROVE  Tables'
BY DEF Tables

\* The account taken down as it was read.
LEMMA SeenTyped ==
  ASSUME NEW j \in Jobs, NEW pc \in PCs, NEW u \in Users
  PROVE  LET new == [j EXCEPT !.seen = u, !.pc = pc]
         IN  new \in Jobs /\ new.op = j.op /\ new.pc = pc
BY DEF Jobs
LEMMA Seeing ==
  ASSUME Typed, NEW r \in Requests, NEW pc \in Plain, job[r].pc # "done",
         job' = [job EXCEPT ![r].seen = user, ![r].pc = pc], Tables', UNCHANGED <<tokens, now>>
  PROVE  Served(r)
<1>1. job[r] \in Jobs /\ user \in Users /\ pc \in PCs
  BY PlainPcs DEF Typed, Tables
<1>2. /\ [job[r] EXCEPT !.seen = user, !.pc = pc] \in Jobs
      /\ [job[r] EXCEPT !.seen = user, !.pc = pc].op = job[r].op
      /\ [job[r] EXCEPT !.seen = user, !.pc = pc].pc = pc
  BY <1>1, SeenTyped
<1>3. job'[r] = [job[r] EXCEPT !.seen = user, !.pc = pc]
  BY DEF Typed
<1>4. job'[r] \in Jobs /\ job'[r].op = job[r].op /\ job'[r].pc = pc
  BY <1>2, <1>3
<1>5. Alone(r)
  BY <1>4 DEF Alone, Typed
<1>. QED
  BY <1>4, <1>5 DEF Served, Ready, Entered, Plain, Quiet

LEMMA UserTyped ==
  ASSUME Tables
  PROVE  /\ [user EXCEPT !.failed = @ + 1] \in Users
         /\ \A n \in Ticks : [user EXCEPT !.lockout = n] \in Users
         /\ [user EXCEPT !.failed = 0, !.lockout = 0] \in Users
         /\ \A on \in BOOLEAN : [user EXCEPT !.active = on, !.failed = 0, !.lockout = 0] \in Users
         /\ \A role \in Roles : [user EXCEPT !.role = role] \in Users
<1>. user \in Users /\ 0 \in Ticks
  BY TimeAssumption DEF Tables, Ticks
<1>1. [user EXCEPT !.failed = @ + 1] \in Users
  BY DEF Users
<1>2. \A n \in Ticks : [user EXCEPT !.lockout = n] \in Users
  BY DEF Users
<1>3. [user EXCEPT !.failed = 0, !.lockout = 0] \in Users
  BY DEF Users
<1>4. \A on \in BOOLEAN : [user EXCEPT !.active = on, !.failed = 0, !.lockout = 0] \in Users
  BY DEF Users
<1>5. \A role \in Roles : [user EXCEPT !.role = role] \in Users
  BY DEF Users
<1>. QED
  BY <1>1, <1>2, <1>3, <1>4, <1>5

LEMMA Crediting ==
  ASSUME Tables, NEW password \in Passwords \cup {Temporary}, NEW temp \in BOOLEAN,
         UpdateCredentials(password, temp)
  PROVE  user' \in Users
<1>. user \in Users /\ 0 \in Ticks /\ now \in 0..MaxTime
  BY TimeAssumption DEF Tables, Ticks
<1>. QED
  BY DEF UpdateCredentials, Users

LEMMA ReadServed ==
  ASSUME IInv, NEW r \in Requests, ReadAccount(r)
  PROVE  Served(r)
<1>1. Typed /\ Tables /\ job[r].pc # "done"
  BY DEF IInv, Typed, ReadAccount
<1>2. Tables' /\ UNCHANGED <<tokens, now>>
  BY <1>1, Reading DEF ReadAccount
<1>3. CASE Goto(r, "done")
  BY <1>1, <1>2, <1>3, GoPlain, PlainPcs
<1>4. ASSUME ~Goto(r, "done")
      PROVE  \E pc \in {"login.reset", "login.count"} :
               job' = [job EXCEPT ![r].seen = user, ![r].pc = pc]
  BY <1>4 DEF ReadAccount, End
<1>. QED
  BY <1>1, <1>2, <1>3, <1>4, Seeing, PlainPcs

LEMMA UntilTyped ==
  ASSUME NEW j \in Jobs, NEW until \in Ticks
  PROVE  LET new == [j EXCEPT !.until = until, !.pc = "login.lock"]
         IN  new \in Jobs /\ new.op = j.op /\ new.pc = "login.lock" /\ new.until = until
BY DEF Jobs, PCs

LEMMA VerifyServed ==
  ASSUME IInv, NEW r \in Requests, VerifyPassword(r)
  PROVE  Served(r)
<1>. Typed /\ Tables /\ Ready(r)
  BY DEF IInv, Typed
<1>. job[r] \in Jobs
  BY DEF Typed
<1>. AfterFailure(r) \in Plain /\ AfterSuccess(r) \in Plain
  BY PlainPcs DEF AfterFailure, AfterSuccess
<1>1. CASE CountFailure(r)
  <2>1. Tables'
    BY <1>1, UserTyped, WritingUser DEF CountFailure
  <2>. QED
    BY <1>1, <2>1, GoPlain, PlainPcs DEF CountFailure
<1>2. CASE JudgeFailure(r)
  <2>. DEFINE pause == Ladder(user.failed)
              until == now + pause
  <2>1. Tables' /\ UNCHANGED <<tokens, now>> /\ job[r].pc # "done"
    BY <1>2, Reading DEF JudgeFailure
  <2>2. CASE Goto(r, AfterFailure(r))
    BY <2>1, <2>2, GoPlain
  <2>3. CASE pause # 0 /\ job' = [job EXCEPT ![r].until = until, ![r].pc = "login.lock"]
    <3>1. now \in Nat /\ pause \in 1..4 /\ now \in 0..MaxTime
      BY <2>3, TimeAssumption DEF Ladder, Tables
    <3>2. until \in Ticks /\ until \in 1..now + 4
      BY <3>1, TimeAssumption DEF Ticks
    <3>. HIDE DEF until
    <3>3. /\ [job[r] EXCEPT !.until = until, !.pc = "login.lock"] \in Jobs
          /\ [job[r] EXCEPT !.until = until, !.pc = "login.lock"].op = job[r].op
          /\ [job[r] EXCEPT !.until = until, !.pc = "login.lock"].pc = "login.lock"
          /\ [job[r] EXCEPT !.until = until, !.pc = "login.lock"].until = until
      BY <3>2, UntilTyped
    <3>4. job'[r] = [job[r] EXCEPT !.until = until, !.pc = "login.lock"]
      BY <2>3 DEF Typed
    <3>5. job'[r] \in Jobs /\ job'[r].op = job[r].op /\ job'[r].pc = "login.lock" /\ job'[r].until = until
      BY <3>3, <3>4
    <3>6. Alone(r)
      BY <2>3, <3>5 DEF Alone, Typed
    <3>. QED
      BY <2>1, <3>2, <3>5, <3>6 DEF Served, Ready, Entered
  <2>. QED
    BY <1>2, <2>2, <2>3 DEF JudgeFailure
<1>3. CASE SetLockout(r)
  <2>1. job[r].until \in Ticks
    BY DEF Jobs
  <2>2. Tables'
    BY <1>3, <2>1, UserTyped, WritingUser DEF SetLockout
  <2>. QED
    BY <1>3, <2>2, GoPlain DEF SetLockout
<1>4. CASE ResetFailures(r)
  <2>1. Tables'
    BY <1>4, UserTyped, WritingUser DEF ResetFailures
  <2>. QED
    BY <1>4, <2>1, GoPlain, PlainPcs DEF ResetFailures
<1>5. CASE ClearLockout(r)
  <2>1. Tables'
    <3>1. 0 \in Ticks
      BY TimeAssumption DEF Ticks
    <3>. QED
      BY <1>5, <3>1, UserTyped, WritingUser DEF ClearLockout
  <2>. QED
    BY <1>5, <2>1, GoPlain DEF ClearLockout
<1>. QED
  BY <1>1, <1>2, <1>3, <1>4, <1>5 DEF VerifyPassword

LEMMA IssueServed ==
  ASSUME IInv, NEW r \in Requests, NEW scope \in Scopes, job[r].pc # "done", IssueToken(r, scope)
  PROVE  Served(r)
<1>1. [iat |-> now, scope |-> scope] \in Tokens
  BY DEF IInv, Typed, Tables, Tokens
<1>2. Tables' /\ tokens \subseteq tokens' /\ now' = now
  BY <1>1 DEF IssueToken, IInv, Typed, Tables, db
<1>. QED
  BY <1>2, GoPlain, PlainPcs DEF IssueToken, End, IInv

LEMMA LoginServed ==
  ASSUME IInv, NEW r \in Requests, Login(r)
  PROVE  Served(r)
<1>1. job[r].pc # "done" /\ Typed /\ Tables
  BY DEF Login, IInv, Typed
<1>2. CASE \E scope \in Scopes : IssueToken(r, scope)
  BY <1>1, <1>2, IssueServed
<1>3. CASE Goto(r, "done") /\ UNCHANGED <<db, tokens, cache, now>>
  BY <1>1, <1>3, Reading, GoPlain, PlainPcs
<1>. QED
  BY <1>2, <1>3 DEF Login, End, Scopes

LEMMA RowTyped ==
  ASSUME Tables, NEW p
  PROVE  /\ reset[p] # NoRow => [reset EXCEPT ![p].attempts = @ + 1] \in [Ids -> Rows \cup {NoRow}]
         /\ reset[p] # NoRow => [reset EXCEPT ![p].verified = TRUE] \in [Ids -> Rows \cup {NoRow}]
         /\ reset[p] # NoRow => [reset EXCEPT ![p].expired = TRUE] \in [Ids -> Rows \cup {NoRow}]
         /\ [reset EXCEPT ![p] = NoRow] \in [Ids -> Rows \cup {NoRow}]
<1>1. \A row \in Rows : /\ [row EXCEPT !.attempts = @ + 1] \in Rows
                        /\ [row EXCEPT !.verified = TRUE] \in Rows
                        /\ [row EXCEPT !.expired = TRUE] \in Rows
  <2>. SUFFICES ASSUME NEW row \in Rows
                PROVE  /\ [row EXCEPT !.attempts = @ + 1] \in Rows
                       /\ [row EXCEPT !.verified = TRUE] \in Rows
                       /\ [row EXCEPT !.expired = TRUE] \in Rows
    OBVIOUS
  <2>1. [row EXCEPT !.attempts = @ + 1] \in Rows
    BY DEF Rows
  <2>2. [row EXCEPT !.verified = TRUE] \in Rows
    BY DEF Rows
  <2>3. [row EXCEPT !.expired = TRUE] \in Rows
    BY DEF Rows
  <2>. QED
    BY <2>1, <2>2, <2>3
<1>2. p \in Ids /\ reset[p] # NoRow => reset[p] \in Rows
  BY DEF Tables
<1>. QED
  BY <1>1, <1>2 DEF Tables

LEMMA AskServed ==
  ASSUME IInv, NEW r \in Requests, AskReset(r)
  PROVE  Served(r)
<1>. Typed /\ Tables
  BY DEF IInv, Typed
<1>1. CASE /\ job[r].pc = "ask.delete" /\ reset' = [p \in Ids |-> NoRow]
           /\ Goto(r, "ask.insert") /\ UNCHANGED <<user, tokens, cache, now>>
  <2>1. Tables'
    BY <1>1, WritingReset
  <2>. QED
    BY <1>1, <2>1, GoPlain, PlainPcs
<1>2. CASE /\ job[r].pc = "ask.insert"
           /\ reset' = [reset EXCEPT ![r] = [attempts |-> 0, verified |-> FALSE, expired |-> FALSE]]
           /\ Goto(r, "done") /\ UNCHANGED <<user, tokens, cache, now>>
  <2>1. [attempts |-> 0, verified |-> FALSE, expired |-> FALSE] \in Rows
    BY DEF Rows
  <2>2. Tables'
    BY <1>2, <2>1, WritingReset DEF Tables
  <2>. QED
    BY <1>2, <2>2, GoPlain, PlainPcs
<1>. QED
  BY <1>1, <1>2 DEF AskReset, End

\* The same for the statements that are entered from certain ones only.
LEMMA GoOn ==
  ASSUME Typed, NEW r \in Requests, NEW pc \in {"complete.read", "complete.write", "guess.mark"},
         Goto(r, pc), Tables', UNCHANGED <<reset, tokens, now>>,
         pc = "complete.read" => /\ job[r].pc = "complete.find" /\ reset[job[r].op.row] # NoRow
                                 /\ reset[job[r].op.row].verified,
         pc = "complete.write" => job[r].pc = "complete.read",
         pc = "guess.mark" => job[r].pc = "guess.find"
  PROVE  Served(r)
<1>1. pc \in PCs
  BY DEF PCs
<1>2. Alone(r) /\ job'[r].pc = pc
  BY <1>1, Going
<1>. QED
  BY <1>2 DEF Served, Ready, Entered

LEMMA GuessServed ==
  ASSUME IInv, NEW r \in Requests, GuessCode(r)
  PROVE  Served(r)
<1>. Typed /\ Tables
  BY DEF IInv, Typed
<1>. DEFINE p == job[r].op.row
<1>1. CASE job[r].pc = "guess.find"
  <2>1. Tables' /\ UNCHANGED <<reset, tokens, now>>
    BY <1>1, Reading DEF GuessCode, db
  <2>2. PICK pc \in {"done", "reset.delete", "guess.mark", "guess.count"} : Goto(r, pc)
    BY <1>1 DEF GuessCode
  <2>3. CASE pc = "guess.mark"
    BY <1>1, <2>1, <2>2, <2>3, GoOn
  <2>4. CASE pc # "guess.mark"
    BY <1>1, <2>1, <2>2, <2>4, GoPlain, PlainPcs
  <2>. QED
    BY <2>3, <2>4
<1>2. CASE job[r].pc = "guess.count"
  <2>1. UNCHANGED <<user, tokens, cache, now>>
        /\ reset' = IF reset[p] = NoRow THEN reset ELSE [reset EXCEPT ![p].attempts = @ + 1]
    BY <1>2 DEF GuessCode
  <2>2. reset' \in [Ids -> Rows \cup {NoRow}]
    BY <2>1, RowTyped DEF Tables
  <2>3. Tables'
    BY <2>1, <2>2, WritingReset
  <2>4. PICK pc \in {"guess.find", "reset.delete"} : Goto(r, pc)
    BY <1>2 DEF GuessCode
  <2>5. pc \in Plain
    BY PlainPcs DEF Firsts
  <2>. QED
    BY <1>2, <2>1, <2>3, <2>4, <2>5, GoPlain
<1>3. CASE job[r].pc = "guess.mark"
  <2>1. UNCHANGED <<user, tokens, cache, now>> /\ Goto(r, "done")
        /\ reset' = IF reset[p] = NoRow THEN reset ELSE [reset EXCEPT ![p].verified = TRUE]
    BY <1>3 DEF GuessCode, End
  <2>2. reset' \in [Ids -> Rows \cup {NoRow}]
    BY <2>1, RowTyped DEF Tables
  <2>3. Tables'
    BY <2>1, <2>2, WritingReset
  <2>. QED
    BY <1>3, <2>1, <2>3, GoPlain, PlainPcs
<1>. QED
  BY <1>1, <1>2, <1>3 DEF GuessCode

LEMMA CompleteServed ==
  ASSUME IInv, NEW r \in Requests, CompleteReset(r) \/ DeleteReset(r)
  PROVE  Served(r)
<1>. Typed /\ Tables
  BY DEF IInv, Typed
<1>. job[r] \in Jobs
  BY DEF Typed
<1>. DEFINE p == job[r].op.row
<1>1. CASE DeleteReset(r)
  <2>1. Tables'
    BY <1>1, RowTyped, WritingReset DEF DeleteReset
  <2>. QED
    BY <1>1, <2>1, GoPlain, PlainPcs DEF DeleteReset, End
<1>2. CASE CompleteReset(r) /\ job[r].pc = "complete.find"
  <2>1. Tables' /\ UNCHANGED <<reset, tokens, now>>
    BY <1>2, Reading DEF CompleteReset, db
  <2>2. CASE Goto(r, "done") \/ Goto(r, "reset.delete")
    BY <1>2, <2>1, <2>2, GoPlain, PlainPcs
  <2>3. CASE reset[p] # NoRow /\ reset[p].verified /\ Goto(r, "complete.read")
    BY <1>2, <2>1, <2>3, GoOn
  <2>. QED
    BY <1>2, <2>2, <2>3 DEF CompleteReset
<1>3. CASE CompleteReset(r) /\ job[r].pc = "complete.read"
  <2>1. Tables' /\ UNCHANGED <<reset, tokens, now>>
    BY <1>3, Reading DEF CompleteReset, db
  <2>2. CASE Goto(r, "done")
    BY <1>3, <2>1, <2>2, GoPlain, PlainPcs
  <2>3. CASE Goto(r, "complete.write")
    BY <1>3, <2>1, <2>3, GoOn
  <2>. QED
    BY <1>3, <2>2, <2>3 DEF CompleteReset
<1>4. CASE CompleteReset(r) /\ job[r].pc = "complete.write"
  <2>1. UpdateCredentials(job[r].op.password, FALSE) /\ Goto(r, "reset.delete")
        /\ UNCHANGED <<reset, tokens, cache, now>>
    BY <1>4 DEF CompleteReset
  <2>2. job[r].op.password \in Passwords \cup {Temporary}
    BY DEF Jobs, Operations
  <2>3. Tables'
    BY <2>1, <2>2, Crediting, WritingUser
  <2>. QED
    BY <1>4, <2>1, <2>3, GoPlain, PlainPcs
<1>. QED
  BY <1>1, <1>2, <1>3, <1>4 DEF CompleteReset

LEMMA AdminServed ==
  ASSUME IInv, NEW r \in Requests, Administered(r)
  PROVE  Served(r)
<1>. Typed /\ Tables
  BY DEF IInv, Typed
<1>. job[r] \in Jobs
  BY DEF Typed
<1>1. /\ job[r].op.on \in BOOLEAN /\ job[r].op.role \in Roles
  BY DEF Jobs, Operations
<1>2. CASE ForceReset(r)
  <2>1. CASE job[r].pc = "force.read" /\ Goto(r, "force.write") /\ UNCHANGED <<db, tokens, cache, now>>
    BY <2>1, Reading, GoPlain, PlainPcs
  <2>2. CASE /\ job[r].pc = "force.write" /\ UpdateCredentials(Temporary, TRUE)
             /\ Goto(r, "done") /\ UNCHANGED <<reset, tokens, cache, now>>
    <3>1. Tables'
      BY <2>2, Crediting, WritingUser
    <3>. QED
      BY <2>2, <3>1, GoPlain, PlainPcs
  <2>. QED
    BY <1>2, <2>1, <2>2 DEF ForceReset, End
<1>3. CASE ToggleAccess(r)
  <2>1. CASE /\ job[r].pc = "toggle.read" /\ (Goto(r, "done") \/ Goto(r, "toggle.write"))
             /\ UNCHANGED <<db, tokens, cache, now>>
    BY <2>1, Reading, GoPlain, PlainPcs
  <2>2. CASE /\ job[r].pc = "toggle.write"
             /\ user' = [user EXCEPT !.active = job[r].op.on, !.failed = 0, !.lockout = 0]
             /\ Goto(r, "done") /\ UNCHANGED <<reset, tokens, cache, now>>
    <3>1. Tables'
      BY <1>1, <2>2, UserTyped, WritingUser
    <3>. QED
      BY <2>2, <3>1, GoPlain, PlainPcs
  <2>. QED
    BY <1>3, <2>1, <2>2 DEF ToggleAccess, End
<1>4. CASE UpdateRole(r)
  <2>1. Tables'
    BY <1>1, <1>4, UserTyped, WritingUser DEF UpdateRole
  <2>. QED
    BY <1>4, <2>1, GoPlain, PlainPcs DEF UpdateRole, End
<1>. QED
  BY <1>2, <1>3, <1>4 DEF Administered
-----------------------------------------------------------------------------
LEMMA TokenTyped ==
  ASSUME NEW t \in Tokens
  PROVE  t.iat \in 0..MaxTime /\ t.scope \in Scopes /\ [iat |-> t.iat, scope |-> t.scope] = t
BY DEF Tokens

LEMMA Judging ==
  ASSUME Typed, NEW r \in Requests, NEW pc \in {"serve", "session.read", "session.store"},
         NEW v \in Verdicts, job' = [job EXCEPT ![r].pc = pc, ![r].verdict = v]
  PROVE  Alone(r) /\ job'[r].pc = pc /\ job'[r].verdict = v
<1>1. job[r] \in Jobs /\ pc \in PCs
  BY DEF Typed, PCs
<1>2. /\ [job[r] EXCEPT !.pc = pc, !.verdict = v] \in Jobs
      /\ [job[r] EXCEPT !.pc = pc, !.verdict = v].op = job[r].op
      /\ [job[r] EXCEPT !.pc = pc, !.verdict = v].pc = pc
  <2>1. [job[r] EXCEPT !.pc = pc, !.verdict = v] \in Jobs
    BY <1>1 DEF Jobs
  <2>2. /\ [job[r] EXCEPT !.pc = pc, !.verdict = v].op = job[r].op
        /\ [job[r] EXCEPT !.pc = pc, !.verdict = v].pc = pc
    BY <1>1 DEF Jobs
  <2>. QED
    BY <2>1, <2>2
<1>3. job'[r] = [job[r] EXCEPT !.pc = pc, !.verdict = v]
  BY DEF Typed
<1>4. job'[r] \in Jobs /\ job'[r].op = job[r].op /\ job'[r].pc = pc /\ job'[r].verdict = v
  <2>1. [job[r] EXCEPT !.pc = pc, !.verdict = v].verdict = v
    BY <1>1 DEF Jobs
  <2>. QED
    BY <1>2, <1>3, <2>1
<1>. QED
  BY <1>4 DEF Alone, Typed

LEMMA CachedServed ==
  ASSUME IInv, NEW r \in Requests, GetCached(r)
  PROVE  Served(r)
<1>. Typed /\ Tables
  BY DEF IInv, Typed
<1>1. Tables' /\ UNCHANGED <<reset, tokens, now>> /\ job[r].pc = "session.cache"
  BY Reading DEF GetCached, db
<1>2. PICK t \in tokens :
        job' = IF Cached(t)
               THEN [job EXCEPT ![r].pc = "serve", ![r].verdict =
                       [token |-> t, scope |-> cache.scope, role |-> cache.role]]
               ELSE [job EXCEPT ![r].pc = "session.read", ![r].verdict =
                       [token |-> t, scope |-> t.scope, role |-> "none"]]
  BY DEF GetCached
<1>3. t \in Tokens /\ t.scope \in Scopes
  BY <1>2, TokenTyped DEF Tables
<1>4. CASE Cached(t)
  <2>. DEFINE v == [token |-> t, scope |-> cache.scope, role |-> cache.role]
  <2>1. cache.scope \in Scopes /\ cache.role \in Roles
    BY <1>4 DEF Cached, Tables, Entries
  <2>2. v \in Verdicts /\ v.token = t /\ v.role \in Roles
    BY <1>3, <2>1 DEF Verdicts
  <2>3. job' = [job EXCEPT ![r].pc = "serve", ![r].verdict = v]
    BY <1>2, <1>4
  <2>. HIDE DEF v
  <2>4. Alone(r) /\ job'[r].pc = "serve" /\ job'[r].verdict = v
    BY <2>2, <2>3, Judging
  <2>. QED
    BY <1>1, <1>2, <2>2, <2>4 DEF Served, Ready, Entered
<1>5. CASE ~Cached(t)
  <2>. DEFINE v == [token |-> t, scope |-> t.scope, role |-> "none"]
  <2>2. v \in Verdicts /\ v.token = t /\ v.scope = t.scope
    BY <1>3 DEF Verdicts
  <2>3. job' = [job EXCEPT ![r].pc = "session.read", ![r].verdict = v]
    BY <1>2, <1>5
  <2>. HIDE DEF v
  <2>4. Alone(r) /\ job'[r].pc = "session.read" /\ job'[r].verdict = v
    BY <2>2, <2>3, Judging
  <2>. QED
    BY <1>1, <1>2, <2>2, <2>4 DEF Served, Ready, Entered
<1>. QED
  BY <1>4, <1>5

LEMMA RoleTyped ==
  ASSUME NEW v \in Verdicts, NEW role \in Roles
  PROVE  LET new == [v EXCEPT !.role = role]
         IN  new \in Verdicts /\ new.token = v.token /\ new.scope = v.scope /\ new.role = role
BY DEF Verdicts

LEMMA ReadVerdictServed ==
  ASSUME IInv, NEW r \in Requests, ReadVerdict(r)
  PROVE  Served(r)
<1>. Typed /\ Tables /\ Ready(r)
  BY DEF IInv, Typed
<1>. job[r] \in Jobs
  BY DEF Typed
<1>1. Tables' /\ UNCHANGED <<db, tokens, now>> /\ job[r].pc = "session.read"
  BY Reading DEF ReadVerdict
<1>2. CASE Goto(r, "done")
  BY <1>1, <1>2, GoPlain, PlainPcs
<1>3. CASE /\ user.active /\ job[r].verdict.token.iat >= user.invalidBefore
           /\ job' = [job EXCEPT ![r].pc = "session.store", ![r].verdict.role = user.role]
  <2>. DEFINE v == [job[r].verdict EXCEPT !.role = user.role]
  <2>1. job[r].verdict \in Verdicts /\ user.role \in Roles
    BY DEF Jobs, Tables, Users
  <2>2. /\ v \in Verdicts /\ v.token = job[r].verdict.token
        /\ v.scope = job[r].verdict.scope /\ v.role = user.role
    BY <2>1, RoleTyped
  <2>3. job' = [job EXCEPT ![r].pc = "session.store", ![r].verdict = v]
    BY <1>3 DEF Typed
  <2>. HIDE DEF v
  <2>4. Alone(r) /\ job'[r].pc = "session.store" /\ job'[r].verdict = v
    BY <2>2, <2>3, Judging
  <2>. QED
    BY <1>1, <1>3, <2>1, <2>2, <2>4 DEF Served, Ready, Entered, db
<1>. QED
  BY <1>2, <1>3 DEF ReadVerdict, End

LEMMA StoreServed ==
  ASSUME IInv, NEW r \in Requests, StoreVerdict(r)
  PROVE  Served(r) /\ CacheInv'
<1>. Typed /\ Tables /\ Ready(r)
  BY DEF IInv, Typed
<1>. job[r] \in Jobs
  BY DEF Typed
<1>. DEFINE v == job[r].verdict
            entry == [iat |-> v.token.iat, scope |-> v.scope, role |-> v.role, until |-> now + Ttl]
<1>1. /\ job[r].pc = "session.store" /\ Goto(r, "serve") /\ UNCHANGED <<db, tokens, now>>
      /\ cache' = entry
  BY DEF StoreVerdict
<1>2. v \in Verdicts /\ v.token \in tokens /\ v.scope = v.token.scope /\ v.role \in Roles
  BY <1>1 DEF Ready, Jobs
<1>3. v.token \in Tokens /\ [iat |-> v.token.iat, scope |-> v.scope] = v.token /\ v.token.iat \in 0..MaxTime
  BY <1>2, TokenTyped DEF Tables
<1>4. now + Ttl \in Nat /\ v.scope \in Scopes
  BY <1>2 DEF Tables, Ttl, Verdicts
<1>5. entry \in Entries /\ entry.iat = v.token.iat /\ entry.scope = v.scope /\ entry.until = now + Ttl
  BY <1>2, <1>3, <1>4 DEF Entries
<1>. HIDE DEF entry
<1>6. Tables'
  BY <1>1, <1>5 DEF Tables, db
<1>7. Alone(r) /\ job'[r].pc = "serve" /\ job'[r].verdict = v
  BY <1>1, Going DEF PCs, Firsts
<1>8. CacheInv'
  BY <1>1, <1>2, <1>3, <1>4, <1>5 DEF CacheInv, Ttl, Tables
<1>. QED
  BY <1>1, <1>2, <1>6, <1>7, <1>8 DEF Served, Ready, Entered

LEMMA SessionServed ==
  ASSUME IInv, NEW r \in Requests, Serve(r) \/ RefreshSession(r) \/ ChangeCredentials(r)
  PROVE  Served(r)
<1>. Typed /\ Tables
  BY DEF IInv, Typed
<1>. job[r] \in Jobs
  BY DEF Typed
<1>1. CASE Serve(r)
  <2>1. PICK pc \in {"change.read", "refresh.read", "done"} : Goto(r, pc)
    BY <1>1 DEF Serve
  <2>2. Tables' /\ UNCHANGED <<tokens, now>> /\ job[r].pc # "done"
    BY <1>1, Reading DEF Serve
  <2>. QED
    BY <2>1, <2>2, GoPlain, PlainPcs
<1>2. CASE RefreshSession(r)
  <2>1. CASE IssueToken(r, "session") /\ job[r].pc = "refresh.read"
    BY <2>1, IssueServed DEF Scopes
  <2>2. CASE Goto(r, "done") /\ UNCHANGED <<db, tokens, cache, now>> /\ job[r].pc = "refresh.read"
    BY <2>2, Reading, GoPlain, PlainPcs
  <2>. QED
    BY <1>2, <2>1, <2>2 DEF RefreshSession, End
<1>3. CASE ChangeCredentials(r)
  <2>1. CASE job[r].pc = "change.read"
    <3>1. Tables' /\ UNCHANGED <<tokens, now>>
      BY <1>3, <2>1, Reading DEF ChangeCredentials
    <3>2. CASE Goto(r, "done")
      BY <2>1, <3>1, <3>2, GoPlain, PlainPcs
    <3>3. CASE \E pc \in {"change.write", "login.reset", "login.count"} :
                 job' = [job EXCEPT ![r].seen = user, ![r].pc = pc]
      BY <2>1, <3>1, <3>3, Seeing, PlainPcs
    <3>. QED
      BY <1>3, <2>1, <3>2, <3>3 DEF ChangeCredentials, End
  <2>2. CASE job[r].pc = "change.write"
    <3>1. UpdateCredentials(job[r].op.password, FALSE) /\ Goto(r, "done")
          /\ UNCHANGED <<reset, tokens, cache, now>>
      BY <1>3, <2>2 DEF ChangeCredentials, End
    <3>2. job[r].op.password \in Passwords \cup {Temporary}
      BY DEF Jobs, Operations
    <3>3. Tables'
      BY <3>1, <3>2, Crediting, WritingUser
    <3>. QED
      BY <2>2, <3>1, <3>3, GoPlain, PlainPcs
  <2>. QED
    BY <1>3, <2>1, <2>2 DEF ChangeCredentials
<1>. QED
  BY <1>1, <1>2, <1>3

LEMMA FailServed ==
  ASSUME IInv, NEW r \in Requests, Fails(r)
  PROVE  Served(r)
<1>1. PICK pc \in {"done", "change.write"} : Goto(r, pc)
  BY DEF Fails, End
<1>2. Typed /\ Tables' /\ UNCHANGED <<tokens, now>> /\ job[r].pc # "done"
  BY Reading DEF Fails, IInv, Typed
<1>. QED
  BY <1>1, <1>2, GoPlain, PlainPcs

LEMMA StepServed ==
  ASSUME IInv, NEW r \in Requests, Step(r) \/ Fails(r)
  PROVE  Served(r)
BY ReadServed, VerifyServed, LoginServed, AskServed, GuessServed, CompleteServed, AdminServed,
   CachedServed, ReadVerdictServed, StoreServed, SessionServed, FailServed
   DEF Step, Forgotten, Session
-----------------------------------------------------------------------------
\* The cached verdict is written by StoreVerdict alone.
LEMMA CacheKept ==
  ASSUME NEW r \in Requests, Step(r) \/ Fails(r)
  PROVE  cache' = cache \/ StoreVerdict(r)
<1>1. CASE ReadAccount(r) \/ VerifyPassword(r) \/ Login(r)
  BY <1>1 DEF ReadAccount, VerifyPassword, CountFailure, JudgeFailure, SetLockout, ResetFailures,
              ClearLockout, Login, IssueToken
<1>2. CASE Forgotten(r) \/ Administered(r)
  BY <1>2 DEF Forgotten, AskReset, GuessCode, CompleteReset, DeleteReset, Administered,
              ForceReset, ToggleAccess, UpdateRole
<1>3. CASE Session(r)
  BY <1>3 DEF Session, GetCached, ReadVerdict, Serve, RefreshSession, IssueToken, ChangeCredentials
<1>4. CASE Fails(r)
  BY <1>4 DEF Fails
<1>. QED
  BY <1>1, <1>2, <1>3, <1>4 DEF Step

LEMMA InitIInv == HInit => IInv
<1>. SUFFICES ASSUME HInit PROVE IInv
  OBVIOUS
<1>1. PICK s \in Scenarios :
        /\ user = s.user /\ tokens = s.tokens /\ cache = NoEntry /\ now = 0
        /\ reset = [p \in Ids |-> IF p \in Codes
                       THEN [attempts |-> 0, verified |-> FALSE, expired |-> FALSE] ELSE NoRow]
        /\ job \in [Requests -> {At(op, First(op)) : op \in s.operations}]
  BY DEF HInit, Init
<1>2. [attempts |-> 0, verified |-> FALSE, expired |-> FALSE] \in Rows
  BY DEF Rows
<1>3. Tables
  BY <1>1, <1>2, ScenariosAssumption, TimeAssumption DEF Tables
<1>4. ASSUME NEW r \in Requests PROVE job[r] \in Jobs /\ Ready(r)
  <2>1. PICK op \in Operations : job[r] = At(op, First(op))
    BY <1>1, ScenariosAssumption
  <2>2. First(op) \in Firsts /\ First(op) \in PCs
    BY FirstPc
  <2>3. job[r] \in Jobs /\ job[r].pc = First(op)
    BY <2>1, <2>2, AtTyped
  <2>. QED
    BY <2>2, <2>3 DEF Ready, Firsts
<1>. QED
  BY <1>1, <1>3, <1>4 DEF IInv, Typed, CacheInv

LEMMA Steps ==
  HNext => \/ \E r \in Requests : Step(r) \/ Fails(r)
           \/ ServerRestarts \/ Tick \/ \E p \in Ids : Expire(p)
BY DEF HNext

LEMMA NextIInv == IInv /\ [HNext]_hvars => IInv'
<1>1. ASSUME IInv, NEW r \in Requests, Step(r) \/ Fails(r)
      PROVE  IInv'
  <2>1. Served(r) /\ job \in [Requests -> Jobs]
    BY <1>1, StepServed DEF IInv, Typed
  <2>2. \A q \in Requests : Ready(q)'
    <3>. SUFFICES ASSUME NEW q \in Requests, q # r PROVE Ready(q)'
      BY <2>1 DEF Served
    <3>1. Ready(q) /\ job'[q] = job[q] /\ tokens \subseteq tokens' /\ now' = now
      BY <1>1, <2>1 DEF IInv, Served, Alone
    <3>. QED
      BY <3>1 DEF Ready
  <2>3. CacheInv'
    <3>1. CASE cache' = cache
      BY <1>1, <2>1, <3>1 DEF IInv, CacheInv, Served
    <3>2. CASE StoreVerdict(r)
      BY <1>1, <3>2, StoreServed
    <3>. QED
      BY <1>1, <3>1, <3>2, CacheKept
  <2>. QED
    BY <2>1, <2>2, <2>3 DEF IInv, Typed, Served, Alone
<1>2. ASSUME IInv, ServerRestarts
      PROVE  IInv'
  <2>1. \A q \in Requests : job'[q] \in Jobs /\ job'[q].pc = "done"
    <3>. SUFFICES ASSUME NEW q \in Requests PROVE job'[q] \in Jobs /\ job'[q].pc = "done"
      OBVIOUS
    <3>1. job[q].op \in Operations /\ "done" \in PCs
      BY <1>2 DEF IInv, Typed, Jobs, PCs
    <3>. QED
      BY <1>2, <3>1, AtTyped DEF ServerRestarts
  <2>2. job' \in [Requests -> Jobs]
    BY <1>2, <2>1 DEF ServerRestarts
  <2>3. Tables' /\ cache' = NoEntry
    BY <1>2 DEF ServerRestarts, IInv, Typed, Tables, db
  <2>. QED
    BY <2>1, <2>2, <2>3 DEF IInv, Typed, CacheInv, Ready
<1>3. ASSUME IInv, Tick
      PROVE  IInv'
  <2>1. now' = now + 1 /\ now < MaxTime /\ UNCHANGED <<db, tokens, cache, job>> /\ now \in 0..MaxTime
    BY <1>3 DEF Tick, IInv, Typed, Tables
  <2>2. Tables'
    BY <1>3, <2>1, TimeAssumption DEF IInv, Typed, Tables, db
  <2>3. CacheInv'
    <3>1. cache # NoEntry => cache.until \in Nat
      BY <1>3 DEF IInv, Typed, Tables, Entries
    <3>. QED
      BY <1>3, <2>1, <3>1 DEF IInv, CacheInv, Ttl
  <2>4. \A q \in Requests : Ready(q)'
    BY <1>3, <2>1 DEF IInv, Ready
  <2>. QED
    BY <1>3, <2>1, <2>2, <2>3, <2>4 DEF IInv, Typed
<1>4. ASSUME IInv, NEW p \in Ids, Expire(p)
      PROVE  IInv'
  <2>1. Tables'
    BY <1>4, RowTyped, WritingReset DEF Expire, IInv, Typed
  <2>. QED
    BY <1>4, <2>1 DEF Expire, IInv, Typed, CacheInv, Ready
<1>5. ASSUME IInv, UNCHANGED hvars
      PROVE  IInv'
  BY <1>5 DEF hvars, vars, db, IInv, Typed, Tables, CacheInv, Ready
<1>. QED
  BY <1>1, <1>2, <1>3, <1>4, <1>5, Steps

THEOREM IInvariant == HSpec => []IInv
BY InitIInv, NextIInv, PTL DEF HSpec

\* Every row, token, verdict and lockout has its type: the cached verdict is about
\* a token that was issued, however calls and restarts interleave.
THEOREM CredentialsTypeCorrect == HSpec => []TypeOK
<1>1. IInv => TypeOK
  <2>. SUFFICES ASSUME IInv PROVE TypeOK
    OBVIOUS
  <2>1. cache # NoEntry =>
          /\ [iat |-> cache.iat, scope |-> cache.scope] \in tokens
          /\ cache.role \in Roles /\ cache.until \in 0..now + Ttl
    BY DEF IInv, Typed, Tables, CacheInv, Entries, Ttl
  <2>2. \A r \in Requests :
          /\ job[r].seen \in Users \cup {NoUser} /\ job[r].until \in Ticks
          /\ job[r].pc = "login.lock" => job[r].until \in 1..now + 4
          /\ job[r].pc \in {"session.read", "session.store", "serve"} => job[r].verdict.token \in tokens
          /\ job[r].pc \in {"session.store", "serve"} => job[r].verdict.role \in Roles
    BY DEF IInv, Typed, Jobs, Ready
  <2>. QED
    BY <2>1, <2>2 DEF IInv, Typed, Tables, Rows, TypeOK
<1>. QED
  BY <1>1, IInvariant, PTL
-----------------------------------------------------------------------------
\* What is cached holds of the account, or the account has turned since it was
\* read, or it was read before a turn and stored after it; so does what is about
\* to be stored.
Holds(role, iat) == user.active /\ user.role = role /\ iat >= user.invalidBefore
VerdictInv ==
  /\ turned \in Nat
  /\ cache # NoEntry /\ ~late => Holds(cache.role, cache.iat) \/ cache.until <= turned + Ttl
  /\ \A r \in Requests :
       job[r].pc = "session.store" /\ r \notin outdated =>
         Holds(job[r].verdict.role, job[r].verdict.token.iat)

\* How the history of turns goes on.
History ==
  /\ turned' = IF Turned THEN now ELSE turned
  /\ outdated' = {r \in (IF Turned THEN Requests ELSE outdated) : job'[r].pc = "session.store"}
  /\ late' = IF \E r \in Stepped : Storing(r) THEN \E r \in Stepped \cap outdated : Storing(r) ELSE late

LEMMA TurnedStep ==
  ASSUME IInv, VerdictInv, History, Turned, cache' = cache
  PROVE  VerdictInv'
<1>1. now \in Nat /\ turned' = now
  BY DEF History, IInv, Typed, Tables
<1>2. cache # NoEntry => cache.until <= now + Ttl
  BY DEF IInv, CacheInv
<1>3. \A r \in Requests : job'[r].pc = "session.store" => r \in outdated'
  BY DEF History
<1>. QED
  BY <1>1, <1>2, <1>3 DEF VerdictInv

\* What a step does at the statements these histories look at.
LEMMA StoreOnly ==
  ASSUME IInv, NEW r \in Requests, Step(r) \/ Fails(r), Storing(r)
  PROVE  StoreVerdict(r)
<1>1. CASE Fails(r)
  <2>1. PICK pc \in {"done", "change.write"} : Goto(r, pc)
    BY <1>1 DEF Fails, End
  <2>2. job'[r].pc = pc
    BY <2>1, Going DEF PCs, IInv
  <2>. QED
    BY <2>2 DEF Storing
<1>2. CASE ReadAccount(r) \/ VerifyPassword(r) \/ Login(r)
  BY <1>2 DEF Storing, ReadAccount, VerifyPassword, CountFailure, JudgeFailure, SetLockout,
              ResetFailures, ClearLockout, Login
<1>3. CASE Forgotten(r) \/ Administered(r)
  BY <1>3 DEF Storing, Forgotten, AskReset, GuessCode, CompleteReset, DeleteReset, Administered,
              ForceReset, ToggleAccess, UpdateRole
<1>4. CASE Session(r)
  BY <1>4 DEF Storing, Session, GetCached, ReadVerdict, Serve, RefreshSession, ChangeCredentials
<1>. QED
  BY <1>1, <1>2, <1>3, <1>4 DEF Step

LEMMA Stored ==
  ASSUME IInv, NEW r \in Requests, StoreVerdict(r)
  PROVE  /\ Storing(r) /\ user' = user
         /\ cache'.role = job[r].verdict.role /\ cache'.iat = job[r].verdict.token.iat
<1>1. job'[r].pc = "serve"
  BY Going DEF StoreVerdict, PCs, IInv
<1>. QED
  BY <1>1 DEF StoreVerdict, Storing, db

LEMMA Taken ==
  ASSUME IInv, NEW r \in Requests, Step(r) \/ Fails(r),
         job[r].pc = "session.cache", job'[r].pc = "serve"
  PROVE  cache # NoEntry /\ now < cache.until /\ job'[r].verdict.role = cache.role /\ user' = user
<1>. Typed /\ Tables /\ job[r] \in Jobs
  BY DEF IInv, Typed
<1>1. CASE Fails(r)
  <2>1. PICK pc \in {"done", "change.write"} : Goto(r, pc)
    BY <1>1 DEF Fails, End
  <2>. QED
    BY <2>1, Going DEF PCs
<1>2. CASE ReadAccount(r) \/ VerifyPassword(r) \/ Login(r)
  BY <1>2 DEF ReadAccount, VerifyPassword, CountFailure, JudgeFailure, SetLockout,
              ResetFailures, ClearLockout, Login
<1>3. CASE Forgotten(r) \/ Administered(r)
  BY <1>3 DEF Forgotten, AskReset, GuessCode, CompleteReset, DeleteReset, Administered,
              ForceReset, ToggleAccess, UpdateRole
<1>4. CASE Session(r) /\ ~GetCached(r)
  BY <1>4 DEF Session, ReadVerdict, StoreVerdict, Serve, RefreshSession, ChangeCredentials
<1>5. CASE GetCached(r)
  <2>1. PICK t \in tokens :
          job' = IF Cached(t)
                 THEN [job EXCEPT ![r].pc = "serve", ![r].verdict =
                         [token |-> t, scope |-> cache.scope, role |-> cache.role]]
                 ELSE [job EXCEPT ![r].pc = "session.read", ![r].verdict =
                         [token |-> t, scope |-> t.scope, role |-> "none"]]
    BY <1>5 DEF GetCached
  <2>2. Cached(t)
    <3>1. ASSUME ~Cached(t) PROVE job'[r].pc = "session.read"
      BY <2>1, <3>1 DEF Typed, Jobs
    <3>. QED
      BY <3>1
  <2>3. job'[r].verdict = [token |-> t, scope |-> cache.scope, role |-> cache.role]
    BY <2>1, <2>2 DEF Typed, Jobs
  <2>. QED
    BY <1>5, <2>2, <2>3 DEF Cached, GetCached, db
<1>. QED
  BY <1>1, <1>2, <1>3, <1>4, <1>5 DEF Step

LEMMA VerdictStep ==
  ASSUME IInv, VerdictInv, History, NEW r \in Requests, Step(r) \/ Fails(r)
  PROVE  VerdictInv'
<1>1. Served(r) /\ now \in Nat
  BY StepServed DEF IInv, Typed, Tables
<1>2. \A q \in Stepped : q = r
  BY <1>1 DEF Served, Alone, Stepped
<1>3. CASE StoreVerdict(r)
  <2>1. /\ Storing(r) /\ user' = user /\ ~Turned
        /\ cache'.role = job[r].verdict.role /\ cache'.iat = job[r].verdict.token.iat
    BY <1>3, Stored DEF Turned
  <2>2. r \in Stepped /\ job[r].pc = "session.store" /\ job'[r].pc = "serve"
    BY <2>1 DEF Storing, Stepped
  <2>3. (late' <=> r \in outdated) /\ turned' = turned
    <3>1. (\E q \in Stepped \cap outdated : Storing(q)) <=> r \in outdated
      BY <1>2, <2>1, <2>2
    <3>. QED
      BY <2>1, <2>2, <3>1 DEF History
  <2>4. ~late' => Holds(cache.role, cache.iat)'
    BY <2>1, <2>2, <2>3 DEF VerdictInv, Holds
  <2>5. ASSUME NEW q \in Requests, job'[q].pc = "session.store", q \notin outdated'
        PROVE  Holds(job[q].verdict.role, job[q].verdict.token.iat)'
    <3>1. q # r /\ job'[q] = job[q] /\ q \notin outdated
      BY <1>1, <2>1, <2>2, <2>5 DEF Served, Alone, History
    <3>. QED
      BY <2>1, <2>5, <3>1 DEF VerdictInv, Holds
  <2>. QED
    BY <2>3, <2>4, <2>5 DEF VerdictInv, Holds
<1>4. CASE ~StoreVerdict(r) /\ Turned
  BY <1>4, CacheKept, TurnedStep
<1>5. CASE ~StoreVerdict(r) /\ ~Turned
  <2>1. /\ cache' = cache /\ user'.role = user.role /\ user'.active = user.active
        /\ user'.invalidBefore = user.invalidBefore
    BY <1>5, CacheKept DEF Turned
  <2>2. late' = late /\ turned' = turned
    BY <1>2, <1>5, StoreOnly DEF History, Stepped
  <2>3. ASSUME NEW q \in Requests, job'[q].pc = "session.store", q \notin outdated'
        PROVE  Holds(job[q].verdict.role, job[q].verdict.token.iat)'
    <3>1. q \notin outdated
      BY <1>5, <2>3 DEF History
    <3>2. CASE q = r
      BY <1>1, <2>1, <2>3, <3>2 DEF Served, Entered, Holds
    <3>3. CASE q # r
      BY <1>1, <2>1, <2>3, <3>1, <3>3 DEF Served, Alone, VerdictInv, Holds
    <3>. QED
      BY <3>2, <3>3
  <2>. QED
    BY <2>1, <2>2, <2>3 DEF VerdictInv, Holds
<1>. QED
  BY <1>3, <1>4, <1>5

LEMMA VerdictEnvironment ==
  ASSUME IInv, VerdictInv, History, ServerRestarts \/ Tick \/ \E p \in Ids : Expire(p)
  PROVE  VerdictInv'
<1>1. user' = user /\ ~Turned
  BY DEF ServerRestarts, Tick, Expire, Turned, db
<1>2. turned' = turned
  BY <1>1 DEF History
<1>3. CASE ServerRestarts
  <2>1. \A r \in Requests : job'[r].pc = "done"
    BY <1>3 DEF ServerRestarts, At
  <2>. QED
    BY <1>2, <1>3, <2>1 DEF ServerRestarts, VerdictInv
<1>4. CASE job' = job /\ cache' = cache
  <2>1. Stepped = {}
    BY <1>4 DEF Stepped
  <2>2. late' = late /\ \A q \in Requests : job[q].pc = "session.store" /\ q \notin outdated' => q \notin outdated
    BY <1>1, <1>4, <2>1 DEF History
  <2>. QED
    BY <1>1, <1>2, <1>4, <2>2 DEF VerdictInv, Holds
<1>. QED
  BY <1>3, <1>4 DEF Tick, Expire

THEOREM VerdictInvariant == HSpec => []VerdictInv
<1>1. HInit => VerdictInv
  <2>. SUFFICES ASSUME HInit PROVE VerdictInv
    OBVIOUS
  <2>1. cache = NoEntry /\ turned = 0
    BY DEF HInit, Init
  <2>2. ASSUME NEW r \in Requests PROVE job[r].pc # "session.store"
    <3>1. PICK s \in Scenarios : job \in [Requests -> {At(op, First(op)) : op \in s.operations}]
      BY DEF HInit, Init
    <3>2. PICK op \in Operations : job[r] = At(op, First(op))
      BY <3>1, ScenariosAssumption
    <3>. QED
      BY <3>2, FirstPc, AtTyped DEF Firsts
  <2>. QED
    BY <2>1, <2>2 DEF VerdictInv
<1>2. IInv /\ VerdictInv /\ [HNext]_hvars => VerdictInv'
  <2>1. ASSUME IInv, VerdictInv, HNext
        PROVE  VerdictInv'
    <3>1. History
      BY <2>1 DEF HNext, History
    <3>. QED
      BY <2>1, <3>1, VerdictStep, VerdictEnvironment, Steps
  <2>2. ASSUME VerdictInv, UNCHANGED hvars
        PROVE  VerdictInv'
    BY <2>2 DEF hvars, vars, db, VerdictInv, Holds
  <2>. QED
    BY <2>1, <2>2
<1>. QED
  BY <1>1, <1>2, IInvariant, PTL DEF HSpec

\* A verdict taken from the cache holds, or was true less than 30 seconds ago, or
\* was stored after the account had turned: whatever logins, administrative acts,
\* restarts and calls came between.
THEOREM VerdictsCorrect == HSpec => VerdictsAgeOut
<1>. DEFINE Ages == \A r \in Stepped :
       job[r].pc = "session.cache" /\ job'[r].pc = "serve"
         => \/ user.active /\ job'[r].verdict.role = user.role /\ cache.iat >= user.invalidBefore
            \/ now < turned + Ttl \/ late
<1>1. IInv /\ VerdictInv /\ [HNext]_hvars => [Ages]_hvars
  <2>1. ASSUME IInv, VerdictInv, NEW q \in Requests, Step(q) \/ Fails(q)
        PROVE  Ages
    <3>. SUFFICES ASSUME NEW r \in Stepped, job[r].pc = "session.cache", job'[r].pc = "serve"
                  PROVE  \/ user.active /\ job'[r].verdict.role = user.role /\ cache.iat >= user.invalidBefore
                         \/ now < turned + Ttl \/ late
      OBVIOUS
    <3>1. r = q /\ r \in Requests
      BY <2>1, StepServed DEF Served, Alone, Stepped
    <3>2. cache # NoEntry /\ now < cache.until /\ job'[r].verdict.role = cache.role
      BY <2>1, <3>1, Taken
    <3>3. now \in Nat /\ cache.until \in Nat /\ turned \in Nat
      BY <2>1, <3>2 DEF IInv, Typed, Tables, Entries, VerdictInv
    <3>. QED
      BY <2>1, <3>2, <3>3 DEF VerdictInv, Holds, Ttl
  <2>2. ASSUME ServerRestarts \/ Tick \/ \E p \in Ids : Expire(p)
        PROVE  Ages
    BY <2>2 DEF ServerRestarts, Tick, Expire, At, Stepped
  <2>. HIDE DEF Ages
  <2>. QED
    BY <2>1, <2>2, Steps
<1>. QED
  BY <1>1, IInvariant, VerdictInvariant, PTL DEF HSpec, VerdictsAgeOut
-----------------------------------------------------------------------------
\* A row was there at the start, or the request that inserts it is done; so no
\* row comes back.  Who has used a reset deletes it next, or has.
Born(p) == p \in Codes \/ (p \in Requests /\ job[p].pc = "done")
Completes(q, p) == job[q].op.row = p /\ job[q].pc \in {"complete.read", "complete.write"}
Spent(r, p) ==
  \/ job[r].pc = "reset.delete" /\ job[r].op.row = p
  \/ job[r].pc = "done" /\ reset[p] = NoRow
Excused(r, q) == {r, q} \in met \/ r \in failed \/ q \in failed

RowsInv ==
  \A p \in Ids : reset[p] # NoRow => Born(p) /\ (reset[p].verified => p \in proved)
ProvedInv ==
  /\ \A q \in Requests : job[q].pc = "guess.mark" => job[q].op.row \in proved
  /\ \A q \in Requests, p \in Ids : Completes(q, p) => p \in proved /\ Born(p)
  /\ \A p \in Ids : used[p] # {} => p \in proved /\ Born(p)
SpentInv == \A p \in Ids : \A r \in used[p] : r \in failed \/ Spent(r, p)
OnceInv ==
  \A p \in Ids : \A r \in used[p], q \in Requests :
    r # q /\ (q \in used[p] \/ Completes(q, p)) => Excused(r, q)
ResetInv == used \in [Ids -> SUBSET Requests] /\ RowsInv /\ ProvedInv /\ SpentInv /\ OnceInv

\* How the history of resets goes on when one request steps.
Uses(r) ==
  /\ (Step(r) /\ failed' = failed) \/ (Fails(r) /\ failed' = failed \cup {r})
  /\ met' = met \cup {{x, y} : x \in Stepped, y \in {p \in Requests \ Stepped : InService(p)}}
  /\ used' = [p \in Ids |-> used[p] \cup {x \in Stepped : Completing(x) /\ job[x].op.row = p}]
  /\ proved' = proved \cup {p \in Ids : \E x \in Stepped :
                  job[x].pc = "guess.find" /\ job'[x].pc = "guess.mark" /\ job[x].op.row = p}
Meets(r) ==
  /\ met \subseteq met'
  /\ job'[r] # job[r] => \A q \in Requests \ {r} : InService(q) => {r, q} \in met'

LEMMA Meeting ==
  ASSUME NEW r \in Requests, Alone(r), Uses(r)
  PROVE  Meets(r)
<1>. DEFINE Pairs == {{x, y} : x \in Stepped, y \in {p \in Requests \ Stepped : InService(p)}}
<1>1. ASSUME NEW q \in Requests \ {r}, InService(q), job'[r] # job[r]
      PROVE  {r, q} \in Pairs
  <2>1. r \in Stepped /\ q \in {p \in Requests \ Stepped : InService(p)}
    BY <1>1 DEF Stepped, Alone
  <2>. QED
    BY <2>1
<1>. HIDE DEF Pairs
<1>2. met' = met \cup Pairs
  BY DEF Uses, Pairs
<1>. QED
  BY <1>1, <1>2 DEF Meets

LEMMA NotFirst ==
  ASSUME NEW r, job[r].pc \in {"complete.read", "complete.write", "reset.delete"}
  PROVE  InService(r)
BY DEF InService, First

\* What a step does to the resets.
ResetWritten(r) ==
  /\ \A p \in Ids : reset'[p] # NoRow =>
       \/ /\ reset[p] # NoRow
          /\ reset'[p].verified =>
               reset[p].verified \/ (job[r].pc = "guess.mark" /\ job[r].op.row = p)
       \/ p = r /\ job'[r].pc = "done" /\ ~reset'[p].verified
  /\ job[r].pc = "reset.delete" /\ Step(r) =>
       job'[r].pc = "done" /\ (job[r].op.row \in Ids => reset'[job[r].op.row] = NoRow)

LEMMA RowKept ==
  ASSUME Tables, NEW p, reset[p] # NoRow, NEW q \in Ids, reset[q] # NoRow
  PROVE  /\ [reset EXCEPT ![p].attempts = @ + 1][q].verified = reset[q].verified
         /\ q # p => [reset EXCEPT ![p].verified = TRUE][q].verified = reset[q].verified
         /\ [reset EXCEPT ![p].expired = TRUE][q].verified = reset[q].verified
<1>1. reset[q] \in Rows
  BY DEF Tables
<1>2. \A row \in Rows : [row EXCEPT !.attempts = @ + 1].verified = row.verified
  BY DEF Rows
<1>3. \A row \in Rows : [row EXCEPT !.expired = TRUE].verified = row.verified
  BY DEF Rows
<1>. QED
  BY <1>1, <1>2, <1>3 DEF Tables

LEMMA Written ==
  ASSUME IInv, NEW r \in Requests, Step(r) \/ Fails(r)
  PROVE  ResetWritten(r)
<1>. Typed /\ Tables
  BY DEF IInv, Typed
<1>1. CASE reset' = reset /\ job[r].pc # "reset.delete"
  BY <1>1 DEF ResetWritten
<1>2. CASE AskReset(r)
  <2>1. CASE job[r].pc = "ask.delete" /\ reset' = [p \in Ids |-> NoRow]
    BY <2>1 DEF ResetWritten
  <2>2. CASE /\ job[r].pc = "ask.insert" /\ Goto(r, "done")
             /\ reset' = [reset EXCEPT ![r] = [attempts |-> 0, verified |-> FALSE, expired |-> FALSE]]
    <3>1. job'[r].pc = "done"
      BY <2>2, Going DEF PCs
    <3>2. ~reset'[r].verified /\ \A p \in Ids \ {r} : reset'[p] = reset[p]
      BY <2>2 DEF Tables, Ids
    <3>. QED
      BY <2>2, <3>1, <3>2 DEF ResetWritten
  <2>. QED
    BY <1>2, <2>1, <2>2 DEF AskReset, End
<1>3. CASE GuessCode(r)
  <2>. DEFINE p == job[r].op.row
  <2>1. job[r].pc # "reset.delete"
    BY <1>3 DEF GuessCode
  <2>2. CASE reset[p] # NoRow /\ reset' = [reset EXCEPT ![p].attempts = @ + 1]
    BY <2>1, <2>2, RowKept DEF ResetWritten, Tables
  <2>3. CASE job[r].pc = "guess.mark" /\ reset[p] # NoRow /\ reset' = [reset EXCEPT ![p].verified = TRUE]
    BY <2>1, <2>3, RowKept DEF ResetWritten, Tables
  <2>. QED
    BY <1>1, <1>3, <2>1, <2>2, <2>3 DEF GuessCode, db
<1>4. CASE DeleteReset(r)
  <2>1. job'[r].pc = "done"
    BY <1>4, Going DEF DeleteReset, End, PCs
  <2>. QED
    BY <1>4, <2>1 DEF DeleteReset, ResetWritten, Tables
<1>5. CASE ReadAccount(r) \/ VerifyPassword(r) \/ Login(r)
  BY <1>1, <1>5 DEF ReadAccount, VerifyPassword, CountFailure, JudgeFailure, SetLockout,
              ResetFailures, ClearLockout, Login, IssueToken, db
<1>6. CASE CompleteReset(r) \/ Administered(r)
  BY <1>1, <1>6 DEF CompleteReset, Administered, ForceReset, ToggleAccess, UpdateRole, db
<1>7. CASE Session(r)
  BY <1>1, <1>7 DEF Session, GetCached, ReadVerdict, StoreVerdict, Serve, RefreshSession,
              IssueToken, ChangeCredentials, db
<1>8. CASE Fails(r) /\ ~Step(r)
  BY <1>8 DEF Fails, ResetWritten, db
<1>. QED
  BY <1>2, <1>3, <1>4, <1>5, <1>6, <1>7, <1>8 DEF Step, Forgotten

LEMMA UsesOnce ==
  ASSUME NEW r \in Requests, Served(r), Uses(r), used \in [Ids -> SUBSET Requests]
  PROVE  /\ used' \in [Ids -> SUBSET Requests]
         /\ \A p \in Ids : used[p] \subseteq used'[p]
         /\ \A p \in Ids : \A x \in used'[p] \ used[p] :
              x = r /\ job[r].op.row = p /\ job[r].pc = "complete.write" /\ job'[r].pc = "reset.delete"
<1>1. \A x \in Stepped : x = r
  BY DEF Stepped, Served, Alone
<1>. QED
  BY <1>1 DEF Uses, Completing, Stepped

LEMMA BornStays ==
  ASSUME NEW r \in Requests, Served(r), NEW p, Born(p)
  PROVE  Born(p)'
BY DEF Served, Entered, Alone, Born

LEMMA RowsStep ==
  ASSUME IInv, ResetInv, NEW r \in Requests, Served(r), Uses(r), ResetWritten(r)
  PROVE  RowsInv'
<1>. SUFFICES ASSUME NEW p \in Ids, reset'[p] # NoRow
              PROVE  Born(p)' /\ (reset'[p].verified => p \in proved')
  BY DEF RowsInv
<1>1. proved \subseteq proved'
  BY DEF Uses
<1>2. CASE p = r /\ job'[r].pc = "done" /\ ~reset'[p].verified
  BY <1>2 DEF Born
<1>3. CASE reset[p] # NoRow /\ (reset'[p].verified =>
             reset[p].verified \/ (job[r].pc = "guess.mark" /\ job[r].op.row = p))
  BY <1>1, <1>3, BornStays DEF ResetInv, RowsInv, ProvedInv
<1>. QED
  BY <1>2, <1>3 DEF ResetWritten

LEMMA ProvedStep ==
  ASSUME IInv, ResetInv, NEW r \in Requests, Served(r), Uses(r)
  PROVE  ProvedInv'
<1>1. proved \subseteq proved' /\ job[r].op.row \in Ids
  BY DEF Uses, IInv, Typed, Jobs, Operations
<1>2. ASSUME NEW q \in Requests, job'[q].pc = "guess.mark"
      PROVE  job'[q].op.row \in proved'
  <2>1. CASE q = r
    <3>1. job[r].pc = "guess.find" /\ job'[r].op = job[r].op /\ r \in Stepped
      BY <1>2, <2>1 DEF Served, Entered, Alone, Stepped
    <3>. QED
      BY <1>1, <1>2, <2>1, <3>1 DEF Uses
  <2>2. CASE q # r
    BY <1>1, <1>2, <2>2 DEF Served, Alone, ResetInv, ProvedInv
  <2>. QED
    BY <2>1, <2>2
<1>3. ASSUME NEW q \in Requests, NEW p \in Ids, Completes(q, p)'
      PROVE  p \in proved' /\ Born(p)'
  <2>1. CASE Completes(q, p)
    BY <1>1, <2>1, BornStays DEF ResetInv, ProvedInv
  <2>2. CASE ~Completes(q, p)
    <3>1. q = r
      BY <1>3, <2>2 DEF Served, Alone, Completes
    <3>2. job[r].op.row = p /\ reset[p] # NoRow /\ reset[p].verified
      BY <1>3, <2>2, <3>1 DEF Served, Alone, Entered, Completes
    <3>. QED
      BY <1>1, <3>2, BornStays DEF ResetInv, RowsInv
  <2>. QED
    BY <2>1, <2>2
<1>4. ASSUME NEW p \in Ids, used'[p] # {}
      PROVE  p \in proved' /\ Born(p)'
  <2>1. CASE used[p] # {}
    BY <1>1, <2>1, BornStays DEF ResetInv, ProvedInv
  <2>2. CASE used[p] = {}
    <3>1. Completes(r, p)
      BY <1>4, <2>2, UsesOnce DEF ResetInv, Completes
    <3>. QED
      BY <1>1, <3>1, BornStays DEF ResetInv, ProvedInv
  <2>. QED
    BY <2>1, <2>2
<1>. QED
  BY <1>2, <1>3, <1>4 DEF ProvedInv

LEMMA SpentStep ==
  ASSUME IInv, ResetInv, NEW r \in Requests, Served(r), Uses(r), ResetWritten(r)
  PROVE  SpentInv'
<1>. SUFFICES ASSUME NEW p \in Ids, NEW x \in used'[p], x \notin failed'
              PROVE  Spent(x, p)'
  BY DEF SpentInv
<1>1. failed \subseteq failed'
  BY DEF Uses
<1>2. CASE x \notin used[p]
  BY <1>2, UsesOnce DEF ResetInv, Spent, Served, Alone
<1>3. CASE x \in used[p]
  <2>1. Spent(x, p) /\ x \in Requests
    BY <1>1, <1>3 DEF ResetInv, SpentInv
  <2>2. CASE job[x].pc = "reset.delete" /\ job[x].op.row = p
    <3>1. CASE x = r
      <4>1. Step(r)
        BY <3>1 DEF Uses
      <4>. QED
        BY <2>2, <3>1, <4>1 DEF ResetWritten, Spent
    <3>2. CASE x # r
      BY <2>1, <2>2, <3>2 DEF Served, Alone, Spent
    <3>. QED
      BY <3>1, <3>2
  <2>3. CASE job[x].pc = "done" /\ reset[p] = NoRow
    <3>1. x # r /\ job'[x] = job[x]
      BY <2>1, <2>3 DEF Served, Entered, Alone
    <3>2. p # r
      BY <1>3, NothingAssumption DEF ResetInv, ProvedInv, Born, Served, Entered
    <3>3. reset'[p] = NoRow
      BY <2>3, <3>2 DEF ResetWritten
    <3>. QED
      BY <2>3, <3>1, <3>3 DEF Spent
  <2>. QED
    BY <2>1, <2>2, <2>3 DEF Spent
<1>. QED
  BY <1>2, <1>3

LEMMA OnceStep ==
  ASSUME IInv, ResetInv, NEW r \in Requests, Served(r), Uses(r), Meets(r)
  PROVE  OnceInv'
<1>. SUFFICES ASSUME NEW p \in Ids, NEW x \in used'[p], NEW q \in Requests, x # q,
                     q \in used'[p] \/ Completes(q, p)'
              PROVE  Excused(x, q)'
  BY DEF OnceInv
<1>1. \A y, z \in Requests : Excused(y, z) => Excused(y, z)'
  BY DEF Uses, Excused, Meets
<1>2. \A y, z \in Requests : Excused(y, z)' => Excused(z, y)'
  <2>1. \A y, z \in Requests : {y, z} = {z, y}
    OBVIOUS
  <2>. QED
    BY <2>1 DEF Excused
<1>3. used'[p] \subseteq Requests /\ used[p] \subseteq Requests /\ x \in Requests
  BY UsesOnce DEF ResetInv
<1>4. CASE x \in used[p] /\ (q \in used[p] \/ Completes(q, p))
  BY <1>1, <1>3, <1>4 DEF ResetInv, OnceInv
<1>5. CASE x \in used[p] /\ q \notin used[p] /\ ~Completes(q, p)
  <2>1. q = r /\ Completes(q, p)'
    BY <1>5, UsesOnce DEF ResetInv, Completes, Served, Alone
  <2>2. reset[p] # NoRow /\ job[r].pc = "complete.find" /\ job'[r].pc # job[r].pc
    BY <1>5, <2>1 DEF Completes, Served, Alone, Entered
  <2>3. x \in failed \/ InService(x)
    <3>1. CASE Spent(x, p)
      BY <2>2, <3>1, NotFirst DEF Spent
    <3>. QED
      BY <1>5, <3>1 DEF ResetInv, SpentInv
  <2>4. CASE x \in failed
    BY <2>4 DEF Excused, Uses
  <2>5. CASE InService(x)
    <3>1. {r, x} \in met'
      BY <1>3, <2>1, <2>2, <2>5 DEF Meets
    <3>2. {x, q} = {r, x}
      BY <2>1
    <3>. QED
      BY <3>1, <3>2 DEF Excused
  <2>. QED
    BY <2>3, <2>4, <2>5
<1>6. CASE x \notin used[p]
  <2>1. x = r /\ Completes(r, p) /\ job'[r].pc = "reset.delete" /\ job'[r] # job[r]
    BY <1>6, UsesOnce DEF ResetInv, Completes
  <2>2. CASE q \in used[p]
    <3>1. Excused(q, r)
      BY <2>1, <2>2 DEF ResetInv, OnceInv
    <3>. QED
      BY <1>1, <1>2, <2>1, <3>1
  <2>3. CASE q \notin used[p]
    <3>1. Completes(q, p)' /\ q # r
      BY <2>1, <2>3, UsesOnce DEF ResetInv
    <3>2. InService(q)
      BY <3>1, NotFirst DEF Completes, Served, Alone
    <3>3. {r, q} \in met'
      BY <2>1, <3>1, <3>2 DEF Meets
    <3>. QED
      BY <2>1, <3>3 DEF Excused
  <2>. QED
    BY <2>2, <2>3
<1>. QED
  BY <1>4, <1>5, <1>6

LEMMA ResetEnvironment ==
  ASSUME IInv, ResetInv, met \subseteq met',
         \/ ServerRestarts /\ failed' = failed \cup {r \in Requests : InService(r)}
         \/ (Tick \/ \E p \in Ids : Expire(p)) /\ failed' = failed,
         used' = [p \in Ids |-> used[p] \cup {x \in Stepped : Completing(x) /\ job[x].op.row = p}],
         proved' = proved \cup {p \in Ids : \E x \in Stepped :
                     job[x].pc = "guess.find" /\ job'[x].pc = "guess.mark" /\ job[x].op.row = p}
  PROVE  ResetInv'
<1>1. \A r \in Requests : /\ job'[r].op = job[r].op
                          /\ job'[r] = job[r] \/ job'[r].pc = "done"
                          /\ job[r].pc = "done" => job'[r].pc = "done"
  BY DEF ServerRestarts, Tick, Expire, At
<1>2. used' = used /\ proved \subseteq proved'
  <2>1. \A x \in Stepped : ~Completing(x)
    BY <1>1 DEF Stepped, Completing
  <2>. QED
    BY <2>1 DEF ResetInv
<1>3. \A p \in Ids : reset'[p] # NoRow =>
        reset[p] # NoRow /\ (reset'[p].verified => reset[p].verified)
  <2>1. CASE reset' = reset
    BY <2>1
  <2>2. ASSUME NEW p \in Ids, Expire(p)
        PROVE  \A q \in Ids : reset'[q] # NoRow =>
                 reset[q] # NoRow /\ (reset'[q].verified => reset[q].verified)
    <3>1. Tables /\ reset[p] # NoRow /\ reset' = [reset EXCEPT ![p].expired = TRUE]
      BY <2>2 DEF Expire, IInv, Typed
    <3>. QED
      BY <3>1, RowKept DEF Tables
  <2>. QED
    BY <2>1, <2>2 DEF ServerRestarts, Tick, db
<1>4. \A p \in Ids : reset[p] = NoRow => reset'[p] = NoRow
  BY <1>3
<1>5. \A p \in Ids : Born(p) => Born(p)'
  BY <1>1 DEF Born
<1>6. RowsInv'
  BY <1>2, <1>3, <1>5 DEF ResetInv, RowsInv
<1>7. ProvedInv'
  BY <1>1, <1>2, <1>5 DEF ResetInv, ProvedInv, Completes
<1>8. SpentInv'
  <2>. SUFFICES ASSUME NEW p \in Ids, NEW x \in used[p], x \notin failed'
                PROVE  Spent(x, p)'
    BY <1>2 DEF SpentInv
  <2>1. Spent(x, p) /\ x \in Requests /\ failed \subseteq failed'
    BY DEF ResetInv, SpentInv
  <2>2. CASE job[x].pc = "done" /\ reset[p] = NoRow
    BY <1>1, <1>4, <2>1, <2>2 DEF Spent
  <2>3. CASE job[x].pc = "reset.delete" /\ job[x].op.row = p
    <3>1. InService(x)
      BY <2>3, NotFirst
    <3>2. Tick \/ \E e \in Ids : Expire(e)
      BY <2>1, <3>1
    <3>3. job' = job
      BY <3>2 DEF Tick, Expire
    <3>. QED
      BY <2>3, <3>3 DEF Spent
  <2>. QED
    BY <2>1, <2>2, <2>3 DEF Spent
<1>9. OnceInv'
  BY <1>1, <1>2 DEF ResetInv, OnceInv, Completes, Excused
<1>. QED
  BY <1>2, <1>6, <1>7, <1>8, <1>9 DEF ResetInv

LEMMA InitResetInv == HInit => ResetInv
<1>. SUFFICES ASSUME HInit PROVE ResetInv
  OBVIOUS
<1>1. reset = [p \in Ids |-> IF p \in Codes
                 THEN [attempts |-> 0, verified |-> FALSE, expired |-> FALSE] ELSE NoRow]
  BY DEF HInit, Init
<1>2. used = [p \in Ids |-> {}]
  BY DEF HInit
<1>3. ASSUME NEW r \in Requests
      PROVE  job[r].pc \notin {"guess.mark", "complete.read", "complete.write"}
  <2>1. PICK s \in Scenarios : job \in [Requests -> {At(op, First(op)) : op \in s.operations}]
    BY DEF HInit, Init
  <2>2. PICK op \in Operations : job[r] = At(op, First(op))
    BY <2>1, ScenariosAssumption
  <2>. QED
    BY <2>2, FirstPc, AtTyped DEF Firsts
<1>4. RowsInv
  BY <1>1 DEF RowsInv, Born
<1>. QED
  BY <1>2, <1>3, <1>4 DEF ResetInv, ProvedInv, SpentInv, OnceInv, Completes

THEOREM ResetInvariant == HSpec => []ResetInv
<1>1. IInv /\ ResetInv /\ [HNext]_hvars => ResetInv'
  <2>. SUFFICES ASSUME IInv, ResetInv, [HNext]_hvars PROVE ResetInv'
    OBVIOUS
  <2>1. ASSUME NEW r \in Requests, Uses(r)
        PROVE  ResetInv'
    <3>1. Served(r) /\ ResetWritten(r)
      BY <2>1, StepServed, Written DEF Uses
    <3>2. Meets(r)
      BY <2>1, <3>1, Meeting DEF Served
    <3>3. used' \in [Ids -> SUBSET Requests]
      BY <2>1, <3>1, UsesOnce DEF ResetInv
    <3>4. RowsInv'
      BY <2>1, <3>1, RowsStep
    <3>5. ProvedInv'
      BY <2>1, <3>1, ProvedStep
    <3>6. SpentInv'
      BY <2>1, <3>1, SpentStep
    <3>7. OnceInv'
      BY <2>1, <3>1, <3>2, OnceStep
    <3>. QED
      BY <3>3, <3>4, <3>5, <3>6, <3>7 DEF ResetInv
  <2>2. CASE HNext /\ ~\E r \in Requests : Uses(r)
    <3>1. \/ ServerRestarts /\ failed' = failed \cup {r \in Requests : InService(r)}
          \/ (Tick \/ \E p \in Ids : Expire(p)) /\ failed' = failed
      BY <2>2 DEF HNext, Uses
    <3>2. /\ met \subseteq met'
          /\ used' = [p \in Ids |-> used[p] \cup {x \in Stepped : Completing(x) /\ job[x].op.row = p}]
          /\ proved' = proved \cup {p \in Ids : \E x \in Stepped :
               job[x].pc = "guess.find" /\ job'[x].pc = "guess.mark" /\ job[x].op.row = p}
      BY <2>2 DEF HNext
    <3>. QED
      BY <3>1, <3>2, ResetEnvironment
  <2>3. CASE UNCHANGED hvars
    <3>1. UNCHANGED <<reset, job, met, failed, used, proved>>
      BY <2>3 DEF hvars, vars, db
    <3>. QED
      BY <3>1 DEF ResetInv, RowsInv, ProvedInv, SpentInv, OnceInv, Born, Completes, Spent, Excused
  <2>. QED
    BY <2>1, <2>2, <2>3
<1>. QED
  BY <1>1, InitResetInv, IInvariant, PTL DEF HSpec

\* A reset changes the password only after its code was entered right, and once,
\* unless two completions overlapped or one of them failed: a request that has
\* changed it deletes the row next, and a row never comes back.
THEOREM ResetsCorrect == HSpec => []OneChangePerCode
<1>1. ResetInv => OneChangePerCode
  <2>. SUFFICES ASSUME ResetInv, NEW p \in Ids
                PROVE  /\ used[p] # {} => p \in proved
                       /\ \A r, q \in used[p] : r # q => Met(r, q) \/ r \in failed \/ q \in failed
    BY DEF OneChangePerCode
  <2>1. used[p] \subseteq Requests /\ (used[p] # {} => p \in proved)
    BY DEF ResetInv, ProvedInv
  <2>. QED
    BY <2>1 DEF ResetInv, OnceInv, Excused, Met
<1>. QED
  BY <1>1, ResetInvariant, PTL
-----------------------------------------------------------------------------
\* What the statements do to the account and to what a verification relies on.
KindInv ==
  \A r \in Requests :
    /\ job[r].pc = "login.read" => job[r].op.kind = "login"
    /\ job[r].pc \in {"change.read", "change.write"} => job[r].op.kind = "change"
    /\ job[r].pc \in Verifying => Verifies(r)

Keeps == user'.failed = user.failed /\ user'.lockout = user.lockout /\ user'.password = user.password
Counts(r) ==
  /\ job[r].pc = "login.count" /\ job'[r].pc = "login.judge"
  /\ user'.failed = user.failed + 1 /\ user'.lockout = user.lockout /\ user'.password = user.password
Locks(r) ==
  /\ job[r].pc \in {"login.lock", "login.clear"}
  /\ user'.failed = user.failed /\ user'.password = user.password
Zeroes(r) ==
  /\ user'.failed = 0
  /\ \/ user'.password = user.password
     \/ job[r].pc \in {"complete.write", "change.write", "force.write"} /\ job'[r].pc # job[r].pc
Effect(r) == Keeps \/ Counts(r) \/ Locks(r) \/ Zeroes(r)

Follows(r) ==
  /\ job'[r].pc = "login.clear" => job[r].pc = "login.reset" /\ user'.failed = 0
  /\ job'[r].pc = "login.lock" =>
       /\ job[r].pc = "login.judge" /\ user' = user
       /\ user.failed >= 3 /\ job'[r].until >= now + 1
  /\ job'[r].pc = "login.judge" => job[r].pc = "login.count"
  /\ job'[r].pc \in {"login.count", "login.reset"} =>
       job[r].pc \in {"login.read", "change.read"} /\ user' = user
  /\ job'[r].pc = "login.count" => job[r].op.password # user.password
  /\ job'[r].pc = "complete.write" => job[r].op.password # user.password /\ user' = user
  /\ job'[r].pc = "change.write" =>
       \/ job[r].pc = "change.read" /\ user' = user /\ Locked(user)
       \/ job[r].pc \in {"login.judge", "login.lock"} /\ job[r].op.kind = "change"
  /\ job'[r].pc = "change.read" => job[r].op.kind = "change"
  /\ job'[r].pc # "login.read"
Ends(r) ==
  /\ job[r].pc = "login.judge" /\ user.failed >= 3 => job'[r].pc = "login.lock"
  /\ job[r].pc = "login.lock" => user'.lockout = job[r].until
  /\ job[r].pc \in {"login.lock", "login.clear"} => job'[r].pc # job[r].pc
  /\ job[r].pc \in {"complete.write", "change.write"} => user'.password = job[r].op.password
  /\ job[r].pc = "change.write" => job'[r].pc = "done"
Does(r) == Alone(r) /\ Effect(r) /\ Follows(r) /\ Ends(r)

\* The statements that need nothing of a verification.
Harmless == PCs \ (Verifying \cup {"complete.write", "change.read", "change.write", "login.read"})

LEMMA HarmlessPcs ==
  /\ (Firsts \ {"login.read"}) \subseteq Harmless
  /\ {"login.token", "ask.insert", "guess.count", "guess.mark", "reset.delete", "force.write",
      "toggle.write", "refresh.read", "done", "complete.read", "serve"} \subseteq Harmless
BY DEF Harmless, Firsts, PCs, Verifying

LEMMA GoHarmless ==
  ASSUME Typed, NEW r \in Requests, NEW pc \in Harmless, Goto(r, pc)
  PROVE  Alone(r) /\ job'[r].pc = pc /\ Follows(r)
<1>1. pc \in PCs /\ pc \notin Verifying \cup {"complete.write", "change.read", "change.write", "login.read"}
  BY DEF Harmless
<1>2. Alone(r) /\ job'[r].pc = pc
  BY <1>1, Going
<1>. QED
  BY <1>1, <1>2 DEF Follows, Verifying

LEMMA GoHarmlessly ==
  ASSUME Typed, NEW r \in Requests, NEW pc \in Harmless, Goto(r, pc), user' = user,
         job[r].pc \notin {"login.judge", "login.lock", "login.clear", "complete.write", "change.write"}
  PROVE  Does(r)
BY GoHarmless DEF Does, Effect, Keeps, Ends

LEMMA UserFields ==
  ASSUME NEW u \in Users
  PROVE  /\ [u EXCEPT !.failed = @ + 1].failed = u.failed + 1
         /\ [u EXCEPT !.failed = @ + 1].lockout = u.lockout
         /\ [u EXCEPT !.failed = @ + 1].password = u.password
         /\ \A n : /\ [u EXCEPT !.lockout = n].lockout = n
                   /\ [u EXCEPT !.lockout = n].failed = u.failed
                   /\ [u EXCEPT !.lockout = n].password = u.password
         /\ [u EXCEPT !.failed = 0, !.lockout = 0].failed = 0
         /\ [u EXCEPT !.failed = 0, !.lockout = 0].password = u.password
         /\ \A on : /\ [u EXCEPT !.active = on, !.failed = 0, !.lockout = 0].failed = 0
                    /\ [u EXCEPT !.active = on, !.failed = 0, !.lockout = 0].password = u.password
         /\ \A role : /\ [u EXCEPT !.role = role].failed = u.failed
                      /\ [u EXCEPT !.role = role].lockout = u.lockout
                      /\ [u EXCEPT !.role = role].password = u.password
<1>1. /\ [u EXCEPT !.failed = @ + 1].failed = u.failed + 1
      /\ [u EXCEPT !.failed = @ + 1].lockout = u.lockout
      /\ [u EXCEPT !.failed = @ + 1].password = u.password
  BY DEF Users
<1>2. \A n : /\ [u EXCEPT !.lockout = n].lockout = n
             /\ [u EXCEPT !.lockout = n].failed = u.failed
             /\ [u EXCEPT !.lockout = n].password = u.password
  BY DEF Users
<1>3. /\ [u EXCEPT !.failed = 0, !.lockout = 0].failed = 0
      /\ [u EXCEPT !.failed = 0, !.lockout = 0].password = u.password
  BY DEF Users
<1>4. \A on : /\ [u EXCEPT !.active = on, !.failed = 0, !.lockout = 0].failed = 0
              /\ [u EXCEPT !.active = on, !.failed = 0, !.lockout = 0].password = u.password
  BY DEF Users
<1>5. \A role : /\ [u EXCEPT !.role = role].failed = u.failed
                /\ [u EXCEPT !.role = role].lockout = u.lockout
                /\ [u EXCEPT !.role = role].password = u.password
  BY DEF Users
<1>. QED
  BY <1>1, <1>2, <1>3, <1>4, <1>5

LEMMA Credited ==
  ASSUME Tables, NEW password, NEW temp, UpdateCredentials(password, temp)
  PROVE  user'.failed = 0 /\ user'.password = password
BY DEF Tables, Users, UpdateCredentials

\* The account taken down, then verified against.
LEMMA Noting ==
  ASSUME Typed, NEW r \in Requests, NEW pc \in PCs,
         job' = [job EXCEPT ![r].seen = user, ![r].pc = pc]
  PROVE  Alone(r) /\ job'[r].pc = pc /\ job'[r].seen = user
<1>1. job[r] \in Jobs /\ user \in Users
  BY DEF Typed, Tables
<1>2. /\ [job[r] EXCEPT !.seen = user, !.pc = pc] \in Jobs
      /\ [job[r] EXCEPT !.seen = user, !.pc = pc].op = job[r].op
      /\ [job[r] EXCEPT !.seen = user, !.pc = pc].pc = pc
  BY <1>1, SeenTyped
<1>3. [job[r] EXCEPT !.seen = user, !.pc = pc].seen = user
  BY <1>1 DEF Jobs
<1>4. job'[r] = [job[r] EXCEPT !.seen = user, !.pc = pc]
  BY DEF Typed
<1>. QED
  BY <1>2, <1>3, <1>4 DEF Alone, Typed

LEMMA ReadDoes ==
  ASSUME IInv, NEW r \in Requests, ReadAccount(r)
  PROVE  Does(r)
<1>1. Typed /\ Tables /\ job[r].pc = "login.read" /\ user' = user
  BY DEF IInv, Typed, ReadAccount, db
<1>2. CASE Goto(r, "done")
  BY <1>1, <1>2, GoHarmlessly, HarmlessPcs
<1>3. CASE ~Goto(r, "done")
  <2>. DEFINE pc == IF job[r].op.password = user.password THEN "login.reset" ELSE "login.count"
  <2>1. job' = [job EXCEPT ![r].seen = user, ![r].pc = pc] /\ pc \in PCs
    BY <1>3 DEF ReadAccount, End, PCs
  <2>2. Alone(r) /\ job'[r].pc = pc
    BY <1>1, <2>1, Noting
  <2>. QED
    BY <1>1, <2>2 DEF Does, Effect, Keeps, Follows, Ends
<1>. QED
  BY <1>2, <1>3

LEMMA JudgeDoes ==
  ASSUME IInv, NEW r \in Requests, JudgeFailure(r), KindInv
  PROVE  Does(r)
<1>1. Typed /\ Tables /\ job[r].pc = "login.judge" /\ user' = user /\ job[r] \in Jobs
  BY DEF IInv, Typed, JudgeFailure, db
<1>. DEFINE pause == Ladder(user.failed)
            until == now + pause
<1>2. user.failed \in Nat /\ now \in 0..MaxTime
  BY <1>1 DEF Tables, Users
<1>3. CASE pause = 0
  <2>1. ~(user.failed >= 3)
    BY <1>2, <1>3 DEF Ladder
  <2>2. Goto(r, AfterFailure(r)) /\ AfterFailure(r) \in PCs
    BY <1>3 DEF JudgeFailure, AfterFailure, PCs
  <2>3. Alone(r) /\ job'[r].pc = AfterFailure(r)
    BY <1>1, <2>2, Going
  <2>. QED
    BY <1>1, <2>1, <2>3 DEF Does, Effect, Keeps, Follows, Ends, AfterFailure
<1>4. CASE pause # 0
  <2>1. user.failed >= 3 /\ pause \in 1..4
    BY <1>2, <1>4 DEF Ladder
  <2>2. job' = [job EXCEPT ![r].until = until, ![r].pc = "login.lock"]
    BY <1>4 DEF JudgeFailure
  <2>3. until \in Ticks /\ until >= now + 1
    BY <1>2, <2>1, TimeAssumption DEF Ticks
  <2>. HIDE DEF until
  <2>4. /\ [job[r] EXCEPT !.until = until, !.pc = "login.lock"] \in Jobs
        /\ [job[r] EXCEPT !.until = until, !.pc = "login.lock"].op = job[r].op
        /\ [job[r] EXCEPT !.until = until, !.pc = "login.lock"].pc = "login.lock"
        /\ [job[r] EXCEPT !.until = until, !.pc = "login.lock"].until = until
    BY <1>1, <2>3, UntilTyped
  <2>5. job'[r] = [job[r] EXCEPT !.until = until, !.pc = "login.lock"]
    BY <1>1, <2>2 DEF Typed
  <2>6. Alone(r) /\ job'[r].pc = "login.lock" /\ job'[r].until = until
    BY <1>1, <2>2, <2>4, <2>5 DEF Alone, Typed
  <2>. QED
    BY <1>1, <2>1, <2>3, <2>6 DEF Does, Effect, Keeps, Follows, Ends
<1>. QED
  BY <1>3, <1>4

LEMMA VerifyDoes ==
  ASSUME IInv, NEW r \in Requests, VerifyPassword(r), KindInv
  PROVE  Does(r)
<1>1. Typed /\ Tables /\ user \in Users
  BY DEF IInv, Typed, Tables
<1>2. CASE CountFailure(r)
  <2>1. Alone(r) /\ job'[r].pc = "login.judge" /\ job[r].pc = "login.count"
    BY <1>1, <1>2, Going DEF CountFailure, PCs
  <2>2. user' = [user EXCEPT !.failed = @ + 1]
    BY <1>2 DEF CountFailure
  <2>. QED
    BY <1>1, <2>1, <2>2, UserFields DEF Does, Effect, Counts, Follows, Ends
<1>3. CASE SetLockout(r)
  <2>1. AfterFailure(r) \in PCs /\ Goto(r, AfterFailure(r))
    BY <1>3 DEF AfterFailure, PCs, SetLockout
  <2>2. Alone(r) /\ job'[r].pc = AfterFailure(r) /\ job[r].pc = "login.lock"
    BY <1>1, <1>3, <2>1, Going DEF SetLockout
  <2>3. user' = [user EXCEPT !.lockout = job[r].until]
    BY <1>3 DEF SetLockout
  <2>. QED
    BY <1>1, <2>2, <2>3, UserFields DEF Does, Effect, Locks, Follows, Ends, AfterFailure
<1>4. CASE ResetFailures(r)
  <2>1. Alone(r) /\ job'[r].pc = "login.clear" /\ job[r].pc = "login.reset"
    BY <1>1, <1>4, Going DEF ResetFailures, PCs
  <2>2. user' = [user EXCEPT !.failed = 0, !.lockout = 0]
    BY <1>4 DEF ResetFailures
  <2>. QED
    BY <1>1, <2>1, <2>2, UserFields DEF Does, Effect, Zeroes, Follows, Ends
<1>5. CASE ClearLockout(r)
  <2>1. AfterSuccess(r) \in Harmless /\ Goto(r, AfterSuccess(r)) /\ job[r].pc = "login.clear"
    BY <1>5, HarmlessPcs DEF AfterSuccess, ClearLockout
  <2>2. Alone(r) /\ job'[r].pc = AfterSuccess(r) /\ Follows(r)
    BY <1>1, <2>1, GoHarmless
  <2>3. user' = [user EXCEPT !.lockout = 0]
    BY <1>5 DEF ClearLockout
  <2>. QED
    BY <1>1, <2>1, <2>2, <2>3, UserFields DEF Does, Effect, Locks, Ends, AfterSuccess
<1>. QED
  BY <1>2, <1>3, <1>4, <1>5, JudgeDoes DEF VerifyPassword

LEMMA ForgottenDoes ==
  ASSUME IInv, NEW r \in Requests, Forgotten(r)
  PROVE  Does(r)
<1>1. Typed /\ Tables
  BY DEF IInv, Typed
<1>2. CASE AskReset(r) \/ GuessCode(r) \/ DeleteReset(r)
  <2>1. PICK pc \in {"ask.insert", "done", "guess.find", "guess.count", "guess.mark", "reset.delete"} :
          Goto(r, pc)
    BY <1>2 DEF AskReset, GuessCode, DeleteReset, End
  <2>2. pc \in Harmless
    BY HarmlessPcs DEF Firsts
  <2>3. user' = user /\ job[r].pc \in {"ask.delete", "ask.insert", "guess.find", "guess.count",
                                       "guess.mark", "reset.delete"}
    BY <1>2 DEF AskReset, GuessCode, DeleteReset, db
  <2>. QED
    BY <1>1, <2>1, <2>2, <2>3, GoHarmlessly
<1>3. CASE CompleteReset(r)
  <2>1. CASE job[r].pc = "complete.find"
    <3>1. PICK pc \in {"done", "reset.delete", "complete.read"} : Goto(r, pc)
      BY <1>3, <2>1 DEF CompleteReset
    <3>2. user' = user
      BY <1>3, <2>1 DEF CompleteReset, db
    <3>. QED
      BY <1>1, <2>1, <3>1, <3>2, GoHarmlessly, HarmlessPcs
  <2>2. CASE job[r].pc = "complete.read"
    <3>1. user' = user
      BY <1>3, <2>2 DEF CompleteReset, db
    <3>2. CASE Goto(r, "done")
      BY <1>1, <2>2, <3>1, <3>2, GoHarmlessly, HarmlessPcs
    <3>3. CASE ~Goto(r, "done")
      <4>1. Goto(r, "complete.write") /\ job[r].op.password # user.password
        BY <1>3, <2>2, <3>3 DEF CompleteReset
      <4>2. Alone(r) /\ job'[r].pc = "complete.write"
        BY <1>1, <4>1, Going DEF PCs
      <4>. QED
        BY <2>2, <3>1, <4>1, <4>2 DEF Does, Effect, Keeps, Follows, Ends
    <3>. QED
      BY <3>2, <3>3
  <2>3. CASE job[r].pc = "complete.write"
    <3>1. UpdateCredentials(job[r].op.password, FALSE) /\ Goto(r, "reset.delete")
      BY <1>3, <2>3 DEF CompleteReset
    <3>2. user'.failed = 0 /\ user'.password = job[r].op.password
      BY <1>1, <3>1, Credited
    <3>3. Alone(r) /\ job'[r].pc = "reset.delete" /\ Follows(r)
      BY <1>1, <3>1, GoHarmless, HarmlessPcs
    <3>. QED
      BY <2>3, <3>2, <3>3 DEF Does, Effect, Zeroes, Ends
  <2>. QED
    BY <1>3, <2>1, <2>2, <2>3 DEF CompleteReset
<1>. QED
  BY <1>2, <1>3 DEF Forgotten

LEMMA AdministeredDoes ==
  ASSUME IInv, NEW r \in Requests, Administered(r)
  PROVE  Does(r)
<1>1. Typed /\ Tables /\ user \in Users
  BY DEF IInv, Typed, Tables
<1>2. CASE user' = user
  <2>1. PICK pc \in {"force.write", "done", "toggle.write"} : Goto(r, pc)
    BY DEF Administered, ForceReset, ToggleAccess, UpdateRole, End
  <2>2. job[r].pc \in {"force.read", "force.write", "toggle.read", "toggle.write", "role.write"}
    BY DEF Administered, ForceReset, ToggleAccess, UpdateRole
  <2>. QED
    BY <1>1, <1>2, <2>1, <2>2, GoHarmlessly, HarmlessPcs
<1>3. CASE user' # user
  <2>1. Goto(r, "done") /\ job[r].pc \in {"force.write", "toggle.write", "role.write"}
    BY <1>3 DEF Administered, ForceReset, ToggleAccess, UpdateRole, End, db
  <2>2. Alone(r) /\ job'[r].pc = "done" /\ Follows(r)
    BY <1>1, <2>1, GoHarmless, HarmlessPcs
  <2>3. CASE UpdateCredentials(Temporary, TRUE) /\ job[r].pc = "force.write"
    <3>1. user'.failed = 0
      BY <1>1, <2>3, Credited
    <3>. QED
      BY <2>2, <2>3, <3>1 DEF Does, Effect, Zeroes, Ends
  <2>4. CASE user' = [user EXCEPT !.active = job[r].op.on, !.failed = 0, !.lockout = 0]
    BY <1>1, <2>1, <2>2, <2>4, UserFields DEF Does, Effect, Zeroes, Ends
  <2>5. CASE user' = [user EXCEPT !.role = job[r].op.role]
    BY <1>1, <2>1, <2>2, <2>5, UserFields DEF Does, Effect, Keeps, Ends
  <2>. QED
    BY <1>3, <2>3, <2>4, <2>5 DEF Administered, ForceReset, ToggleAccess, UpdateRole, db
<1>. QED
  BY <1>2, <1>3

LEMMA SessionDoes ==
  ASSUME IInv, NEW r \in Requests, Session(r) \/ Login(r)
  PROVE  Does(r)
<1>1. Typed /\ Tables
  BY DEF IInv, Typed
<1>2. CASE GetCached(r)
  <2>1. PICK pc \in {"serve", "session.read"}, v \in Verdicts :
          job' = [job EXCEPT ![r].pc = pc, ![r].verdict = v]
    <3>1. PICK t \in tokens :
            job' = IF Cached(t)
                   THEN [job EXCEPT ![r].pc = "serve", ![r].verdict =
                           [token |-> t, scope |-> cache.scope, role |-> cache.role]]
                   ELSE [job EXCEPT ![r].pc = "session.read", ![r].verdict =
                           [token |-> t, scope |-> t.scope, role |-> "none"]]
      BY <1>2 DEF GetCached
    <3>2. t \in Tokens
      BY <1>1, <3>1 DEF Tables
    <3>3. CASE Cached(t)
      <4>1. cache \in Entries
        BY <1>1, <3>3 DEF Cached, Tables
      <4>2. [token |-> t, scope |-> cache.scope, role |-> cache.role] \in Verdicts
        BY <3>2, <4>1 DEF Entries, Verdicts
      <4>. QED
        BY <3>1, <3>3, <4>2
    <3>4. CASE ~Cached(t)
      <4>1. [token |-> t, scope |-> t.scope, role |-> "none"] \in Verdicts
        BY <3>2, TokenTyped DEF Verdicts
      <4>. QED
        BY <3>1, <3>4, <4>1
    <3>. QED
      BY <3>3, <3>4
  <2>2. Alone(r) /\ job'[r].pc = pc /\ user' = user /\ job[r].pc = "session.cache"
    BY <1>1, <1>2, <2>1, Judging DEF GetCached, db
  <2>. QED
    BY <2>2 DEF Does, Effect, Keeps, Follows, Ends
<1>3. CASE ReadVerdict(r)
  <2>1. Alone(r) /\ job[r].pc = "session.read" /\ user' = user
    BY <1>3, ReadVerdictServed DEF Served, ReadVerdict, db
  <2>2. job'[r].pc \in {"done", "session.store"}
    <3>1. CASE End(r)
      BY <1>1, <3>1, Going DEF End, PCs
    <3>2. CASE ~End(r)
      <4>1. job' = [job EXCEPT ![r].pc = "session.store", ![r].verdict.role = user.role]
        BY <1>3, <3>2 DEF ReadVerdict
      <4>2. job[r] \in Jobs
        BY <1>1 DEF Typed
      <4>. QED
        BY <1>1, <4>1, <4>2 DEF Typed, Jobs
    <3>. QED
      BY <3>1, <3>2
  <2>. QED
    BY <2>1, <2>2 DEF Does, Effect, Keeps, Follows, Ends
<1>4. CASE StoreVerdict(r) \/ Login(r) \/ RefreshSession(r)
  <2>1. PICK pc \in {"done", "serve"} : Goto(r, pc)
    BY <1>4 DEF StoreVerdict, Login, RefreshSession, IssueToken, End
  <2>2. user' = user /\ job[r].pc \in {"session.store", "login.token", "refresh.read"}
    BY <1>4 DEF StoreVerdict, Login, RefreshSession, IssueToken, db
  <2>. QED
    BY <1>1, <2>1, <2>2, GoHarmlessly, HarmlessPcs
<1>5. CASE Serve(r)
  <2>1. user' = user /\ job[r].pc = "serve"
    BY <1>5 DEF Serve, db
  <2>2. CASE Goto(r, "refresh.read") \/ Goto(r, "done")
    BY <1>1, <2>1, <2>2, GoHarmlessly, HarmlessPcs
  <2>3. CASE Goto(r, "change.read") /\ job[r].op.kind = "change"
    <3>1. Alone(r) /\ job'[r].pc = "change.read"
      BY <1>1, <2>3, Going DEF PCs
    <3>. QED
      BY <2>1, <2>3, <3>1 DEF Does, Effect, Keeps, Follows, Ends
  <2>. QED
    BY <1>5, <2>2, <2>3 DEF Serve
<1>6. CASE ChangeCredentials(r) /\ job[r].pc = "change.read"
  <2>1. user' = user
    BY <1>6 DEF ChangeCredentials, db
  <2>2. CASE Goto(r, "done")
    BY <1>1, <1>6, <2>1, <2>2, GoHarmlessly, HarmlessPcs
  <2>3. CASE ~Goto(r, "done")
    <3>. DEFINE pc == IF Locked(user) THEN "change.write"
                      ELSE IF job[r].op.password = user.password THEN "login.reset" ELSE "login.count"
    <3>1. job' = [job EXCEPT ![r].seen = user, ![r].pc = pc] /\ pc \in PCs
      BY <1>6, <2>3 DEF ChangeCredentials, End, PCs
    <3>2. Alone(r) /\ job'[r].pc = pc /\ job'[r].seen = user
      BY <1>1, <3>1, Noting
    <3>3. Locked(user) => user.lockout > 0
      BY <1>1, TimeAssumption DEF Locked, Tables, Users, Ticks
    <3>. QED
      BY <1>6, <2>1, <3>2, <3>3 DEF Does, Effect, Keeps, Follows, Ends
  <2>. QED
    BY <2>2, <2>3
<1>7. CASE ChangeCredentials(r) /\ job[r].pc = "change.write"
  <2>1. UpdateCredentials(job[r].op.password, FALSE) /\ Goto(r, "done")
    BY <1>7 DEF ChangeCredentials, End
  <2>2. user'.failed = 0 /\ user'.password = job[r].op.password
    BY <1>1, <2>1, Credited
  <2>3. Alone(r) /\ job'[r].pc = "done" /\ Follows(r)
    BY <1>1, <2>1, GoHarmless, HarmlessPcs
  <2>. QED
    BY <1>7, <2>2, <2>3 DEF Does, Effect, Zeroes, Ends
<1>. QED
  BY <1>2, <1>3, <1>4, <1>5, <1>6, <1>7 DEF Session, ChangeCredentials

LEMMA StepDoes ==
  ASSUME IInv, KindInv, NEW r \in Requests, Step(r)
  PROVE  Does(r)
BY ReadDoes, VerifyDoes, ForgottenDoes, AdministeredDoes, SessionDoes DEF Step

\* What the properties of verifications and of attempts need of the history.
Compares ==
  /\ moved' = {x \in (IF user'.password # user.password THEN Requests ELSE moved) : job'[x].pc \in Compared}
  /\ skipped' = skipped \cup {x \in Stepped :
       \/ job[x].pc = "change.read" /\ Locked(user)
       \/ job[x].pc \in {"login.reset", "login.clear"} /\ job'[x].pc = "change.write"}
Marks(r) ==
  /\ Compares
  /\ (Step(r) /\ failed' = failed) \/ (Fails(r) /\ failed' = failed \cup {r})
  /\ met' = met \cup {{x, y} : x \in Stepped, y \in {p \in Requests \ Stepped : InService(p)}}
  /\ tried' = IF user'.failed = 3 /\ user.failed = 2 THEN now ELSE tried
  /\ under' = IF Cleared THEN {x \in Requests : InService(x)'}
              ELSE under \cap {x \in Requests : InService(x)'}
  /\ wiped' = IF Cleared THEN FALSE
              ELSE wiped \/ \E x \in Stepped \cap under : job[x].pc \in {"login.lock", "login.clear"}
Restarts ==
  /\ ServerRestarts /\ failed' = failed \cup {r \in Requests : InService(r)}
  /\ met' = met \cup {{x, y} : x \in Stepped, y \in {p \in Requests \ Stepped : InService(p)}}
  /\ tried' = IF user'.failed = 3 /\ user.failed = 2 THEN now ELSE tried
  /\ wiped' = IF Cleared THEN FALSE
              ELSE wiped \/ \E x \in Stepped \cap under : job[x].pc \in {"login.lock", "login.clear"}
Passes ==
  /\ Compares
  /\ Tick \/ \E p \in Ids : Expire(p)
  /\ failed' = failed
  /\ met' = met \cup {{x, y} : x \in Stepped, y \in {p \in Requests \ Stepped : InService(p)}}
  /\ tried' = IF user'.failed = 3 /\ user.failed = 2 THEN now ELSE tried
  /\ under' = IF Cleared THEN {x \in Requests : InService(x)'}
              ELSE under \cap {x \in Requests : InService(x)'}
  /\ wiped' = IF Cleared THEN FALSE
              ELSE wiped \/ \E x \in Stepped \cap under : job[x].pc \in {"login.lock", "login.clear"}

LEMMA Histories == HNext => (\E r \in Requests : Marks(r)) \/ Restarts \/ Passes
<1>. SUFFICES ASSUME HNext PROVE (\E r \in Requests : Marks(r)) \/ Restarts \/ Passes
  OBVIOUS
<1>1. CASE \E r \in Requests : (Step(r) /\ failed' = failed) \/ (Fails(r) /\ failed' = failed \cup {r})
  BY <1>1 DEF HNext, Marks, Compares
<1>2. CASE ServerRestarts /\ failed' = failed \cup {r \in Requests : InService(r)}
  BY <1>2 DEF HNext, Restarts
<1>3. CASE (Tick \/ \E p \in Ids : Expire(p)) /\ failed' = failed
  BY <1>3 DEF HNext, Passes, Compares
<1>. QED
  BY <1>1, <1>2, <1>3 DEF HNext

\* A restart ends every request, the rest of the environment none.
LEMMA Restarted ==
  ASSUME IInv, ServerRestarts
  PROVE  /\ \A r \in Requests : job'[r].pc = "done" /\ job'[r].op = job[r].op
         /\ \A r \in Requests : ~InService(r)'
         /\ user' = user /\ reset' = reset /\ now' = now
<1>1. \A r \in Requests : job'[r].pc = "done" /\ job'[r].op = job[r].op
  BY DEF ServerRestarts, At
<1>. QED
  BY <1>1 DEF InService, ServerRestarts, db

LEMMA Passing ==
  ASSUME Tick \/ \E p \in Ids : Expire(p)
  PROVE  job' = job /\ user' = user /\ Stepped = {}
BY DEF Tick, Expire, Stepped, db

\* A failing request ends, or goes on with the change of credentials.
LEMMA FailGoes ==
  ASSUME IInv, NEW r \in Requests, Fails(r)
  PROVE  /\ Alone(r) /\ UNCHANGED <<db, now>> /\ job[r].pc # "done"
         /\ \/ job'[r].pc = "done"
            \/ job'[r].pc = "change.write" /\ job[r].op.kind = "change"
<1>1. PICK pc \in {"done", "change.write"} :
        Goto(r, pc) /\ (pc = "change.write" => job[r].op.kind = "change")
  BY DEF Fails, End
<1>2. Alone(r) /\ job'[r].pc = pc
  BY <1>1, Going DEF IInv, PCs
<1>. QED
  BY <1>1, <1>2 DEF Fails

LEMMA InitKindInv == HInit => KindInv
<1>. SUFFICES ASSUME HInit, NEW r \in Requests
              PROVE  /\ job[r].pc = "login.read" => job[r].op.kind = "login"
                     /\ job[r].pc \in {"change.read", "change.write"} => job[r].op.kind = "change"
                     /\ job[r].pc \in Verifying => Verifies(r)
  BY DEF KindInv
<1>1. PICK s \in Scenarios : job \in [Requests -> {At(op, First(op)) : op \in s.operations}]
  BY DEF HInit, Init
<1>2. PICK op \in Operations : job[r] = At(op, First(op))
  BY <1>1, ScenariosAssumption
<1>3. job[r].op = op /\ job[r].pc = First(op)
  BY <1>2 DEF At
<1>. QED
  BY <1>3 DEF First, Verifying

LEMMA NextKindInv == IInv /\ KindInv /\ [HNext]_hvars => KindInv'
<1>1. ASSUME IInv, KindInv, NEW r \in Requests, Step(r) \/ Fails(r)
      PROVE  KindInv'
  <2>1. Alone(r)
    BY <1>1, StepDoes, FailGoes DEF Does
  <2>2. /\ job'[r].pc = "login.read" => job'[r].op.kind = "login"
        /\ job'[r].pc \in {"change.read", "change.write"} => job'[r].op.kind = "change"
        /\ job'[r].pc \in Verifying => Verifies(r)'
    <3>1. job'[r].op = job[r].op
      BY <2>1 DEF Alone
    <3>2. CASE Fails(r)
      BY <1>1, <3>1, <3>2, FailGoes DEF Verifying
    <3>3. CASE Step(r)
      <4>1. Follows(r)
        BY <1>1, <3>3, StepDoes DEF Does
      <4>. QED
        BY <1>1, <3>1, <4>1 DEF Follows, KindInv, Verifying, Verifies
    <3>. QED
      BY <1>1, <3>2, <3>3
  <2>3. \A q \in Requests \ {r} : job'[q] = job[q]
    BY <2>1 DEF Alone
  <2>. QED
    BY <1>1, <2>2, <2>3 DEF KindInv, Verifies
<1>2. ASSUME IInv, ServerRestarts
      PROVE  KindInv'
  BY <1>2, Restarted DEF KindInv, Verifying
<1>3. ASSUME KindInv, job' = job
      PROVE  KindInv'
  BY <1>3 DEF KindInv, Verifies
<1>. QED
  BY <1>1, <1>2, <1>3, Steps, Passing DEF hvars, vars

THEOREM KindInvariant == HSpec => []KindInv
BY InitKindInv, NextKindInv, IInvariant, PTL DEF HSpec
-----------------------------------------------------------------------------
\* Three failures.  Who writes a lockout after the counter was cleared either was
\* served at that time, and has wiped the lockout, or has judged since, and locks
\* for a time after the third failure; as long as the account is not locked past
\* it, someone is about to judge or to lock, or has failed to.
Judges(r) == Verifies(r) /\ (r \in failed \/ job[r].pc \in {"login.judge", "login.lock"})
LockInv ==
  /\ tried \in Int /\ tried <= now
  /\ \A r \in Requests : job[r].pc = "login.clear" => r \in under
  /\ \A r \in Requests : job[r].pc = "login.lock" /\ r \notin under =>
       user.failed >= 3 /\ job[r].until >= tried + 1
  /\ user.failed >= 3 /\ ~wiped => user.lockout >= tried + 1 \/ \E r \in Requests : Judges(r)

LEMMA VerifyingServed ==
  \A r : job[r].pc \in Verifying => InService(r)
BY DEF Verifying, InService, First

LEMMA InitLockInv == HInit => LockInv
<1>. SUFFICES ASSUME HInit PROVE LockInv
  OBVIOUS
<1>1. IInv
  BY InitIInv
<1>2. \A r \in Requests : job[r].pc \in Firsts
  <2>. SUFFICES ASSUME NEW r \in Requests PROVE job[r].pc \in Firsts
    OBVIOUS
  <2>1. PICK s \in Scenarios : job \in [Requests -> {At(op, First(op)) : op \in s.operations}]
    BY DEF HInit, Init
  <2>2. PICK op \in Operations : job[r] = At(op, First(op))
    BY <2>1, ScenariosAssumption
  <2>. QED
    BY <2>2, FirstPc DEF At
<1>3. tried = -1 /\ now = 0
  BY DEF HInit, Init
<1>4. user.lockout \in Nat
  BY <1>1, TimeAssumption DEF IInv, Typed, Tables, Users, Ticks
<1>. QED
  BY <1>2, <1>3, <1>4 DEF LockInv, Firsts

LEMMA LockStep ==
  ASSUME IInv, KindInv, LockInv, NEW r \in Requests, Step(r), Marks(r)
  PROVE  LockInv'
<1>1. Alone(r) /\ Effect(r) /\ Follows(r) /\ Ends(r)
  BY StepDoes DEF Does
<1>2. /\ now' = now /\ now \in Int /\ user.failed \in Nat /\ user.lockout \in Int
      /\ user'.failed \in Nat /\ user'.lockout \in Int
  BY StepServed, TimeAssumption DEF Served, IInv, Typed, Tables, Users, Ticks
<1>3. \A q \in Requests : q # r => job'[q] = job[q] /\ (Verifies(q) <=> Verifies(q)')
  BY <1>1 DEF Alone, Verifies
<1>4. \A q \in Requests : q \in Stepped => q = r
  BY <1>3 DEF Stepped
<1>5. Verifies(r) <=> Verifies(r)'
  BY <1>1 DEF Alone, Verifies
<1>6. tried' \in Int /\ tried' <= now'
  BY <1>2 DEF Marks, LockInv
<1>7. \A q \in Requests : job'[q].pc \in Verifying => InService(q)'
  BY DEF Verifying, InService, First
<1>8. CASE Cleared
  <2>1. under' = {x \in Requests : InService(x)'} /\ user'.failed = 0
    BY <1>8 DEF Marks, Cleared
  <2>2. \A q \in Requests : job'[q].pc \in {"login.clear", "login.lock"} => q \in under'
    BY <1>7, <2>1 DEF Verifying
  <2>. QED
    BY <1>6, <2>1, <2>2 DEF LockInv
<1>9. CASE ~Cleared
  <2>1. /\ under' = under \cap {x \in Requests : InService(x)'}
        /\ wiped' = (wiped \/ \E x \in Stepped \cap under : job[x].pc \in {"login.lock", "login.clear"})
    BY <1>9 DEF Marks
  <2>2. user'.failed = 0 => user' = user
    BY <1>9 DEF Cleared
  <2>3. job'[r].pc # "login.clear"
    <3>1. job'[r].pc = "login.clear" => job[r].pc = "login.reset" /\ user'.failed = 0 /\ r \in Stepped
      BY <1>1 DEF Follows, Stepped
    <3>. QED
      BY <1>9, <3>1 DEF Cleared
  <2>4. user.failed >= 3 => user'.failed >= 3 /\ tried' = tried
    <3>1. CASE Keeps \/ Locks(r)
      BY <1>2, <3>1 DEF Keeps, Locks, Marks
    <3>2. CASE Counts(r)
      BY <1>2, <3>2 DEF Counts, Marks
    <3>3. CASE Zeroes(r)
      BY <1>2, <2>2, <3>3 DEF Zeroes, Marks
    <3>. QED
      BY <1>1, <3>1, <3>2, <3>3 DEF Effect
  <2>5. ASSUME NEW q \in Requests, job'[q].pc = "login.clear"
        PROVE  q \in under'
    <3>1. q # r /\ job[q].pc = "login.clear" /\ InService(q)'
      BY <1>3, <1>7, <2>3, <2>5 DEF Verifying
    <3>. QED
      BY <2>1, <3>1 DEF LockInv
  <2>6. ASSUME NEW q \in Requests, job'[q].pc = "login.lock", q \notin under'
        PROVE  user'.failed >= 3 /\ job'[q].until >= tried' + 1
    <3>1. InService(q)' /\ q \notin under
      BY <1>7, <2>1, <2>6 DEF Verifying
    <3>2. CASE q = r
      <4>1. user.failed >= 3 /\ job'[r].until >= now + 1
        BY <1>1, <2>6, <3>2 DEF Follows
      <4>2. job'[r].until \in Int
        BY <1>1, TimeAssumption DEF Alone, Jobs, Ticks
      <4>. QED
        BY <1>2, <2>4, <3>2, <4>1, <4>2 DEF LockInv
    <3>3. CASE q # r
      BY <1>3, <2>4, <2>6, <3>1, <3>3 DEF LockInv
    <3>. QED
      BY <3>2, <3>3
  <2>7. ASSUME user'.failed >= 3, ~wiped'
        PROVE  user'.lockout >= tried' + 1 \/ \E q \in Requests : Judges(q)'
    <3>1. ~wiped /\ ~(r \in Stepped /\ r \in under /\ job[r].pc \in {"login.lock", "login.clear"})
      BY <2>1, <2>7
    <3>2. CASE ~(user.failed >= 3)
      <4>1. Counts(r)
        <5>1. ~Zeroes(r)
          BY <2>7, <1>2 DEF Zeroes
        <5>2. ~Keeps /\ ~Locks(r)
          BY <2>7, <3>2 DEF Keeps, Locks
        <5>. QED
          BY <1>1, <5>1, <5>2 DEF Effect
      <4>2. Verifies(r) /\ job'[r].pc = "login.judge"
        BY <4>1 DEF Counts, KindInv, Verifying
      <4>. QED
        BY <1>5, <4>2 DEF Judges
    <3>3. CASE user.failed >= 3 /\ user.lockout >= tried + 1
      <4>1. CASE user'.lockout = user.lockout
        BY <2>4, <3>3, <4>1
      <4>2. CASE user'.lockout # user.lockout
        <5>1. Locks(r)
          <6>1. ~Zeroes(r)
            BY <1>2, <2>7 DEF Zeroes
          <6>. QED
            BY <1>1, <4>2, <6>1 DEF Effect, Keeps, Counts
        <5>2. r \in Stepped
          BY <1>1, <5>1 DEF Locks, Ends, Stepped
        <5>3. r \notin under
          BY <3>1, <5>1, <5>2 DEF Locks
        <5>4. job[r].pc = "login.lock" /\ job[r].until >= tried + 1
          BY <5>1, <5>3 DEF Locks, LockInv
        <5>. QED
          BY <1>1, <2>4, <3>3, <5>4 DEF Ends
      <4>. QED
        BY <4>1, <4>2
    <3>4. CASE user.failed >= 3 /\ \E q \in Requests : Judges(q)
      <4>1. PICK q \in Requests : Judges(q)
        BY <3>4
      <4>2. failed \subseteq failed'
        BY DEF Marks
      <4>3. CASE q # r \/ q \in failed
        BY <1>3, <1>5, <4>1, <4>2, <4>3 DEF Judges
      <4>4. CASE q = r /\ job[r].pc = "login.judge"
        BY <1>1, <1>5, <3>4, <4>1, <4>4 DEF Judges, Ends
      <4>5. CASE q = r /\ job[r].pc = "login.lock"
        <5>1. r \in Stepped
          BY <1>1, <4>5 DEF Ends, Stepped
        <5>2. job[r].until >= tried + 1
          BY <3>1, <4>5, <5>1 DEF LockInv
        <5>. QED
          BY <1>1, <2>4, <3>4, <4>5, <5>2 DEF Ends
      <4>. QED
        BY <4>1, <4>3, <4>4, <4>5 DEF Judges
    <3>. QED
      BY <3>1, <3>2, <3>3, <3>4 DEF LockInv
  <2>. QED
    BY <1>6, <2>5, <2>6, <2>7 DEF LockInv
<1>. QED
  BY <1>8, <1>9

\* The account is left alone and some requests end, of which those that were
\* served have failed.
LEMMA LockStops ==
  ASSUME IInv, KindInv, LockInv, user' = user, now' \in Int, now <= now',
         tried' = IF user'.failed = 3 /\ user.failed = 2 THEN now ELSE tried,
         failed \subseteq failed', ~wiped' => ~wiped \/ user.failed = 0,
         \A q \in Requests :
           /\ job'[q].op = job[q].op
           /\ job'[q] = job[q] \/ (job'[q].pc \notin Verifying /\ (InService(q) => q \in failed'))
           /\ q \in under => q \in under' \/ ~InService(q)'
           /\ q \in under' => q \in under \/ user.failed = 0
  PROVE  LockInv'
<1>1. now \in Int /\ user.failed \in Nat
  BY TimeAssumption DEF IInv, Typed, Tables, Users
<1>2. tried' = tried
  BY <1>1
<1>3. \A q \in Requests : Verifies(q) <=> Verifies(q)'
  BY DEF Verifies
<1>4. \A q \in Requests : job'[q].pc \in Verifying => InService(q)'
  BY DEF Verifying, InService, First
<1>5. ASSUME NEW q \in Requests, job'[q].pc = "login.clear"
      PROVE  q \in under'
  <2>1. job'[q].pc \in Verifying
    BY <1>5 DEF Verifying
  <2>. QED
    BY <1>4, <1>5, <2>1 DEF LockInv
<1>6. ASSUME NEW q \in Requests, job'[q].pc = "login.lock", q \notin under'
      PROVE  user'.failed >= 3 /\ job'[q].until >= tried' + 1
  <2>1. job'[q].pc \in Verifying
    BY <1>6 DEF Verifying
  <2>. QED
    BY <1>2, <1>4, <1>6, <2>1 DEF LockInv
<1>7. ASSUME user'.failed >= 3, ~wiped'
      PROVE  user'.lockout >= tried' + 1 \/ \E q \in Requests : Judges(q)'
  <2>1. user.lockout >= tried + 1 \/ \E q \in Requests : Judges(q)
    BY <1>7 DEF LockInv
  <2>2. ASSUME NEW q \in Requests, Judges(q)
        PROVE  Judges(q)'
    <3>1. job[q].pc \in {"login.judge", "login.lock"} => InService(q)
      BY VerifyingServed DEF Verifying
    <3>. QED
      BY <1>3, <2>2, <3>1 DEF Judges
  <2>. QED
    BY <1>2, <2>1, <2>2
<1>. QED
  BY <1>1, <1>2, <1>5, <1>6, <1>7 DEF LockInv

LEMMA NextLockInv == IInv /\ KindInv /\ LockInv /\ [HNext]_hvars => LockInv'
<1>1. ASSUME IInv, KindInv, LockInv, NEW r \in Requests, Marks(r)
      PROVE  LockInv'
  <2>1. CASE Step(r)
    BY <1>1, <2>1, LockStep
  <2>2. CASE Fails(r) /\ failed' = failed \cup {r}
    <3>1. /\ Alone(r) /\ user' = user /\ now' = now /\ now \in Int
          /\ job'[r].pc \in {"done", "change.write"}
      BY <1>1, <2>2, FailGoes, TimeAssumption DEF IInv, Typed, Tables, db
    <3>2. \A q \in Requests :
            /\ job'[q].op = job[q].op
            /\ job'[q] = job[q] \/ (job'[q].pc \notin Verifying /\ (InService(q) => q \in failed'))
      BY <2>2, <3>1 DEF Alone, Verifying
    <3>3. CASE Cleared
      <4>1. user.failed = 0
        BY <3>1, <3>3 DEF Cleared
      <4>2. \A q \in Requests : q \in under => q \in under' \/ ~InService(q)'
        BY <1>1, <3>3 DEF Marks
      <4>. QED
        BY <1>1, <2>2, <3>1, <3>2, <4>1, <4>2, LockStops DEF Marks
    <3>4. CASE ~Cleared
      <4>1. \A q \in Requests : /\ q \in under => q \in under' \/ ~InService(q)'
                                /\ q \in under' => q \in under
        BY <1>1, <3>4 DEF Marks
      <4>2. ~wiped' => ~wiped
        BY <1>1, <3>4 DEF Marks
      <4>. QED
        BY <1>1, <2>2, <3>1, <3>2, <4>1, <4>2, LockStops DEF Marks
    <3>. QED
      BY <3>3, <3>4
  <2>. QED
    BY <1>1, <2>1, <2>2 DEF Marks
<1>2. ASSUME IInv, LockInv, Restarts
      PROVE  LockInv'
  <2>1. /\ \A q \in Requests : job'[q].pc = "done" /\ job'[q].op = job[q].op
        /\ user' = user /\ now' = now /\ now \in Int
    BY <1>2, Restarted, TimeAssumption DEF Restarts, IInv, Typed, Tables
  <2>2. tried' = tried
    BY <1>2, <2>1 DEF Restarts
  <2>3. ASSUME user'.failed >= 3, ~wiped'
        PROVE  user'.lockout >= tried' + 1 \/ \E q \in Requests : Judges(q)'
    <3>1. user.failed # 0
      BY <2>1, <2>3
    <3>2. ~Cleared
      BY <2>1, <3>1 DEF Cleared
    <3>3. ~wiped
      BY <1>2, <2>3, <3>2 DEF Restarts
    <3>4. user.lockout >= tried + 1 \/ \E q \in Requests : Judges(q)
      BY <1>2, <2>1, <2>3, <3>3 DEF LockInv
    <3>5. ASSUME NEW q \in Requests, Judges(q)
          PROVE  Judges(q)'
      <4>1. q \in failed'
        BY <1>2, <3>5, VerifyingServed DEF Judges, Restarts, Verifying
      <4>. QED
        BY <2>1, <3>5, <4>1 DEF Judges, Verifies
    <3>. QED
      BY <2>1, <2>2, <3>4, <3>5
  <2>. QED
    BY <1>2, <2>1, <2>2, <2>3 DEF LockInv
<1>3. ASSUME IInv, KindInv, LockInv, Passes
      PROVE  LockInv'
  <2>1. job' = job /\ user' = user /\ failed' = failed /\ Stepped = {}
    BY <1>3, Passing DEF Passes
  <2>2. now' \in Int /\ now <= now'
    <3>1. now \in Int
      BY <1>3, TimeAssumption DEF IInv, Typed, Tables
    <3>. QED
      BY <1>3, <3>1 DEF Passes, Tick, Expire
  <2>3. ~Cleared
    BY <2>1 DEF Cleared
  <2>4. ~wiped' => ~wiped
    BY <1>3, <2>3 DEF Passes
  <2>5. under' = under \cap {x \in Requests : InService(x)'}
    BY <1>3, <2>3 DEF Passes
  <2>6. \A q \in Requests : /\ q \in under => q \in under' \/ ~InService(q)'
                            /\ q \in under' => q \in under
    BY <2>5
  <2>. QED
    BY <1>3, <2>1, <2>2, <2>4, <2>6, LockStops DEF Passes
<1>4. ASSUME LockInv, UNCHANGED hvars
      PROVE  LockInv'
  BY <1>4 DEF hvars, vars, db, LockInv, Judges, Verifies
<1>. QED
  BY <1>1, <1>2, <1>3, <1>4, Histories

THEOREM LockInvariant == HSpec => []LockInv
BY InitLockInv, NextLockInv, IInvariant, KindInvariant, PTL DEF HSpec

\* With every verification ended, none of them failing, three failures have
\* locked the account for 15 seconds after the third, unless a request from before
\* the counter was cleared has written the lockout since.
THEOREM LockoutCorrect == HSpec => []ThreeFailuresLock
<1>1. LockInv => ThreeFailuresLock
  BY VerifyingServed DEF LockInv, ThreeFailuresLock, Judges, Verifying
<1>. QED
  BY <1>1, LockInvariant, PTL
-----------------------------------------------------------------------------
\* Another password.  What was found to be another one is one still when it is
\* written, unless another was written in between, or nothing was compared.
Founds == {"complete.write", "login.count", "login.judge", "login.lock"}
PasswordInv ==
  \A r \in Requests : r \notin moved =>
    /\ job[r].pc \in Founds => job[r].op.password # user.password
    /\ job[r].pc = "change.write" => job[r].op.password # user.password \/ r \in skipped

LEMMA InitPasswordInv == HInit => PasswordInv
<1>. SUFFICES ASSUME HInit, NEW r \in Requests
              PROVE  job[r].pc \notin Founds \cup {"change.write"}
  BY DEF PasswordInv
<1>1. PICK s \in Scenarios : job \in [Requests -> {At(op, First(op)) : op \in s.operations}]
  BY DEF HInit, Init
<1>2. PICK op \in Operations : job[r] = At(op, First(op))
  BY <1>1, ScenariosAssumption
<1>. QED
  BY <1>2, FirstPc DEF At, Firsts, Founds

\* Who is not disturbed was not before, and nobody else wrote the password.
LEMMA Undisturbed ==
  ASSUME NEW q \in Requests, q \notin moved', Compares,
         job'[q].pc \in Founds \cup {"change.write"}
  PROVE  q \notin moved /\ user'.password = user.password
BY DEF Compares, Founds, Compared, Verifying

\* Of those that stay where they are nothing changes.
LEMMA PasswordStays ==
  ASSUME PasswordInv, Compares, NEW q \in Requests, q \notin moved', job'[q] = job[q]
  PROVE  /\ job'[q].pc \in Founds => job'[q].op.password # user'.password
         /\ job'[q].pc = "change.write" => job'[q].op.password # user'.password \/ q \in skipped'
<1>1. job'[q].pc \in Founds \cup {"change.write"} => q \notin moved /\ user'.password = user.password
  BY Undisturbed
<1>2. skipped \subseteq skipped'
  BY DEF Compares
<1>. QED
  BY <1>1, <1>2 DEF PasswordInv

LEMMA PasswordStep ==
  ASSUME IInv, KindInv, PasswordInv, NEW r \in Requests, Step(r), Marks(r)
  PROVE  PasswordInv'
<1>1. Alone(r) /\ Follows(r) /\ Compares
  BY StepDoes DEF Does, Marks
<1>. SUFFICES ASSUME NEW q \in Requests, q \notin moved'
              PROVE  /\ job'[q].pc \in Founds => job'[q].op.password # user'.password
                     /\ job'[q].pc = "change.write" =>
                          job'[q].op.password # user'.password \/ q \in skipped'
  BY DEF PasswordInv
<1>2. CASE job'[q] = job[q]
  BY <1>1, <1>2, PasswordStays
<1>3. CASE q = r /\ job'[r] # job[r]
  <2>1. job'[r].op = job[r].op
    BY <1>1 DEF Alone
  <2>2. job'[r].pc \in Founds \cup {"change.write"} => r \notin moved /\ user'.password = user.password
    BY <1>1, <1>3, Undisturbed
  <2>3. CASE job'[r].pc \in {"complete.write", "login.count"}
    BY <1>1, <1>3, <2>1, <2>2, <2>3 DEF Follows, Founds
  <2>4. CASE job'[r].pc \in {"login.judge", "login.lock"}
    <3>1. job[r].pc \in {"login.count", "login.judge"}
      BY <1>1, <2>4 DEF Follows
    <3>. QED
      BY <1>3, <2>1, <2>2, <2>4, <3>1 DEF PasswordInv, Founds
  <2>5. CASE job'[r].pc = "change.write"
    <3>1. CASE job[r].pc \in {"login.judge", "login.lock"}
      BY <1>3, <2>1, <2>2, <2>5, <3>1 DEF PasswordInv, Founds
    <3>2. CASE job[r].pc = "change.read" /\ Locked(user)
      <4>1. r \in skipped'
        BY <1>1, <1>3, <3>2 DEF Compares, Stepped
      <4>. QED
        BY <1>3, <2>5, <4>1 DEF Founds
    <3>. QED
      BY <1>1, <2>5, <3>1, <3>2 DEF Follows
  <2>. QED
    BY <1>3, <2>3, <2>4, <2>5 DEF Founds
<1>. QED
  BY <1>1, <1>2, <1>3 DEF Alone

\* A failure after the same password was found goes on uncompared.
LEMMA PasswordFails ==
  ASSUME IInv, KindInv, PasswordInv, NEW r \in Requests, Fails(r), Marks(r)
  PROVE  PasswordInv'
<1>1. /\ Alone(r) /\ Compares /\ user' = user
      /\ \/ job'[r].pc = "done"
         \/ job'[r].pc = "change.write" /\ job[r].pc \in Verifying
  <2>1. PICK pc \in {"done", "change.write"} : Goto(r, pc) /\ (pc = "change.write" => job[r].pc \in Verifying)
    BY DEF Fails, End
  <2>2. job'[r].pc = pc
    BY <2>1, Going DEF IInv, PCs
  <2>. QED
    BY <2>1, <2>2, FailGoes DEF Marks, db
<1>. SUFFICES ASSUME NEW q \in Requests, q \notin moved'
              PROVE  /\ job'[q].pc \in Founds => job'[q].op.password # user'.password
                     /\ job'[q].pc = "change.write" =>
                          job'[q].op.password # user'.password \/ q \in skipped'
  BY DEF PasswordInv
<1>2. CASE job'[q] = job[q]
  BY <1>1, <1>2, PasswordStays
<1>3. CASE q = r /\ job'[r].pc = "done"
  BY <1>3 DEF Founds
<1>4. CASE q = r /\ job'[r].pc = "change.write" /\ job[r].pc \in Verifying
  <2>1. r \notin moved /\ user'.password = user.password /\ job'[r].op = job[r].op
    BY <1>1, <1>4, Undisturbed DEF Alone
  <2>2. CASE job[r].pc \in {"login.reset", "login.clear"}
    <3>1. r \in Stepped
      BY <1>4, <2>2 DEF Stepped
    <3>2. r \in skipped'
      BY <1>1, <1>4, <2>2, <3>1 DEF Compares
    <3>. QED
      BY <1>4, <3>2 DEF Founds
  <2>3. CASE job[r].pc \in {"login.count", "login.judge", "login.lock"}
    BY <1>4, <2>1, <2>3 DEF PasswordInv, Founds
  <2>. QED
    BY <1>4, <2>2, <2>3 DEF Verifying
<1>. QED
  BY <1>1, <1>2, <1>3, <1>4 DEF Alone

LEMMA NextPasswordInv == IInv /\ KindInv /\ PasswordInv /\ [HNext]_hvars => PasswordInv'
<1>1. ASSUME IInv, KindInv, PasswordInv, NEW r \in Requests, Marks(r)
      PROVE  PasswordInv'
  BY <1>1, PasswordStep, PasswordFails DEF Marks
<1>2. ASSUME IInv, Restarts
      PROVE  PasswordInv'
  BY <1>2, Restarted DEF Restarts, PasswordInv, Founds
<1>3. ASSUME PasswordInv, Passes
      PROVE  PasswordInv'
  <2>1. job' = job /\ Compares
    BY <1>3, Passing DEF Passes
  <2>. QED
    BY <1>3, <2>1, PasswordStays DEF PasswordInv
<1>4. ASSUME PasswordInv, UNCHANGED hvars
      PROVE  PasswordInv'
  BY <1>4 DEF hvars, vars, db, PasswordInv
<1>. QED
  BY <1>1, <1>2, <1>3, <1>4, Histories

THEOREM PasswordInvariant == HSpec => []PasswordInv
BY InitPasswordInv, NextPasswordInv, IInvariant, KindInvariant, PTL DEF HSpec

\* A password is replaced by another one, unless yet another was written between
\* the comparison and the write, or nothing was compared: the account was locked
\* when a change of credentials read it, or a statement failed after the password
\* had been found to be the same.
THEOREM PasswordsChange == HSpec => PasswordChanges
<1>1. ASSUME IInv, KindInv, PasswordInv, HNext, NEW r \in Stepped,
             job[r].pc \in {"complete.write", "change.write"}, user' # user
      PROVE  user'.password # user.password \/ r \in moved \/ r \in skipped
  <2>1. PICK x \in Requests : Step(x)
    <3>1. ~ServerRestarts /\ ~Tick /\ \A p \in Ids : ~Expire(p)
      BY <1>1, Restarted, Passing
    <3>2. \A x \in Requests : ~Fails(x)
      BY <1>1, FailGoes DEF db
    <3>. QED
      BY <1>1, <3>1, <3>2, Steps
  <2>2. Does(x)
    BY <1>1, <2>1, StepDoes
  <2>3. x = r
    BY <2>2 DEF Does, Alone, Stepped
  <2>4. user'.password = job[r].op.password
    BY <1>1, <2>2, <2>3 DEF Does, Ends
  <2>. QED
    BY <1>1, <2>4 DEF PasswordInv, Founds, Stepped
<1>2. IInv /\ KindInv /\ PasswordInv /\ [HNext]_hvars =>
        [\A r \in Stepped :
           job[r].pc \in {"complete.write", "change.write"} /\ user' # user
             => user'.password # user.password \/ r \in moved \/ r \in skipped]_hvars
  BY <1>1
<1>. QED
  BY <1>2, IInvariant, KindInvariant, PasswordInvariant, PTL DEF HSpec, PasswordChanges
-----------------------------------------------------------------------------
\* Wrong codes.  A reset outlives as many as are allowed, and one more for every
\* request to blame, of which there are finitely many.
Blamed(p) == {r \in Requests : job[r].op.row = p /\ (job[r].pc = "reset.delete" \/ r \in failed)}
Serving == {r \in Requests : InService(r)}
AttemptInv ==
  /\ IsFiniteSet(Serving) /\ failed \subseteq Requests /\ IsFiniteSet(failed)
  /\ \A r \in failed : job[r].pc \in {"done", "change.write"}
  /\ \A p \in Ids : reset[p] # NoRow => reset[p].attempts <= 4 + Cardinality(Blamed(p))

LEMMA BlamedFinite ==
  ASSUME IsFiniteSet(Serving), IsFiniteSet(failed)
  PROVE  \A p : IsFiniteSet(Blamed(p)) /\ Cardinality(Blamed(p)) \in Nat
<1>. SUFFICES ASSUME NEW p PROVE IsFiniteSet(Blamed(p)) /\ Cardinality(Blamed(p)) \in Nat
  OBVIOUS
<1>1. Blamed(p) \subseteq Serving \cup failed
  BY NotFirst DEF Blamed, Serving
<1>2. IsFiniteSet(Serving \cup failed)
  BY FS_Union
<1>3. IsFiniteSet(Blamed(p))
  BY <1>1, <1>2, FS_Subset
<1>. QED
  BY <1>3, FS_CardinalityType

\* Who counts a fifth wrong code is to blame for a reset that stays.
LEMMA AttemptsWritten ==
  ASSUME IInv, NEW r \in Requests, Step(r) \/ Fails(r), NEW p \in Ids, reset'[p] # NoRow
  PROVE  /\ reset'[p].attempts \in Nat
         /\ job[r].pc = "reset.delete" /\ job[r].op.row = p => Fails(r)
         /\ \/ reset[p] # NoRow /\ reset'[p].attempts = reset[p].attempts
            \/ reset'[p].attempts <= 4
            \/ /\ reset[p] # NoRow /\ reset'[p].attempts = reset[p].attempts + 1
               /\ job[r].pc = "guess.count" /\ job'[r].pc = "reset.delete" /\ job[r].op.row = p
<1>. Typed /\ Tables
  BY DEF IInv, Typed
<1>1. reset'[p].attempts \in Nat
  BY StepServed DEF Served, Tables, Rows
<1>2. job[r].pc = "reset.delete" /\ job[r].op.row = p => Fails(r)
  BY Written DEF ResetWritten
<1>3. CASE reset' = reset
  BY <1>1, <1>2, <1>3
<1>4. CASE AskReset(r)
  <2>1. CASE reset' = [q \in Ids |-> NoRow]
    BY <2>1
  <2>2. CASE reset' = [reset EXCEPT ![r] = [attempts |-> 0, verified |-> FALSE, expired |-> FALSE]]
    <3>1. CASE p = r
      BY <1>1, <1>2, <2>2, <3>1 DEF Tables
    <3>2. CASE p # r
      BY <1>1, <1>2, <2>2, <3>2 DEF Tables
    <3>. QED
      BY <3>1, <3>2
  <2>. QED
    BY <1>4, <2>1, <2>2 DEF AskReset
<1>5. CASE GuessCode(r)
  <2>. DEFINE t == job[r].op.row
  <2>1. reset[t] # NoRow /\ t \in Ids => reset[t] \in Rows
    BY DEF Tables
  <2>2. \A row \in Rows : [row EXCEPT !.attempts = @ + 1].attempts = row.attempts + 1
    BY DEF Rows
  <2>3. \A row \in Rows : [row EXCEPT !.verified = TRUE].attempts = row.attempts
    BY DEF Rows
  <2>4. CASE job[r].pc = "guess.count" /\ reset[t] # NoRow /\ t = p
    <3>1. reset' = [reset EXCEPT ![p].attempts = @ + 1]
          /\ Goto(r, IF TooManyAttempts(reset'[p].attempts) THEN "reset.delete" ELSE "guess.find")
      BY <1>5, <2>4 DEF GuessCode
    <3>2. reset'[p].attempts = reset[p].attempts + 1
      BY <2>1, <2>2, <2>4, <3>1 DEF Tables
    <3>3. CASE TooManyAttempts(reset'[p].attempts)
      <4>1. job'[r].pc = "reset.delete"
        BY <3>1, <3>3, Going DEF PCs
      <4>. QED
        BY <1>1, <1>2, <2>4, <3>2, <4>1
    <3>4. CASE ~TooManyAttempts(reset'[p].attempts)
      BY <1>1, <1>2, <3>4 DEF TooManyAttempts
    <3>. QED
      BY <3>3, <3>4
  <2>5. CASE job[r].pc = "guess.mark" /\ reset[t] # NoRow /\ t = p
    <3>1. reset' = [reset EXCEPT ![p].verified = TRUE]
      BY <1>5, <2>5 DEF GuessCode
    <3>2. reset'[p].attempts = reset[p].attempts
      BY <2>1, <2>3, <2>5, <3>1 DEF Tables
    <3>. QED
      BY <1>1, <1>2, <2>5, <3>2
  <2>6. CASE t # p
    <3>1. reset'[p] = reset[p]
      BY <1>5, <2>6 DEF GuessCode, Tables, db
    <3>. QED
      BY <1>1, <1>2, <3>1
  <2>. QED
    BY <1>3, <1>5, <2>4, <2>5, <2>6 DEF GuessCode, db
<1>6. CASE DeleteReset(r)
  BY <1>1, <1>2, <1>6 DEF DeleteReset, Tables
<1>7. CASE ReadAccount(r) \/ VerifyPassword(r) \/ Login(r)
  BY <1>3, <1>7 DEF ReadAccount, VerifyPassword, CountFailure, JudgeFailure, SetLockout,
              ResetFailures, ClearLockout, Login, IssueToken, db
<1>8. CASE CompleteReset(r) \/ Administered(r)
  BY <1>3, <1>8 DEF CompleteReset, Administered, ForceReset, ToggleAccess, UpdateRole, db
<1>9. CASE Session(r)
  BY <1>3, <1>9 DEF Session, GetCached, ReadVerdict, StoreVerdict, Serve, RefreshSession,
              IssueToken, ChangeCredentials, db
<1>10. CASE Fails(r)
  BY <1>3, <1>10 DEF Fails, db
<1>. QED
  BY <1>4, <1>5, <1>6, <1>7, <1>8, <1>9, <1>10 DEF Step, Forgotten

\* Blame is never lost, and falls on the one who counts a fifth wrong code.
LEMMA BlameGrows ==
  ASSUME NEW p \in Ids, IsFiniteSet(Serving'), IsFiniteSet(failed'), failed \subseteq failed',
         \A r \in Requests : /\ job'[r].op = job[r].op
                             /\ job[r].pc = "reset.delete" /\ job[r].op.row = p =>
                                  job'[r].pc = "reset.delete" \/ r \in failed'
  PROVE  /\ Blamed(p) \subseteq Blamed(p)'
         /\ Cardinality(Blamed(p)) \in Nat /\ Cardinality(Blamed(p)') \in Nat
         /\ Cardinality(Blamed(p)) <= Cardinality(Blamed(p)')
         /\ \A r \in Blamed(p)' \ Blamed(p) : Cardinality(Blamed(p)) + 1 <= Cardinality(Blamed(p)')
<1>. DEFINE old == Blamed(p)
            new == Blamed(p)'
<1>1. old \subseteq new
  BY DEF Blamed
<1>2. new \subseteq Serving' \cup failed'
  <2>1. \A r \in Requests : job'[r].pc = "reset.delete" => InService(r)'
    BY DEF InService, First
  <2>. QED
    BY <2>1 DEF Blamed, Serving
<1>3. IsFiniteSet(new)
  <2>1. IsFiniteSet(Serving' \cup failed')
    BY FS_Union
  <2>. QED
    BY <1>2, <2>1, FS_Subset
<1>. HIDE DEF old, new
<1>4. IsFiniteSet(old) /\ Cardinality(old) <= Cardinality(new)
  BY <1>1, <1>3, FS_Subset
<1>5. Cardinality(old) \in Nat /\ Cardinality(new) \in Nat
  BY <1>3, <1>4, FS_CardinalityType
<1>6. ASSUME NEW r \in new \ old
      PROVE  Cardinality(old) + 1 <= Cardinality(new)
  <2>1. Cardinality(old \cup {r}) = Cardinality(old) + 1
    BY <1>4, <1>6, FS_AddElement
  <2>2. old \cup {r} \subseteq new
    BY <1>1, <1>6
  <2>3. Cardinality(old \cup {r}) <= Cardinality(new)
    BY <1>3, <2>2, FS_Subset
  <2>. QED
    BY <2>1, <2>3
<1>. QED
  BY <1>1, <1>4, <1>5, <1>6 DEF old, new

LEMMA InitAttemptInv == HInit => AttemptInv
<1>. SUFFICES ASSUME HInit PROVE AttemptInv
  OBVIOUS
<1>1. Serving = {}
  <2>1. PICK s \in Scenarios : job \in [Requests -> {At(op, First(op)) : op \in s.operations}]
    BY DEF HInit, Init
  <2>2. ASSUME NEW r \in Requests PROVE ~InService(r)
    <3>1. PICK op \in s.operations : job[r] = At(op, First(op))
      BY <2>1
    <3>. QED
      BY <3>1 DEF InService, At
  <2>. QED
    BY <2>2 DEF Serving
<1>2. failed = {} /\ IsFiniteSet({})
  BY FS_EmptySet DEF HInit
<1>3. \A p \in Ids : reset[p] # NoRow => reset[p].attempts = 0
  BY DEF HInit, Init
<1>4. \A p \in Ids : Cardinality(Blamed(p)) \in Nat
  BY <1>1, <1>2, BlamedFinite
<1>. QED
  BY <1>1, <1>2, <1>3, <1>4 DEF AttemptInv

LEMMA AttemptStep ==
  ASSUME IInv, KindInv, AttemptInv, NEW r \in Requests, Marks(r)
  PROVE  AttemptInv'
<1>1. Alone(r) /\ job[r].pc # "done" /\ failed \subseteq failed' /\ failed' \subseteq failed \cup {r}
  BY StepServed DEF Marks, Served, Entered
<1>2. IsFiniteSet(Serving')
  <2>1. Serving' \subseteq Serving \cup {r}
    BY <1>1 DEF Serving, InService, Alone
  <2>2. IsFiniteSet(Serving \cup {r})
    BY FS_AddElement DEF AttemptInv
  <2>. QED
    BY <2>1, <2>2, FS_Subset
<1>3. failed' \subseteq Requests /\ IsFiniteSet(failed')
  <2>1. IsFiniteSet(failed \cup {r})
    BY FS_AddElement DEF AttemptInv
  <2>. QED
    BY <1>1, <2>1, FS_Subset DEF AttemptInv
<1>4. \A x \in failed' : job'[x].pc \in {"done", "change.write"}
  <2>1. CASE Step(r) /\ failed' = failed
    <3>1. Ends(r)
      BY <2>1, StepDoes DEF Does
    <3>. QED
      BY <1>1, <2>1, <3>1 DEF AttemptInv, Ends, Alone
  <2>2. CASE Fails(r)
    BY <1>1, <2>2, FailGoes DEF AttemptInv, Alone
  <2>. QED
    BY <2>1, <2>2 DEF Marks
<1>5. ASSUME NEW p \in Ids, reset'[p] # NoRow
      PROVE  reset'[p].attempts <= 4 + Cardinality(Blamed(p)')
  <2>1. /\ reset'[p].attempts \in Nat
        /\ \/ reset[p] # NoRow /\ reset'[p].attempts = reset[p].attempts
           \/ reset'[p].attempts <= 4
           \/ /\ reset[p] # NoRow /\ reset'[p].attempts = reset[p].attempts + 1
              /\ job[r].pc = "guess.count" /\ job'[r].pc = "reset.delete" /\ job[r].op.row = p
    BY <1>5, AttemptsWritten DEF Marks
  <2>2. job[r].pc = "reset.delete" /\ job[r].op.row = p => r \in failed'
    <3>1. Step(r) /\ job[r].pc = "reset.delete" /\ job[r].op.row = p => reset'[p] = NoRow
      BY Written DEF ResetWritten
    <3>. QED
      BY <1>5, <3>1 DEF Marks
  <2>3. \A q \in Requests : /\ job'[q].op = job[q].op
                            /\ job[q].pc = "reset.delete" /\ job[q].op.row = p =>
                                 job'[q].pc = "reset.delete" \/ q \in failed'
    BY <1>1, <2>2 DEF Alone
  <2>4. /\ Cardinality(Blamed(p)) \in Nat /\ Cardinality(Blamed(p)') \in Nat
        /\ Cardinality(Blamed(p)) <= Cardinality(Blamed(p)')
        /\ \A x \in Blamed(p)' \ Blamed(p) : Cardinality(Blamed(p)) + 1 <= Cardinality(Blamed(p)')
    BY <1>1, <1>2, <1>3, <2>3, BlameGrows
  <2>5. reset[p] # NoRow => reset[p].attempts \in Nat /\ reset[p].attempts <= 4 + Cardinality(Blamed(p))
    BY DEF IInv, Typed, Tables, Rows, AttemptInv
  <2>6. CASE reset[p] # NoRow /\ reset'[p].attempts = reset[p].attempts
    BY <2>1, <2>4, <2>5, <2>6
  <2>7. CASE reset'[p].attempts <= 4
    BY <2>1, <2>4, <2>7
  <2>8. CASE /\ reset[p] # NoRow /\ reset'[p].attempts = reset[p].attempts + 1
             /\ job[r].pc = "guess.count" /\ job'[r].pc = "reset.delete" /\ job[r].op.row = p
    <3>1. r \in Blamed(p)'
      BY <1>1, <2>8 DEF Blamed, Alone
    <3>2. r \notin Blamed(p)
      BY <2>8 DEF Blamed, AttemptInv
    <3>3. Cardinality(Blamed(p)) + 1 <= Cardinality(Blamed(p)')
      BY <2>4, <3>1, <3>2
    <3>. QED
      BY <2>4, <2>5, <2>8, <3>3
  <2>. QED
    BY <2>1, <2>6, <2>7, <2>8
<1>. QED
  BY <1>2, <1>3, <1>4, <1>5 DEF AttemptInv

\* Nothing is counted while requests only end and time passes.
LEMMA AttemptStops ==
  ASSUME IInv, AttemptInv, Serving' \subseteq Serving, failed' \subseteq failed \cup Serving,
         failed \subseteq failed', \A r \in failed' : job'[r].pc \in {"done", "change.write"},
         \A r \in Requests : /\ job'[r].op = job[r].op
                             /\ job[r].pc = "reset.delete" =>
                                  job'[r].pc = "reset.delete" \/ r \in failed',
         \A p \in Ids : reset'[p] # NoRow =>
           reset[p] # NoRow /\ reset'[p].attempts = reset[p].attempts
  PROVE  AttemptInv'
<1>1. IsFiniteSet(Serving') /\ IsFiniteSet(failed')
  <2>1. IsFiniteSet(failed \cup Serving)
    BY FS_Union DEF AttemptInv
  <2>. QED
    BY <2>1, FS_Subset DEF AttemptInv
<1>2. failed' \subseteq Requests
  BY DEF AttemptInv, Serving
<1>3. ASSUME NEW p \in Ids, reset'[p] # NoRow
      PROVE  reset'[p].attempts <= 4 + Cardinality(Blamed(p)')
  <2>1. reset[p] # NoRow /\ reset'[p].attempts = reset[p].attempts
    BY <1>3
  <2>2. reset[p].attempts \in Nat /\ reset[p].attempts <= 4 + Cardinality(Blamed(p))
    BY <2>1 DEF IInv, Typed, Tables, Rows, AttemptInv
  <2>3. /\ Cardinality(Blamed(p)) \in Nat /\ Cardinality(Blamed(p)') \in Nat
        /\ Cardinality(Blamed(p)) <= Cardinality(Blamed(p)')
    BY <1>1, BlameGrows
  <2>. QED
    BY <2>1, <2>2, <2>3
<1>. QED
  BY <1>1, <1>2, <1>3 DEF AttemptInv

LEMMA NextAttemptInv == IInv /\ KindInv /\ AttemptInv /\ [HNext]_hvars => AttemptInv'
<1>1. ASSUME IInv, KindInv, AttemptInv, NEW r \in Requests, Marks(r)
      PROVE  AttemptInv'
  BY <1>1, AttemptStep
<1>2. ASSUME IInv, AttemptInv, Restarts
      PROVE  AttemptInv'
  <2>1. /\ \A r \in Requests : job'[r].pc = "done" /\ job'[r].op = job[r].op
        /\ Serving' = {} /\ reset' = reset /\ failed' = failed \cup Serving
    BY <1>2, Restarted DEF Restarts, Serving
  <2>2. \A r \in Requests : job[r].pc = "reset.delete" => r \in failed'
    BY <2>1, NotFirst DEF Serving
  <2>3. failed' \subseteq Requests
    BY <1>2, <2>1 DEF AttemptInv, Serving
  <2>. QED
    BY <1>2, <2>1, <2>2, <2>3, AttemptStops
<1>3. ASSUME IInv, AttemptInv, Passes
      PROVE  AttemptInv'
  <2>1. job' = job /\ failed' = failed
    BY <1>3, Passing DEF Passes
  <2>2. Serving' = Serving
    BY <2>1 DEF Serving, InService
  <2>3. \A p \in Ids : reset'[p] # NoRow => reset[p] # NoRow /\ reset'[p].attempts = reset[p].attempts
    <3>1. CASE Tick
      BY <3>1 DEF Tick, db
    <3>2. ASSUME NEW q \in Ids, Expire(q), NEW p \in Ids
          PROVE  reset'[p] # NoRow => reset[p] # NoRow /\ reset'[p].attempts = reset[p].attempts
      <4>1. reset[q] \in Rows /\ reset' = [reset EXCEPT ![q] = [reset[q] EXCEPT !.expired = TRUE]]
            /\ reset[q] # NoRow
        BY <1>3, <3>2 DEF Expire, IInv, Typed, Tables
      <4>2. [reset[q] EXCEPT !.expired = TRUE].attempts = reset[q].attempts
        BY <4>1 DEF Rows
      <4>. QED
        BY <1>3, <4>1, <4>2 DEF IInv, Typed, Tables
    <3>. QED
      BY <1>3, <3>1, <3>2 DEF Passes
  <2>4. \A r \in failed' : job'[r].pc \in {"done", "change.write"}
    BY <1>3, <2>1 DEF AttemptInv
  <2>. QED
    BY <1>3, <2>1, <2>2, <2>3, <2>4, AttemptStops
<1>4. ASSUME AttemptInv, UNCHANGED hvars
      PROVE  AttemptInv'
  BY <1>4 DEF hvars, vars, db, AttemptInv, Serving, InService, Blamed
<1>. QED
  BY <1>1, <1>2, <1>3, <1>4, Histories

THEOREM AttemptInvariant == HSpec => []AttemptInv
BY InitAttemptInv, NextAttemptInv, IInvariant, KindInvariant, PTL DEF HSpec

\* A reset outlives four wrong codes, and one more for every request that is about
\* to delete it or failed to, however requests interleave.
THEOREM AttemptsCorrect == HSpec => []ResetAttemptsBounded
<1>1. AttemptInv => ResetAttemptsBounded
  BY DEF AttemptInv, ResetAttemptsBounded, Blamed
<1>. QED
  BY <1>1, AttemptInvariant, PTL
=============================================================================
