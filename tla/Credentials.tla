----------------------------- MODULE Credentials -----------------------------
(***************************************************************************)
(* One account's password and sessions: login with its lockout, the reset    *)
(* of a forgotten password by an e-mailed code, the change of credentials,   *)
(* what administrators do to the account, and the validation of tokens       *)
(* through a cache that trusts a verdict for 30 seconds.                     *)
(*                                                                          *)
(* Every statement commits on its own and the statements of different        *)
(* requests interleave.  A request has its operation from the start and is   *)
(* served once, only a mistyped code may be sent again.  Time passes in      *)
(* ticks of 15 seconds, of which all durations here are multiples; what      *)
(* happens in one tick happens in the same second.                           *)
(*                                                                          *)
(* The change of an address, the rules a password must satisfy, signatures   *)
(* and the expiry of tokens are left out: such a request ends as any failing *)
(* one does.                                                                 *)
(***************************************************************************)
EXTENDS Integers, FiniteSets

CONSTANTS
  Requests,
  Codes,       \* password resets pending at the start
  Passwords,   \* passwords the user may choose
  Temporary,   \* one generated by an administrator's reset
  Roles,       \* the roles the account may be given
  WebRoles,    \* those of administrators, who use the web
  MaxTime,     \* bound on the clock
  Scenarios,   \* the account at the start, and the operations then served
  NoRow, NoEntry, NoToken, NoUser

ASSUME TimeAssumption == MaxTime \in Nat

Ids == Requests \cup Codes
Kinds == {"login", "ask", "guess", "complete", "force", "toggle", "role", "query", "refresh", "change"}
Scopes == {"session", "credential_change"}
Tokens == [iat : 0..MaxTime, scope : Scopes]
Ticks == 0..MaxTime + 4
Users == [password : Passwords \cup {Temporary}, temp : BOOLEAN, failed : Nat, lockout : Ticks,
          active : BOOLEAN, role : Roles, invalidBefore : 0..MaxTime]

\* What a request asks for: a password, the role of an account, a reset, and a
\* flag (the code is right; access is given); a login comes from the web or the app.
Operations == [kind : Kinds, password : Passwords \cup {Temporary}, role : Roles, row : Ids,
               on : BOOLEAN, web : BOOLEAN]

ASSUME ScenariosAssumption ==
  \A s \in Scenarios : s.user \in Users /\ s.tokens \subseteq Tokens /\ s.operations \subseteq Operations
ASSUME NothingAssumption == Temporary \notin Passwords /\ Requests \cap Codes = {}

VARIABLES
  user,    \* the row of users; lockout 0 stands for NULL
  reset,   \* password_resets
  tokens,  \* the tokens issued
  cache,   \* the cached verdict about the account
  now,     \* the clock
  job      \* progress of each request

db == <<user, reset>>
vars == <<db, tokens, cache, now, job>>
-----------------------------------------------------------------------------
\* 15, 30, then 60 seconds; and 30 seconds of trust.
Ladder(attempts) == CASE attempts <= 2 -> 0 [] attempts = 3 -> 1 [] attempts = 4 -> 2 [] OTHER -> 4
Ttl == 2

First(op) ==
  CASE op.kind = "login" -> "login.read" [] op.kind = "ask" -> "ask.delete"
    [] op.kind = "guess" -> "guess.find" [] op.kind = "complete" -> "complete.find"
    [] op.kind = "force" -> "force.read" [] op.kind = "toggle" -> "toggle.read"
    [] op.kind = "role" -> "role.write" [] OTHER -> "session.cache"

\* A request: its next statement, the account as it read it, the token it
\* carries, the verdict about it, and the end of a lockout it is to write.
NoVerdict == [token |-> NoToken, scope |-> "session", role |-> "none"]
At(op, pc) == [op |-> op, pc |-> pc, seen |-> NoUser, verdict |-> NoVerdict, until |-> 0]
Goto(r, pc) ==
  job' = [job EXCEPT ![r] = IF pc \in {"done", First(@.op)} THEN At(@.op, pc) ELSE [@ EXCEPT !.pc = pc]]
End(r) == Goto(r, "done")
InService(r) == job[r].pc \notin {"done", First(job[r].op)}
Locked(u) == u.lockout > now
-----------------------------------------------------------------------------
\* Login, and verify_user_password, which ChangeCredentials uses too.
\* A wrong password is counted, the account read again and locked as the count
\* demands; a right one clears count and lockout, and the lockout once more.
AfterFailure(r) == IF job[r].op.kind = "change" THEN "change.write" ELSE "done"
AfterSuccess(r) == IF job[r].op.kind = "change" THEN "done" ELSE "login.token"

ReadAccount(r) ==
  /\ job[r].pc = "login.read"
  /\ IF ~user.active \/ Locked(user) THEN End(r)
     ELSE job' = [job EXCEPT ![r].seen = user,
       ![r].pc = IF job[r].op.password = user.password THEN "login.reset" ELSE "login.count"]
  /\ UNCHANGED <<db, tokens, cache, now>>

CountFailure(r) ==
  /\ job[r].pc = "login.count"
  /\ user' = [user EXCEPT !.failed = @ + 1]
  /\ Goto(r, "login.judge")
  /\ UNCHANGED <<reset, tokens, cache, now>>

\* (mutated form: judged by the account as it was read before)
JudgeAsSeen(r) ==
  /\ job[r].pc = "login.judge"
  /\ LET pause == Ladder(job[r].seen.failed)
     IN  IF pause = 0 THEN Goto(r, AfterFailure(r))
         ELSE job' = [job EXCEPT ![r].until = now + pause, ![r].pc = "login.lock"]
  /\ UNCHANGED <<db, tokens, cache, now>>
JudgeFailure(r) ==
  /\ job[r].pc = "login.judge"
  /\ LET pause == Ladder(user.failed)
     IN  IF pause = 0 THEN Goto(r, AfterFailure(r))
         ELSE job' = [job EXCEPT ![r].until = now + pause, ![r].pc = "login.lock"]
  /\ UNCHANGED <<db, tokens, cache, now>>

SetLockout(r) ==
  /\ job[r].pc = "login.lock"
  /\ user' = [user EXCEPT !.lockout = job[r].until]
  /\ Goto(r, AfterFailure(r))
  /\ UNCHANGED <<reset, tokens, cache, now>>

ResetFailures(r) ==
  /\ job[r].pc = "login.reset"
  /\ user' = [user EXCEPT !.failed = 0, !.lockout = 0]
  /\ Goto(r, "login.clear")
  /\ UNCHANGED <<reset, tokens, cache, now>>
ClearLockout(r) ==
  /\ job[r].pc = "login.clear"
  /\ user' = [user EXCEPT !.lockout = 0]
  /\ Goto(r, AfterSuccess(r))
  /\ UNCHANGED <<reset, tokens, cache, now>>

\* Administrators use the web and the others the app; a temporary password
\* gives a token that only changes credentials.
IssueToken(r, scope) ==
  /\ tokens' = tokens \cup {[iat |-> now, scope |-> scope]}
  /\ End(r)
  /\ UNCHANGED <<db, cache, now>>
Login(r) ==
  /\ job[r].pc = "login.token"
  /\ IF job[r].op.web = (job[r].seen.role \in WebRoles)
     THEN IssueToken(r, IF job[r].seen.temp THEN "credential_change" ELSE "session")
     ELSE End(r) /\ UNCHANGED <<db, tokens, cache, now>>

VerifyPassword(r) ==
  \/ CountFailure(r) \/ JudgeFailure(r) \/ SetLockout(r) \/ ResetFailures(r) \/ ClearLockout(r)
-----------------------------------------------------------------------------
\* A forgotten password.  The request is an upsert of two statements.
\* (the account exists; a mail that is not sent is only logged)
AskReset(r) ==
  \/ /\ job[r].pc = "ask.delete"
     /\ reset' = [p \in Ids |-> NoRow]
     /\ Goto(r, "ask.insert")
     /\ UNCHANGED <<user, tokens, cache, now>>
  \/ /\ job[r].pc = "ask.insert"
     /\ reset' = [reset EXCEPT ![r] = [attempts |-> 0, verified |-> FALSE, expired |-> FALSE]]
     /\ End(r)
     /\ UNCHANGED <<user, tokens, cache, now>>

\* (mutated form: the fifth wrong code is let through)
SixAttempts(n) == n >= 6
TooManyAttempts(n) == n >= 5
GuessCode(r) ==
  LET p == job[r].op.row
  IN  \/ /\ job[r].pc = "guess.find"
         /\ Goto(r, IF reset[p] = NoRow THEN "done" ELSE IF reset[p].expired THEN "reset.delete"
                    ELSE IF job[r].op.on THEN "guess.mark" ELSE "guess.count")
         /\ UNCHANGED <<db, tokens, cache, now>>
      \/ /\ job[r].pc = "guess.count"
         /\ reset' = IF reset[p] = NoRow THEN reset ELSE [reset EXCEPT ![p].attempts = @ + 1]
         /\ Goto(r, IF reset[p] # NoRow /\ TooManyAttempts(reset'[p].attempts)
                    THEN "reset.delete" ELSE "guess.find")
         /\ UNCHANGED <<user, tokens, cache, now>>
      \/ /\ job[r].pc = "guess.mark"
         /\ reset' = IF reset[p] = NoRow THEN reset ELSE [reset EXCEPT ![p].verified = TRUE]
         /\ End(r)
         /\ UNCHANGED <<user, tokens, cache, now>>

\* (mutated form: the row stays)
KeepReset(r) ==
  /\ job[r].pc = "reset.delete"
  /\ End(r)
  /\ UNCHANGED <<db, tokens, cache, now>>
DeleteReset(r) ==
  /\ job[r].pc = "reset.delete"
  /\ reset' = [reset EXCEPT ![job[r].op.row] = NoRow]
  /\ End(r)
  /\ UNCHANGED <<user, tokens, cache, now>>

\* UPDATE users SET password_hash, is_temp_password, tokens_invalid_before = NOW() ...
UpdateCredentials(password, temp) ==
  user' = [user EXCEPT !.password = password, !.temp = temp, !.failed = 0,
                       !.lockout = 0, !.invalidBefore = now]

CompleteReset(r) ==
  LET p == job[r].op.row
  IN  \/ /\ job[r].pc = "complete.find"
         /\ Goto(r, IF reset[p] = NoRow THEN "done" ELSE IF reset[p].expired THEN "reset.delete"
                    ELSE IF reset[p].verified THEN "complete.read" ELSE "done")
         /\ UNCHANGED <<db, tokens, cache, now>>
      \/ /\ job[r].pc = "complete.read"
         /\ Goto(r, IF job[r].op.password = user.password THEN "done" ELSE "complete.write")
         /\ UNCHANGED <<db, tokens, cache, now>>
      \/ /\ job[r].pc = "complete.write"
         /\ UpdateCredentials(job[r].op.password, FALSE)
         /\ Goto(r, "reset.delete")
         /\ UNCHANGED <<reset, tokens, cache, now>>

Expire(p) ==
  /\ reset[p] # NoRow /\ ~reset[p].expired
  /\ reset' = [reset EXCEPT ![p].expired = TRUE]
  /\ UNCHANGED <<user, tokens, cache, now, job>>
-----------------------------------------------------------------------------
\* What administrators do: a generated password, access withdrawn or given back,
\* another role (the teacher catalog).  The account is read before it is written.
ForceReset(r) ==
  \/ job[r].pc = "force.read" /\ Goto(r, "force.write") /\ UNCHANGED <<db, tokens, cache, now>>
  \/ /\ job[r].pc = "force.write"
     /\ UpdateCredentials(Temporary, TRUE)
     /\ End(r)
     /\ UNCHANGED <<reset, tokens, cache, now>>
ToggleAccess(r) ==
  \/ /\ job[r].pc = "toggle.read"
     /\ Goto(r, IF user.active = job[r].op.on THEN "done" ELSE "toggle.write")
     /\ UNCHANGED <<db, tokens, cache, now>>
  \/ /\ job[r].pc = "toggle.write"
     /\ user' = [user EXCEPT !.active = job[r].op.on, !.failed = 0, !.lockout = 0]
     /\ End(r)
     /\ UNCHANGED <<reset, tokens, cache, now>>
UpdateRole(r) ==
  /\ job[r].pc = "role.write"
  /\ user' = [user EXCEPT !.role = job[r].op.role]
  /\ End(r)
  /\ UNCHANGED <<reset, tokens, cache, now>>
-----------------------------------------------------------------------------
\* A call with a token.  A cached verdict is taken for any token of the account
\* that is not newer than the one it was made for.
\* (mutated form: however old)
CachedForEver(t) == cache # NoEntry /\ cache.iat >= t.iat
Cached(t) == cache # NoEntry /\ now < cache.until /\ cache.iat >= t.iat
GetCached(r) ==
  /\ job[r].pc = "session.cache"
  /\ \E t \in tokens :
       job' = IF Cached(t)
              THEN [job EXCEPT ![r].pc = "serve", ![r].verdict =
                      [token |-> t, scope |-> cache.scope, role |-> cache.role]]
              ELSE [job EXCEPT ![r].pc = "session.read", ![r].verdict =
                      [token |-> t, scope |-> t.scope, role |-> "none"]]
  /\ UNCHANGED <<db, tokens, cache, now>>

\* Otherwise the account is read, and the verdict kept.
ReadVerdict(r) ==
  /\ job[r].pc = "session.read"
  /\ IF user.active /\ job[r].verdict.token.iat >= user.invalidBefore
     THEN job' = [job EXCEPT ![r].pc = "session.store", ![r].verdict.role = user.role]
     ELSE End(r)
  /\ UNCHANGED <<db, tokens, cache, now>>
\* (mutated form: stamped with the time of the call, not of its token)
StampVerdict(r) ==
  /\ job[r].pc = "session.store"
  /\ cache' = [iat |-> now, scope |-> job[r].verdict.scope,
               role |-> job[r].verdict.role, until |-> now + Ttl]
  /\ Goto(r, "serve")
  /\ UNCHANGED <<db, tokens, now>>
StoreVerdict(r) ==
  /\ job[r].pc = "session.store"
  /\ cache' = [iat |-> job[r].verdict.token.iat, scope |-> job[r].verdict.scope,
               role |-> job[r].verdict.role, until |-> now + Ttl]
  /\ Goto(r, "serve")
  /\ UNCHANGED <<db, tokens, now>>

\* A token of limited scope serves only to change credentials.
Serve(r) ==
  /\ job[r].pc = "serve"
  /\ Goto(r, CASE job[r].op.kind = "change" -> "change.read"
               [] job[r].op.kind = "refresh" /\ job[r].verdict.scope = "session" -> "refresh.read"
               [] OTHER -> "done")
  /\ UNCHANGED <<db, tokens, cache, now>>

RefreshSession(r) ==
  /\ job[r].pc = "refresh.read"
  /\ IF user.active THEN IssueToken(r, "session")
     ELSE End(r) /\ UNCHANGED <<db, tokens, cache, now>>

\* That the password is another one is seen from its failing verification.
\* (mutated form: it is not verified)
ChangeUnseen(r) ==
  \/ /\ job[r].pc = "change.read"
     /\ IF ~user.active THEN End(r)
        ELSE job' = [job EXCEPT ![r].seen = user, ![r].pc = "change.write"]
     /\ UNCHANGED <<db, tokens, cache, now>>
  \/ /\ job[r].pc = "change.write"
     /\ UpdateCredentials(job[r].op.password, FALSE)
     /\ End(r)
     /\ UNCHANGED <<reset, tokens, cache, now>>
ChangeCredentials(r) ==
  \/ /\ job[r].pc = "change.read"
     /\ IF ~user.active THEN End(r)
        ELSE job' = [job EXCEPT ![r].seen = user,
          ![r].pc = IF Locked(user) THEN "change.write"
                    ELSE IF job[r].op.password = user.password THEN "login.reset" ELSE "login.count"]
     /\ UNCHANGED <<db, tokens, cache, now>>
  \/ /\ job[r].pc = "change.write"
     /\ UpdateCredentials(job[r].op.password, FALSE)
     /\ End(r)
     /\ UNCHANGED <<reset, tokens, cache, now>>
-----------------------------------------------------------------------------
\* A statement fails.  To ChangeCredentials a failing verification is as good as
\* a wrong password.
Verifying == {"login.count", "login.judge", "login.lock", "login.reset", "login.clear"}
Fails(r) ==
  /\ job[r].pc # "done"
  /\ \/ End(r)
     \/ job[r].op.kind = "change" /\ job[r].pc \in Verifying /\ Goto(r, "change.write")
  /\ UNCHANGED <<db, tokens, cache, now>>

\* The server stops and starts again, with an empty cache.
ServerRestarts ==
  /\ cache' = NoEntry
  /\ job' = [r \in Requests |-> At(job[r].op, "done")]
  /\ UNCHANGED <<db, tokens, now>>

Tick == now < MaxTime /\ now' = now + 1 /\ UNCHANGED <<db, tokens, cache, job>>

Init ==
  \E s \in Scenarios :
    /\ user = s.user
    /\ reset = [p \in Ids |-> IF p \in Codes
                              THEN [attempts |-> 0, verified |-> FALSE, expired |-> FALSE] ELSE NoRow]
    /\ tokens = s.tokens
    /\ cache = NoEntry
    /\ now = 0
    /\ job \in [Requests -> {At(op, First(op)) : op \in s.operations}]

Forgotten(r) == AskReset(r) \/ GuessCode(r) \/ CompleteReset(r) \/ DeleteReset(r)
Administered(r) == ForceReset(r) \/ ToggleAccess(r) \/ UpdateRole(r)
Session(r) ==
  \/ GetCached(r) \/ ReadVerdict(r) \/ StoreVerdict(r) \/ Serve(r)
  \/ RefreshSession(r) \/ ChangeCredentials(r)
Step(r) ==
  ReadAccount(r) \/ VerifyPassword(r) \/ Login(r) \/ Forgotten(r) \/ Administered(r) \/ Session(r)
Environment == ServerRestarts \/ Tick \/ \E p \in Ids : Expire(p)
Next == (\E r \in Requests : Step(r) \/ Fails(r)) \/ Environment
Spec == Init /\ [][Next]_vars
-----------------------------------------------------------------------------
\* Rows have their types, the cached verdict is about a token that was issued,
\* and a lockout about to be set is one of the ladder.
TypeOK ==
  /\ user \in Users
  /\ reset \in [Ids -> [attempts : Nat, verified : BOOLEAN, expired : BOOLEAN] \cup {NoRow}]
  /\ tokens \subseteq Tokens
  /\ now \in 0..MaxTime
  /\ cache # NoEntry =>
       /\ [iat |-> cache.iat, scope |-> cache.scope] \in tokens
       /\ cache.role \in Roles /\ cache.until \in 0..now + Ttl
  /\ \A r \in Requests :
       /\ job[r].seen \in Users \cup {NoUser} /\ job[r].until \in Ticks
       /\ job[r].pc = "login.lock" => job[r].until \in 1..now + 4
       /\ job[r].pc \in {"session.read", "session.store", "serve"} => job[r].verdict.token \in tokens
       /\ job[r].pc \in {"session.store", "serve"} => job[r].verdict.role \in Roles
=============================================================================
