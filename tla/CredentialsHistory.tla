-------------------------- MODULE CredentialsHistory --------------------------
(***************************************************************************)
(* Credentials with history variables that tell which deviations a race or   *)
(* a failure excuses, and the properties.                                    *)
(***************************************************************************)
EXTENDS Credentials

VARIABLES
  met,     \* the pairs of requests one of which took a step while the other was served
  failed,  \* the requests of which a statement failed
  used,    \* the requests that changed the password through each reset
  proved,  \* the resets whose code was entered right
  tried,   \* the failures since the counter was last zero: when the third was counted, -1 before the start
  under,   \* the requests that were being served when the counter was last cleared
  wiped,   \* one of these has written the lockout after that
  moved,   \* the requests after whose comparison another password was written
  skipped, \* the changes that did not compare: the account was locked, or a statement after the same password failed
  turned,  \* when the role, the access or the end of the older tokens last changed
  outdated, \* the requests whose verdict was read before that and is still to be stored
  late     \* the cached verdict was one of these

hvars == <<vars, met, failed, used, proved, tried, under, wiped, moved, skipped, turned, outdated, late>>

Stepped == {r \in Requests : job'[r] # job[r]}
Cleared ==
  /\ user'.failed = 0
  /\ user' # user \/ \E r \in Stepped : job[r].pc = "login.reset" /\ job'[r].pc = "login.clear"
Turned ==
  user'.role # user.role \/ user'.active # user.active \/ user'.invalidBefore # user.invalidBefore
Compared == Verifying \cup {"change.write", "complete.write"}
Storing(r) == job[r].pc = "session.store" /\ job'[r].pc = "serve"
Completing(r) == job[r].pc = "complete.write" /\ job'[r].pc = "reset.delete"

HInit ==
  /\ Init /\ met = {} /\ failed = {} /\ proved = {} /\ tried = -1 /\ under = {} /\ wiped = FALSE
  /\ used = [p \in Ids |-> {}] /\ moved = {} /\ skipped = {}
  /\ turned = 0 /\ outdated = {} /\ late = FALSE
HNext ==
  /\ \/ (\E r \in Requests : Step(r)) /\ failed' = failed
     \/ \E r \in Requests : Fails(r) /\ failed' = failed \cup {r}
     \/ ServerRestarts /\ failed' = failed \cup {r \in Requests : InService(r)}
     \/ (Tick \/ \E p \in Ids : Expire(p)) /\ failed' = failed
  /\ met' = met \cup {{r, q} : r \in Stepped, q \in {p \in Requests \ Stepped : InService(p)}}
  /\ used' = [p \in Ids |-> used[p] \cup {r \in Stepped : Completing(r) /\ job[r].op.row = p}]
  /\ proved' = proved \cup {p \in Ids : \E r \in Stepped :
                  job[r].pc = "guess.find" /\ job'[r].pc = "guess.mark" /\ job[r].op.row = p}
  /\ tried' = IF user'.failed = 3 /\ user.failed = 2 THEN now ELSE tried
  /\ under' = IF Cleared THEN {r \in Requests : InService(r)'} ELSE under \cap {r \in Requests : InService(r)'}
  /\ wiped' = IF Cleared THEN FALSE
              ELSE wiped \/ \E r \in Stepped \cap under : job[r].pc \in {"login.lock", "login.clear"}
  /\ moved' = {r \in (IF user'.password # user.password THEN Requests ELSE moved) : job'[r].pc \in Compared}
  /\ skipped' = skipped \cup {r \in Stepped :
       \/ job[r].pc = "change.read" /\ Locked(user)
       \/ job[r].pc \in {"login.reset", "login.clear"} /\ job'[r].pc = "change.write"}
  /\ turned' = IF Turned THEN now ELSE turned
  /\ outdated' = {r \in (IF Turned THEN Requests ELSE outdated) : job'[r].pc = "session.store"}
  /\ late' = IF \E r \in Stepped : Storing(r) THEN \E r \in Stepped \cap outdated : Storing(r) ELSE late
HSpec == HInit /\ [][HNext]_hvars
-----------------------------------------------------------------------------
Met(r, q) == r # q /\ {r, q} \in met
Verifies(r) == job[r].op.kind \in {"login", "change"}

\* With all logins ended, an account with three or more failures since it was
\* last cleared has been locked for at least 15 seconds after the third, whatever
\* failures overlapped, unless one of the requests failed or a request from
\* before the clearing wrote its lockout afterwards.
ThreeFailuresLock ==
  user.failed >= 3 /\ ~wiped /\ (\A r \in Requests : Verifies(r) => ~InService(r) /\ r \notin failed)
    => user.lockout >= tried + 1

\* A reset outlives four wrong codes, and one more for every request that is
\* about to delete it or failed to.
ResetAttemptsBounded ==
  \A p \in Ids : reset[p] # NoRow =>
    reset[p].attempts <= 4 + Cardinality({r \in Requests :
      job[r].op.row = p /\ (job[r].pc = "reset.delete" \/ r \in failed)})

\* A reset changes the password only after its code was entered right, and only
\* once unless two completions overlapped or the deletion of the row failed.
OneChangePerCode ==
  \A p \in Ids :
    /\ used[p] # {} => p \in proved
    /\ \A r, q \in used[p] : r # q => Met(r, q) \/ r \in failed \/ q \in failed

\* A password is replaced by another one (auth_service.rs: "La nueva contraseña
\* no puede ser igual a la actual", "... a la anterior"), unless yet another one
\* was written between the comparison and the write, or nothing was compared: a
\* change of credentials goes on to write when the account is locked at that
\* moment, and when the password was found to be the same but a statement that
\* clears the failures failed.
PasswordChanges ==
  [][\A r \in Stepped :
       job[r].pc \in {"complete.write", "change.write"} /\ user' # user
         => user'.password # user.password \/ r \in moved \/ r \in skipped]_hvars

\* A verdict that is taken from the cache holds of the account: it has access and
\* that role, and the token the verdict was made for is not revoked; or all that
\* was true less than 30 seconds ago; or it was read before the account turned and
\* stored after.  Of the token it is now taken for, which may be an older one,
\* RevokedTokensRefused says more.
VerdictsAgeOut ==
  [][\A r \in Stepped :
       job[r].pc = "session.cache" /\ job'[r].pc = "serve"
         => \/ user.active /\ job'[r].verdict.role = user.role /\ cache.iat >= user.invalidBefore
            \/ now < turned + Ttl \/ late]_hvars

\* What src/README.md:230 promises: a change or a forced reset of the password
\* revokes the tokens issued before.  Even the 30 seconds of the cache granted, and
\* verdicts stored late, it does not hold: calls with a newer token keep a verdict
\* in the cache that is taken for older tokens too.
RevokedTokensRefused ==
  [][\A r \in Stepped :
       job[r].pc = "session.cache" /\ job'[r].pc = "serve"
         => \/ job'[r].verdict.token.iat >= user.invalidBefore
            \/ now < turned + Ttl \/ late]_hvars
=============================================================================
