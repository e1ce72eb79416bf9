------------------------------- MODULE Devices -------------------------------
(***************************************************************************)
(* Push notifications: the device tokens of each user, and the sender that   *)
(* pushes a notice to them through FCM with an OAuth access token it caches. *)
(*                                                                          *)
(* A request is one mutation or one notice.  The event a notice records      *)
(* first is in SharedTask; here it begins with the tokens of its recipient.  *)
(* Every statement commits on its own; the statements and HTTP calls of      *)
(* different requests interleave.                                            *)
(*                                                                          *)
(* Time passes in ticks of 20 seconds and clocks are read to the tick.  The  *)
(* HTTP client gives a call up after 10 seconds: at most one tick passes     *)
(* while a call lasts.  Payloads and signatures are left out.                *)
(***************************************************************************)
EXTENDS Integers

CONSTANTS
  Requests,
  Users,
  Tokens,     \* device tokens, each of one installation of the app
  Lifetimes,  \* how long an access token may be valid
  MaxTime,    \* bound on the clock
  Scenarios,  \* the tokens registered at the start, and what each request is
  NoToken

Operations ==
  [kind : {"register", "unregister"}, user : Users, token : Tokens] \cup [kind : {"notify"}, user : Users]
ASSUME ScenariosAssumption ==
  \A s \in Scenarios : /\ s.device \subseteq Users \X Tokens
                       /\ \A p, q \in s.device : p[2] = q[2] => p = q
                       /\ s.operations \in [Requests -> Operations]
\* A token lives for more than 40 seconds; Google's live for an hour.
ASSUME LifetimesAssumption == Lifetimes \subseteq {n \in Nat : n > 2}
ASSUME MaxTimeAssumption == MaxTime \in Nat

VARIABLES
  device,  \* device_tokens
  cache,   \* the access token: until when it is valid, and is taken to be
  now,     \* the clock
  job      \* progress of each request

vars == <<device, cache, now, job>>

Margin == 3  \* a minute
Empty == [until |-> 0, expires |-> 0]
-----------------------------------------------------------------------------
First(op) == CASE op.kind = "register" -> "register.delete" [] OTHER -> op.kind

\* A request: its next statement or call, the tokens still to be pushed to and
\* the one at hand, an access token (valid for so long, until then), and when the
\* call began.
At(op, pc, queue, token) ==
  [op |-> op, pc |-> pc, queue |-> queue, token |-> token, life |-> 0, until |-> 0, since |-> 0]
InService(r) == job[r].pc \notin {First(job[r].op), "done"}

Goto(r, pc) ==
  job' = [job EXCEPT ![r] = At(job[r].op, pc, IF pc = "done" THEN {} ELSE job[r].queue,
                                              IF pc = "drop" THEN job[r].token ELSE NoToken)]
Statement(r, pc, to) ==
  /\ job[r].pc = pc
  /\ Goto(r, to)
  /\ UNCHANGED <<cache, now>>
Call(r, pc, until) ==
  job' = [job EXCEPT ![r].pc = pc, ![r].life = 0, ![r].until = until, ![r].since = now]
-----------------------------------------------------------------------------
\* A token is taken from other users, then registered.
\* (mutated form: it is not taken from them)
KeepOtherOwners(r) == Statement(r, "register.delete", "register.insert") /\ UNCHANGED device
DeleteOtherOwners(r) ==
  /\ Statement(r, "register.delete", "register.insert")
  /\ device' = {d \in device : d[2] = job[r].op.token => d[1] = job[r].op.user}
InsertOwner(r) ==
  /\ Statement(r, "register.insert", "done")
  /\ device' = device \cup {<<job[r].op.user, job[r].op.token>>}
UnregisterDeviceToken(r) ==
  /\ Statement(r, "unregister", "done")
  /\ device' = device \ {<<job[r].op.user, job[r].op.token>>}
-----------------------------------------------------------------------------
\* A notice is pushed to the tokens its recipient has, one after the other.
TokensForUser(r) ==
  /\ job[r].pc = "notify"
  /\ job' = [job EXCEPT ![r].pc = "next",
                        ![r].queue = {t \in Tokens : <<job[r].op.user, t>> \in device}]
  /\ UNCHANGED <<device, cache, now>>
NextToken(r) ==
  /\ job[r].pc = "next"
  /\ \/ job[r].queue = {} /\ Goto(r, "done")
     \/ \E t \in job[r].queue :
          job' = [job EXCEPT ![r].pc = "access", ![r].token = t, ![r].queue = @ \ {t}]
  /\ UNCHANGED <<device, cache, now>>

\* The cached access token is used if it is good for another minute; on the tick
\* of the limit it may be or not.
\* (mutated form: whatever is cached is used)
AccessTokenForEver(r) ==
  /\ job[r].pc = "access"
  /\ IF cache # Empty THEN Call(r, "push", cache.until) ELSE Call(r, "oauth", 0)
  /\ UNCHANGED <<device, cache, now>>
AccessToken(r) ==
  /\ job[r].pc = "access"
  /\ \/ cache.expires >= now + Margin /\ Call(r, "push", cache.until)
     \/ cache.expires <= now + Margin /\ Call(r, "oauth", 0)
  /\ UNCHANGED <<device, cache, now>>
GrantAccess(r) ==
  /\ job[r].pc = "oauth"
  /\ \E n \in Lifetimes :
       job' = [job EXCEPT ![r].pc = "oauth.answer", ![r].life = n, ![r].until = now + n]
  /\ UNCHANGED <<device, cache, now>>

\* The answer replaces whatever is cached by then.
StoreAccess(r) ==
  /\ job[r].pc = "oauth.answer"
  /\ cache' = [until |-> job[r].until,
               expires |-> now + (IF job[r].life > Margin THEN job[r].life - Margin ELSE 0)]
  /\ Call(r, "push", job[r].until)
  /\ UNCHANGED <<device, now>>

\* FCM takes the message, answers that the token is invalid, or anything else.
\* (mutated form: the first error ends the loop)
SendPushOnce(r) ==
  \E pc \in {"next", "drop", "done"} : Statement(r, "push", pc) /\ UNCHANGED device
SendPush(r) ==
  \E pc \in {"next", "drop"} : Statement(r, "push", pc) /\ UNCHANGED device
DropToken(r) ==
  /\ Statement(r, "drop", "next")
  /\ device' = {d \in device : d[2] # job[r].token}
-----------------------------------------------------------------------------
\* A call that fails or takes too long counts for one token only, and so does
\* the deletion of a token; any other statement that fails ends the request.
CallFails(r) ==
  \E pc \in {"oauth", "oauth.answer", "push", "drop"} : Statement(r, pc, "next") /\ UNCHANGED device
StatementFails(r) ==
  \E pc \in {First(job[r].op), "register.insert"} : Statement(r, pc, "done") /\ UNCHANGED device

\* The server stops and starts again with an empty cache.
Restart ==
  /\ cache' = Empty
  /\ job' = [r \in Requests |-> IF InService(r) THEN At(job[r].op, "done", {}, NoToken) ELSE job[r]]
  /\ UNCHANGED <<device, now>>

Tick ==
  /\ now < MaxTime
  /\ \A r \in Requests : job[r].pc \in {"oauth", "oauth.answer", "push"} => job[r].since = now
  /\ now' = now + 1
  /\ UNCHANGED <<device, cache, job>>

Register(r) == DeleteOtherOwners(r) \/ InsertOwner(r)
Notify(r) ==
  \/ TokensForUser(r) \/ NextToken(r)
  \/ AccessToken(r) \/ GrantAccess(r) \/ StoreAccess(r)
  \/ SendPush(r) \/ DropToken(r)
Serve(r) == Register(r) \/ UnregisterDeviceToken(r) \/ Notify(r) \/ CallFails(r)

Init ==
  \E s \in Scenarios :
    /\ device = s.device /\ cache = Empty /\ now = 0
    /\ job = [r \in Requests |-> At(s.operations[r], First(s.operations[r]), {}, NoToken)]
Next == (\E r \in Requests : Serve(r) \/ StatementFails(r)) \/ Restart \/ Tick
Spec == Init /\ [][Next]_vars
=============================================================================
