---------------------------- MODULE Devices_proofs ----------------------------
(***************************************************************************)
(* A device has one owner unless registrations overlapped, and no push goes  *)
(* out with an access token that has run out: for any users, devices,        *)
(* requests and lifetimes.                                                   *)
(***************************************************************************)
EXTENDS DevicesHistory, TLAPS

Pcs == {"register.delete", "register.insert", "unregister", "notify", "next", "access",
        "oauth", "oauth.answer", "push", "drop", "done"}
Jobs == [op : Operations, pc : Pcs, queue : SUBSET Tokens, token : Tokens \cup {NoToken},
         life : Nat, until : Nat, since : Nat]

Typed ==
  /\ device \subseteq Users \X Tokens
  /\ cache \in [until : Nat, expires : Nat] /\ now \in Nat
  /\ job \in [Requests -> Jobs]
  /\ \A r \in Requests :
       job[r].pc \in {"register.delete", "register.insert"} => job[r].op.kind = "register"

\* What is true of the owners of a token: two of them raced, and who is about to
\* become another one raced with those that are.
OwnerInv ==
  /\ OneOwnerUnlessRaced
  /\ \A r \in Requests, e \in device :
       /\ job[r].pc = "register.insert" /\ e[2] = job[r].op.token /\ e[1] # job[r].op.user
       => \E q \in Requests : Registers(q, e) /\ {r, q} \in met

\* A call lasts a tick at most; what is cached is taken to run out early enough;
\* what is pushed with does not run out while the call lasts.
ClockInv ==
  /\ cache.expires <= now \/ cache.expires + Margin <= cache.until + 1
  /\ \A r \in Requests :
       /\ job[r].pc \in {"oauth", "oauth.answer", "push"} =>
            job[r].since <= now /\ now <= job[r].since + 1
       /\ job[r].pc = "oauth.answer" => job[r].life > 2 /\ job[r].until >= job[r].since + job[r].life
       /\ job[r].pc = "push" => job[r].until > job[r].since + 1
-----------------------------------------------------------------------------
LEMMA FirstPc ==
  ASSUME NEW op \in Operations
  PROVE  /\ First(op) \in {"register.delete", "unregister", "notify"}
         /\ First(op) = "register.delete" => op.kind = "register"
BY DEF First, Operations

LEMMA AtTyped ==
  ASSUME NEW op \in Operations, NEW pc \in Pcs,
         NEW queue \in SUBSET Tokens, NEW token \in Tokens \cup {NoToken}
  PROVE  /\ At(op, pc, queue, token) \in Jobs
         /\ At(op, pc, queue, token).op = op /\ At(op, pc, queue, token).pc = pc
BY DEF At, Jobs

\* A step of one request leaves the others and its operation alone.
Alone(r) ==
  /\ job' \in [Requests -> Jobs]
  /\ job'[r].op = job[r].op
  /\ \A q \in Requests \ {r} : job'[q] = job[q]

LEMMA Going ==
  ASSUME Typed, NEW r \in Requests, NEW pc \in Pcs, Goto(r, pc)
  PROVE  Alone(r) /\ job'[r].pc = pc
<1>1. job[r] \in Jobs
  BY DEF Typed
<1>2. job[r].op \in Operations /\ job[r].queue \in SUBSET Tokens /\ job[r].token \in Tokens \cup {NoToken}
  BY <1>1 DEF Jobs
<1>. DEFINE queue == IF pc = "done" THEN {} ELSE job[r].queue
            token == IF pc = "drop" THEN job[r].token ELSE NoToken
<1>3. queue \in SUBSET Tokens /\ token \in Tokens \cup {NoToken}
  BY <1>2
<1>4. job' = [job EXCEPT ![r] = At(job[r].op, pc, queue, token)]
  BY DEF Goto
<1>. HIDE DEF queue, token
<1>5. job'[r] \in Jobs /\ job'[r].op = job[r].op /\ job'[r].pc = pc
  BY <1>2, <1>3, <1>4, AtTyped DEF Typed
<1>. QED
  BY <1>4, <1>5 DEF Typed, Alone

LEMMA Calling ==
  ASSUME Typed, NEW r \in Requests, NEW pc \in Pcs, NEW until \in Nat, Call(r, pc, until)
  PROVE  Alone(r) /\ job'[r].pc = pc /\ job'[r].until = until /\ job'[r].since = now
<1>1. job[r] \in Jobs
  BY DEF Typed
<1>2. job'[r] \in Jobs /\ job'[r].op = job[r].op /\ job'[r].pc = pc
      /\ job'[r].until = until /\ job'[r].since = now
  BY <1>1 DEF Call, Typed, Jobs
<1>. QED
  BY <1>2 DEF Call, Typed, Alone
-----------------------------------------------------------------------------
\* What each statement or call does to the progress of its request.
LEMMA Served ==
  ASSUME Typed, NEW r \in Requests, Serve(r)
  PROVE  /\ Alone(r)
         /\ job'[r].pc = "register.insert" => DeleteOtherOwners(r)
         /\ job'[r].pc # "register.delete"
<1>. job[r] \in Jobs
  BY DEF Typed
<1>1. CASE DeleteOtherOwners(r)
  <2>1. Goto(r, "register.insert") /\ "register.insert" \in Pcs
    BY <1>1 DEF DeleteOtherOwners, Statement, Pcs
  <2>. QED
    BY <1>1, <2>1, Going
<1>2. ASSUME NEW pc \in {"next", "drop", "done"}, Goto(r, pc)
      PROVE  Alone(r) /\ job'[r].pc \notin {"register.insert", "register.delete"}
  <2>1. pc \in Pcs /\ pc \notin {"register.insert", "register.delete"}
    BY <1>2 DEF Pcs
  <2>. QED
    BY <1>2, <2>1, Going
<1>3. CASE InsertOwner(r) \/ UnregisterDeviceToken(r) \/ SendPush(r) \/ DropToken(r) \/ CallFails(r)
  <2>1. PICK pc \in {"next", "drop", "done"} : Goto(r, pc)
    BY <1>3 DEF InsertOwner, UnregisterDeviceToken, SendPush, DropToken, CallFails, Statement
  <2>. QED
    BY <1>2, <2>1
<1>4. CASE TokensForUser(r)
  <2>. DEFINE queue == {t \in Tokens : <<job[r].op.user, t>> \in device}
  <2>1. job' = [job EXCEPT ![r].pc = "next", ![r].queue = queue] /\ queue \in SUBSET Tokens
    BY <1>4 DEF TokensForUser
  <2>. HIDE DEF queue
  <2>2. job'[r] \in Jobs /\ job'[r].op = job[r].op /\ job'[r].pc = "next"
    BY <2>1 DEF Typed, Jobs, Pcs
  <2>. QED
    BY <2>1, <2>2 DEF Alone, Typed
<1>5. CASE NextToken(r)
  <2>1. CASE Goto(r, "done")
    BY <1>2, <2>1
  <2>2. CASE \E t \in job[r].queue :
               job' = [job EXCEPT ![r].pc = "access", ![r].token = t, ![r].queue = @ \ {t}]
    <3>1. PICK t \in job[r].queue :
            job' = [job EXCEPT ![r].pc = "access", ![r].token = t, ![r].queue = @ \ {t}]
      BY <2>2
    <3>2. t \in Tokens /\ job[r].queue \ {t} \in SUBSET Tokens
      BY DEF Jobs
    <3>3. job'[r] \in Jobs /\ job'[r].op = job[r].op /\ job'[r].pc = "access"
      BY <3>1, <3>2 DEF Typed, Jobs, Pcs
    <3>. QED
      BY <3>1, <3>3 DEF Alone, Typed
  <2>. QED
    BY <1>5, <2>1, <2>2 DEF NextToken
<1>6. CASE AccessToken(r) \/ StoreAccess(r)
  <2>1. PICK pc \in {"push", "oauth"}, until \in {cache.until, 0, job[r].until} : Call(r, pc, until)
    BY <1>6 DEF AccessToken, StoreAccess
  <2>2. until \in Nat /\ pc \in Pcs
    BY <2>1 DEF Typed, Jobs, Pcs
  <2>. QED
    BY <2>1, <2>2, Calling
<1>7. CASE GrantAccess(r)
  <2>1. PICK n \in Lifetimes :
          job' = [job EXCEPT ![r].pc = "oauth.answer", ![r].life = n, ![r].until = now + n]
    BY <1>7 DEF GrantAccess
  <2>2. n \in Nat /\ now + n \in Nat
    BY LifetimesAssumption DEF Typed
  <2>3. job'[r] \in Jobs /\ job'[r].op = job[r].op /\ job'[r].pc = "oauth.answer"
    BY <2>1, <2>2 DEF Typed, Jobs, Pcs
  <2>. QED
    BY <2>1, <2>3 DEF Alone, Typed
<1>. QED
  BY <1>1, <1>3, <1>4, <1>5, <1>6, <1>7 DEF Serve, Register, Notify

\* Calls are made and answered by three actions.
LEMMA QuietStep ==
  ASSUME Typed, NEW r \in Requests, Serve(r), ~(AccessToken(r) \/ GrantAccess(r) \/ StoreAccess(r))
  PROVE  job'[r].pc \notin {"oauth", "oauth.answer", "push"}
<1>. job[r] \in Jobs
  BY DEF Typed
<1>1. ASSUME NEW pc \in {"register.insert", "next", "drop", "done"}, Goto(r, pc)
      PROVE  job'[r].pc \notin {"oauth", "oauth.answer", "push"}
  <2>1. pc \in Pcs /\ pc \notin {"oauth", "oauth.answer", "push"}
    BY <1>1 DEF Pcs
  <2>. QED
    BY <1>1, <2>1, Going
<1>2. CASE DeleteOtherOwners(r) \/ InsertOwner(r) \/ UnregisterDeviceToken(r) \/ SendPush(r)
             \/ DropToken(r) \/ CallFails(r)
  <2>1. PICK pc \in {"register.insert", "next", "drop", "done"} : Goto(r, pc)
    BY <1>2 DEF DeleteOtherOwners, InsertOwner, UnregisterDeviceToken, SendPush, DropToken, CallFails, Statement
  <2>. QED
    BY <1>1, <2>1
<1>3. CASE TokensForUser(r)
  BY <1>3 DEF TokensForUser, Typed, Jobs
<1>4. CASE NextToken(r)
  <2>1. CASE Goto(r, "done")
    BY <1>1, <2>1
  <2>2. CASE \E t \in job[r].queue :
               job' = [job EXCEPT ![r].pc = "access", ![r].token = t, ![r].queue = @ \ {t}]
    BY <2>2 DEF Typed, Jobs
  <2>. QED
    BY <1>4, <2>1, <2>2 DEF NextToken
<1>. QED
  BY <1>2, <1>3, <1>4 DEF Serve, Register, Notify

LEMMA ServeTyped ==
  ASSUME Typed, NEW r \in Requests, Serve(r)
  PROVE  Typed'
<1>1. job' \in [Requests -> Jobs] /\ Alone(r)
  BY Served DEF Alone
<1>2. \A q \in Requests :
        job'[q].pc \in {"register.delete", "register.insert"} => job'[q].op.kind = "register"
  <2>1. job'[r].pc \in {"register.delete", "register.insert"} => job'[r].op.kind = "register"
    BY Served DEF DeleteOtherOwners, Statement, Typed, Alone
  <2>. QED
    BY <2>1, <1>1 DEF Typed, Alone
<1>3. device' \subseteq Users \X Tokens
  <2>1. CASE InsertOwner(r)
    <3>1. job[r].pc = "register.insert" /\ device' = device \cup {<<job[r].op.user, job[r].op.token>>}
      BY <2>1 DEF InsertOwner, Statement
    <3>2. job[r].op \in Operations /\ job[r].op.kind = "register"
      BY <3>1 DEF Typed, Jobs
    <3>3. <<job[r].op.user, job[r].op.token>> \in Users \X Tokens
      BY <3>2 DEF Operations
    <3>. QED
      BY <3>1, <3>3 DEF Typed
  <2>2. CASE ~InsertOwner(r)
    BY <2>2 DEF Typed, Serve, Register, Notify, DeleteOtherOwners, UnregisterDeviceToken, TokensForUser,
         NextToken, AccessToken, GrantAccess, StoreAccess, SendPush, DropToken, CallFails
  <2>. QED
    BY <2>1, <2>2
<1>4. now' = now /\ cache' \in [until : Nat, expires : Nat]
  <2>1. CASE StoreAccess(r)
    <3>1. job[r].life \in Nat /\ job[r].until \in Nat /\ now \in Nat
      BY DEF Typed, Jobs
    <3>. QED
      BY <2>1, <3>1 DEF StoreAccess, Call, Margin
  <2>2. CASE ~StoreAccess(r)
    BY <2>2 DEF Typed, Serve, Register, Notify, DeleteOtherOwners, InsertOwner, UnregisterDeviceToken,
         TokensForUser, NextToken, AccessToken, GrantAccess, SendPush, DropToken, CallFails, Statement
  <2>. QED
    BY <2>1, <2>2
<1>. QED
  BY <1>1, <1>2, <1>3, <1>4 DEF Typed

\* A failing statement or a restart ends requests, and changes no device.
Ending ==
  /\ device' = device /\ job' \in [Requests -> Jobs]
  /\ \A q \in Requests : job'[q].op = job[q].op /\ (job'[q] = job[q] \/ job'[q].pc = "done")

LEMMA StatementFailing ==
  ASSUME Typed, NEW r \in Requests, StatementFails(r)
  PROVE  Ending /\ UNCHANGED <<cache, now>>
<1>1. Goto(r, "done") /\ "done" \in Pcs /\ UNCHANGED <<device, cache, now>>
  BY DEF StatementFails, Statement, Pcs
<1>2. Alone(r) /\ job'[r].pc = "done"
  BY <1>1, Going
<1>. QED
  BY <1>1, <1>2 DEF Alone, Ending

LEMMA Restarting ==
  ASSUME Typed, Restart
  PROVE  Ending /\ cache' = Empty /\ now' = now
<1>1. ASSUME NEW q \in Requests
      PROVE  /\ job'[q] \in Jobs /\ job'[q].op = job[q].op
             /\ job'[q] = job[q] \/ job'[q].pc = "done"
  <2>1. job[q] \in Jobs /\ job[q].op \in Operations
    BY DEF Typed, Jobs
  <2>2. "done" \in Pcs /\ {} \in SUBSET Tokens /\ NoToken \in Tokens \cup {NoToken}
    BY DEF Pcs
  <2>3. job'[q] = IF InService(q) THEN At(job[q].op, "done", {}, NoToken) ELSE job[q]
    BY DEF Restart
  <2>. QED
    BY <2>1, <2>2, <2>3, AtTyped
<1>2. job' = [q \in Requests |-> job'[q]]
  BY DEF Restart
<1>. QED
  BY <1>1, <1>2 DEF Restart, Ending

LEMMA EndingTyped ==
  ASSUME Typed, Ending, cache' \in [until : Nat, expires : Nat], now' \in Nat
  PROVE  Typed'
BY DEF Typed, Ending

LEMMA EmptyTyped == Empty \in [until : Nat, expires : Nat]
BY DEF Empty

LEMMA InitTyped ==
  ASSUME Init
  PROVE  /\ Typed
         /\ \A r \in Requests : job[r].pc \in {"register.delete", "unregister", "notify"}
<1>1. PICK s \in Scenarios :
        /\ device = s.device /\ cache = Empty /\ now = 0
        /\ job = [r \in Requests |-> At(s.operations[r], First(s.operations[r]), {}, NoToken)]
  BY DEF Init
<1>2. device \subseteq Users \X Tokens /\ s.operations \in [Requests -> Operations]
  BY <1>1, ScenariosAssumption
<1>3. ASSUME NEW r \in Requests
      PROVE  /\ job[r] \in Jobs
             /\ job[r].pc \in {"register.delete", "unregister", "notify"}
             /\ job[r].pc \in {"register.delete", "register.insert"} => job[r].op.kind = "register"
  <2>. DEFINE op == s.operations[r]
  <2>1. op \in Operations
    BY <1>2
  <2>2. First(op) \in {"register.delete", "unregister", "notify"}
        /\ (First(op) = "register.delete" => op.kind = "register")
    BY <2>1, FirstPc
  <2>3. First(op) \in Pcs /\ {} \in SUBSET Tokens /\ NoToken \in Tokens \cup {NoToken}
    BY <2>2 DEF Pcs
  <2>4. job[r] = At(op, First(op), {}, NoToken)
    BY <1>1
  <2>5. job[r] \in Jobs /\ job[r].op = op /\ job[r].pc = First(op)
    BY <2>1, <2>3, <2>4, AtTyped
  <2>. QED
    BY <2>2, <2>5
<1>4. job \in [Requests -> Jobs]
  BY <1>1, <1>3
<1>. QED
  BY <1>1, <1>2, <1>3, <1>4, EmptyTyped DEF Typed

\* The state has its types.
LEMMA NextTyped ==
  ASSUME Typed, [HNext]_hvars
  PROVE  Typed'
<1>1. CASE UNCHANGED hvars
  BY <1>1 DEF hvars, vars, Typed
<1>2. ASSUME NEW r \in Requests, Step(r)
      PROVE  Typed'
  BY <1>2, ServeTyped DEF Step
<1>3. ASSUME NEW r \in Requests, StatementFails(r)
      PROVE  Typed'
  BY <1>3, StatementFailing, EndingTyped DEF Typed
<1>4. CASE Restart
  BY <1>4, Restarting, EndingTyped, EmptyTyped DEF Typed
<1>5. CASE Tick
  BY <1>5 DEF Tick, Typed
<1>. QED
  BY <1>1, <1>2, <1>3, <1>4, <1>5 DEF HNext

LEMMA TypedAlways == HSpec => []Typed
<1>1. HInit => Typed
  BY InitTyped DEF HInit
<1>. QED
  BY <1>1, NextTyped, PTL DEF HSpec
-----------------------------------------------------------------------------
\* Two owners that raced did.
LEMMA Raced ==
  ASSUME OneOwnerUnlessRaced, met \subseteq met', \A q \in Requests : job'[q].op = job[q].op,
         NEW d \in device, NEW e \in device, d[2] = e[2], d # e
  PROVE  \E p, q \in Requests : Registers(p, d)' /\ Registers(q, e)' /\ {p, q} \in met'
<1>1. PICK p \in Requests, q \in Requests : Registers(p, d) /\ Registers(q, e) /\ {p, q} \in met
  BY DEF OneOwnerUnlessRaced
<1>2. Registers(p, d)' /\ Registers(q, e)'
  BY <1>1 DEF Registers
<1>. QED
  BY <1>1, <1>2

\* A step that adds no device and brings no request to the point of adding one.
LEMMA OwnersKept ==
  ASSUME OwnerInv, device' \subseteq device, met \subseteq met',
         \A q \in Requests : job'[q].op = job[q].op,
         \A q \in Requests : job'[q].pc = "register.insert" => job[q].pc = "register.insert"
  PROVE  OwnerInv'
<1>1. \A q \in Requests : \A d : Registers(q, d) => Registers(q, d)'
  BY DEF Registers
<1>2. OneOwnerUnlessRaced'
  <2>. SUFFICES ASSUME NEW d \in device', NEW e \in device', d[2] = e[2], d # e
       PROVE  \E p, q \in Requests : Registers(p, d)' /\ Registers(q, e)' /\ {p, q} \in met'
    BY DEF OneOwnerUnlessRaced
  <2>. QED
    BY Raced DEF OwnerInv
<1>3. ASSUME NEW r \in Requests, NEW e \in device',
             job'[r].pc = "register.insert", e[2] = job'[r].op.token, e[1] # job'[r].op.user
      PROVE  \E q \in Requests : Registers(q, e)' /\ {r, q} \in met'
  BY <1>1, <1>3 DEF OwnerInv
<1>. QED
  BY <1>2, <1>3 DEF OwnerInv

\* Nobody else owns a token that was just taken away.
LEMMA DeletionRaces ==
  ASSUME Typed, OwnerInv, NEW r \in Requests, Alone(r), DeleteOtherOwners(r), met \subseteq met'
  PROVE  OwnerInv'
<1>1. \A q \in Requests : \A d : Registers(q, d) => Registers(q, d)'
  BY DEF Registers, Alone
<1>2. device' = {d \in device : d[2] = job[r].op.token => d[1] = job[r].op.user}
  BY DEF DeleteOtherOwners
<1>3. OneOwnerUnlessRaced'
  <2>. SUFFICES ASSUME NEW d \in device', NEW e \in device', d[2] = e[2], d # e
       PROVE  \E p, q \in Requests : Registers(p, d)' /\ Registers(q, e)' /\ {p, q} \in met'
    BY DEF OneOwnerUnlessRaced
  <2>1. \A q \in Requests : job'[q].op = job[q].op
    BY DEF Alone
  <2>. QED
    BY <1>2, <2>1, Raced DEF OwnerInv
<1>4. ASSUME NEW p \in Requests, NEW e \in device',
             job'[p].pc = "register.insert", e[2] = job'[p].op.token, e[1] # job'[p].op.user
      PROVE  \E q \in Requests : Registers(q, e)' /\ {p, q} \in met'
  <2>1. p # r /\ job'[p] = job[p] /\ e \in device
    BY <1>2, <1>4 DEF Alone
  <2>. QED
    BY <1>1, <1>4, <2>1 DEF OwnerInv
<1>. QED
  BY <1>3, <1>4 DEF OwnerInv

\* Who becomes an owner has raced with the others, and now has with everybody
\* who is about to become one.
LEMMA InsertionRaces ==
  ASSUME Typed, OwnerInv, NEW r \in Requests, Alone(r), InsertOwner(r), Step(r),
         job'[r].pc # "register.insert"
  PROVE  OwnerInv'
<1>. DEFINE new == <<job[r].op.user, job[r].op.token>>
<1>1. job[r].pc = "register.insert" /\ device' = device \cup {new} /\ met \subseteq met'
  BY DEF InsertOwner, Statement, Step
<1>2. \A q \in Requests : \A d : Registers(q, d) => Registers(q, d)'
  BY DEF Registers, Alone
<1>3. Registers(r, new)
  <2>1. job[r].op \in Operations /\ job[r].op.kind = "register"
    BY <1>1 DEF Typed, Jobs
  <2>2. job[r].op \in [kind : {"register", "unregister"}, user : Users, token : Tokens]
    BY <2>1 DEF Operations
  <2>. QED
    BY <2>1, <2>2 DEF Registers
<1>4. ASSUME NEW e \in device, e[2] = new[2], e # new
      PROVE  \E q \in Requests : Registers(q, e) /\ {r, q} \in met
  <2>1. e[1] # job[r].op.user /\ e[2] = job[r].op.token
    BY <1>4 DEF Typed
  <2>. QED
    BY <1>1, <2>1 DEF OwnerInv
<1>5. OneOwnerUnlessRaced'
  <2>. SUFFICES ASSUME NEW d \in device', NEW e \in device', d[2] = e[2], d # e
       PROVE  \E p, q \in Requests : Registers(p, d)' /\ Registers(q, e)' /\ {p, q} \in met'
    BY DEF OneOwnerUnlessRaced
  <2>1. CASE d \in device /\ e \in device
    <3>1. \A q \in Requests : job'[q].op = job[q].op
      BY DEF Alone
    <3>. QED
      BY <1>1, <2>1, <3>1, Raced DEF OwnerInv
  <2>2. CASE d = new /\ e \in device
    BY <1>1, <1>2, <1>3, <1>4, <2>2
  <2>3. CASE e = new /\ d \in device
    <3>1. PICK q \in Requests : Registers(q, d) /\ {r, q} \in met
      BY <1>4, <2>3
    <3>2. {q, r} \in met'
      <4>1. {q, r} = {r, q}
        OBVIOUS
      <4>. QED
        BY <1>1, <3>1, <4>1
    <3>. QED
      BY <1>2, <1>3, <2>3, <3>1, <3>2
  <2>. QED
    BY <1>1, <2>1, <2>2, <2>3
<1>6. ASSUME NEW p \in Requests, NEW e \in device',
             job'[p].pc = "register.insert", e[2] = job'[p].op.token, e[1] # job'[p].op.user
      PROVE  \E q \in Requests : Registers(q, e)' /\ {p, q} \in met'
  <2>1. p # r /\ job'[p] = job[p]
    BY <1>6 DEF Alone
  <2>2. CASE e \in device
    BY <1>1, <1>2, <1>6, <2>1, <2>2 DEF OwnerInv
  <2>3. CASE e = new
    <3>1. InService(p)
      BY <1>6, <2>1, FirstPc DEF InService, Typed, Jobs
    <3>2. {r, p} \in met' /\ {r, p} = {p, r}
      BY <2>1, <3>1 DEF Step
    <3>. QED
      BY <1>2, <1>3, <2>3, <3>2
  <2>. QED
    BY <1>1, <2>2, <2>3
<1>. QED
  BY <1>5, <1>6 DEF OwnerInv

\* Users own a device together only if their registrations of it overlapped.
THEOREM OneOwnerCorrect == HSpec => []OneOwnerUnlessRaced
<1>1. HInit => OwnerInv
  <2>. SUFFICES ASSUME HInit  PROVE OwnerInv
    OBVIOUS
  <2>1. \A d, e \in device : d[2] = e[2] => d = e
    BY ScenariosAssumption DEF HInit, Init
  <2>. QED
    BY <2>1, InitTyped DEF HInit, OwnerInv, OneOwnerUnlessRaced
<1>2. ASSUME Typed, OwnerInv, [HNext]_hvars  PROVE OwnerInv'
  <2>1. CASE UNCHANGED hvars
    BY <1>2, <2>1, OwnersKept DEF hvars, vars
  <2>2. ASSUME NEW r \in Requests, Step(r)  PROVE OwnerInv'
    <3>1. Alone(r) /\ met \subseteq met' /\ (job'[r].pc = "register.insert" => DeleteOtherOwners(r))
      BY <1>2, <2>2, Served DEF Step
    <3>2. CASE DeleteOtherOwners(r)
      BY <1>2, <3>1, <3>2, DeletionRaces
    <3>3. CASE InsertOwner(r)
      <4>1. job'[r].pc # "register.insert"
        BY <1>2, <3>1, <3>3 DEF InsertOwner, DeleteOtherOwners, Statement
      <4>. QED
        BY <1>2, <2>2, <3>1, <3>3, <4>1, InsertionRaces
    <3>4. CASE ~DeleteOtherOwners(r) /\ ~InsertOwner(r)
      <4>1. device' \subseteq device
        BY <1>2, <2>2, <3>4 DEF Step, Serve, Register, Notify, UnregisterDeviceToken, TokensForUser, NextToken,
             AccessToken, GrantAccess, StoreAccess, SendPush, DropToken, CallFails
      <4>2. \A q \in Requests : /\ job'[q].op = job[q].op
                                /\ job'[q].pc = "register.insert" => job[q].pc = "register.insert"
        BY <1>2, <3>1, <3>4 DEF Alone
      <4>. QED
        BY <1>2, <3>1, <4>1, <4>2, OwnersKept
    <3>. QED
      BY <1>2, <3>2, <3>3, <3>4
  <2>3. CASE Ending /\ met' = met
    BY <1>2, <2>3, OwnersKept DEF Ending
  <2>4. CASE Tick /\ met' = met
    BY <1>2, <2>4, OwnersKept DEF Tick
  <2>. QED
    BY <1>2, <2>1, <2>2, <2>3, <2>4, StatementFailing, Restarting DEF HNext
<1>3. OwnerInv => OneOwnerUnlessRaced
  BY DEF OwnerInv
<1>. QED
  BY <1>1, <1>2, <1>3, TypedAlways, PTL DEF HSpec
-----------------------------------------------------------------------------
\* A request whose step neither makes nor answers a call.
LEMMA ClocksKept ==
  ASSUME Typed, ClockInv, cache' = cache, now' = now,
         \A q \in Requests : job'[q] = job[q] \/ job'[q].pc \notin {"oauth", "oauth.answer", "push"}
  PROVE  ClockInv'
BY DEF ClockInv

\* What is cached is good for the time a push takes.
LEMMA AccessTimed ==
  ASSUME Typed, ClockInv, NEW r \in Requests, AccessToken(r)
  PROVE  ClockInv'
<1>1. now \in Nat /\ cache.until \in Nat /\ cache.expires \in Nat /\ cache' = cache /\ now' = now
  BY DEF Typed, AccessToken
<1>2. CASE cache.expires >= now + Margin /\ Call(r, "push", cache.until)
  <2>1. Alone(r) /\ job'[r].pc = "push" /\ job'[r].until = cache.until /\ job'[r].since = now
    BY <1>1, <1>2, Calling DEF Pcs
  <2>2. cache.until > now + 1
    BY <1>1, <1>2 DEF ClockInv, Margin
  <2>. QED
    BY <1>1, <2>1, <2>2 DEF ClockInv, Alone
<1>3. CASE Call(r, "oauth", 0)
  <2>1. Alone(r) /\ job'[r].pc = "oauth" /\ job'[r].since = now
    BY <1>1, <1>3, Calling DEF Pcs
  <2>. QED
    BY <1>1, <2>1 DEF ClockInv, Alone
<1>. QED
  BY <1>2, <1>3 DEF AccessToken

\* A lifetime is counted from the moment the token is granted, ...
LEMMA GrantTimed ==
  ASSUME Typed, ClockInv, NEW r \in Requests, GrantAccess(r)
  PROVE  ClockInv'
<1>1. PICK n \in Lifetimes :
        job' = [job EXCEPT ![r].pc = "oauth.answer", ![r].life = n, ![r].until = now + n]
  BY DEF GrantAccess
<1>2. n \in Nat /\ n > 2 /\ now \in Nat /\ job[r].since \in Nat /\ job[r] \in Jobs
  BY LifetimesAssumption DEF Typed, Jobs
<1>3. job[r].since <= now /\ now <= job[r].since + 1 /\ cache' = cache /\ now' = now
  BY DEF GrantAccess, ClockInv
<1>4. /\ job'[r].pc = "oauth.answer" /\ job'[r].life = n /\ job'[r].until = now + n
      /\ job'[r].since = job[r].since
  BY <1>1, <1>2 DEF Typed, Jobs
<1>5. \A q \in Requests \ {r} : job'[q] = job[q]
  BY <1>1 DEF Typed
<1>. QED
  BY <1>2, <1>3, <1>4, <1>5 DEF ClockInv

\* ... by the cache from a later one, but with a margin.
LEMMA StoreTimed ==
  ASSUME Typed, ClockInv, NEW r \in Requests, StoreAccess(r)
  PROVE  ClockInv'
<1>1. /\ now \in Nat /\ job[r].until \in Nat /\ job[r].life \in Nat /\ job[r].since \in Nat
      /\ job[r].pc = "oauth.answer"
  BY DEF Typed, Jobs, StoreAccess
<1>2. /\ now' = now /\ cache'.until = job[r].until
      /\ cache'.expires = now + (IF job[r].life > Margin THEN job[r].life - Margin ELSE 0)
      /\ Call(r, "push", job[r].until)
  BY DEF StoreAccess
<1>3. Alone(r) /\ job'[r].pc = "push" /\ job'[r].until = job[r].until /\ job'[r].since = now
  BY <1>1, <1>2, Calling DEF Pcs
<1>4. job[r].life > 2 /\ job[r].until >= job[r].since + job[r].life /\ now <= job[r].since + 1
  BY <1>1 DEF ClockInv
<1>5. cache'.expires <= now \/ cache'.expires + Margin <= cache'.until + 1
  BY <1>1, <1>2, <1>4 DEF Margin
<1>6. job'[r].until > now + 1
  BY <1>1, <1>3, <1>4
<1>. QED
  BY <1>2, <1>3, <1>5, <1>6, <1>1 DEF ClockInv, Alone

\* No push is under way with an access token that has run out.
THEOREM AccessTokensCorrect == HSpec => []AccessTokensValid
<1>1. HInit => ClockInv
  BY InitTyped DEF HInit, Init, ClockInv, Empty
<1>2. ASSUME Typed, ClockInv, [HNext]_hvars  PROVE ClockInv'
  <2>1. CASE UNCHANGED hvars
    BY <1>2, <2>1, ClocksKept DEF hvars, vars
  <2>2. ASSUME NEW r \in Requests, Step(r)  PROVE ClockInv'
    <3>1. Alone(r) /\ Serve(r)
      BY <1>2, <2>2, Served DEF Step
    <3>2. CASE AccessToken(r) \/ GrantAccess(r) \/ StoreAccess(r)
      BY <1>2, <3>2, AccessTimed, GrantTimed, StoreTimed
    <3>3. CASE ~(AccessToken(r) \/ GrantAccess(r) \/ StoreAccess(r))
      <4>1. cache' = cache /\ now' = now
        BY <1>2, <3>1, <3>3 DEF Serve, Register, Notify, DeleteOtherOwners, InsertOwner, UnregisterDeviceToken,
             TokensForUser, NextToken, SendPush, DropToken, CallFails, Statement
      <4>2. job'[r].pc \notin {"oauth", "oauth.answer", "push"}
        BY <1>2, <3>1, <3>3, QuietStep
      <4>. QED
        BY <1>2, <3>1, <4>1, <4>2, ClocksKept DEF Alone
    <3>. QED
      BY <1>2, <3>2, <3>3
  <2>3. ASSUME NEW r \in Requests, StatementFails(r)  PROVE ClockInv'
    BY <1>2, <2>3, StatementFailing, ClocksKept DEF Ending
  <2>4. CASE Restart
    <3>1. Ending /\ cache' = Empty /\ now' = now
      BY <1>2, <2>4, Restarting
    <3>. QED
      BY <1>2, <3>1 DEF ClockInv, Ending, Empty, Typed
  <2>5. CASE Tick
    <3>1. now' = now + 1 /\ cache' = cache /\ job' = job /\ now \in Nat
      BY <1>2, <2>5 DEF Tick, Typed
    <3>2. /\ cache.expires \in Nat /\ cache.until \in Nat
          /\ \A r \in Requests : /\ job[r].since \in Nat
                                 /\ job[r].pc \in {"oauth", "oauth.answer", "push"} => job[r].since = now
      BY <1>2, <2>5 DEF Tick, Typed, Jobs
    <3>. QED
      BY <1>2, <3>1, <3>2 DEF ClockInv
  <2>. QED
    BY <1>2, <2>1, <2>2, <2>3, <2>4, <2>5 DEF HNext
<1>3. Typed /\ ClockInv => AccessTokensValid
  <2>. SUFFICES ASSUME Typed, ClockInv, NEW r \in Requests, job[r].pc = "push"
       PROVE  now < job[r].until
    BY DEF AccessTokensValid
  <2>1. now \in Nat /\ job[r].since \in Nat /\ job[r].until \in Nat
    BY DEF Typed, Jobs
  <2>. QED
    BY <2>1 DEF ClockInv
<1>. QED
  BY <1>1, <1>2, <1>3, TypedAlways, PTL DEF HSpec
=============================================================================
