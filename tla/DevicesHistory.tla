---------------------------- MODULE DevicesHistory ----------------------------
(***************************************************************************)
(* Devices with history variables that tell which requests overlapped and    *)
(* which tokens were tried, and the properties.                              *)
(***************************************************************************)
EXTENDS Devices

VARIABLES
  met,     \* the pairs of requests one of which took a step while the other was served
  failed,  \* the requests that a failing statement or a restart ended
  tried    \* the tokens each notice was sent to, or tried to be

hvars == <<vars, met, failed, tried>>

HInit == Init /\ met = {} /\ failed = {} /\ tried = [r \in Requests |-> {}]
Step(r) ==
  /\ Serve(r)
  /\ met' = met \cup {{r, q} : q \in {p \in Requests \ {r} : InService(p)}}
  /\ failed' = failed
  /\ tried' = [tried EXCEPT ![r] = @ \cup {t \in Tokens : job'[r].token = t}]
HNext ==
  \/ \E r \in Requests :
       \/ Step(r)
       \/ StatementFails(r) /\ failed' = failed \cup {r} /\ UNCHANGED <<met, tried>>
  \/ Restart /\ failed' = failed \cup {r \in Requests : InService(r)} /\ UNCHANGED <<met, tried>>
  \/ Tick /\ UNCHANGED <<met, failed, tried>>
HSpec == HInit /\ [][HNext]_hvars

\* Statements and calls are answered, or fail: the HTTP client has a timeout.
FairSpec == HSpec /\ \A r \in Requests : WF_hvars(Step(r))
-----------------------------------------------------------------------------
Registers(r, d) == job[r].op = [kind |-> "register", user |-> d[1], token |-> d[2]]

\* A device belongs to two users only if their registrations of it overlapped
\* (pg_collaboration_repo.rs: "Un token FCM es propiedad de UNA instalación"),
\* also if registrations fail half way.
OneOwnerUnlessRaced ==
  \A d, e \in device : d[2] = e[2] /\ d # e =>
    \E r, q \in Requests : Registers(r, d) /\ Registers(q, e) /\ {r, q} \in met

\* No push is under way with an access token that has run out, although late
\* answers replace newer tokens in the cache.
AccessTokensValid == \A r \in Requests : job[r].pc = "push" => now < job[r].until

\* A notice tries every device of its recipient, whatever happens with the
\* others: one that is not tried was taken away or the request was ended.
EveryDeviceIsTried ==
  \A r \in Requests, t \in Tokens :
    (job[r].pc = "notify" /\ <<job[r].op.user, t>> \in device)
      ~> (t \in tried[r] \/ <<job[r].op.user, t>> \notin device \/ r \in failed)
=============================================================================
