--------------------------- MODULE AccountsHistory ---------------------------
(***************************************************************************)
(* Accounts with history variables that tell which deviations a race or a    *)
(* failure excuses, and the properties.                                      *)
(***************************************************************************)
EXTENDS Accounts

VARIABLES
  met,     \* the pairs of requests one of which took a step while the other was served
  failed,  \* the requests of which a statement failed
  steady   \* the accounts active ever since each request arrived

hvars == <<vars, met, failed, steady>>

Active == {e \in Emails : HasAccount(e) /\ account[e].active}
Stepped == {r \in Requests : job'[r] # job[r]}

HInit == Init /\ met = {} /\ failed = {} /\ steady = [r \in Requests |-> {}]
HNext ==
  /\ \/ (\E r \in Requests : Serve(r)) /\ failed' = failed
     \/ \E r \in Requests : Fails(r) /\ failed' = failed \cup {r}
     \/ (\E p \in Ids : Expire(p)) /\ failed' = failed
  /\ met' = met \cup {{r, q} : r \in Stepped, q \in {p \in Requests \ Stepped : InService(p)}}
  /\ steady' = [r \in Requests |->
       IF InService(r)' THEN (IF InService(r) THEN steady[r] ELSE Active) \cap Active' ELSE {}]
HSpec == HInit /\ [][HNext]_hvars
-----------------------------------------------------------------------------
Met(r, q) == r # q /\ {r, q} \in met

\* The requests that decide about the role of an address, and those that work
\* on the same address or the same row of the catalog.
Decides(r, e) ==
  /\ job[r].op.kind \in {"verify", "listTeacher", "updateTeacher", "deleteTeacher"}
  /\ e \in {job[r].email, job[r].old}
RowOf(r) == IF job[r].op.kind \in {"updateTeacher", "deleteTeacher"} THEN job[r].op.row ELSE r
Interferes(q, r, e) == Met(q, r) /\ (Decides(q, e) \/ RowOf(q) = RowOf(r))
Settled(e) ==
  \A r \in Requests : Decides(r, e) =>
    ~InService(r) /\ r \notin failed /\ \A q \in Requests : ~Interferes(q, r, e)

\* An app user has the teacher's role exactly if its address is listed, whatever
\* registrations, listings, changes of address and deletions came before, unless
\* two requests about this address or its row overlapped or one of them failed.
RolesFollowCatalog ==
  \A e \in Emails :
    Settled(e) /\ HasAccount(e) /\ account[e].role \in {"STUDENT", "TEACHER"}
      => (account[e].role = "TEACHER" <=> Listed(e))

\* No change of the teacher catalog touches the role of an administrator
\* (teacher_service.rs: "Nunca toca cuentas administrativas").
AdminRolesAreFixed ==
  [][\A e \in Emails :
       HasAccount(e) /\ account[e].role \in {"ADMIN_HORARIOS", "SUPER_ADMIN"}
         => account'[e].role = account[e].role]_hvars

\* A registration outlives four wrong codes, and one more for every request
\* that is about to delete it or failed to.
AttemptsBounded ==
  \A p \in Ids : pending[p] # NoRow =>
    pending[p].attempts <= 4 + Cardinality({r \in Requests :
      job[r].row = p /\ (job[r].pc = "verify.delete" \/ r \in failed)})

\* An address has two registrations pending only if their requests overlapped
\* (pg_pending_registration_repo.rs: "Mantener un solo registro pendiente por correo").
OnePendingUnlessRaced ==
  \A p, q \in Ids :
    p # q /\ pending[p] # NoRow /\ pending[q] # NoRow /\ pending[p].email = pending[q].email
      => {p, q} \in met

\* There are two school years only if the first two to be set overlapped.
OneYearUnlessRaced == \A y, z \in years : y # z => {y, z} \in met

\* A domain is not removed from under an account that was active all the time
\* the removal took (config_service.rs: "existen usuarios activos asociados").
RemovalSparesActive ==
  [][\A r \in Stepped, d \in Domains :
       domain[d] # NoRow /\ domain'[d] = NoRow
         => \A e \in steady[r] : account'[e].active => DomainOf[e] # d]_hvars
=============================================================================
