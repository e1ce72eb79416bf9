# EduSync CAT: a TLA+ verification development

EduSync CAT is a Rust backend (Axum, async-graphql, SQLx over PostgreSQL) with
an Angular frontend that administers a university's schedule, and the server
side of EduSync DOG, the mobile app whose users share tasks with each other.
This directory holds TLA+ models of its core logic, the TLC configurations that
check them on small instances, and proofs, checked by TLAPS, of what matters
most for instances of any size.

How to run (inside this directory):

    tlc -workers 2 -config SharedTask_leaving.cfg MCSharedTaskHistory.tla
    tlapm SharedTask_proofs.tla

`PROJECT.json` lists every run with its module and configuration, the source
lines each definition stands for, and a mutated form of some definition for
every property, under which TLC finds the property violated.

## 1. The system

All state is in PostgreSQL (and, for the realtime part, in browser memory). A
GraphQL mutation runs as one tokio task on a connection pool; with few
exceptions each SQL statement commits on its own, so **two requests interleave
between any two statements**. Only `share_task`, `forward_share`, `unlink_recipient` and
`unlink_owner` use transactions. Isolation is READ COMMITTED.

| Component | State | Operations | Hard behaviour | What makes it correct |
|---|---|---|---|---|
| Shared tasks (`collaboration_service.rs`, `pg_collaboration_repo.rs`) | `shared_tasks`, `shared_task_recipients`, `task_reminders`, `notification_events` | share, respond, complete, mark sub-state, remind, forward, unlink, archive, acknowledge a notice | row locks in different orders, deadlock, test and write in separate statements, notices after the commit, server stops | nobody loses an accepted copy by somebody else's act; no invitation outlives the last participant; affected people are told; quota |
| Schedule slots (`schedule_service.rs`, `pg_schedule_slot_repo.rs`) | `schedule_slots` | create, create many, upload, overwrite, update, remove, publish | three conflict queries, deletions and the INSERT are separate statements | no teacher, room or group in two places at once; an overwrite deletes only what collides |
| Schedule upload (`excel_service.rs`) | a snapshot of the catalogs | parse, resolve, create groups, bulk insert | the snapshot is stale at the insert | every row refers to catalog entries that exist |
| Registration, reset, login (`auth_service.rs`) | `users`, `pending_registrations`, `password_resets` | register, verify, resend, reset, login, change password | DELETE then INSERT, attempts counted after the test, lockout ladder | five attempts per code; a lockout holds; a code is used once |
| Session validation (`middleware.rs`, `jwt.rs`, `auth.service.ts`) | 30 s cache of validated tokens, `tokens_invalid_before` | validate, revoke, revalidate | cached verdict used after a revocation | a verdict outlives what it says of the account by less than the cache's time; that a revoked token stops working is promised, and violated (section 3) |
| User administration (`user_service.rs`) | `users` | create, disable, reactivate, force reset | races with login and reset | a disabled account cannot act |
| Teachers and account roles (`teacher_service.rs`) | `teachers`, `users.role` | create, update, delete, promote, demote | catalog and role in separate tables and statements | an account is a teacher's exactly if its address is in the catalog |
| Groups (`group_service.rs`) | forest `groups` | create, update, delete | two updates pass the cycle test together | no cycle; no slot loses its group |
| Subjects, buildings, classrooms | one table each | create, update, delete | constraints do the work | UNIQUE and FOREIGN KEY |
| Configuration (`config_service.rs`) | `allowed_domains`, `school_years` | add, remove, set | used-domain test and delete | no account of a domain that is gone |
| Realtime events and query cache (`realtime.rs`, `realtime-sync.service.ts`, `realtime-query-cache.service.ts`) | broadcast channel, scope revisions, cached results, requests in flight | publish, subscribe, reconnect, load, refresh, clear | lagging subscriber, reconnection gap, queries that have read before the announcement they answer | what is shown becomes what is stored |
| Push and device tokens (`fcm/sender.rs`) | `device_tokens`, OAuth token | register, send, drop | token moves to another user during a send | one owner per token |
| Audit log, files and backups, start-up, e-mail, public endpoint, pages | | | | not modelled: see section 7 |

Interactions: mutations call a domain service, which calls repositories and
other services (upload → schedule; teachers → users; collaboration → push).
After success a mutation writes an audit row and publishes the scopes it
touched on a broadcast channel; WebSocket clients count events per scope, and
the frontend's cache compares these counters. Session validation reads `users`
through a cache.

## 2. Modules

| Module | Models |
|---|---|
| `Membership` | abstract promise: how each person stands with a task, every operation one step |
| `SharedTask` | one shared task, statement by statement, with PostgreSQL's row locks |
| `SharedTaskHistory` | the same with five history variables: which open invitations escape the cancellations, who was left alone, who was cut off, whether the owner has held a copy, whether a notice was lost |
| `MCSharedTask`, `MCSharedTaskHistory` | instances for TLC |
| `Timetable` | abstract promise: the timetable with every request a single step |
| `Schedule` | `schedule_slots` and the requests that write blocks, statement by statement |
| `ScheduleRaces` | the same with three history variables: what was written while a request was served, which pairs of rows were never compared, which were entered together |
| `MCSchedule` | an instance for TLC |
| `Accounts` | who has an account and with which role: registration, teacher catalog, administrators, domains, school year |
| `Credentials` | one account's password, lockout, resets, tokens and the cache of validated sessions, with a clock |
| `Catalog` | groups, subjects, buildings and classrooms, the upload that resolves lines against a snapshot of them, and the blocks written by hand |
| `Devices` | device tokens and the push sender with its cached OAuth token, with a clock |
| `RealtimeCache` | the channel that announces changes, the subscription of a browser, the query cache and the page that shows a query |
| `AccountsHistory`, `CredentialsHistory`, `CatalogHistory`, `DevicesHistory`, `RealtimeHistory` | the same with history variables (which requests overlapped, which failed, …), and the properties |
| `MCAccounts`, `MCCredentials`, `MCCatalog`, `MCDevices`, `MCRealtime` | instances for TLC |
| `SharedTask_proofs` | theorems: types, and the quota of reminders |
| `SharedTaskLocking_proofs` | theorems: what the locks give, the refinement of `Membership`, the invitations left behind, who is left alone |
| `ScheduleRaces_proofs`, `Accounts_proofs`, `Credentials_proofs`, `Catalog_proofs`, `Devices_proofs`, `Realtime_proofs` | theorems about each of these components |

Composition: the services share the database but hardly any rows, so each
module owns its tables. `SharedTask` and `Membership`, `ScheduleRaces` and
`Timetable` are composed by refinement; `Catalog` composes the catalogs with the upload, the mutations of single blocks and the blocks that
name them, leaving to `Schedule` how collisions are searched; `Accounts`
composes registration, the teacher catalog, administration and configuration,
which all write `users.role` and `users.active`; `Credentials` composes login,
resets, administration and session validation, which all write one row of
`users`; `Devices` begins where a notice of `SharedTask` has been recorded, and
`RealtimeCache` where a mutation of any other module has committed.

### SharedTask

`row[u]` is the recipient row of person `u` (status NONE stands for no row),
`ownerLink` the task row with `owner_unlinked_at`, `reminders` the reminders of
the last 24 hours, `events` the unacknowledged notices. `taskLock`, `keyShare`
and `rowLock` are locks: FOR UPDATE and row updates, and the FOR KEY SHARE lock
that an INSERT takes on the task through its foreign key. `job[r]` is a request:
its next statement (`pc`), its caller, and what it has read or written so far.

The variables hold committed data; what an open transaction has written is in
its job's `hit`, guarded by locks, and appears at its commit. This is READ
COMMITTED: readers see committed rows, a writer waits for the row lock and
tests its WHERE again (`StillPending`, `Answer`).

Each mutation is a chain of actions in the order of its statements: e.g. unlink
is `UnlinkArrives`, `UnlinkRecipient` or `UnlinkOwner` (or
`UnlinkFindsNothing`), `LockTask`, `CountActive`, `SnapPending`,
`CancelInvitation` per invitation, `UnlinkCommits`, then one `EmitEvent` per
notice, then `UnlinkFindsSurvivor` and its notice. The search for the survivor comes
after the commit and may fail, which ends the call without that notice. `DeadlockVictim` rolls back
a member of a cycle of waiting transactions, `ServerStops` ends all requests
where they are, and a failing notice INSERT is ignored, as `emit_durable` does.

Abstracted: recipients are taken to be active and not administrators; payloads,
time stamps other than presence, and push are left out. The ageing of reminders
(`ReminderAges`) stands for the 24-hour window.

### Schedule

`slot[id]` is a row's block: teacher, room, group, subgroup, day, start, end.
`job[r]` holds a request's blocks, which of them overwrite, the row an update
excludes, and for each block the lookup it is at (`new`, `group`, `teacher`,
`room`, `free`) and the conflict found and not yet deleted. `create` is
`CreateMany` of one block; `create_resolved` is `CreateManyResolved` of one.
Differences kept from the code: `create_many` validates and checks one block
after the other and compares the blocks of the submission with each other only
before the INSERT, *after* the deletions; an upload validates and compares on
arrival and checks all blocks concurrently; an update never overwrites. The
conflict queries are LIMIT 1 without ORDER BY, so any conflict may be found;
deletion is a later statement by id.

Abstracted: a row is named by the request and position that inserted it (only
uniqueness of SERIAL ids matters), so a request is served once; a missing
catalog entry, an impossible time and a failing statement all end the request
(`Fails`). Publication is left out: no rule depends on it.

Times are seconds, as HH:MM:SS is accepted and stored. Within a submission the
service compares whole minutes (`time_to_minutes`, `CompatiblePair`), against the rows SQL
compares to the second (`Collide`). So two blocks of one submission that overlap
for less than a minute (08:00:00–09:00:30 and 09:00:00–10:00:00) pass, and end
up in the table: the properties say so (`ShareSeconds`), and the instance has
such a pair.

### Accounts

`account[e]` is the row of `users` with address `e`, `teacher[t]` a row of the
catalog, `domain[d]` the id of a domain's row, `pending[p]` a registration
waiting for its code, `years` the rows of `school_years`. `job[r]` is a request
with its operation, its next statement and what it has read. Each action is one
statement, e.g. `register` is `NameIsFree`, `DomainIsAllowed`, `EmailIsFree`,
`DeletePending`, `InsertPending`; the change of a teacher's address is
`UpdateTeacher` (read, domain, address, write), then `DemoteIfOrphan` (three
statements) for the old address and `PromoteIfUserExists` (two) for the new one.
`Fails` ends a request at any statement, with two exceptions: the failure of a demotion is only
logged, so the request goes on; and a demotion whose look at the catalog fails
takes the address for an orphan and demotes (`teacher_service.rs:62`). `Expire` is a code running out.

A teacher's row may be moved or deleted by the requests that follow the one which
listed it: a row is named by that request, and `RowOf` in `AccountsHistory` is the
row a request works on (the scenario `NewRowWork` has such requests).

Deleting a domain and adding it again makes a new row, and a removal deletes by
id: therefore `domain[d]` is an id and not a Boolean.

Abstracted: names and addresses are normalized and well formed; passwords are in
Credentials; e-mails, employee numbers and dates are left out. Not in the model
because it is not in the code: `verify_email` and the reactivation of an account
do not look at the domain again.

### Credentials

`user` is the account's row (password, temporary or not, failures, lockout,
active, role, `tokens_invalid_before`), `reset[p]` a reset waiting for its code,
`tokens` the tokens issued, `cache` the verdict kept for the account, `now` the
clock in ticks of 15 seconds, of which the lockouts (15, 30, 60 s) and the
cache's 30 s are multiples. A login is `ReadAccount`, then `CountFailure`,
`JudgeFailure`, `SetLockout`, or `ResetFailures`, `ClearLockout` and the token.
`ServerRestarts` ends all requests and empties the cache, `Fails` is one
statement; for `change_credentials` a failing verification is as good as a wrong
password, as in the code. The cache is per account: it answers for every token
not newer than the one it was filled with, revoked ones included, and nothing
removes an entry but its age.

Abstracted: hashes and signatures (a password verifies or not), the expiry of
tokens (longer than any instance), the change of the address.

### Catalog

The four catalogs are one table `row[e]` of kind, name and the entry it belongs
to (building of a classroom, parent of a group); `blocks` are the slots. An
update is `Find`, the walk up the ancestors one statement per parent
(`ValidateParentLink`), and a write that a UNIQUE or FOREIGN KEY constraint may
refuse. `Orphaned` is what the database does when a group goes
(ON DELETE SET NULL), `GroupInUse` the trigger that protects groups with blocks,
also by the subgroup's name. An upload reads the catalogs one by one in any order,
resolves each line in its snapshot, deletes what collides row by row, and inserts
all blocks in one statement. Blocks are also written by hand (`createSlots`,
`updateSlot`: CreateScheduleSlot, CreateScheduleSlots, UpdateScheduleSlot): these
mutations look whether the subject, the room and the group exist, and take the
subgroup for a text that nothing is compared with. `fields` are the inputs an
update gives; it keeps what is left out, but for the subgroup, which it clears.

Abstracted: grades, divisions and descriptions; a block's time is a model value,
as what matters is whether two blocks share it; teachers are in Accounts.

### Devices

`device` is the set of (owner, device token) rows, `cache` the OAuth token with
the time until which it is trusted, `now` the clock in ticks of 20 seconds. A
registration is two statements, a notice reads the tokens, then per token
`AccessToken` (cached or requested), the push, and `DropToken` if FCM calls it
invalid. The HTTP client gives up after 10 seconds, so at most one tick passes
during a call (guard of `Tick`). The margin of a minute is applied when the
token is stored and again when it is read (`AccessToken`, `StoreAccess`).

### RealtimeCache

One browser and one page with its query, which is about `page.scopes`; other
pages differ in these, in what they watch, and in whether an announcement makes
them refresh (`insists`) or load. `stored[s]` numbers the content of a scope,
`unsaid` holds changes committed and not announced; a mutation announces only when it
succeeds, so one that fails after a commit (deletions before an INSERT that is refused)
is struck off unannounced (`MutationFails`). `channel` is the receiver's
part of the broadcast channel (a subscriber that lags loses the oldest), `wire`
the socket. In the browser, `revision` is `scopeRevisions`, `cache` and `inflight`
the page's entries in the two maps of the cache service, `open`, `listening` and
`view` the component. `query` is the query on the network. There is one at most:
the pages ask through Apollo Client, which as `main.ts` configures it gives who asks for
a query in flight a share in its answer; so a `refresh` asks for a new answer but
may get one that has read before. Several askers file the answer one after the
other, so the last decides how it is filed (`Ask`). The catalogs of one query
are read one by one (`Read`).

Abstracted: the handshake of the subscription, the backoff before the socket is
opened again, the content of rows. The public timetable loads by REST, where
nothing is shared; it never refreshes, so it too has one query in flight unless
somebody logs out meanwhile.

## 3. Runs

| Run | Instance | Shows |
|---|---|---|
| `writers` | 2 people, 2 requests, every operation but archive, faults | `completed_at` and `sub_state` agree; the quota is exceeded at most by requests in flight |
| `leaving` | 3 people, 2 requests; share, respond, forward, unlink, also twice by one person; faults | types; an unlink cancels only what is still PENDING; unlinks are serialized from count to commit; only one's own unlink takes a copy away; SharedTask refines Membership; the invitations that outlive the last participant are known, and so is when the one left alone is not told |
| `progress` | 3 people, 2 requests; share, forward, unlink, archive, acknowledge; fairness | every request ends, deadlocks included; everyone cut off is told. Answers are left out: one holds no lock when it waits for a row, so it blocks nobody |
| `races` | 3 requests, 6 blocks, 3 submissions of up to 2 blocks | types; two blocks collide only if their writers overlapped, or one submission entered both and they share part of a minute; an overwrite deletes only what collides with it or is newer than the request |
| `accounts` | 3 requests out of one of four fields of work, 3 addresses, 2 domains, one listing, one code | roles follow the catalog; wrong codes are bounded; one registration per address and one school year; administrators keep their role; a removed domain had no account that was active throughout, each unless the requests concerned overlapped or failed |
| `credentials` | 3 requests out of logins, resets or sessions; 3 ticks | three failures lock; a reset works once, after its code; a written password is another one wherever it was compared; a cached verdict is wrong about the account it was made for, its revocations included, for less than 30 s |
| `catalog` | 3 requests on 3 groups, or on a small school, its uploads and blocks written by hand; fairness | a cycle needs overlapping updates and the walk ends even then; blocks of a subgroup that a file gave have it, and an upload inserts what the file names, unless that very entry was changed after it was read; an upload that has deleted inserts, unless an entry its blocks refer to is gone or a statement failed |
| `devices` | 3 requests, 2 users, 2 devices, 8 ticks; fairness | one owner per device unless registrations overlapped; pushes go out with a valid access token; a notice tries every device |
| `realtime` | 2 changes of 2 scopes, 3 kinds of page, channel of one; lost connections, failing queries, mutations failing after a commit, stops of the server; fairness | a cached answer that passes for current knows all that was announced, an open page comes to show what is stored and is never left waiting, with the exceptions below |

Runs that show a disagreement between the code and what the repository says:

| Run | Statement | What the code does |
|---|---|---|
| `shared_v_spares` | `pg_collaboration_repo.rs:983`: only rejected, unlinked or missing rows become PENDING | the row is sorted by an earlier unlocked read: a copy accepted meanwhile is reset |
| `schedule_v_collision` | `README.md:52`: overlaps of rooms, teachers and groups are detected | two concurrent requests each find no conflict and both insert |
| `credentials_v_revoked` | `README.md:230`: a changed password, or a forced reset, invalidates the tokens of earlier sessions | the cache of verdicts is per account, accepts any token not newer than its entry, and is refilled by a newer session: the older token is served more than 30 s after the reset |

Further observations made while modelling, which no run reports:

- `participant_role` does not look at UNLINKED, so a person who left can still be
  reminded or send reminders (`collaboration_service.rs:291-315`); a row that is
  PENDING and UNLINKED is not invited again although the comment at
  `pg_collaboration_repo.rs:983` includes unlinked rows; an owner who was
  invited back and accepted cannot unlink that copy
  (`collaboration_service.rs:549`) and counts as two survivors
  (`pg_collaboration_repo.rs:1145`).
- The three reminders of 24 hours can be exceeded by requests in flight
  (`collaboration_service.rs:370`): `ReminderOvershoot` bounds by how many.
- A slower failed login may replace a longer lockout by a shorter one, and
  `change_credentials` of a locked account accepts the present password, since
  the verification that would reveal it fails (`auth_service.rs`).
- An update of a group without a parent makes it a root group; the deletion of a
  group makes its subgroups root groups, and fails if a root group has the
  name of one; a renamed subgroup leaves behind the blocks that name it.
- The upload's comment on groups created on the fly (`excel_service.rs:181`)
  describes something that cannot happen: a line with an unknown group has
  already been reported and left out.
- A device token that FCM calls invalid is dropped for whoever owns it by then.
- The function that would drop a cached verdict (`invalidate` in `middleware.rs`) is
  called nowhere; a token issued in the very second of the revocation passes the test (`>=`); and
  `refresh_session` asks only whether the account is active, not when its tokens ended.
- `create_many` deletes the blocks in its way before it compares those of the
  submission with each other, so a submission that is refused may already have
  deleted, and announces nothing of it (`schedule_service.rs:242-270`).
- `UpdateScheduleSlot` keeps the inputs that are left out, but clears the
  subgroup; no mutation asks whether the subgroup exists.
- A demotion whose look at the teacher catalog fails goes on as if the address were
  not listed (`teacher_service.rs:62`).
- An answer to an invitation that races with its cancellation tests the status
  before the UPDATE, which does not test it again (`pg_collaboration_repo.rs:541`): it succeeds
  on the canceled row, although `collaboration_service.rs:179-183` promises
  INVITATION_CANCELED. The row stays UNLINKED, so the person stays out of the
  task (`RefinesMembership`).
- A page that refreshes at an announcement while its query is in flight may be given
  what was stored before, filed under the newest revision, so that no later
  load asks again (`realtime-query-cache.service.ts:46-55`); nothing is
  loaded again after a reconnection (`realtime-sync.service.ts:60-80`); and a query in
  flight at a logout is filed after the cache was cleared.

### Bounds, and why they are enough

- *Requests in flight*: 2, or 3. Every race in this code is between a statement
  that reads and a later one that writes, with one other request in between;
  the third is for an insert, an update and an overwrite, or for what two racing
  requests have left to the next. In SharedTask a request slot is reused without
  limit, so two requests in flight meet whatever earlier ones have left. In the other modules a
  request is served once; only a mistyped code may be sent again without limit.
- *People*: owner and two others: an actor, a victim and a bystander. `writers`
  has two, as its properties are about one row or one pair of people. Three
  suffice for the lock on the task row to matter in `leaving`: without it a forward
  commits a new invitation between the selection and the commit of an unlink.
- *VIEW* of `leaving` (`WithoutInviters`): it leaves out who sent an invitation,
  which is kept to address the notice of an answer, and no such notice is
  recorded in this run. It leaves out which notices are recorded: this decides
  only whether the failing INSERT of one that is there already counts as a loss,
  and all that a state with a loss can do, but for `AloneIsTold`, the same state
  without can do, too. And once a notice is lost it leaves out what only
  `AloneIsTold` reads, which then claims nothing any more.
- *Reminders* and *attempts* need no bound: they stop at the quota, or the five
  attempts, and the requests in flight.
- *Watched events*: each run records only the types its properties read
  (`writers` records TASK_COMPLETED so that acknowledgement occurs).
- *Blocks*: a lecture, the labs of two subgroups in one room, a class that
  shares the lecture's teacher and, until it begins, a lab's room, the lecture
  on another day, and an empty interval: every pair kind (group by the common
  trunk, same subgroup, teacher, room; adjacent, overlapping) occurs. The class
  ends half a minute after that lab began, which the comparison by minutes
  within a submission lets pass and the query does not.
- *MaxBatch* = 2: compatibility of a submission is pairwise.
- *Scenarios* of the other modules pair the operations that write the same rows:
  in `accounts` the role of an address (a code being verified, a teacher
  listed, moved, removed), the attempts of one code, the domain and access of
  one account, and the year; in `credentials` an account with one or two
  failures and the logins that count further, a reset, or a session; in
  `catalog` three groups that may be moved in a circle, or one file, or two
  uploads of it, or a file and blocks written by hand, against a change of what
  they name; in `devices` a device that
  changes hands, and notices to it. Accounts, rows and codes outside a scenario
  are not read by its requests.
- *MaxTime* of `credentials` is 2 (45 seconds are seen): a verdict stored at
  once is still trusted at 1 and refused at 2. `credentials_v_revoked` needs 3, and
  four requests: to fill the cache, reset, sign in again, and call with the old
  token after 30 seconds and more. The proofs have no bound on it.
- *MaxTime* of `devices` is 7 with access tokens of 7 ticks: one tick trusted, six
  of margin, and the end of the token are all seen.
- In `realtime`, two changes are one that is announced and one that overtakes it or is lost,
  or one of each scope, which is what makes the maximum of the counts hide an
  announcement. *Capacity* is 1 instead of 1024, so that a subscriber lags.
- `SharedTask` never deadlocks (a slot is free or its request can step), nor does
  `RealtimeCache` (somebody may always log out). The other modules serve each request once and then have nothing left to do, so their
  runs set CHECK_DEADLOCK FALSE.
- Symmetry is used in the runs without liveness only.

*Orphans and the one left alone.* The code does leave open invitations behind, and
people alone without a word. `NoOrphanInvitation` and `AloneIsTold` therefore
name the cases, and say that there are no others, whoever has however many
requests in flight. An invitation escapes (`strays`) if it was open when the
last copy, or one that an unlink in flight had counted on, was overwritten
(`Overwriting`): by a second answer of its holder, who rejects what another of
their requests has accepted (`collaboration_service.rs:184`,
`pg_collaboration_repo.rs:541`), or by a forward that had sorted the row before it
was accepted (`shared_v_spares`). It escapes, too, if a forward commits it when nobody
is left, or, over an older row, after an unlink has selected what to cancel
(`Belated`): the forwarder's link is read without a lock
(`pg_collaboration_repo.rs:924`), so its author may have left from another device.
Who is left alone hears nothing if a notice was lost (`lost`): the INSERT failed,
the server stopped, or the search for the survivor failed after the commit
(`collaboration_service.rs:573`). The search finds two rows, and tells nobody, if an
owner has held a copy (`twice`, `pg_collaboration_repo.rs:1145`). No document of the
repository promises otherwise, so these are hazards and not findings.

*Unless they overlapped.* Outside the shared tasks the code uses neither
transactions nor locks, so most rules hold only as long as the requests
concerned do not overlap. The history variable `met` makes this exact: it holds
the pairs of requests one of which took a step while the other was being served.
A property then excuses exactly the deviations such a pair explains, and shows
that nothing else (a long sequence of requests, a failure half way) leads there.
Where the code gives a narrower reason, the history records that instead: what
was written between a comparison and its write (`moved`), what was not compared
(`skipped`), which entry changed after an upload had read it (`stale`).

*Announcements that are not noticed.* `RealtimeHistory` keeps in `reasons` why a page may be
behind: an announcement about its query was lost; it was never made, as the mutation failed
after a commit (`untold`); a query failed; the page shared one that had read too
early; or it was given an entry that is old without its revision telling
(`masked`). Each of the five is needed: without it TLC finds a
page that stays behind. A page that is brought up to date clears them.

### Fairness

`SharedTaskHistory` gives each request strong fairness of its own steps. Tokio polls
every ready task, so a request whose next statement can run is not left alone;
a statement that waits for a row lock is enabled again and again as others take
and release it, and PostgreSQL queues waiters, so it is not passed over for
ever — hence strong, not weak. Deadlock resolution belongs to these steps: the
detector always runs. Arrivals, acknowledgements and ageing are not fair. The
`progress` run has no faults: a stopping server ends requests but loses
notices, which is what `AloneIsTold` states with `lost` in `leaving`.

In `RealtimeCache` the announcements, the new subscription, the handlers and a query
(answered or failing) are weakly fair: none of them waits for anything but its
own turn. What users do, failures and lost connections are not fair.

In `Catalog` and `Devices` no statement waits for another request, so weak
fairness is enough: of each request's steps in `Devices`; in `Catalog` of any request's,
as each takes finitely many or would keep the others waiting. A call that is
never answered is among them, as its timeout. Failures, restarts and the clock are not fair.

## 4. Proofs

All theorems hold for any values of the constants that satisfy the named
ASSUMEs: finite people and requests (of the shared tasks), blocks that are
records with natural times in seconds, submissions between 1 and MaxBatch
blocks; scenarios that obey the database's constraints; finitely many entries
and requests in `Catalog`, finitely many scopes in `RealtimeCache`; access
tokens that live for more than two ticks. In `Accounts` and `Credentials` there
may be any number of requests, even infinitely many.

Every safety invariant and action property of a passing run is a theorem.

| Theorem | Statement | Argument |
|---|---|---|
| `TypeCorrect` | `Spec => []TypeOK` of SharedTask | by action; `Typed` adds to `TypeOK` that every job is sound for its `pc` |
| `LocksCorrect` | `Spec => []LockInv` | see below |
| `CancelsOnlyPendingCorrect`, `UnlinksSerializedCorrect` | the two invariants | consequences of `LockInv` |
| `OnlySelfUnlinksCorrect`, `CompletionConsistentCorrect` | action property; invariant | `Typed`, `LockInv` |
| `MembershipRefined` | `Spec => RefinesMembership` | each writing action maps to a step of Membership, all others stutter |
| `ReminderOvershootCorrect` | quota exceeded at most by requests in flight | `QuotaInv`: reminders written plus requests past the count stay below 3 + the number of requests |
| `OrphansCanceled` | the invitations that outlive the last participant are the `strays`, with any requests and faults | `StrayInv`, `KeyInv`, see below |
| `AloneTold` | whoever is left alone is told, unless a notice was lost or the owner is found twice; assumes only that the run records SHARED_TASK_ORPHANED | `AloneInv`, see below |
| `ScheduleTypeCorrect`, `CollisionsOnlyFromRacesCorrect`, `OverwriteDeletesClashesCorrect` | the properties of `races` | `RaceInv`, see below |
| `SerialCollidesBySecondsOnly` | requests served one at a time leave two colliding blocks only if one submission entered both and they share part of a minute | `RaceInv` with empty `met` |
| `AtomicUnlessRacedCorrect`, `SerialIsAtomic` | `RSpec => AtomicUnlessRaced`: a step of Timetable or a stutter while `met` stays empty; `RSpec /\ []Alone => Atomic!TSpec` | `RaceInv`, `Entering`, see below |
| `AccountsTypeCorrect`, `AdministratorsUntouched` | types; no change of the catalog touches an administrator | `IInv`, see below |
| `PendingCorrect`, `YearsCorrect`, `RemovalCorrect` | one registration per address and one year unless requests overlapped; domains of steadily active accounts stay | `RaceInv` of Accounts, see below |
| `AttemptsCorrect` of Accounts and of Credentials | a code outlives four wrong guesses, and one more per request about to delete it | `AttemptInv`, see below |
| `RolesCorrect` | roles follow the catalog unless requests about an address overlapped or failed | `RoleInv`, see below |
| `CredentialsTypeCorrect` | types; the cached verdict is about an issued token | `Ready`: what each statement needs is at hand |
| `VerdictsCorrect` | a cached verdict that is used holds of the account (access, role, and no end of the tokens after the one it was made for), or did within 30 s, or was stored late | `VerdictInv`, see below |
| `ResetsCorrect` | a reset changes the password after its code and once | `ResetInv`, see below |
| `LockoutCorrect` | three failures lock the account | `LockInv` of Credentials, see below |
| `PasswordsChange` | a password is replaced by another one, unless another was written after the comparison or nothing was compared | `PasswordInv`, see below |
| `CatalogTypeCorrect` | types; whatever a row or a block refers to exists | the first conjuncts of `IInv` of Catalog, see below |
| `CyclesAreRaced` | groups form no cycle unless updates overlapped | `WalkInv`, see below |
| `BlocksHaveSubgroups`, `LossIsExplained`, `UploadsAreResolved` | the other safety properties of `catalog`; each exception is a change of the very entry concerned | `IndexInv`, `NewInv`, `LostInv`, see below |
| `OneOwnerCorrect` | one owner per device unless registrations overlapped | `OwnerInv`, see below |
| `AccessTokensCorrect` | no push with an access token that has run out | `ClockInv`, see below |
| `RealtimeTypeCorrect` | types; who waits for an answer has a query in flight | `Typed` of Realtime |
| `CacheCorrect` | an entry of the present revision knows of every announcement | `NotAhead`, `RevisionsTell`, see below |
| `ShownCorrect` | a page at rest shows what is stored, but for the five reasons | `Tracks`, see below |

*Why `LockInv`.* That an unlink cancels only PENDING rows is not inductive: it
depends on the locks the transaction took on the way. `LockInv` says, per
request: from the first UPDATE to the commit the leaver's own row (or the task
row) is locked by the request and the link is still there for others
(`LeaverHolds`); every row in `hit` is locked by the request and, in an unlink,
PENDING (`WriterHolds`); the task lock is held from count to commit
(`CounterHolds`); who answers has a row (`AnswererHasRow`). One lemma shows that
a step of another request disturbs no locked row, then each action is shown to
establish its own part.

*Why `StrayInv`.* The last unlink counts who takes part and cancels the open
invitations if that leaves too few; answers, forwards and other unlinks come in between.
The invariant says that the count stays valid: an unlink that is about to commit
leaves somebody, or every open invitation is among those it cancels or has
escaped (`LeavesSome`). That a forward adds no invitation unseen is not the
service's doing but that of the foreign key: the INSERT of a new row takes a
share of the task row's lock, which the FOR UPDATE of the unlink excludes
(`KeyInv`: a forward with a new row holds its share, an unlink that counts is
the only one who may). Over an older row there is no such lock, hence `Belated`.

*Why `AloneInv`.* Whoever is alone is the only participant, and some request
(`Telling`) has committed its unlink and is still to look for the survivor, or
holds the notice, unless notices were lost. The request that looks is not the
survivor's own (`CommitterTells`), but for the owner who has both link and copy,
which `twice` records; so the search finds one row, and that is the survivor.

*Why `RaceInv` of ScheduleRaces.* That colliding rows are in `met` is not inductive
either: the INSERT trusts lookups made long before. `RaceInv` adds, per block of a
request in service: for every lookup already passed, a row that clashes there now
was written since the request arrived (`Seen`); the conflict about to be deleted
clashes, is gone or is newer (`Victim`); an accepted upload is compatible with
itself. `RowsAreRecorded` is the key: a step keeps a row, empties it or records
it with every request being served. The rest is that the three lookups cover
every kind of collision (`LookupsFindAll`), and that blocks of a submission which
fit by the minute share less than one (`MinutesCollide`, `BatchFits`).

*Why `Entering`.* That the last statement of a request is a single step of `Timetable`
asks for more than the absence of collisions: the rows it fills were free (no
other request inserts under a request's ids, and an update finds the row of a
request that has ended), its blocks are those of a submission and, once their
lookups began, have a positive length. That the rows then fit is
`CollisionsOnlyFromRaces` with an empty `met`, and `met` stays empty when
requests are served one at a time (`SerialStep`). A deletion is a removal of
`Timetable` whoever asks for it, so what an overwrite may delete is left to
`OverwriteDeletesClashes`. TLC finds `AtomicUnlessRaced` to hold on the instance
of `races` too; no run repeats what is proved.

*Accounts.* A promotion or demotion writes a role by address, with no condition, after
the account was read in an earlier statement. `Prepared` says what each
statement relies on: who is about to be promoted or demoted *is* an app user.
It survives the steps of others because no statement turns an app user into an
administrator: `create_admin` refuses an address that has an account, so an
administrator never was one. `RaceInv` adds the three windows between a test and
a write: a request about to insert a registration has met whoever owns a row of
its address now (`PendingInv`), one about to insert the year has met all who
inserted one (`YearInv`), and for one about to delete a domain's row no account
that was active since it arrived has that domain (`RemovalInv`).

*Attempts.* The wrong guesses are counted by an UPDATE and judged by the request
that made it, so several can count past five before the first deletes the row.
`AttemptInv` bounds the count by 4 and the number of those who are about to delete
the row or failed to; each count past four makes its request one of them, and
nobody stops being one except by deleting the row. That there are finitely many
of them, which `Cardinality` needs, is part of the invariant.

*Roles.* Whether an address is listed and which role its account has are in two
tables, written by up to nine statements of four kinds of requests. `RoleInv`
says, of each address that is not in trouble (`Troubled`: nobody who decides about it
failed, or met another who decides about it or works on the same row): whoever
is about to reconsider the role after a removal knows that the address is not
listed, whoever after an entry that it is, and who is about to insert the account
has the role that fits (`Knows`); and if the role is not right, one of the first
two is at work (`Good`, `AtWork`). What makes it inductive is `KnowsOld`: between
its read and its write, an update or a deletion still knows the row's address;
whoever else writes the row has met it. The property follows because nobody who decides about
a settled address is in service.

*Credentials.* Nothing removes a verdict from the cache when the account changes,
so what bounds its life is arithmetic. `VerdictInv`: it holds of the account, the
end of its older tokens included, or
expires no later than two ticks after the last turn of role, access or that end, or was
stored by a request that had read before the turn. It speaks of the token that
the verdict was made for: of the older ones for which the cache takes it, too,
there is no bound (`credentials_v_revoked`). `ResetInv`: a row's id
is that of the request that inserted it, so a deleted row never comes back
(`Born`); whoever used a reset is about to delete it, has deleted it, or failed
(`Spent`); hence a second completion that still finds it has met the first
(`OnceInv`).
`LockInv`: three failures count only if they come after the counter was cleared
(`tried` is when the third was counted, -1 before the start). Whoever is about to
clear or to lock in the name of an earlier count was being served when the counter
was last cleared (`under`); all others judged at least three failures, so their
lockout ends after `tried`. Hence when nobody is judging the account is locked, unless a reset
or an administrator wiped it. `PasswordInv`: what was compared and found
different is still different, unless another password was written since
(`moved`), and only a change that did not compare (`skipped`) writes without.

*Catalog.* A row's references are right because its FOREIGN KEYs are tested with
the write (`RowsTyped`, `BlocksTyped`). `WalkInv` is about an update of a group on its
way up: the ancestors it has read are still below each other, up to the one it is
to read next, except where a row was written while the update was
served; its own group is not among them. At the write this makes a cycle through
the new parent impossible: it would contain the ancestors read, from the parent
up to a root. Chains of any length need no induction. A cycle is taken as a set
of groups each of which is below another of the set; as the entries are finite, a
set on which "parent" is onto is the whole of every part it maps into itself
(`OntoPart`), which contradicts the root that the walk has reached.
`IndexInv` says what the snapshot of an upload is worth: what was read of an entry
is what it is, or its change is recorded in `stale`; `NewInv` that every block about to
be inserted is the meaning of a line of the file in that snapshot; `LostInv` that an upload which has deleted
blocks is still to insert its own, or is over. Blocks written by hand keep the
references right, but nothing is claimed of their subgroup.

*Realtime.* Revisions are greatest counts of announcements over the scopes of a page, and
are compared for equality only. `NotAhead`: no count, read or entry is of a later
change than the last one stored, and no entry of a higher revision than the present.
`RevisionsTell`: an entry, or a load under way, of the *present* revision has what was
announced of each of its scopes; it is preserved because an announcement either
raises the revision, so that the premise is lost, or is recorded as `masked`.
`Tracks` holds as long as `reasons` is empty: whatever is shown, kept or asked for
lacks only changes whose announcement is still to come (`Announced`: unsaid, in the channel or on the
wire), or, if it is kept, those that the revision will tell about.

*Devices.* `OwnerInv`: a request between its DELETE and its INSERT has met the
registration of every other owner there is. `ClockInv`: `cache.expires` is past, or
`expires + Margin <= until + 1`; a push that is under way began with more than one
tick left, and the client's timeout lets at most one pass.

Only model-checked: liveness (`RequestsEnd`, `CanceledAreTold`, `Answered`,
`EveryDeviceIsTried`, `Settles`), which rests on fairness and so on ENABLED, and
the three properties that the code violates.

## 5. Where it could go on

- `RealtimeCache` with two pages that show the same catalog by queries of their own.

## 6. Hazards

`PROJECT.json` lists the places in the code that are exposed to an
interleaving, a stale read, a partial failure, a bound or an order that tests
hardly reach, with the properties that cover them or the reason why none does.
No test of the repository runs two requests at the same time.

## 7. Not modelled

- *Audit log*: an INSERT whose failure is only logged, and a daily deletion.
- *User files and backups*: one upsert per row, the last writer wins.
- *Server start, e-mail, public endpoint, pages*: wiring, one HTTP call, reads, and
  presentation. The parsing of spreadsheets and of names and addresses is text.
- *Publication of blocks* (`set_published`): no rule depends on it.
- *Reads*: queries that change nothing are left out of every module.
