---------------------------- MODULE RealtimeCache ----------------------------
(***************************************************************************)
(* How a page of the administration keeps up with the database: mutations    *)
(* announce the scopes they changed on a broadcast channel, a WebSocket      *)
(* carries the announcements to the browser, which counts them per scope,    *)
(* and a cache keeps the answer to a query with the count of the moment.     *)
(*                                                                          *)
(* One browser, one page and its one query: the cache entries of other       *)
(* queries share nothing with it but the counts.  Changes are numbered; what *)
(* the database holds of a scope is the number of its last change.  A        *)
(* mutation that commits more than once is as many changes, of which the     *)
(* last is announced if the mutation succeeds.  The browser runs one handler *)
(* at a time, beside the server.  The client library sends a query only once *)
(* while it is in flight: who asks for it meanwhile shares the answer.       *)
(***************************************************************************)
EXTENDS Integers, Sequences, FiniteSets, SequencesExt, FiniteSetsExt

CONSTANTS
  Scopes,
  Changes,     \* the sets of scopes that mutations announce
  Pages,       \* the scopes of a page's query, those it watches, and whether it insists
  MaxChanges,  \* a bound on the changes
  Capacity,    \* announcements the channel keeps for a subscriber
  NoValue, NoEntry

\* A page watches what its query is about.  (The timetable does not watch the
\* buildings, which are always announced together with the classrooms.)
ASSUME PagesAssumption ==
  \A p \in Pages :
    /\ p \in [scopes : (SUBSET Scopes) \ {{}}, watches : SUBSET Scopes, insists : BOOLEAN]
    /\ p.scopes \subseteq p.watches
ASSUME ChangesAssumption == Changes \subseteq (SUBSET Scopes) \ {{}}
ASSUME BoundsAssumption == IsFiniteSet(Scopes) /\ MaxChanges \in Nat /\ Capacity \in Nat \ {0}

VARIABLES
  page,
  stored,     \* what the database holds of each scope
  unsaid,     \* what mutations have changed and not announced yet
  channel,    \* announcements kept for this subscriber
  wire,       \* announcements on their way through the socket
  connected,  \* the subscription stands
  revision,   \* announcements received per scope
  cache,      \* the entry of the page's query
  inflight,   \* a load would join the query in flight
  query,      \* the query in flight, as its last asker will keep the answer
  open,       \* the page is shown, or kept behind others
  listening,  \* it waits for the answer
  view        \* what it shows

server == <<stored, unsaid, channel>>
browser == <<revision, cache, inflight, query, open, listening, view>>
vars == <<page, server, wire, connected, browser>>

Values == [page.scopes -> Nat]
Partial == [page.scopes -> Nat \cup {NoValue}]
Announcements == [scopes : SUBSET Scopes, version : [Scopes -> Nat]]
NoQuery == [busy |-> FALSE, refresh |-> FALSE, revision |-> 0,
            value |-> [s \in page.scopes |-> NoValue]]
Content == [s \in page.scopes |-> stored[s]]

\* The revision of a query is the greatest of its scopes' counts.
RevisionOf(count) == Max({count[s] : s \in page.scopes})
-----------------------------------------------------------------------------
(* The server. *)

Latest == Max({stored[s] : s \in Scopes})
Change(S) ==
  /\ Latest < MaxChanges
  /\ stored' = [s \in Scopes |-> IF s \in S THEN Latest + 1 ELSE stored[s]]
  /\ unsaid' = unsaid \cup {[scopes |-> S, version |-> stored']}
  /\ UNCHANGED <<page, channel, wire, connected, browser>>

\* A mutation announces what it changed only when it succeeds.  One that fails
\* after a commit announces nothing: blocks are deleted to be overwritten before
\* the new ones are compared and inserted, and an answer of the database is lost.
MutationFails(m) ==
  /\ unsaid' = unsaid \ {m}
  /\ UNCHANGED <<page, stored, channel, wire, connected, browser>>

\* After the commit.  Who lags behind loses the oldest announcement, who is not
\* subscribed the newest.
Publish(m) ==
  /\ unsaid' = unsaid \ {m}
  /\ channel' = IF ~connected THEN channel
                ELSE IF Len(channel) = Capacity THEN Append(Tail(channel), m) ELSE Append(channel, m)
  /\ UNCHANGED <<page, stored, wire, connected, browser>>
Relay ==
  /\ channel # <<>>
  /\ channel' = Tail(channel) /\ wire' = Append(wire, Head(channel))
  /\ UNCHANGED <<page, stored, unsaid, connected, browser>>

\* The socket closes, and is opened and subscribed again after a while.
Disconnect ==
  /\ connected /\ connected' = FALSE /\ channel' = <<>> /\ wire' = <<>>
  /\ UNCHANGED <<page, stored, unsaid, browser>>
Reconnect ==
  /\ ~connected /\ connected' = TRUE
  /\ UNCHANGED <<page, server, wire, browser>>

\* The catalogs of one query are read one after the other.
Read(s) ==
  /\ query.busy /\ query.value[s] = NoValue
  /\ query' = [query EXCEPT !.value[s] = stored[s]]
  /\ UNCHANGED <<page, server, wire, connected, revision, cache, inflight, open, listening, view>>
-----------------------------------------------------------------------------
(* The browser. *)

Ask(refresh, count) ==
  /\ query' = [query EXCEPT !.busy = TRUE, !.refresh = refresh, !.revision = RevisionOf(count)]
  /\ inflight' = TRUE /\ listening' = TRUE
  /\ UNCHANGED <<cache, view>>
\* The cached answer if it is of the present revision; else what is in flight is
\* joined; else the server is asked.
Current(count) == cache # NoEntry /\ cache.revision = RevisionOf(count)
JoinInflight == listening' = TRUE /\ UNCHANGED <<cache, inflight, query, view>>
\* (mutated form: any cached answer will do)
LoadAnyCached(count) ==
  IF cache # NoEntry THEN view' = cache.value /\ UNCHANGED <<cache, inflight, query, listening>>
  ELSE IF inflight THEN JoinInflight ELSE Ask(FALSE, count)
Load(count) ==
  IF Current(count) THEN view' = cache.value /\ UNCHANGED <<cache, inflight, query, listening>>
  ELSE IF inflight THEN JoinInflight ELSE Ask(FALSE, count)
\* A refresh asks in any case.
Refresh(count) == Ask(TRUE, count)

EnterPage ==
  /\ open' = TRUE
  /\ Load(revision)
  /\ UNCHANGED <<page, server, wire, connected, revision>>
\* The page is taken down; whom it asked will answer to nobody.
LeavePage ==
  /\ open /\ open' = FALSE /\ listening' = FALSE /\ view' = NoValue
  /\ UNCHANGED <<page, server, wire, connected, revision, cache, inflight, query>>
\* The page has made a change of its own.
Save ==
  /\ open
  /\ Refresh(revision)
  /\ UNCHANGED <<page, server, wire, connected, revision, open>>

\* An announcement is counted; then the page loads what it shows.
Counted(m) == [s \in Scopes |-> IF s \in m.scopes THEN revision[s] + 1 ELSE revision[s]]
Heeds(m) == open /\ m.scopes \cap page.watches # {}
Handle ==
  /\ wire # <<>>
  /\ wire' = Tail(wire)
  /\ revision' = Counted(Head(wire))
  /\ IF ~Heeds(Head(wire)) THEN UNCHANGED <<cache, inflight, query, listening, view>>
     ELSE IF page.insists THEN Refresh(revision') ELSE Load(revision')
  /\ UNCHANGED <<page, server, connected, open>>

\* When a query ends, none counts as in flight.
\* (mutated form: it still does)
DoneInFlight == inflight' = inflight /\ listening' = FALSE /\ query' = NoQuery
Done == inflight' = FALSE /\ listening' = FALSE /\ query' = NoQuery
Complete(value) == \A s \in page.scopes : value[s] # NoValue
\* An answer is kept: a load's with the revision it began with, a refresh's with
\* the present one.
\* (mutated form: a load's too with the present one)
AnswerAsOfNow ==
  /\ query.busy /\ Complete(query.value)
  /\ view' = IF listening THEN query.value ELSE view
  /\ cache' = [revision |-> RevisionOf(revision), value |-> query.value]
  /\ Done
  /\ UNCHANGED <<page, server, wire, connected, revision, open>>
Answer ==
  /\ query.busy /\ Complete(query.value)
  /\ view' = IF listening THEN query.value ELSE view
  /\ cache' = [revision |-> IF query.refresh THEN RevisionOf(revision) ELSE query.revision,
               value |-> query.value]
  /\ Done
  /\ UNCHANGED <<page, server, wire, connected, revision, open>>
QueryFails ==
  /\ query.busy
  /\ Done
  /\ UNCHANGED <<page, server, wire, connected, revision, cache, open, view>>

\* Somebody logs out.
Clear ==
  /\ cache' = NoEntry /\ inflight' = FALSE
  /\ UNCHANGED <<page, server, wire, connected, revision, query, open, listening, view>>
-----------------------------------------------------------------------------
\* The server stops between a change and its announcement, and with the query.
ServerStops ==
  /\ unsaid' = {} /\ channel' = <<>> /\ wire' = <<>> /\ connected' = FALSE
  /\ Done
  /\ UNCHANGED <<page, stored, revision, cache, open, view>>

Init ==
  /\ page \in Pages
  /\ stored = [s \in Scopes |-> 0] /\ unsaid = {} /\ channel = <<>> /\ wire = <<>>
  /\ connected = FALSE
  /\ revision = [s \in Scopes |-> 0] /\ cache = NoEntry /\ inflight = FALSE /\ query = NoQuery
  /\ open = FALSE /\ listening = FALSE /\ view = NoValue
Announce == (\E m \in unsaid : Publish(m)) \/ Relay \/ Reconnect \/ Handle
Serve == (\E s \in page.scopes : Read(s)) \/ Answer
User == EnterPage \/ LeavePage \/ Save \/ Clear
Environment == (\E m \in unsaid : MutationFails(m)) \/ Disconnect \/ ServerStops \/ QueryFails
Next == (\E S \in Changes : Change(S)) \/ Announce \/ Serve \/ User \/ Environment
Spec == Init /\ [][Next]_vars
-----------------------------------------------------------------------------
\* Every variable has its type; who waits for an answer, and who would be joined
\* to a query, has one in flight; nothing is under way to a browser that is not
\* subscribed.
TypeOK ==
  /\ page \in Pages /\ stored \in [Scopes -> 0..MaxChanges] /\ revision \in [Scopes -> Nat]
  /\ unsaid \subseteq Announcements /\ Range(channel \o wire) \subseteq Announcements
  /\ Len(channel) <= Capacity
  /\ ~connected => channel \o wire = <<>>
  /\ inflight \/ listening => query.busy
  /\ listening \/ view # NoValue => open
  /\ view \in Values \cup {NoValue}
  /\ cache # NoEntry => cache.revision \in Nat /\ cache.value \in Values
  /\ query.revision \in Nat /\ query.value \in Partial
=============================================================================
