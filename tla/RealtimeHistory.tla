--------------------------- MODULE RealtimeHistory ---------------------------
(***************************************************************************)
(* RealtimeCache with history variables that tell why the page or the cache  *)
(* may be behind, and the properties.                                        *)
(***************************************************************************)
EXTENDS RealtimeCache

VARIABLES
  heard,   \* the changes that have been announced to the browser
  masked,  \* the query, the entry: it misses a change and its revision does not tell
  reasons  \* why the page, or what it will be given, is old

hvars == <<vars, heard, masked, reasons>>

Older(v, w) == \E s \in page.scopes : v[s] # NoValue /\ v[s] < w[s]
Because(what, holds) == IF holds THEN {what} ELSE {}
Concerns(m) == m.scopes \cap page.scopes # {}
Fresh ==
  /\ open => view = Content
  /\ cache = NoEntry \/ cache.value = Content
  /\ ~Older(query.value, stored)
Note(why) == reasons' = IF Fresh' THEN {} ELSE reasons \cup why

\* A page asks: it is given an entry that is old without its revision telling, or
\* shares a query that has read before an announcement it answers.
SharesOldQuery == query.busy /\ Older(query.value, heard')
Told(refresh, count) ==
  IF ~refresh /\ Current(count) THEN Because("unmarked", "entry" \in masked')
  ELSE Because("shared", SharesOldQuery)
MaskedQuery == Because("query", query' # query /\ SharesOldQuery)

\* An announcement about the page's query may leave its revision as it was.
Masks(m) == Concerns(m) /\ RevisionOf(revision') = RevisionOf(revision)
Hears(m) ==
  /\ Handle
  /\ heard' = [s \in Scopes |-> IF s \in m.scopes THEN Max({heard[s], m.version[s]}) ELSE heard[s]]
  /\ masked' = masked \cup (IF Masks(m) THEN {"query", "entry"} ELSE {}) \cup MaskedQuery
  /\ Note(IF Heeds(m) THEN Told(page.insists, revision') ELSE {})
Asks ==
  /\ UNCHANGED heard
  /\ \/ EnterPage /\ masked' = masked \cup MaskedQuery /\ Note(Told(FALSE, revision))
     \/ Save /\ masked' = masked \cup MaskedQuery /\ Note(Told(TRUE, revision))
IsGiven ==
  /\ Answer
  /\ masked' = Because("entry", (query.refresh \/ "query" \in masked) /\ Older(query.value, heard))
  /\ Note({})
  /\ UNCHANGED heard
Lost(ms) == Because("lost", \E m \in ms : Concerns(m))
Failed == Because("failed", listening)
Loses ==
  /\ \/ /\ QueryFails /\ masked' = masked \ {"query"} /\ Note(Failed)
     \/ /\ \E m \in unsaid :
             /\ Publish(m)
             /\ Note(IF ~connected THEN Lost({m})
                     ELSE IF Len(channel) = Capacity THEN Lost({Head(channel)}) ELSE {})
        /\ UNCHANGED masked
     \/ /\ \E m \in unsaid : MutationFails(m) /\ Note(Because("untold", Concerns(m)))
        /\ UNCHANGED masked
     \/ Disconnect /\ Note(Lost(Range(channel \o wire))) /\ UNCHANGED masked
     \/ /\ ServerStops /\ masked' = masked \ {"query"}
        /\ Note(Failed \cup Lost(unsaid \cup Range(channel \o wire)))
  /\ UNCHANGED heard
Else ==
  /\ \/ \E S \in Changes : Change(S)
     \/ \E s \in page.scopes : Read(s)
     \/ Relay \/ Reconnect \/ LeavePage \/ Clear
  /\ Note({})
  /\ UNCHANGED <<heard, masked>>

HInit == Init /\ heard = [s \in Scopes |-> 0] /\ masked = {} /\ reasons = {}
HNext == Hears(Head(wire)) \/ Asks \/ IsGiven \/ Loses \/ Else
HSpec == HInit /\ [][HNext]_hvars

\* Mutations end, announcements arrive, the socket is opened again, and a query is
\* answered or fails.
FairSpec ==
  /\ HSpec
  /\ WF_vars(\E m \in unsaid : Publish(m)) /\ WF_vars(Relay) /\ WF_vars(Reconnect) /\ WF_vars(Handle)
  /\ WF_vars(Serve \/ QueryFails)
-----------------------------------------------------------------------------
\* A cached answer that would be given out knows of every change announced to
\* the browser, unless a refresh shared or read it too early, or the announcement
\* was of a scope with fewer counts than another one of the query.
CacheIsCurrent ==
  Current(revision) /\ "entry" \notin masked => ~Older(cache.value, heard)

\* When nothing is under way an open page shows what is stored, unless since it
\* last did a change of its query was never announced, the announcement was lost,
\* a query failed, the page shared one that had read too early, or was given an
\* answer whose revision does not tell that it is old.
Quiet == unsaid = {} /\ channel = <<>> /\ wire = <<>> /\ ~query.busy
ShownIsStored == Quiet /\ open => view = Content \/ reasons # {}

\* A page that stays open comes to show what is stored, whatever the orders in
\* which queries and announcements arrive, with the same exceptions; above all
\* it is never left waiting.
Settles == []<>(~open \/ view = Content \/ reasons # {})
=============================================================================
