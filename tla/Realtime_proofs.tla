--------------------------- MODULE Realtime_proofs ---------------------------
(***************************************************************************)
(* A cached answer that would be given out knows of what has been announced, *)
(* and a page at rest shows what is stored, with the exceptions that the     *)
(* history names: for any scopes, pages, changes and capacity.               *)
(***************************************************************************)
EXTENDS RealtimeHistory, FiniteSetTheorems, WellFoundedInduction, TLAPS

Queries == [busy : BOOLEAN, refresh : BOOLEAN, revision : Nat, value : Partial]
Entries == [revision : Nat, value : Values]

\* The types, with what TypeOK says of them.
ServerTyped ==
  /\ page \in Pages
  /\ stored \in [Scopes -> Nat] /\ \A s \in Scopes : stored[s] <= MaxChanges
  /\ unsaid \in SUBSET Announcements
WireTyped ==
  /\ channel \in Seq(Announcements) /\ wire \in Seq(Announcements)
  /\ Len(channel) <= Capacity
  /\ ~connected => channel = <<>> /\ wire = <<>>
CountsTyped == revision \in [Scopes -> Nat] /\ heard \in [Scopes -> Nat]
BrowserTyped ==
  /\ cache = NoEntry \/ cache \in Entries
  /\ query \in Queries /\ (~query.busy => query = NoQuery)
  /\ inflight \/ listening => query.busy
  /\ listening \/ view # NoValue => open
  /\ view \in Values \cup {NoValue}
Typed == ServerTyped /\ WireTyped /\ CountsTyped /\ BrowserTyped

\* What the browser has not been told yet, and may still be told.
Coming == unsaid \cup Range(channel) \cup Range(wire)
Announced(s) == \E m \in Coming : s \in m.scopes /\ m.version[s] = stored[s]

Unread(v, s) == v[s] = NoValue

\* Nothing is of a later change than the last, or of more announcements than came.
AnnouncementsNotAhead ==
  /\ \A s \in Scopes : heard[s] <= stored[s]
  /\ \A m \in Coming, s \in Scopes : m.version[s] <= stored[s]
QueryNotAhead ==
  /\ \A s \in page.scopes : Unread(query.value, s) \/ query.value[s] <= stored[s]
  /\ query.revision <= RevisionOf(revision)
EntryNotAhead ==
  cache # NoEntry => /\ \A s \in page.scopes : cache.value[s] <= stored[s]
                     /\ cache.revision <= RevisionOf(revision)
NotAhead == AnnouncementsNotAhead /\ QueryNotAhead /\ EntryNotAhead

\* v has everything that has been announced of s.
UpToDate(v, s) == v[s] >= heard[s]

\* An entry, or a load, of the present revision has what has been announced.
EntryTells ==
  cache # NoEntry /\ cache.revision = RevisionOf(revision) /\ "entry" \notin masked =>
    \A s \in page.scopes : UpToDate(cache.value, s)
QueryTells ==
  query.busy /\ ~query.refresh /\ query.revision = RevisionOf(revision) /\ "query" \notin masked =>
    \A s \in page.scopes : Unread(query.value, s) \/ UpToDate(query.value, s)
RevisionsTell == EntryTells /\ QueryTells

\* What the page is shown, or waits for, lacks only what it will be told; what
\* is kept, or asked for, lacks besides what was announced in between.
Behind(v, s) == v[s] < stored[s]
EntryTracks ==
  cache # NoEntry =>
    \A s \in page.scopes : Behind(cache.value, s) => Announced(s) \/ ~UpToDate(cache.value, s)
QueryTracks ==
  \A s \in page.scopes :
    ~Unread(query.value, s) /\ Behind(query.value, s) => Announced(s) \/ ~UpToDate(query.value, s)
ViewTracks ==
  open /\ ~listening =>
    view \in Values /\ \A s \in page.scopes : view[s] <= stored[s] /\ (Behind(view, s) => Announced(s))
AnswerTracks ==
  open /\ listening =>
    \A s \in page.scopes : ~Unread(query.value, s) /\ Behind(query.value, s) => Announced(s)
Tracks == EntryTracks /\ QueryTracks /\ ViewTracks /\ AnswerTracks

IInv == Typed /\ NotAhead /\ RevisionsTell /\ (reasons = {} => Tracks)
-----------------------------------------------------------------------------
(* The greatest of some counts, and what is kept in a sequence.              *)

\* A finite set of numbers that is not empty has a greatest: the sets of those
\* above a member are finite, so there is a minimal one, which is empty.
LEMMA GreatestExists ==
  ASSUME NEW T, T \subseteq Int, IsFiniteSet(T), T # {}
  PROVE  Max(T) \in T /\ \A y \in T : y <= Max(T)
<1>. DEFINE Above(x) == {y \in T : y > x}
            Family == {Above(x) : x \in T}
<1>1. Family \subseteq FiniteSubsetsOf(T)
  <2>. SUFFICES ASSUME NEW x \in T PROVE Above(x) \in FiniteSubsetsOf(T)
    OBVIOUS
  <2>. QED
    BY FS_Subset DEF FiniteSubsetsOf
<1>2. Family # {}
  OBVIOUS
<1>3. PICK A \in Family : \A B \in Family : <<B, A>> \notin StrictSubsetOrdering(T)
  <2>. HIDE DEF Family
  <2>. QED
    BY <1>1, <1>2, FS_StrictSubsetOrderingWellFounded, WFMin
<1>4. PICK x \in T : A = Above(x)
  OBVIOUS
<1>5. \A y \in T : y <= x
  <2>. SUFFICES ASSUME NEW y \in T, y > x PROVE FALSE
    OBVIOUS
  <2>. y \in Int /\ x \in Int /\ ~(y > y)
    OBVIOUS
  <2>0. \A z \in T : z \in Int /\ (z > y => z > x)
    OBVIOUS
  <2>1. Above(y) \subseteq Above(x) /\ y \in Above(x) /\ y \notin Above(y)
    BY <2>0
  <2>2. Above(y) \in Family /\ Above(y) # A /\ Above(y) \in SUBSET T /\ A \in SUBSET T
    BY <1>4, <2>1
  <2>3. <<Above(y), A>> \notin StrictSubsetOrdering(T)
    BY <1>3, <2>2
  <2>. HIDE DEF Above, Family
  <2>. QED
    BY <1>4, <2>1, <2>2, <2>3 DEF StrictSubsetOrdering
<1>. QED
  BY <1>5 DEF Max

LEMMA GreatestCount ==
  ASSUME NEW count \in [Scopes -> Nat], NEW D \in (SUBSET Scopes) \ {{}}
  PROVE  LET M == Max({count[s] : s \in D}) IN
         M \in Nat /\ (\A s \in D : count[s] <= M) /\ \E s \in D : M = count[s]
<1>. DEFINE T == {count[s] : s \in D}
            f == [s \in D |-> count[s]]
<1>1. f \in Surjection(D, T)
  BY DEF Surjection
<1>2. IsFiniteSet(D)
  BY BoundsAssumption, FS_Subset
<1>3. IsFiniteSet(T)
  <2>. HIDE DEF T, f
  <2>. QED
    BY <1>1, <1>2, FS_Surjection
<1>4. T # {} /\ T \subseteq Int
  OBVIOUS
<1>5. Max(T) \in T /\ \A y \in T : y <= Max(T)
  <2>. HIDE DEF T
  <2>. QED
    BY <1>3, <1>4, GreatestExists
<1>. QED
  BY <1>5

LEMMA RevisionOfCounts ==
  ASSUME page \in Pages, NEW count \in [Scopes -> Nat]
  PROVE  /\ RevisionOf(count) \in Nat
         /\ \A s \in page.scopes : count[s] <= RevisionOf(count)
         /\ \E s \in page.scopes : RevisionOf(count) = count[s]
BY PagesAssumption, GreatestCount DEF RevisionOf

LEMMA RevisionOfGrows ==
  ASSUME page \in Pages, NEW count \in [Scopes -> Nat], NEW more \in [Scopes -> Nat],
         \A s \in Scopes : count[s] <= more[s]
  PROVE  RevisionOf(count) <= RevisionOf(more)
<1>1. PICK s \in page.scopes : RevisionOf(count) = count[s]
  BY RevisionOfCounts
<1>2. s \in Scopes
  BY PagesAssumption
<1>3. more[s] <= RevisionOf(more) /\ RevisionOf(more) \in Nat
  BY RevisionOfCounts
<1>. QED
  BY <1>1, <1>2, <1>3

LEMMA GreaterOfTwo ==
  ASSUME NEW m \in Nat, NEW n \in Nat
  PROVE  LET g == Max({m, n}) IN g \in {m, n} /\ m <= g /\ n <= g
BY DEF Max

LEMMA RangeIs ==
  ASSUME NEW S, NEW s \in Seq(S), NEW t \in Seq(S)
  PROVE  Range(s) \subseteq S /\ Range(s \o t) = Range(s) \cup Range(t)
<1>1. Range(s) \subseteq S
  BY DEF Range
<1>2. Range(s \o t) \subseteq Range(s) \cup Range(t)
  BY DEF Range
<1>3. ASSUME NEW i \in DOMAIN s PROVE s[i] \in Range(s \o t)
  <2>1. i \in DOMAIN (s \o t) /\ (s \o t)[i] = s[i]
    OBVIOUS
  <2>. QED
    BY <2>1 DEF Range
<1>4. ASSUME NEW i \in DOMAIN t PROVE t[i] \in Range(s \o t)
  <2>1. Len(s) + i \in DOMAIN (s \o t) /\ (s \o t)[Len(s) + i] = t[i]
    OBVIOUS
  <2>. QED
    BY <2>1 DEF Range
<1>. QED
  BY <1>1, <1>2, <1>3, <1>4 DEF Range

LEMMA RangeAppends ==
  ASSUME NEW S, NEW s \in Seq(S), NEW e \in S
  PROVE  /\ Append(s, e) \in Seq(S) /\ Len(Append(s, e)) = Len(s) + 1
         /\ Range(Append(s, e)) = Range(s) \cup {e}
<1>0. Append(s, e) \in Seq(S) /\ Len(Append(s, e)) = Len(s) + 1
  OBVIOUS
<1>1. \A i \in DOMAIN s : i \in DOMAIN Append(s, e) /\ Append(s, e)[i] = s[i]
  OBVIOUS
<1>2. Len(s) + 1 \in DOMAIN Append(s, e) /\ Append(s, e)[Len(s) + 1] = e
  OBVIOUS
<1>3. \A i \in DOMAIN Append(s, e) : i \in DOMAIN s \/ i = Len(s) + 1
  OBVIOUS
<1>. QED
  BY <1>0, <1>1, <1>2, <1>3 DEF Range

LEMMA RangeSplits ==
  ASSUME NEW S, NEW s \in Seq(S), s # <<>>
  PROVE  /\ Head(s) \in S /\ Tail(s) \in Seq(S) /\ Len(Tail(s)) = Len(s) - 1
         /\ Range(s) = Range(Tail(s)) \cup {Head(s)}
<1>1. Head(s) \in S /\ Tail(s) \in Seq(S) /\ Len(Tail(s)) = Len(s) - 1
  OBVIOUS
<1>2. \A i \in DOMAIN Tail(s) : i + 1 \in DOMAIN s /\ Tail(s)[i] = s[i + 1]
  OBVIOUS
<1>3. 1 \in DOMAIN s /\ s[1] = Head(s)
  OBVIOUS
<1>4. \A i \in DOMAIN s : i = 1 \/ (i - 1 \in DOMAIN Tail(s) /\ Tail(s)[i - 1] = s[i])
  OBVIOUS
<1>5. Range(s) \subseteq Range(Tail(s)) \cup {Head(s)}
  BY <1>3, <1>4 DEF Range
<1>6. Range(Tail(s)) \cup {Head(s)} \subseteq Range(s)
  BY <1>2, <1>3 DEF Range
<1>. QED
  BY <1>1, <1>5, <1>6

LEMMA RangeOfNone == Range(<<>>) = {}
BY DEF Range
-----------------------------------------------------------------------------
(* Type correctness.                                                         *)

LEMMA InitTyped == HInit => Typed
<1>. SUFFICES ASSUME HInit PROVE Typed
  OBVIOUS
<1>. USE DEF HInit, Init
<1>1. ServerTyped /\ CountsTyped
  BY BoundsAssumption DEF ServerTyped, CountsTyped
<1>2. WireTyped
  BY BoundsAssumption DEF WireTyped
<1>3. BrowserTyped
  BY DEF BrowserTyped, Queries, NoQuery, Partial
<1>. QED
  BY <1>1, <1>2, <1>3 DEF Typed

LEMMA ChangeTyped ==
  ASSUME Typed, NEW S \in Changes, Change(S)
  PROVE  ServerTyped' /\ \A s \in Scopes : stored[s] <= stored'[s]
<1>1. S \subseteq Scopes /\ S # {}
  BY ChangesAssumption
<1>2. Latest \in Nat /\ \A s \in Scopes : stored[s] <= Latest
  BY <1>1, GreatestCount DEF Latest, Typed, ServerTyped
<1>3. Latest + 1 <= MaxChanges /\ stored' = [s \in Scopes |-> IF s \in S THEN Latest + 1 ELSE stored[s]]
  BY <1>2, BoundsAssumption DEF Change
<1>4. /\ stored' \in [Scopes -> Nat]
      /\ \A s \in Scopes : stored'[s] <= MaxChanges /\ stored[s] <= stored'[s]
  BY <1>2, <1>3, BoundsAssumption DEF Typed, ServerTyped
<1>5. unsaid' \in SUBSET Announcements
  BY <1>1, <1>4 DEF Change, Announcements, Typed, ServerTyped
<1>. QED
  BY <1>4, <1>5 DEF Change, Typed, ServerTyped

\* The first announcement of the wire is counted.
LEMMA HearsCounts ==
  ASSUME Typed, Hears(Head(wire))
  PROVE  /\ wire # <<>> /\ Head(wire) \in Announcements
         /\ CountsTyped'
         /\ \A s \in Scopes : /\ revision[s] <= revision'[s] /\ heard[s] <= heard'[s]
                              /\ heard'[s] = heard[s] \/ heard'[s] = Head(wire).version[s]
         /\ \A s \in Head(wire).scopes : /\ revision'[s] = revision[s] + 1
                                         /\ Head(wire).version[s] <= heard'[s]
         /\ \A s \in Scopes \ Head(wire).scopes : revision'[s] = revision[s] /\ heard'[s] = heard[s]
<1>. DEFINE m == Head(wire)
<1>1. wire # <<>> /\ m \in Announcements
  BY RangeSplits DEF Hears, Handle, Typed, WireTyped
<1>2. m.scopes \subseteq Scopes /\ m.version \in [Scopes -> Nat]
  BY <1>1 DEF Announcements
<1>3. /\ revision' = [s \in Scopes |-> IF s \in m.scopes THEN revision[s] + 1 ELSE revision[s]]
      /\ heard' = [s \in Scopes |-> IF s \in m.scopes THEN Max({heard[s], m.version[s]}) ELSE heard[s]]
  BY DEF Hears, Handle, Counted
<1>. HIDE DEF m
<1>. revision \in [Scopes -> Nat] /\ heard \in [Scopes -> Nat]
  BY DEF Typed, CountsTyped
<1>4. \A s \in Scopes : LET g == Max({heard[s], m.version[s]}) IN
        g \in {heard[s], m.version[s]} /\ heard[s] <= g /\ m.version[s] <= g
  BY <1>2, GreaterOfTwo
<1>5. revision' \in [Scopes -> Nat] /\ heard' \in [Scopes -> Nat]
  BY <1>2, <1>3, <1>4
<1>6. \A s \in Scopes : /\ revision[s] <= revision'[s] /\ heard[s] <= heard'[s]
                        /\ heard'[s] = heard[s] \/ heard'[s] = m.version[s]
  BY <1>2, <1>3, <1>4
<1>7. \A s \in m.scopes : revision'[s] = revision[s] + 1 /\ m.version[s] <= heard'[s]
  BY <1>2, <1>3, <1>4
<1>8. \A s \in Scopes \ m.scopes : revision'[s] = revision[s] /\ heard'[s] = heard[s]
  BY <1>3
<1>. QED
  BY <1>1, <1>5, <1>6, <1>7, <1>8 DEF CountsTyped, m

-----------------------------------------------------------------------------
(* What becomes of the announcements on their way.                           *)

LEMMA ChannelOfSeqs ==
  ASSUME Typed
  PROVE  /\ Range(channel) \subseteq Announcements /\ Range(wire) \subseteq Announcements
         /\ Range(channel \o wire) = Range(channel) \cup Range(wire)
         /\ Coming \subseteq Announcements
BY RangeIs DEF Typed, WireTyped, ServerTyped, Coming

LEMMA PublishPasses ==
  ASSUME Typed, NEW m \in unsaid, Publish(m)
  PROVE  LET gone == IF ~connected THEN {m} ELSE IF Len(channel) = Capacity THEN {Head(channel)} ELSE {} IN
         WireTyped' /\ Coming' \subseteq Coming /\ Coming \subseteq Coming' \cup gone
<1>. m \in Announcements /\ WireTyped /\ Capacity \in Nat \ {0}
  BY BoundsAssumption DEF Typed, ServerTyped
<1>. wire' = wire /\ connected' = connected /\ unsaid' = unsaid \ {m}
  BY DEF Publish
<1>1. CASE ~connected
  <2>1. channel' = channel
    BY <1>1 DEF Publish
  <2>. QED
    BY <1>1, <2>1 DEF WireTyped, Coming
<1>2. CASE connected /\ Len(channel) = Capacity
  <2>1. channel' = Append(Tail(channel), m)
    BY <1>2 DEF Publish
  <2>2. channel # <<>> /\ channel \in Seq(Announcements)
    BY <1>2 DEF WireTyped
  <2>3. /\ Tail(channel) \in Seq(Announcements) /\ Len(Tail(channel)) = Capacity - 1
        /\ Range(channel) = Range(Tail(channel)) \cup {Head(channel)}
    BY <1>2, <2>2, RangeSplits
  <2>4. /\ channel' \in Seq(Announcements) /\ Len(channel') = Capacity
        /\ Range(channel') = Range(Tail(channel)) \cup {m}
    <3>1. ASSUME NEW t \in Seq(Announcements), Len(t) = Capacity - 1
          PROVE  /\ Append(t, m) \in Seq(Announcements) /\ Len(Append(t, m)) = Capacity
                 /\ Range(Append(t, m)) = Range(t) \cup {m}
      BY <3>1, RangeAppends
    <3>. QED
      BY <2>1, <2>3, <3>1, Zenon
  <2>. QED
    BY <1>2, <2>3, <2>4 DEF WireTyped, Coming
<1>3. CASE connected /\ Len(channel) # Capacity
  <2>1. channel' = Append(channel, m) /\ channel \in Seq(Announcements)
    BY <1>3 DEF Publish, WireTyped
  <2>2. /\ channel' \in Seq(Announcements) /\ Len(channel') = Len(channel) + 1
        /\ Range(channel') = Range(channel) \cup {m}
    BY <2>1, RangeAppends
  <2>. QED
    BY <1>3, <2>2 DEF WireTyped, Coming
<1>. QED
  BY <1>1, <1>2, <1>3

LEMMA FailurePasses ==
  ASSUME Typed, NEW m \in unsaid, MutationFails(m)
  PROVE  WireTyped' /\ Coming' \subseteq Coming /\ Coming \subseteq Coming' \cup {m}
BY DEF MutationFails, Typed, WireTyped, Coming

LEMMA RelayPasses ==
  ASSUME Typed, Relay
  PROVE  WireTyped' /\ Coming' = Coming
<1>. WireTyped
  BY DEF Typed
<1>1. /\ channel # <<>> /\ channel \in Seq(Announcements) /\ wire \in Seq(Announcements)
      /\ channel' = Tail(channel) /\ wire' = Append(wire, Head(channel))
      /\ connected' = connected /\ unsaid' = unsaid
  BY DEF Relay, WireTyped
<1>2. /\ Head(channel) \in Announcements
      /\ channel' \in Seq(Announcements) /\ Len(channel') = Len(channel) - 1
      /\ Range(channel) = Range(channel') \cup {Head(channel)}
  BY <1>1, RangeSplits
<1>3. wire' \in Seq(Announcements) /\ Range(wire') = Range(wire) \cup {Head(channel)}
  BY <1>1, <1>2, RangeAppends
<1>4. connected
  BY <1>1 DEF WireTyped
<1>5. WireTyped'
  <2>1. Len(channel') <= Capacity
    BY <1>1, <1>2, BoundsAssumption DEF WireTyped
  <2>. QED
    BY <1>1, <1>2, <1>3, <1>4, <2>1 DEF WireTyped
<1>6. Coming' = Coming
  BY <1>1, <1>2, <1>3 DEF Coming
<1>. QED
  BY <1>5, <1>6

LEMMA ClosesPasses ==
  ASSUME Typed, Disconnect \/ ServerStops
  PROVE  /\ WireTyped' /\ Coming' = unsaid'
         /\ unsaid' \subseteq unsaid /\ Coming = unsaid \cup Range(channel \o wire)
<1>1. channel' = <<>> /\ wire' = <<>> /\ unsaid' \subseteq unsaid
  BY DEF Disconnect, ServerStops
<1>2. WireTyped' /\ Coming' = unsaid'
  BY <1>1, RangeOfNone, BoundsAssumption DEF WireTyped, Coming
<1>. QED
  BY <1>1, <1>2, ChannelOfSeqs DEF Coming

LEMMA HearsPasses ==
  ASSUME Typed, Hears(Head(wire))
  PROVE  WireTyped' /\ Coming' \subseteq Coming /\ Coming = Coming' \cup {Head(wire)}
<1>. WireTyped
  BY DEF Typed
<1>1. /\ wire # <<>> /\ wire \in Seq(Announcements) /\ wire' = Tail(wire)
      /\ channel' = channel /\ unsaid' = unsaid /\ connected' = connected
  BY DEF Hears, Handle, WireTyped, server
<1>2. wire' \in Seq(Announcements) /\ Range(wire) = Range(wire') \cup {Head(wire)}
  BY <1>1, RangeSplits
<1>. QED
  BY <1>1, <1>2 DEF WireTyped, Coming

\* In every other step nothing moves.
LEMMA QuietPasses ==
  ASSUME Typed, UNCHANGED <<unsaid, channel, wire>>, connected' = connected \/ connected'
  PROVE  WireTyped' /\ Coming' = Coming
BY DEF Typed, WireTyped, Coming

LEMMA ChangePasses ==
  ASSUME Typed, NEW S \in Changes, Change(S)
  PROVE  WireTyped' /\ Coming' = Coming \cup {[scopes |-> S, version |-> stored']}
BY DEF Typed, WireTyped, Coming, Change

-----------------------------------------------------------------------------
(* What a page is given when it loads or refreshes.                          *)

\* It is the entry, or the answer to a query that has read what it has read.
Given(count) == Current(count) /\ view' = cache.value /\ UNCHANGED <<cache, inflight, query, listening>>
Waits(refresh, count) ==
  /\ listening' = TRUE /\ inflight' = TRUE /\ UNCHANGED <<cache, view>>
  /\ \/ query' = query /\ inflight
     \/ query' = [query EXCEPT !.busy = TRUE, !.refresh = refresh, !.revision = RevisionOf(count)]
Loads(refresh, count) == IF refresh THEN Refresh(count) ELSE Load(count)

LEMMA LoadsGives ==
  ASSUME NEW refresh \in BOOLEAN, NEW count, Loads(refresh, count)
  PROVE  (~refresh /\ Given(count)) \/ (~(~refresh /\ Current(count)) /\ Waits(refresh, count))
<1>1. CASE refresh
  BY <1>1 DEF Loads, Refresh, Ask, Waits
<1>2. CASE ~refresh /\ Current(count)
  BY <1>2 DEF Loads, Load, Given
<1>3. CASE ~refresh /\ ~Current(count) /\ inflight
  BY <1>3 DEF Loads, Load, JoinInflight, Waits
<1>4. CASE ~refresh /\ ~Current(count) /\ ~inflight
  BY <1>4 DEF Loads, Load, Ask, Waits
<1>. QED
  BY <1>1, <1>2, <1>3, <1>4

LEMMA WaitsAsks ==
  ASSUME Typed, NEW refresh \in BOOLEAN, NEW count \in [Scopes -> Nat], Waits(refresh, count)
  PROVE  /\ query' \in Queries /\ query'.busy /\ query'.value = query.value
         /\ query' = query \/ (query'.refresh = refresh /\ query'.revision = RevisionOf(count))
<1>. query \in Queries /\ page \in Pages
  BY DEF Typed, BrowserTyped, ServerTyped
<1>. RevisionOf(count) \in Nat
  BY RevisionOfCounts
<1>1. CASE query' = query /\ inflight
  BY <1>1 DEF Typed, BrowserTyped
<1>2. CASE query' = [query EXCEPT !.busy = TRUE, !.refresh = refresh, !.revision = RevisionOf(count)]
  BY <1>2 DEF Queries
<1>. QED
  BY <1>1, <1>2 DEF Waits

LEMMA LoadsTyped ==
  ASSUME Typed, page' = page, open', NEW refresh \in BOOLEAN, NEW count \in [Scopes -> Nat],
         Loads(refresh, count)
  PROVE  BrowserTyped'
<1>. BrowserTyped /\ Values' = Values /\ Queries' = Queries /\ Entries' = Entries
  BY DEF Typed, Values, Queries, Entries, Partial
<1>. NoQuery' = NoQuery
  BY DEF NoQuery
<1>1. CASE Given(count)
  <2>1. cache \in Entries /\ view' = cache.value
    BY <1>1 DEF Given, Current, BrowserTyped
  <2>2. view' \in Values
    BY <2>1 DEF Entries
  <2>. QED
    BY <1>1, <2>2 DEF Given, BrowserTyped
<1>2. CASE Waits(refresh, count)
  <2>1. query' \in Queries /\ query'.busy
    BY <1>2, WaitsAsks
  <2>. QED
    BY <1>2, <2>1 DEF Waits, BrowserTyped
<1>. QED
  BY <1>1, <1>2, LoadsGives

LEMMA DoneTyped ==
  ASSUME Typed, page' = page, Done, open' = open,
         cache' = NoEntry \/ cache' \in Entries, view' \in Values \cup {NoValue},
         view' # NoValue => open
  PROVE  BrowserTyped'
<1>. BrowserTyped /\ Values' = Values /\ Queries' = Queries /\ Entries' = Entries
  BY DEF Typed, Values, Queries, Entries, Partial
<1>1. NoQuery' = NoQuery
  BY DEF NoQuery
<1>2. NoQuery \in Queries /\ ~NoQuery.busy
  BY DEF NoQuery, Queries, Partial
<1>. QED
  BY <1>1, <1>2 DEF Done, BrowserTyped

LEMMA AnswerTyped ==
  ASSUME Typed, Answer
  PROVE  BrowserTyped' /\ query.value \in Values
<1>. BrowserTyped /\ page \in Pages /\ revision \in [Scopes -> Nat]
  BY DEF Typed, ServerTyped, CountsTyped
<1>1. query \in Queries
  BY DEF BrowserTyped
<1>2. query.value \in Values
  <2>1. query.value \in Partial /\ \A s \in page.scopes : query.value[s] # NoValue
    BY <1>1 DEF Queries, Answer, Complete
  <2>. QED
    BY <2>1 DEF Partial, Values
<1>3. RevisionOf(revision) \in Nat /\ query.revision \in Nat
  BY <1>1, RevisionOfCounts DEF Queries
<1>4. cache' \in Entries
  BY <1>2, <1>3 DEF Answer, Entries
<1>5. view' \in Values \cup {NoValue} /\ (view' # NoValue => open)
  BY <1>2 DEF Answer, BrowserTyped
<1>6. page' = page /\ Done /\ open' = open
  BY DEF Answer
<1>. QED
  BY <1>2, <1>4, <1>5, <1>6, DoneTyped

LEMMA ReadTyped ==
  ASSUME Typed, NEW s \in page.scopes, Read(s)
  PROVE  /\ BrowserTyped' /\ query'.busy = query.busy /\ query'.refresh = query.refresh
         /\ query'.revision = query.revision
         /\ query'.value = [query.value EXCEPT ![s] = stored[s]] /\ query.value \in Partial
<1>. BrowserTyped /\ Values' = Values /\ Queries' = Queries /\ Entries' = Entries
  BY DEF Typed, Values, Queries, Entries, Partial, Read
<1>1. stored[s] \in Nat
  BY PagesAssumption DEF Typed, ServerTyped
<1>2. query \in Queries /\ query.busy
  BY DEF BrowserTyped, Read
<1>3. query' \in Queries /\ query'.busy
  BY <1>1, <1>2 DEF Read, Queries, Partial
<1>4. BrowserTyped'
  BY <1>3 DEF Read, BrowserTyped
<1>. QED
  BY <1>2, <1>4 DEF Read, Queries

LEMMA NextTyped ==
  ASSUME Typed, HNext \/ UNCHANGED hvars
  PROVE  Typed' /\ page' = page
<1>. ServerTyped /\ WireTyped /\ CountsTyped /\ BrowserTyped
  BY DEF Typed
<1>1. ASSUME UNCHANGED <<page, stored>>, unsaid' \subseteq unsaid PROVE ServerTyped'
  BY <1>1 DEF ServerTyped
<1>2. ASSUME UNCHANGED <<revision, heard>> PROVE CountsTyped'
  BY <1>2 DEF CountsTyped
<1>3. ASSUME page' = page, UNCHANGED <<cache, inflight, query, open, listening, view>>
      PROVE  BrowserTyped'
  <2>. Values' = Values /\ Queries' = Queries /\ Entries' = Entries /\ NoQuery' = NoQuery
    BY <1>3 DEF Values, Queries, Entries, Partial, NoQuery
  <2>. QED
    BY <1>3 DEF BrowserTyped
<1>4. CASE UNCHANGED hvars
  BY <1>1, <1>2, <1>3, <1>4, QuietPasses DEF hvars, vars, server, Typed, browser
<1>5. CASE Hears(Head(wire))
  <2>. DEFINE m == Head(wire)
  <2>1. ServerTyped' /\ WireTyped' /\ CountsTyped' /\ page' = page
    BY <1>1, <1>5, HearsPasses, HearsCounts DEF Hears, Handle, server
  <2>2. BrowserTyped'
    <3>1. CASE ~Heeds(m)
      BY <1>3, <1>5, <2>1, <3>1 DEF Hears, Handle, ServerTyped, WireTyped, CountsTyped
    <3>2. CASE Heeds(m)
      <4>1. page.insists \in BOOLEAN
        BY PagesAssumption DEF ServerTyped
      <4>2. Loads(page.insists, revision') /\ open'
        BY <1>5, <3>2 DEF Hears, Handle, Heeds, Loads
      <4>. QED
        BY <2>1, <4>1, <4>2, LoadsTyped DEF CountsTyped
    <3>. QED
      BY <3>1, <3>2
  <2>. QED
    BY <2>1, <2>2 DEF Typed
<1>6. CASE Asks
  <2>0. open' /\ (Loads(FALSE, revision) \/ Loads(TRUE, revision))
    <3>1. CASE EnterPage
      BY <3>1 DEF EnterPage, Loads
    <3>2. CASE Save
      BY <3>2 DEF Save, Loads
    <3>. QED
      BY <1>6, <3>1, <3>2 DEF Asks
  <2>1. PICK refresh \in BOOLEAN : Loads(refresh, revision) /\ open'
    BY <2>0
  <2>2. page' = page /\ ServerTyped' /\ CountsTyped' /\ WireTyped'
    BY <1>1, <1>2, <1>6, QuietPasses DEF Asks, EnterPage, Save, server
  <2>3. BrowserTyped'
    BY <2>1, <2>2, LoadsTyped DEF CountsTyped
  <2>. QED
    BY <2>2, <2>3 DEF Typed
<1>7. CASE IsGiven
  BY <1>1, <1>2, <1>7, AnswerTyped, QuietPasses DEF IsGiven, Answer, server, Typed
<1>8. CASE Loses
  <2>1. CASE QueryFails \/ ServerStops
    <3>1. /\ Done /\ UNCHANGED <<page, stored, revision, heard, cache, open, view>>
          /\ unsaid' \subseteq unsaid
      BY <1>8, <2>1 DEF Loses, QueryFails, ServerStops, server
    <3>2. BrowserTyped'
      BY <3>1, DoneTyped DEF BrowserTyped
    <3>3. WireTyped'
      BY <2>1, ClosesPasses, QuietPasses DEF QueryFails, server
    <3>. QED
      BY <1>1, <1>2, <3>1, <3>2, <3>3 DEF Typed
  <2>2. CASE \E m \in unsaid : Publish(m)
    <3>1. WireTyped'
      BY <2>2, PublishPasses
    <3>. QED
      BY <1>1, <1>2, <1>3, <1>8, <2>2, <3>1 DEF Publish, Loses, Typed, browser
  <2>4. CASE \E m \in unsaid : MutationFails(m)
    BY <1>1, <1>2, <1>3, <1>8, <2>4, FailurePasses DEF MutationFails, Loses, Typed, browser
  <2>3. CASE Disconnect
    BY <1>1, <1>2, <1>3, <1>8, <2>3, ClosesPasses DEF Disconnect, Loses, Typed, browser
  <2>. QED
    BY <1>8, <2>1, <2>2, <2>3, <2>4 DEF Loses
<1>9. CASE Else
  <2>. heard' = heard
    BY <1>9 DEF Else
  <2>1. ASSUME NEW S \in Changes, Change(S) PROVE Typed' /\ page' = page
    BY <1>2, <1>3, <2>1, ChangeTyped, ChangePasses DEF Change, browser, Typed
  <2>2. ASSUME NEW s \in page.scopes, Read(s) PROVE Typed' /\ page' = page
    BY <1>1, <1>2, <2>2, ReadTyped, QuietPasses DEF Read, server, Typed
  <2>3. CASE Relay
    BY <1>1, <1>2, <1>3, <2>3, RelayPasses DEF Relay, browser, Typed
  <2>4. CASE Reconnect
    BY <1>1, <1>2, <1>3, <2>4, QuietPasses DEF Reconnect, browser, server, Typed
  <2>5. CASE LeavePage
    <3>. Values' = Values /\ Queries' = Queries /\ Entries' = Entries /\ NoQuery' = NoQuery
      BY <2>5 DEF LeavePage, Values, Queries, Entries, Partial, NoQuery
    <3>1. BrowserTyped'
      BY <2>5 DEF LeavePage, BrowserTyped
    <3>. QED
      BY <1>1, <1>2, <2>5, <3>1, QuietPasses DEF LeavePage, server, Typed
  <2>6. CASE Clear
    <3>. Values' = Values /\ Queries' = Queries /\ Entries' = Entries /\ NoQuery' = NoQuery
      BY <2>6 DEF Clear, Values, Queries, Entries, Partial, NoQuery
    <3>1. BrowserTyped'
      BY <2>6 DEF Clear, BrowserTyped
    <3>. QED
      BY <1>1, <1>2, <2>6, <3>1, QuietPasses DEF Clear, server, Typed
  <2>. QED
    BY <1>9, <2>1, <2>2, <2>3, <2>4, <2>5, <2>6 DEF Else
<1>. QED
  BY <1>4, <1>5, <1>6, <1>7, <1>8, <1>9 DEF HNext

-----------------------------------------------------------------------------
(* What a step does to each part of the state.                               *)

LEMMA CountsStep ==
  ASSUME Typed, HNext \/ UNCHANGED hvars
  PROVE  /\ UNCHANGED <<revision, heard>> \/ Hears(Head(wire))
         /\ RevisionOf(revision)' = RevisionOf(revision')
         /\ RevisionOf(revision) \in Nat /\ RevisionOf(revision') \in Nat
         /\ RevisionOf(revision) <= RevisionOf(revision')
<1>1. UNCHANGED <<revision, heard>> \/ Hears(Head(wire))
  BY DEF HNext, hvars, vars, browser, Asks, EnterPage, Save, IsGiven, Answer, Loses, QueryFails,
         Publish, MutationFails, Disconnect, ServerStops, Else, Change, Read, Relay, Reconnect, LeavePage, Clear
<1>2. page' = page /\ revision' \in [Scopes -> Nat] /\ revision \in [Scopes -> Nat] /\ page \in Pages
  BY NextTyped DEF Typed, CountsTyped, ServerTyped
<1>3. \A s \in Scopes : revision[s] <= revision'[s]
  BY <1>1, <1>2, HearsCounts
<1>. QED
  BY <1>1, <1>2, <1>3, RevisionOfCounts, RevisionOfGrows DEF RevisionOf

LEMMA StoredStep ==
  ASSUME Typed, HNext \/ UNCHANGED hvars
  PROVE  \/ stored' = stored /\ Coming' \subseteq Coming
         \/ \E S \in Changes : Change(S)
<1>1. CASE UNCHANGED hvars
  BY <1>1, QuietPasses DEF hvars, vars, server
<1>2. CASE Hears(Head(wire))
  BY <1>2, HearsPasses DEF Hears, Handle, server
<1>3. CASE Asks
  BY <1>3, QuietPasses DEF Asks, EnterPage, Save, server
<1>4. CASE IsGiven
  BY <1>4, QuietPasses DEF IsGiven, Answer, server
<1>5. CASE Loses
  <2>1. CASE QueryFails
    BY <2>1, QuietPasses DEF QueryFails, server
  <2>2. CASE \E m \in unsaid : Publish(m)
    BY <2>2, PublishPasses DEF Publish
  <2>3. CASE Disconnect \/ ServerStops
    BY <2>3, ClosesPasses DEF Disconnect, ServerStops
  <2>4. CASE \E m \in unsaid : MutationFails(m)
    BY <2>4, FailurePasses DEF MutationFails
  <2>. QED
    BY <1>5, <2>1, <2>2, <2>3, <2>4 DEF Loses
<1>6. CASE Else
  <2>1. CASE Relay
    BY <2>1, RelayPasses DEF Relay
  <2>2. CASE Reconnect \/ LeavePage \/ Clear \/ \E s \in page.scopes : Read(s)
    BY <2>2, QuietPasses DEF Reconnect, LeavePage, Clear, Read, server
  <2>. QED
    BY <1>6, <2>1, <2>2 DEF Else
<1>. QED
  BY <1>1, <1>2, <1>3, <1>4, <1>5, <1>6 DEF HNext

\* The browser loads, after an announcement or for its user.
Asking(refresh) ==
  /\ open'
  /\ Loads(refresh, revision')
  /\ masked' = masked \cup MaskedQuery \/
     (Hears(Head(wire)) /\ masked' = masked \cup (IF Masks(Head(wire)) THEN {"query", "entry"} ELSE {})
                                            \cup MaskedQuery)
  /\ Note(Told(refresh, revision'))

LEMMA HeedingAsks ==
  ASSUME Typed, Hears(Head(wire)), Heeds(Head(wire))
  PROVE  \E refresh \in BOOLEAN : Asking(refresh)
<1>1. page.insists \in BOOLEAN
  BY PagesAssumption DEF Typed, ServerTyped
<1>2. open' /\ Loads(page.insists, revision') /\ Note(Told(page.insists, revision'))
  BY DEF Hears, Handle, Heeds, Loads
<1>3. Asking(page.insists)
  BY <1>2 DEF Asking, Hears
<1>. QED
  BY <1>1, <1>3

LEMMA AsksIsAsking ==
  ASSUME Asks
  PROVE  \E refresh \in BOOLEAN : Asking(refresh)
<1>1. CASE EnterPage /\ masked' = masked \cup MaskedQuery /\ Note(Told(FALSE, revision))
  <2>1. open' /\ Loads(FALSE, revision) /\ revision' = revision
    BY <1>1 DEF EnterPage, Loads
  <2>2. Asking(FALSE)
    BY <1>1, <2>1 DEF Asking
  <2>. QED
    BY <2>2
<1>2. CASE Save /\ masked' = masked \cup MaskedQuery /\ Note(Told(TRUE, revision))
  <2>1. open' /\ Loads(TRUE, revision) /\ revision' = revision
    BY <1>2 DEF Save, Loads
  <2>2. Asking(TRUE)
    BY <1>2, <2>1 DEF Asking
  <2>. QED
    BY <2>2
<1>. QED
  BY <1>1, <1>2 DEF Asks

LEMMA BrowserStep ==
  ASSUME Typed, HNext \/ UNCHANGED hvars
  PROVE  \/ UNCHANGED <<cache, query>>
         \/ \E refresh \in BOOLEAN : Asking(refresh)
         \/ IsGiven
         \/ cache' = cache /\ query' = NoQuery
         \/ cache' = cache /\ \E s \in page.scopes : Read(s)
         \/ cache' = NoEntry /\ query' = query
<1>1. CASE UNCHANGED hvars
  BY <1>1 DEF hvars, vars, browser
<1>2. CASE Hears(Head(wire))
  <2>1. CASE ~Heeds(Head(wire))
    BY <1>2, <2>1 DEF Hears, Handle
  <2>2. CASE Heeds(Head(wire))
    BY <1>2, <2>2, HeedingAsks
  <2>. QED
    BY <2>1, <2>2
<1>3. CASE Asks
  BY <1>3, AsksIsAsking
<1>4. CASE IsGiven
  BY <1>4
<1>5. CASE Loses
  BY <1>5 DEF Loses, QueryFails, Done, Publish, MutationFails, Disconnect, ServerStops, browser
<1>6. CASE Else
  BY <1>6 DEF Else, Change, Read, Relay, Reconnect, LeavePage, Clear, browser
<1>. QED
  BY <1>1, <1>2, <1>3, <1>4, <1>5, <1>6 DEF HNext

LEMMA AskingQuery ==
  ASSUME Typed, HNext \/ UNCHANGED hvars, NEW refresh \in BOOLEAN, Asking(refresh)
  PROVE  /\ cache' = cache /\ query'.value = query.value
         /\ query' = query \/ (query'.refresh = refresh /\ query'.revision = RevisionOf(revision'))
         /\ \/ ~refresh /\ Given(revision')
            \/ ~(~refresh /\ Current(revision')) /\ listening' = TRUE
<1>1. revision' \in [Scopes -> Nat]
  BY NextTyped DEF Typed, CountsTyped
<1>2. (~refresh /\ Given(revision')) \/ (~(~refresh /\ Current(revision')) /\ Waits(refresh, revision'))
  BY LoadsGives DEF Asking
<1>3. CASE ~refresh /\ Given(revision')
  BY <1>3 DEF Given
<1>4. CASE ~(~refresh /\ Current(revision')) /\ Waits(refresh, revision')
  <2>1. /\ query'.value = query.value
        /\ query' = query \/ (query'.refresh = refresh /\ query'.revision = RevisionOf(revision'))
    BY <1>1, <1>4, WaitsAsks
  <2>2. cache' = cache /\ listening' = TRUE
    BY <1>4 DEF Waits
  <2>. QED
    BY <1>4, <2>1, <2>2
<1>. QED
  BY <1>2, <1>3, <1>4
-----------------------------------------------------------------------------
(* Nothing is ahead of the store or of the counts.                           *)

LEMMA InitNotAhead == HInit => NotAhead
<1>. SUFFICES ASSUME HInit PROVE NotAhead
  OBVIOUS
<1>1. Typed
  BY InitTyped
<1>2. page \in Pages /\ revision \in [Scopes -> Nat]
  BY <1>1 DEF Typed, ServerTyped, CountsTyped
<1>3. RevisionOf(revision) \in Nat
  BY <1>2, RevisionOfCounts
<1>4. Coming = {}
  BY RangeOfNone DEF HInit, Init, Coming
<1>5. AnnouncementsNotAhead
  BY <1>4 DEF HInit, Init, AnnouncementsNotAhead
<1>6. QueryNotAhead
  BY <1>3 DEF HInit, Init, QueryNotAhead, NoQuery, Unread
<1>. QED
  BY <1>5, <1>6 DEF HInit, Init, NotAhead, EntryNotAhead

LEMMA StoredGrows ==
  ASSUME Typed, HNext \/ UNCHANGED hvars
  PROVE  \A s \in Scopes : stored[s] \in Nat /\ stored'[s] \in Nat /\ stored[s] <= stored'[s]
<1>1. stored \in [Scopes -> Nat] /\ stored' \in [Scopes -> Nat]
  BY NextTyped DEF Typed, ServerTyped
<1>2. CASE stored' = stored
  BY <1>1, <1>2
<1>3. CASE \E S \in Changes : Change(S)
  BY <1>1, <1>3, ChangeTyped
<1>. QED
  BY <1>2, <1>3, StoredStep

LEMMA AnnouncementsStayBehind ==
  ASSUME Typed, AnnouncementsNotAhead, HNext \/ UNCHANGED hvars
  PROVE  AnnouncementsNotAhead'
<1>. Typed' /\ \A s \in Scopes : stored[s] \in Nat /\ stored'[s] \in Nat /\ stored[s] <= stored'[s]
  BY NextTyped, StoredGrows
<1>. /\ \A s \in Scopes : heard[s] \in Nat /\ heard'[s] \in Nat
     /\ Coming \subseteq Announcements
  BY ChannelOfSeqs DEF Typed, CountsTyped
<1>1. \A m \in Coming, s \in Scopes : m.version[s] \in Nat
  BY DEF Announcements
<1>2. \A s \in Scopes : heard'[s] <= stored'[s]
  <2>1. CASE heard' = heard
    BY <2>1 DEF AnnouncementsNotAhead
  <2>2. CASE Hears(Head(wire))
    <3>1. Head(wire) \in Coming
      BY <2>2, HearsPasses
    <3>2. \A s \in Scopes : heard'[s] = heard[s] \/ heard'[s] = Head(wire).version[s]
      BY <2>2, HearsCounts
    <3>. QED
      BY <1>1, <3>1, <3>2 DEF AnnouncementsNotAhead
  <2>. QED
    BY <2>1, <2>2, CountsStep
<1>3. \A m \in Coming', s \in Scopes : m.version[s] <= stored'[s]
  <2>1. CASE stored' = stored /\ Coming' \subseteq Coming
    BY <2>1 DEF AnnouncementsNotAhead
  <2>2. ASSUME NEW S \in Changes, Change(S)
        PROVE  \A m \in Coming', s \in Scopes : m.version[s] <= stored'[s]
    <3>1. Coming' = Coming \cup {[scopes |-> S, version |-> stored']}
      BY <2>2, ChangePasses
    <3>2. \A m \in Coming, s \in Scopes : m.version[s] <= stored'[s]
      BY <1>1 DEF AnnouncementsNotAhead
    <3>. QED
      BY <3>1, <3>2
  <2>. QED
    BY <2>1, <2>2, StoredStep
<1>. QED
  BY <1>2, <1>3 DEF AnnouncementsNotAhead

LEMMA NextNotAhead ==
  ASSUME Typed, NotAhead, HNext \/ UNCHANGED hvars
  PROVE  NotAhead'
<1>. AnnouncementsNotAhead'
  BY AnnouncementsStayBehind DEF NotAhead
<1>. QueryNotAhead /\ EntryNotAhead
  BY DEF NotAhead
<1>. page' = page /\ page \in Pages /\ page.scopes \subseteq Scopes
  BY NextTyped, PagesAssumption DEF Typed, ServerTyped
<1>. \A s \in Scopes : stored[s] \in Nat /\ stored'[s] \in Nat /\ stored[s] <= stored'[s]
  BY StoredGrows
<1>. DEFINE R == RevisionOf(revision)
            N == RevisionOf(revision')
<1>. R \in Nat /\ N \in Nat /\ R <= N /\ RevisionOf(revision)' = N
  BY CountsStep
<1>. HIDE DEF R, N
<1>. /\ query \in Queries /\ query.revision \in Nat
     /\ \A s \in page.scopes : Unread(query.value, s) \/ query.value[s] \in Nat
  BY DEF Typed, BrowserTyped, Queries, Partial, Unread
<1>. cache # NoEntry => cache.revision \in Nat /\ \A s \in page.scopes : cache.value[s] \in Nat
  BY DEF Typed, BrowserTyped, Entries, Values
<1>1. \A s \in page.scopes : Unread(query.value, s) \/ query.value[s] <= stored'[s]
  BY DEF QueryNotAhead
<1>2. query.revision <= R /\ query.revision <= N
  BY DEF QueryNotAhead, R
<1>3. cache # NoEntry => cache.revision <= N /\ \A s \in page.scopes : cache.value[s] <= stored'[s]
  BY DEF EntryNotAhead, R
<1>4. ASSUME query' = query PROVE QueryNotAhead'
  BY <1>1, <1>2, <1>4 DEF QueryNotAhead, Unread
<1>5. ASSUME cache' = cache PROVE EntryNotAhead'
  BY <1>3, <1>5 DEF EntryNotAhead
<1>6. ASSUME query' = NoQuery PROVE QueryNotAhead'
  BY <1>6 DEF QueryNotAhead, NoQuery, Unread
<1>7. ASSUME NEW refresh \in BOOLEAN, Asking(refresh) PROVE QueryNotAhead' /\ EntryNotAhead'
  <2>1. /\ cache' = cache /\ query'.value = query.value
        /\ query' = query \/ query'.revision = N
    BY <1>7, AskingQuery DEF N
  <2>2. query'.revision <= N
    BY <1>2, <2>1
  <2>. QED
    BY <1>1, <1>5, <2>1, <2>2 DEF QueryNotAhead, Unread
<1>8. CASE IsGiven
  <2>1. Answer /\ query' = NoQuery
    BY <1>8 DEF IsGiven, Answer, Done
  <2>2. cache'.value = query.value /\ cache'.revision \in {R, query.revision}
    BY <2>1 DEF Answer, R
  <2>3. \A s \in page.scopes : ~Unread(query.value, s)
    BY <2>1 DEF Answer, Complete, Unread
  <2>4. EntryNotAhead'
    BY <1>1, <1>2, <2>2, <2>3 DEF EntryNotAhead
  <2>. QED
    BY <1>6, <2>1, <2>4 DEF NotAhead
<1>9. ASSUME NEW s \in page.scopes, Read(s) PROVE QueryNotAhead'
  <2>1. /\ query'.revision = query.revision /\ stored' = stored
        /\ query'.value = [query.value EXCEPT ![s] = stored[s]] /\ query.value \in Partial
    BY <1>9, ReadTyped DEF Read, server
  <2>2. \A t \in page.scopes : Unread(query'.value, t) \/ query'.value[t] <= stored'[t]
    BY <1>1, <2>1 DEF Partial, Unread
  <2>. QED
    BY <1>2, <2>1, <2>2 DEF QueryNotAhead, Unread
<1>. QED
  BY <1>4, <1>5, <1>6, <1>7, <1>8, <1>9, BrowserStep DEF NotAhead, EntryNotAhead

-----------------------------------------------------------------------------
(* Revisions tell what has been announced.                                   *)

LEMMA MaskedStep ==
  ASSUME HNext \/ UNCHANGED hvars
  PROVE  \/ IsGiven
         \/ masked \subseteq masked'
         \/ query' = NoQuery /\ masked \subseteq masked' \cup {"query"}
<1>1. CASE UNCHANGED hvars
  BY <1>1 DEF hvars
<1>2. CASE Hears(Head(wire))
  BY <1>2 DEF Hears
<1>3. CASE Asks
  BY <1>3 DEF Asks
<1>4. CASE Loses
  BY <1>4 DEF Loses, QueryFails, ServerStops, Done
<1>5. CASE Else
  BY <1>5 DEF Else
<1>. QED
  BY <1>1, <1>2, <1>3, <1>4, <1>5 DEF HNext

\* What is announced of the query counts, or masks.
LEMMA AnnouncementTells ==
  ASSUME Typed, HNext \/ UNCHANGED hvars
  PROVE  \/ /\ ~(Hears(Head(wire)) /\ Concerns(Head(wire)))
            /\ RevisionOf(revision') = RevisionOf(revision)
            /\ \A s \in page.scopes : heard'[s] = heard[s]
         \/ RevisionOf(revision') > RevisionOf(revision)
         \/ {"query", "entry"} \subseteq masked'
<1>. page.scopes \subseteq Scopes
  BY PagesAssumption DEF Typed, ServerTyped
<1>1. CASE UNCHANGED <<revision, heard>> /\ ~Hears(Head(wire))
  BY <1>1
<1>2. CASE Hears(Head(wire)) /\ ~Concerns(Head(wire))
  <2>1. \A s \in page.scopes : s \in Scopes \ Head(wire).scopes
    BY <1>2 DEF Concerns
  <2>2. \A s \in page.scopes : revision'[s] = revision[s] /\ heard'[s] = heard[s]
    BY <1>2, <2>1, HearsCounts
  <2>3. {revision'[s] : s \in page.scopes} = {revision[s] : s \in page.scopes}
    BY <2>2
  <2>. QED
    BY <1>2, <2>2, <2>3 DEF RevisionOf
<1>3. CASE Hears(Head(wire)) /\ Concerns(Head(wire))
  <2>1. CASE RevisionOf(revision') = RevisionOf(revision)
    BY <1>3, <2>1 DEF Hears, Masks
  <2>2. CASE RevisionOf(revision') # RevisionOf(revision)
    BY <2>2, CountsStep
  <2>. QED
    BY <2>1, <2>2
<1>. QED
  BY <1>1, <1>2, <1>3, CountsStep

LEMMA NextRevisionsTell ==
  ASSUME Typed, NotAhead, RevisionsTell, HNext \/ UNCHANGED hvars
  PROVE  RevisionsTell'
<1>. DEFINE R == RevisionOf(revision)
            N == RevisionOf(revision')
<1>. R \in Nat /\ N \in Nat /\ R <= N /\ RevisionOf(revision)' = N
  BY CountsStep
<1>. page' = page /\ page.scopes \subseteq Scopes /\ Typed'
  BY NextTyped, PagesAssumption DEF Typed, ServerTyped
<1>. \A s \in Scopes : heard[s] \in Nat /\ heard'[s] \in Nat
  BY DEF Typed, CountsTyped
<1>. /\ query \in Queries /\ query.revision \in Nat
     /\ \A s \in page.scopes : Unread(query.value, s) \/ query.value[s] \in Nat
  BY DEF Typed, BrowserTyped, Queries, Partial, Unread
<1>. cache # NoEntry => cache.revision \in Nat /\ cache.revision <= R
  BY DEF Typed, BrowserTyped, Entries, NotAhead, EntryNotAhead
<1>. query.revision <= R
  BY DEF NotAhead, QueryNotAhead
<1>. EntryTells /\ QueryTells
  BY DEF RevisionsTell
<1>1. \/ N = R /\ \A s \in page.scopes : heard'[s] = heard[s]
      \/ N > R
      \/ {"query", "entry"} \subseteq masked'
  BY AnnouncementTells
<1>2. ASSUME cache' = cache, ~IsGiven PROVE EntryTells'
  <2>1. "entry" \in masked => "entry" \in masked'
    BY <1>2, MaskedStep
  <2>2. CASE N = R /\ \A s \in page.scopes : heard'[s] = heard[s]
    BY <1>2, <2>1, <2>2 DEF EntryTells, UpToDate
  <2>3. CASE N > R
    BY <1>2, <2>3 DEF EntryTells
  <2>. QED
    BY <1>1, <2>2, <2>3 DEF EntryTells
<1>3. ASSUME query' = query, ~IsGiven PROVE QueryTells'
  <2>0. query = NoQuery => QueryTells'
    BY <1>3 DEF QueryTells, NoQuery
  <2>1. CASE query # NoQuery
    <3>1. "query" \in masked => "query" \in masked'
      BY <1>3, <2>1, MaskedStep
    <3>2. CASE N = R /\ \A s \in page.scopes : heard'[s] = heard[s]
      BY <1>3, <3>1, <3>2 DEF QueryTells, UpToDate, Unread
    <3>3. CASE N > R
      BY <1>3, <3>3 DEF QueryTells
    <3>. QED
      BY <1>1, <3>2, <3>3 DEF QueryTells
  <2>. QED
    BY <2>0, <2>1
<1>4. ASSUME query' = NoQuery PROVE QueryTells'
  BY <1>4 DEF QueryTells, NoQuery
<1>5. ASSUME cache' = NoEntry PROVE EntryTells'
  BY <1>5 DEF EntryTells
<1>6. ASSUME NEW refresh \in BOOLEAN, Asking(refresh), ~IsGiven PROVE EntryTells' /\ QueryTells'
  <2>1. cache' = cache /\ query'.value = query.value
    BY <1>6, AskingQuery
  <2>2. CASE query' = query
    BY <1>2, <1>3, <1>6, <2>1, <2>2
  <2>3. CASE query' # query
    <3>1. "query" \notin masked' => ~SharesOldQuery
      BY <1>6, <2>3 DEF Asking, MaskedQuery, Because
    <3>2. ASSUME ~SharesOldQuery, NEW s \in page.scopes
          PROVE  Unread(query.value, s) \/ query.value[s] >= heard'[s]
      <4>1. CASE ~query.busy
        BY <4>1 DEF Typed, BrowserTyped, NoQuery, Unread
      <4>2. CASE ~Older(query.value, heard')
        BY <4>2 DEF Older, Unread
      <4>. QED
        BY <3>2, <4>1, <4>2 DEF SharesOldQuery
    <3>3. QueryTells'
      BY <2>1, <3>1, <3>2 DEF QueryTells, UpToDate, Unread
    <3>. QED
      BY <1>2, <1>6, <2>1, <3>3
  <2>. QED
    BY <2>2, <2>3
<1>7. CASE IsGiven
  <2>1. /\ Answer /\ heard' = heard /\ revision' = revision /\ query' = NoQuery
        /\ masked' = Because("entry", (query.refresh \/ "query" \in masked) /\ Older(query.value, heard))
    BY <1>7 DEF IsGiven, Answer, Done
  <2>2. cache'.value = query.value /\ (~query.refresh => cache'.revision = query.revision) /\ query.busy
    BY <2>1 DEF Answer
  <2>3. \A s \in page.scopes : ~Unread(query.value, s)
    BY <2>1 DEF Answer, Complete, Unread
  <2>4. ASSUME "entry" \notin masked', cache'.revision = R, NEW s \in page.scopes
        PROVE  query.value[s] >= heard[s]
    <3>1. CASE query.refresh \/ "query" \in masked
      BY <2>1, <2>3, <2>4, <3>1 DEF Because, Older, Unread
    <3>2. CASE ~query.refresh /\ "query" \notin masked
      BY <2>2, <2>3, <2>4, <3>2 DEF QueryTells, UpToDate
    <3>. QED
      BY <3>1, <3>2
  <2>5. EntryTells'
    BY <2>1, <2>2, <2>4 DEF EntryTells, UpToDate
  <2>. QED
    BY <1>4, <2>1, <2>5 DEF RevisionsTell
<1>8. ASSUME NEW s \in page.scopes, Read(s), ~IsGiven PROVE QueryTells'
  <2>1. /\ query'.revision = query.revision /\ query'.refresh = query.refresh
        /\ query'.busy = query.busy /\ query.busy
        /\ query'.value = [query.value EXCEPT ![s] = stored[s]] /\ query.value \in Partial
    BY <1>8, ReadTyped DEF Read
  <2>2. heard'[s] <= stored[s] /\ stored[s] \in Nat
    <3>1. stored' = stored /\ AnnouncementsNotAhead'
      BY <1>8, NextNotAhead DEF Read, server, NotAhead
    <3>. QED
      BY <3>1, StoredGrows DEF AnnouncementsNotAhead
  <2>3. query' # NoQuery
    <3>1. ~NoQuery.busy
      BY DEF NoQuery
    <3>2. query'.busy = TRUE
      BY <2>1 DEF Queries
    <3>. QED
      BY <3>1, <3>2
  <2>4. "query" \in masked => "query" \in masked'
    BY <1>8, <2>3, MaskedStep
  <2>5. ASSUME N = R /\ (\A t \in page.scopes : heard'[t] = heard[t]),
               query'.busy, ~query'.refresh, query'.revision = N, "query" \notin masked',
               NEW t \in page.scopes
        PROVE  Unread(query'.value, t) \/ query'.value[t] >= heard'[t]
    <3>1. CASE t = s
      BY <2>1, <2>2, <3>1 DEF Partial
    <3>2. CASE t # s
      <4>1. Unread(query.value, t) \/ UpToDate(query.value, t)
        BY <2>1, <2>4, <2>5 DEF QueryTells
      <4>2. query'.value[t] = query.value[t]
        BY <2>1, <3>2 DEF Partial
      <4>. QED
        BY <2>5, <4>1, <4>2 DEF Unread, UpToDate
    <3>. QED
      BY <3>1, <3>2
  <2>6. CASE N > R
    BY <2>1, <2>6 DEF QueryTells
  <2>. QED
    BY <1>1, <2>5, <2>6 DEF QueryTells, Unread, UpToDate
<1>. QED
  BY <1>2, <1>3, <1>4, <1>5, <1>6, <1>7, <1>8, BrowserStep DEF RevisionsTell

-----------------------------------------------------------------------------
(* What the page lacks, it will be told.                                     *)

LEMMA FreshTracks == Typed /\ NotAhead /\ Fresh => Tracks
<1>. SUFFICES ASSUME Typed, NotAhead, Fresh PROVE Tracks
  OBVIOUS
<1>. page.scopes \subseteq Scopes /\ stored \in [Scopes -> Nat]
  BY PagesAssumption DEF Typed, ServerTyped
<1>1. Content \in Values /\ \A s \in page.scopes : Content[s] = stored[s] /\ stored[s] \in Nat
  BY DEF Content, Values
<1>2. \A s \in page.scopes : ~Unread(query.value, s) => ~Behind(query.value, s)
  BY DEF Fresh, Older, Unread, Behind
<1>3. EntryTracks
  BY <1>1 DEF Fresh, EntryTracks, Behind
<1>4. QueryTracks /\ AnswerTracks
  BY <1>2 DEF QueryTracks, AnswerTracks
<1>5. ViewTracks
  BY <1>1 DEF Fresh, ViewTracks, Behind
<1>. QED
  BY <1>3, <1>4, <1>5 DEF Tracks

\* A step after which there is no reason to be old, though the page may be.
Silently == reasons' = {} /\ ~Fresh'

LEMMA Silence ==
  ASSUME Silently, NEW why, Note(why)
  PROVE  reasons = {} /\ why = {}
BY DEF Silently, Note

LEMMA LostIsNone ==
  ASSUME NEW ms, Lost(ms) = {}
  PROVE  \A m \in ms : ~Concerns(m)
BY DEF Lost, Because

\* It has lost nothing that the page's query is about.
LEMMA NothingLost ==
  ASSUME Typed, HNext \/ UNCHANGED hvars, Silently
  PROVE  /\ reasons = {}
         /\ \A m \in Coming : \/ m \in Coming' \/ ~Concerns(m)
                              \/ Hears(Head(wire)) /\ m = Head(wire)
<1>1. CASE UNCHANGED hvars
  BY <1>1, QuietPasses DEF hvars, vars, server, Silently
<1>2. CASE Hears(Head(wire))
  <2>1. reasons = {}
    BY <1>2 DEF Hears, Silently, Note
  <2>. QED
    BY <1>2, <2>1, HearsPasses
<1>3. CASE Asks
  BY <1>3, QuietPasses DEF Asks, EnterPage, Save, server, Silently, Note
<1>4. CASE IsGiven
  BY <1>4, QuietPasses DEF IsGiven, Answer, server, Silently, Note
<1>5. CASE Loses
  <2>1. CASE QueryFails /\ Note(Failed)
    BY <2>1, QuietPasses DEF QueryFails, server, Silently, Note
  <2>2. ASSUME NEW m \in unsaid, Publish(m),
               Note(IF ~connected THEN Lost({m})
                    ELSE IF Len(channel) = Capacity THEN Lost({Head(channel)}) ELSE {})
        PROVE  reasons = {} /\ \A n \in Coming : n \in Coming' \/ ~Concerns(n)
    <3>. DEFINE gone == IF ~connected THEN {m} ELSE IF Len(channel) = Capacity THEN {Head(channel)} ELSE {}
                why == IF ~connected THEN Lost({m})
                       ELSE IF Len(channel) = Capacity THEN Lost({Head(channel)}) ELSE {}
    <3>1. reasons = {} /\ why = {}
      <4>. HIDE DEF why
      <4>. QED
        BY <2>2, Silence DEF why
    <3>2. Coming \subseteq Coming' \cup gone
      BY <2>2, PublishPasses
    <3>3. \A n \in gone : ~Concerns(n)
      BY <3>1, LostIsNone
    <3>. QED
      BY <3>1, <3>2, <3>3
  <2>3. CASE Disconnect /\ Note(Lost(Range(channel \o wire)))
    <3>1. reasons = {} /\ Lost(Range(channel \o wire)) = {}
      BY <2>3, Silence
    <3>2. Coming' = unsaid /\ Coming = unsaid \cup Range(channel \o wire)
      BY <2>3, ClosesPasses DEF Disconnect
    <3>. QED
      BY <3>1, <3>2, LostIsNone
  <2>4. CASE ServerStops /\ Note(Failed \cup Lost(unsaid \cup Range(channel \o wire)))
    <3>1. reasons = {} /\ Lost(unsaid \cup Range(channel \o wire)) = {}
      BY <2>4, Silence
    <3>2. Coming = unsaid \cup Range(channel \o wire)
      BY <2>4, ClosesPasses
    <3>. QED
      BY <3>1, <3>2, LostIsNone
  <2>5. ASSUME NEW m \in unsaid, MutationFails(m), Note(Because("untold", Concerns(m)))
        PROVE  reasons = {} /\ \A n \in Coming : n \in Coming' \/ ~Concerns(n)
    <3>1. reasons = {} /\ ~Concerns(m)
      BY <2>5, Silence DEF Because
    <3>. QED
      BY <2>5, <3>1, FailurePasses
  <2>. QED
    BY <1>5, <2>1, <2>2, <2>3, <2>4, <2>5 DEF Loses
<1>6. CASE Else
  <2>1. reasons = {}
    BY <1>6 DEF Else, Silently, Note
  <2>2. Coming \subseteq Coming'
    <3>1. CASE \E S \in Changes : Change(S)
      BY <3>1, ChangePasses
    <3>2. CASE Relay
      BY <3>2, RelayPasses
    <3>3. CASE Reconnect \/ LeavePage \/ Clear \/ \E s \in page.scopes : Read(s)
      BY <3>3, QuietPasses DEF Reconnect, LeavePage, Clear, Read, server
    <3>. QED
      BY <1>6, <3>1, <3>2, <3>3 DEF Else
  <2>. QED
    BY <2>1, <2>2
<1>. QED
  BY <1>1, <1>2, <1>3, <1>4, <1>5, <1>6 DEF HNext

\* So what a value lacks of a scope is still coming, unless the browser has just
\* been told.
LEMMA LagStep ==
  ASSUME Typed, NotAhead, HNext \/ UNCHANGED hvars, Silently, NEW s \in page.scopes, NEW n \in Nat
  PROVE  /\ n < stored'[s] /\ (n < stored[s] => Announced(s) \/ n < heard[s])
              => Announced(s)' \/ n < heard'[s]
         /\ ~(Hears(Head(wire)) /\ Concerns(Head(wire))) =>
              (n < stored'[s] /\ (n < stored[s] => Announced(s)) => Announced(s)')
<1>. s \in Scopes
  BY PagesAssumption DEF Typed, ServerTyped
<1>. stored[s] \in Nat /\ stored'[s] \in Nat
  BY StoredGrows
<1>. heard[s] \in Nat /\ heard'[s] \in Nat /\ heard[s] <= heard'[s]
  <2>1. heard \in [Scopes -> Nat] /\ heard' \in [Scopes -> Nat]
    BY NextTyped DEF Typed, CountsTyped
  <2>2. heard[s] <= heard'[s]
    BY <2>1, CountsStep, HearsCounts
  <2>. QED
    BY <2>1, <2>2
<1>1. ASSUME stored' = stored, Announced(s)
      PROVE  \/ Announced(s)'
             \/ Hears(Head(wire)) /\ Concerns(Head(wire)) /\ stored[s] <= heard'[s]
  <2>1. PICK m \in Coming : s \in m.scopes /\ m.version[s] = stored[s]
    BY <1>1 DEF Announced
  <2>2. Concerns(m)
    BY <2>1 DEF Concerns
  <2>3. CASE m \in Coming'
    BY <1>1, <2>1, <2>3 DEF Announced
  <2>4. CASE Hears(Head(wire)) /\ m = Head(wire)
    BY <2>1, <2>2, <2>4, HearsCounts
  <2>. QED
    BY <2>2, <2>3, <2>4, NothingLost
<1>2. ASSUME NEW S \in Changes, Change(S), Announced(s) \/ s \in S PROVE Announced(s)'
  <2>1. Coming' = Coming \cup {[scopes |-> S, version |-> stored']}
    BY <1>2, ChangePasses
  <2>2. CASE s \in S
    <3>. DEFINE m == [scopes |-> S, version |-> stored']
    <3>1. m \in Coming' /\ s \in m.scopes /\ m.version[s] = stored'[s]
      BY <2>1, <2>2
    <3>. HIDE DEF m
    <3>. QED
      BY <3>1 DEF Announced
  <2>3. CASE s \notin S
    <3>1. stored'[s] = stored[s]
      BY <1>2, <2>3 DEF Change
    <3>. QED
      BY <1>2, <2>1, <2>3, <3>1 DEF Announced
  <2>. QED
    BY <2>2, <2>3
<1>3. ASSUME NEW S \in Changes, Change(S), s \notin S PROVE stored'[s] = stored[s]
  BY <1>3 DEF Change
<1>4. ASSUME n < stored'[s], n < stored[s] => Announced(s) \/ n < heard[s]
      PROVE  Announced(s)' \/ n < heard'[s]
  <2>1. CASE stored' = stored
    <3>1. CASE Announced(s)
      BY <1>1, <1>4, <2>1, <3>1
    <3>2. CASE n < heard[s]
      BY <3>2
    <3>. QED
      BY <1>4, <2>1, <3>1, <3>2
  <2>2. CASE \E S \in Changes : Change(S)
    <3>1. PICK S \in Changes : Change(S)
      BY <2>2
    <3>2. CASE Announced(s) \/ s \in S
      BY <1>2, <3>1, <3>2
    <3>3. CASE s \notin S /\ n < heard[s]
      BY <3>3
    <3>. QED
      BY <1>3, <1>4, <3>1, <3>2, <3>3
  <2>. QED
    BY <2>1, <2>2, StoredStep
<1>5. ASSUME n < stored'[s], n < stored[s] => Announced(s), ~(Hears(Head(wire)) /\ Concerns(Head(wire)))
      PROVE  Announced(s)'
  <2>1. CASE stored' = stored
    BY <1>1, <1>5, <2>1
  <2>2. CASE \E S \in Changes : Change(S)
    BY <1>2, <1>3, <1>5, <2>2
  <2>. QED
    BY <2>1, <2>2, StoredStep
<1>. QED
  BY <1>4, <1>5

LEMMA ConcernsCounts ==
  ASSUME Typed, Hears(Head(wire)), Concerns(Head(wire))
  PROVE  revision' # revision
<1>1. PICK s \in Head(wire).scopes : s \in page.scopes
  BY DEF Concerns
<1>2. revision'[s] = revision[s] + 1 /\ s \in Scopes
  BY <1>1, HearsCounts, PagesAssumption DEF Typed, ServerTyped
<1>3. revision[s] \in Nat
  BY <1>2 DEF Typed, CountsTyped
<1>. QED
  BY <1>2, <1>3

\* How the page comes to its view.
LEMMA PageStep ==
  ASSUME Typed, HNext \/ UNCHANGED hvars, Silently
  PROVE  \/ /\ UNCHANGED <<open, listening, view>>
            /\ query'.value = query.value \/ \E s \in page.scopes : Read(s)
            /\ open => ~(Hears(Head(wire)) /\ Concerns(Head(wire)))
         \/ \E refresh \in BOOLEAN : Asking(refresh)
         \/ IsGiven
         \/ /\ ~listening /\ ~listening' /\ UNCHANGED <<open, view>>
            /\ ~(Hears(Head(wire)) /\ Concerns(Head(wire)))
         \/ ~open'
<1>. DEFINE Told0 == ~(Hears(Head(wire)) /\ Concerns(Head(wire)))
<1>0. revision' = revision => Told0
  BY ConcernsCounts
<1>1. CASE UNCHANGED hvars
  BY <1>0, <1>1 DEF hvars, vars, browser
<1>2. CASE Hears(Head(wire))
  <2>1. CASE ~Heeds(Head(wire))
    <3>1. UNCHANGED <<open, listening, view, query>>
      BY <1>2, <2>1 DEF Hears, Handle
    <3>2. open => ~Concerns(Head(wire))
      BY <2>1, PagesAssumption DEF Heeds, Concerns, Typed, ServerTyped
    <3>. QED
      BY <3>1, <3>2
  <2>2. CASE Heeds(Head(wire))
    BY <1>2, <2>2, HeedingAsks
  <2>. QED
    BY <2>1, <2>2
<1>3. CASE Asks
  BY <1>3, AsksIsAsking
<1>4. CASE IsGiven
  BY <1>4
<1>5. CASE Loses
  <2>1. CASE QueryFails /\ Note(Failed)
    <3>1. ~listening
      BY <2>1, Silence DEF Failed, Because
    <3>. QED
      BY <1>0, <2>1, <3>1 DEF QueryFails, Done
  <2>2. CASE ServerStops /\ Note(Failed \cup Lost(unsaid \cup Range(channel \o wire)))
    <3>1. ~listening
      BY <2>2, Silence DEF Failed, Because
    <3>. QED
      BY <1>0, <2>2, <3>1 DEF ServerStops, Done
  <2>3. CASE Disconnect \/ \E m \in unsaid : Publish(m) \/ MutationFails(m)
    <3>1. UNCHANGED <<open, listening, view, query, revision>>
      BY <2>3 DEF Disconnect, Publish, MutationFails, browser
    <3>. QED
      BY <1>0, <3>1
  <2>. QED
    BY <1>5, <2>1, <2>2, <2>3 DEF Loses
<1>6. CASE Else
  <2>1. CASE Relay \/ Reconnect \/ Clear \/ \E S \in Changes : Change(S)
    <3>1. UNCHANGED <<open, listening, view, query, revision>>
      BY <2>1 DEF Relay, Reconnect, Clear, Change, browser
    <3>. QED
      BY <1>0, <3>1
  <2>2. CASE \E s \in page.scopes : Read(s)
    BY <1>0, <2>2 DEF Read
  <2>3. CASE LeavePage
    BY <2>3 DEF LeavePage
  <2>. QED
    BY <1>6, <2>1, <2>2, <2>3 DEF Else
<1>. QED
  BY <1>1, <1>2, <1>3, <1>4, <1>5, <1>6 DEF HNext

\* The entry and the query, whatever the page.
LEMMA KeptTracks ==
  ASSUME Typed, NotAhead, Tracks, HNext \/ UNCHANGED hvars, Silently
  PROVE  EntryTracks' /\ QueryTracks'
<1>. page' = page /\ page.scopes \subseteq Scopes /\ Typed'
  BY NextTyped, PagesAssumption DEF Typed, ServerTyped
<1>. EntryTracks /\ QueryTracks
  BY DEF Tracks
<1>0. \A s \in page.scopes, n \in Nat :
        n < stored'[s] /\ (n < stored[s] => Announced(s) \/ n < heard[s]) => Announced(s)' \/ n < heard'[s]
  BY LagStep
<1>. /\ \A s \in page.scopes : heard[s] \in Nat /\ heard'[s] \in Nat
     /\ \A s \in page.scopes : Unread(query.value, s) \/ query.value[s] \in Nat
  BY DEF Typed, CountsTyped, BrowserTyped, Queries, Partial, Unread
<1>. cache # NoEntry => \A s \in page.scopes : cache.value[s] \in Nat
  BY DEF Typed, BrowserTyped, Entries, Values
<1>1. ASSUME NEW s \in page.scopes, ~Unread(query.value, s), query.value[s] < stored'[s]
      PROVE  Announced(s)' \/ query.value[s] < heard'[s]
  <2>1. query.value[s] < stored[s] => Announced(s) \/ query.value[s] < heard[s]
    BY <1>1 DEF QueryTracks, Behind, UpToDate
  <2>. QED
    BY <1>0, <1>1, <2>1
<1>2. ASSUME cache # NoEntry, NEW s \in page.scopes, cache.value[s] < stored'[s]
      PROVE  Announced(s)' \/ cache.value[s] < heard'[s]
  <2>1. cache.value[s] < stored[s] => Announced(s) \/ cache.value[s] < heard[s]
    BY <1>2 DEF EntryTracks, Behind, UpToDate
  <2>. QED
    BY <1>0, <1>2, <2>1
<1>3. ASSUME cache' = cache PROVE EntryTracks'
  BY <1>2, <1>3 DEF EntryTracks, Behind, UpToDate
<1>4. ASSUME query'.value = query.value PROVE QueryTracks'
  BY <1>1, <1>4 DEF QueryTracks, Behind, UpToDate, Unread
<1>5. ASSUME query' = NoQuery PROVE QueryTracks'
  BY <1>5 DEF QueryTracks, Unread, NoQuery
<1>6. ASSUME cache' = NoEntry PROVE EntryTracks'
  BY <1>6 DEF EntryTracks
<1>7. ASSUME NEW refresh \in BOOLEAN, Asking(refresh) PROVE EntryTracks' /\ QueryTracks'
  BY <1>3, <1>4, <1>7, AskingQuery
<1>8. CASE IsGiven
  <2>1. /\ query' = NoQuery /\ cache'.value = query.value
        /\ \A s \in page.scopes : ~Unread(query.value, s)
    BY <1>8 DEF IsGiven, Answer, Done, Complete, Unread
  <2>2. EntryTracks'
    BY <1>1, <2>1 DEF EntryTracks, Behind, UpToDate
  <2>. QED
    BY <1>5, <2>1, <2>2
<1>9. ASSUME NEW s \in page.scopes, Read(s) PROVE QueryTracks'
  <2>1. /\ query'.value = [query.value EXCEPT ![s] = stored[s]] /\ query.value \in Partial
        /\ stored' = stored /\ stored[s] \in Nat
    BY <1>9, ReadTyped, StoredGrows DEF Read, server
  <2>2. query'.value[s] = stored'[s]
    BY <2>1 DEF Partial
  <2>3. ASSUME NEW t \in page.scopes, t # s PROVE query'.value[t] = query.value[t]
    BY <2>1, <2>3 DEF Partial
  <2>. QED
    BY <1>1, <2>1, <2>2, <2>3 DEF QueryTracks, Behind, UpToDate, Unread
<1>. QED
  BY <1>3, <1>4, <1>5, <1>6, <1>7, <1>8, <1>9, BrowserStep

LEMMA NextTracks ==
  ASSUME Typed, NotAhead, RevisionsTell, Tracks, HNext \/ UNCHANGED hvars, Silently
  PROVE  Tracks'
<1>. page' = page /\ page.scopes \subseteq Scopes /\ page \in Pages
  BY NextTyped, PagesAssumption DEF Typed, ServerTyped
<1>. Typed' /\ QueryNotAhead' /\ EntryNotAhead' /\ EntryTells'
  BY NextTyped, NextNotAhead, NextRevisionsTell DEF NotAhead, RevisionsTell
<1>. EntryTracks' /\ QueryTracks'
  BY KeptTracks
<1>. ViewTracks /\ AnswerTracks
  BY DEF Tracks
<1>. DEFINE AlreadyTold == Hears(Head(wire)) /\ Concerns(Head(wire))
<1>0. ~AlreadyTold => \A s \in page.scopes, n \in Nat :
        n < stored'[s] /\ (n < stored[s] => Announced(s)) => Announced(s)'
  BY LagStep
<1>. HIDE DEF AlreadyTold
<1>. /\ \A s \in Scopes : stored[s] \in Nat /\ stored'[s] \in Nat /\ stored[s] <= stored'[s]
     /\ \A s \in Scopes : heard[s] \in Nat /\ heard'[s] \in Nat
     /\ \A s \in page.scopes : Unread(query.value, s) \/ query.value[s] \in Nat
  BY StoredGrows DEF Typed, CountsTyped, BrowserTyped, Queries, Partial, Unread
\* Nothing the page has, or waits for, gets older without an announcement coming.
<1>1. ASSUME ~AlreadyTold, open, ~listening, view' = view PROVE ViewTracks'
  <2>1. view' \in Values' /\ \A s \in page.scopes : view[s] \in Nat
    BY <1>1 DEF ViewTracks, Values
  <2>2. ASSUME NEW s \in page.scopes
        PROVE  view[s] <= stored'[s] /\ (view[s] < stored'[s] => Announced(s)')
    <3>1. view[s] <= stored[s] /\ (view[s] < stored[s] => Announced(s))
      BY <1>1 DEF ViewTracks, Behind
    <3>. QED
      BY <1>0, <1>1, <2>1, <3>1
  <2>. QED
    BY <1>1, <2>1, <2>2 DEF ViewTracks, Behind
<1>2. ASSUME ~AlreadyTold, open, listening, NEW s \in page.scopes, ~Unread(query.value, s),
             query.value[s] < stored'[s]
      PROVE  Announced(s)'
  <2>1. query.value[s] < stored[s] => Announced(s)
    BY <1>2 DEF AnswerTracks, Behind
  <2>. QED
    BY <1>0, <1>2, <2>1
<1>3. ASSUME ~AlreadyTold, open, listening, query'.value = query.value PROVE AnswerTracks'
  BY <1>2, <1>3 DEF AnswerTracks, Behind, Unread
<1>4. ASSUME open => ~AlreadyTold, UNCHANGED <<open, listening, view>>,
             query'.value = query.value \/ \E s \in page.scopes : Read(s)
      PROVE  ViewTracks' /\ AnswerTracks'
  <2>1. CASE ~open
    BY <1>4, <2>1 DEF ViewTracks, AnswerTracks
  <2>2. CASE open /\ ~listening
    BY <1>1, <1>4, <2>2 DEF AnswerTracks
  <2>3. CASE open /\ listening /\ query'.value = query.value
    BY <1>3, <1>4, <2>3 DEF ViewTracks
  <2>4. ASSUME open, listening, NEW s \in page.scopes, Read(s) PROVE ViewTracks' /\ AnswerTracks'
    <3>1. /\ query'.value = [query.value EXCEPT ![s] = stored[s]] /\ query.value \in Partial
          /\ stored' = stored /\ stored[s] \in Nat
      BY <2>4, ReadTyped, StoredGrows DEF Read, server
    <3>2. query'.value[s] = stored'[s]
      BY <3>1 DEF Partial
    <3>3. ASSUME NEW t \in page.scopes, t # s PROVE query'.value[t] = query.value[t]
      BY <3>1, <3>3 DEF Partial
    <3>. QED
      BY <1>2, <1>4, <2>4, <3>1, <3>2, <3>3 DEF ViewTracks, AnswerTracks, Behind, Unread
  <2>. QED
    BY <1>4, <2>1, <2>2, <2>3, <2>4
\* It is given an entry that is up to date, or waits for a query that is.
<1>5. ASSUME NEW refresh \in BOOLEAN, Asking(refresh) PROVE ViewTracks' /\ AnswerTracks'
  <2>1. Told(refresh, revision') = {}
    BY <1>5, Silence DEF Asking
  <2>2. CASE ~refresh /\ Given(revision')
    <3>1. /\ cache # NoEntry /\ cache' = cache /\ view' = cache.value
          /\ cache.revision = RevisionOf(revision') /\ query' = query /\ listening' = listening
      BY <2>2 DEF Given, Current
    <3>2. "entry" \notin masked'
      BY <2>1, <2>2 DEF Told, Given, Because
    <3>3. \A s \in page.scopes : cache.value[s] >= heard'[s]
      BY <3>1, <3>2, CountsStep DEF EntryTells, UpToDate
    <3>4. cache.value \in Values' /\ \A s \in page.scopes : cache.value[s] \in Nat
      BY <3>1 DEF Typed, BrowserTyped, Entries, Values
    <3>5. ViewTracks'
      <4>1. ASSUME NEW s \in page.scopes
            PROVE  cache.value[s] <= stored'[s] /\ (cache.value[s] < stored'[s] => Announced(s)')
        <5>1. cache.value[s] <= stored'[s]
          BY <3>1 DEF EntryNotAhead
        <5>2. cache.value[s] < stored'[s] => Announced(s)' \/ ~(cache.value[s] >= heard'[s])
          BY <3>1 DEF EntryTracks, Behind, UpToDate
        <5>. QED
          BY <3>3, <5>1, <5>2
      <4>. QED
        BY <3>1, <3>4, <4>1 DEF ViewTracks, Behind
    <3>6. ~AlreadyTold
      <4>1. cache.revision \in Nat /\ cache.revision <= RevisionOf(revision)
        BY <3>1, NextNotAhead DEF Typed, BrowserTyped, Entries, NotAhead, EntryNotAhead
      <4>2. ~(RevisionOf(revision') > RevisionOf(revision))
        BY <3>1, <4>1, CountsStep
      <4>. QED
        BY <3>2, <4>2, AnnouncementTells DEF AlreadyTold
    <3>7. AnswerTracks'
      <4>1. CASE listening
        <5>1. open
          BY <4>1 DEF Typed, BrowserTyped
        <5>. QED
          BY <1>3, <3>1, <3>6, <4>1, <5>1
      <4>2. CASE ~listening
        BY <3>1, <4>2 DEF AnswerTracks
      <4>. QED
        BY <4>1, <4>2
    <3>. QED
      BY <3>5, <3>7
  <2>3. CASE ~(~refresh /\ Current(revision')) /\ listening' = TRUE
    <3>1. ~SharesOldQuery
      BY <2>1, <2>3 DEF Told, Because
    <3>2. query'.value = query.value
      BY <1>5, AskingQuery
    <3>3. ASSUME NEW s \in page.scopes, ~Unread(query.value, s) PROVE query.value[s] >= heard'[s]
      <4>1. query.busy
        BY <3>3 DEF Typed, BrowserTyped, NoQuery, Unread
      <4>2. ~Older(query.value, heard')
        BY <3>1, <4>1 DEF SharesOldQuery
      <4>. QED
        BY <3>3, <4>2 DEF Older, Unread
    <3>4. AnswerTracks'
      BY <3>2, <3>3 DEF QueryTracks, AnswerTracks, Behind, UpToDate, Unread
    <3>. QED
      BY <2>3, <3>4 DEF ViewTracks
  <2>. QED
    BY <1>5, <2>2, <2>3, AskingQuery
<1>6. ASSUME IsGiven PROVE ViewTracks' /\ AnswerTracks'
  <2>1. /\ Answer /\ listening' = FALSE /\ open' = open /\ query.value \in Values
        /\ revision' = revision /\ stored' = stored
        /\ view' = IF listening THEN query.value ELSE view
    BY <1>6, AnswerTyped DEF IsGiven, Answer, Done, server
  <2>2. ~AlreadyTold
    BY <2>1, ConcernsCounts DEF AlreadyTold
  <2>3. CASE open /\ listening
    <3>1. \A s \in page.scopes : ~Unread(query.value, s)
      BY <2>1 DEF Answer, Complete, Unread
    <3>2. \A s \in page.scopes : query.value[s] <= stored'[s]
      BY <2>1, <3>1 DEF NotAhead, QueryNotAhead
    <3>3. view' \in Values'
      BY <2>1, <2>3 DEF Values
    <3>. QED
      BY <1>2, <2>1, <2>2, <2>3, <3>1, <3>2, <3>3 DEF ViewTracks, AnswerTracks, Behind
  <2>4. CASE open /\ ~listening
    BY <1>1, <2>1, <2>2, <2>4 DEF AnswerTracks
  <2>. QED
    BY <2>1, <2>3, <2>4 DEF ViewTracks, AnswerTracks
<1>7. ASSUME ~AlreadyTold, ~listening, ~listening', UNCHANGED <<open, view>>
      PROVE  ViewTracks' /\ AnswerTracks'
  BY <1>1, <1>7 DEF ViewTracks, AnswerTracks
<1>8. ASSUME ~open' PROVE ViewTracks' /\ AnswerTracks'
  BY <1>8 DEF ViewTracks, AnswerTracks
<1>9. ViewTracks' /\ AnswerTracks'
  BY <1>4, <1>5, <1>6, <1>7, <1>8, PageStep DEF AlreadyTold
<1>. QED
  BY <1>9 DEF Tracks
-----------------------------------------------------------------------------
LEMMA InitIInv == HInit => IInv
<1>. SUFFICES ASSUME HInit PROVE IInv
  OBVIOUS
<1>1. Typed /\ NotAhead
  BY InitTyped, InitNotAhead
<1>2. RevisionsTell
  BY DEF HInit, Init, RevisionsTell, EntryTells, QueryTells, NoQuery
<1>3. Tracks
  BY DEF HInit, Init, Tracks, EntryTracks, QueryTracks, ViewTracks, AnswerTracks, NoQuery, Unread
<1>. QED
  BY <1>1, <1>2, <1>3 DEF IInv

LEMMA NextIInv == IInv /\ [HNext]_hvars => IInv'
<1>. SUFFICES ASSUME IInv, HNext \/ UNCHANGED hvars PROVE IInv'
  OBVIOUS
<1>1. Typed /\ NotAhead /\ RevisionsTell /\ (reasons = {} => Tracks)
  BY DEF IInv
<1>2. Typed' /\ NotAhead' /\ RevisionsTell'
  BY <1>1, NextTyped, NextNotAhead, NextRevisionsTell
<1>3. ASSUME reasons' = {} PROVE Tracks'
  <2>1. CASE Fresh'
    BY <1>2, <2>1, FreshTracks, PTL
  <2>2. CASE ~Fresh'
    <3>1. Silently
      BY <1>3, <2>2 DEF Silently
    <3>2. reasons = {}
      BY <1>1, <3>1, NothingLost
    <3>. QED
      BY <1>1, <3>1, <3>2, NextTracks
  <2>. QED
    BY <2>1, <2>2
<1>. QED
  BY <1>2, <1>3 DEF IInv

THEOREM IInvariant == HSpec => []IInv
BY InitIInv, NextIInv, PTL DEF HSpec

\* Every variable has its type, and nothing is under way to a browser that is
\* not subscribed; who waits for an answer has a query in flight.
THEOREM RealtimeTypeCorrect == HSpec => []TypeOK
<1>1. IInv => TypeOK
  <2>. SUFFICES ASSUME Typed PROVE TypeOK
    BY DEF IInv
  <2>. ServerTyped /\ WireTyped /\ CountsTyped /\ BrowserTyped
    BY DEF Typed
  <2>1. page \in Pages /\ stored \in [Scopes -> 0..MaxChanges] /\ revision \in [Scopes -> Nat]
    BY BoundsAssumption DEF ServerTyped, CountsTyped
  <2>2. unsaid \subseteq Announcements /\ Range(channel \o wire) \subseteq Announcements
    BY ChannelOfSeqs DEF ServerTyped
  <2>3. ~connected => channel \o wire = <<>>
    BY DEF WireTyped
  <2>4. /\ cache # NoEntry => cache.revision \in Nat /\ cache.value \in Values
        /\ query.revision \in Nat /\ query.value \in Partial
    BY DEF BrowserTyped, Entries, Queries
  <2>. QED
    BY <2>1, <2>2, <2>3, <2>4 DEF TypeOK, WireTyped, BrowserTyped
<1>. QED
  BY <1>1, IInvariant, PTL

\* A cached answer of the present revision knows of every change announced to the
\* browser, unless the history tells that its revision does not.
THEOREM CacheCorrect == HSpec => []CacheIsCurrent
<1>1. IInv => CacheIsCurrent
  <2>. SUFFICES ASSUME IInv, Current(revision), "entry" \notin masked, NEW s \in page.scopes,
                       cache.value[s] < heard[s]
                PROVE  FALSE
    BY DEF CacheIsCurrent, Older
  <2>1. cache.value[s] >= heard[s]
    BY DEF IInv, RevisionsTell, EntryTells, Current, UpToDate
  <2>2. cache.value[s] \in Nat /\ heard[s] \in Nat
    BY PagesAssumption DEF IInv, Typed, ServerTyped, CountsTyped, BrowserTyped, Current, Entries, Values
  <2>. QED
    BY <2>1, <2>2
<1>. QED
  BY <1>1, IInvariant, PTL

\* When nothing is under way an open page shows what is stored, unless the history
\* has a reason why not.
THEOREM ShownCorrect == HSpec => []ShownIsStored
<1>1. IInv => ShownIsStored
  <2>. SUFFICES ASSUME IInv, Quiet, open, reasons = {} PROVE view = Content
    BY DEF ShownIsStored
  <2>. page \in Pages /\ page.scopes \subseteq Scopes /\ stored \in [Scopes -> Nat]
    BY PagesAssumption DEF IInv, Typed, ServerTyped
  <2>1. Coming = {}
    BY RangeOfNone DEF Quiet, Coming
  <2>2. ~listening
    BY DEF Quiet, IInv, Typed, BrowserTyped
  <2>3. view \in Values /\ \A s \in page.scopes : view[s] <= stored[s] /\ ~(view[s] < stored[s])
    BY <2>1, <2>2 DEF IInv, Tracks, ViewTracks, Announced, Behind
  <2>4. \A s \in page.scopes : view[s] = stored[s]
    BY <2>3 DEF Values
  <2>. QED
    BY <2>3, <2>4 DEF Values, Content
<1>. QED
  BY <1>1, IInvariant, PTL
=============================================================================
