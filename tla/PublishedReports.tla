--------------------------- MODULE PublishedReports ---------------------------
(***************************************************************************)
(* The life of what readers see: captures become candidates built on the   *)
(* history of that moment, candidates are published later, publications    *)
(* are rolled back, and pages are rendered from the active snapshot and    *)
(* from the history, which a district's page reads one after the other     *)
(* (services/published-snapshot-service.ts).                               *)
(***************************************************************************)
EXTENDS Watchrooms

CONSTANTS Geographies,   \* the registry: the ids, in its order
          Extracts,      \* what the source may show, of each geography
          Dates,         \* bound: reference dates
          Read,          \* bound: geographies of which district pages are opened
          MaxWaiting,    \* bound: completed runs that wait at a time
          MaxSnapshots,  \* bound: published snapshots
          MaxEvents      \* bound: rows of publication_history

ASSUME ReportsAssumption ==
    /\ Dates \subseteq Nat
    /\ {MaxWaiting, MaxSnapshots, MaxEvents} \subseteq Nat

\* The registry names a geography once, and a source lists a district once: the
\* pages look both up by their ids.
ASSUME RegistryAssumption == Geographies \in Seq(DOMAIN Extracts) /\ IsInjective(Geographies)
ASSUME ExtractsAssumption ==
    \A g \in ToSet(Geographies) : \A x \in Extracts[g] :
        /\ x \in Extract
        /\ \A i, j \in DOMAIN x.districts : x.districts[i].id = x.districts[j].id => i = j

VARIABLES candidates,  \* of each geography, what its completed runs hold
          snapshots,   \* rows of published_snapshots
          events,      \* rows of publication_history: the snapshot made active
          reader       \* a request for a district's page

vars == <<candidates, snapshots, events, reader>>

None == {}
Idle == [stage |-> "idle"]

Init ==
    /\ candidates = [g \in ToSet(Geographies) |-> None]
    /\ snapshots = <<>> /\ events = <<>>
    /\ reader = Idle

-----------------------------------------------------------------------------

OfGeography(g, log) == {i \in DOMAIN log : snapshots[log[i]].geography = g}
GetPublishedSnapshot(g) ==
    LET own == OfGeography(g, events) IN IF own = {} THEN None ELSE {events[Max(own)]}

\* loadHistoricalSnapshots, of a log: each snapshot once, by date, then publication.
HistoryOrder(s, t) ==
    snapshots[s].at < snapshots[t].at \/ (snapshots[s].at = snapshots[t].at /\ s < t)
LoadHistoricalSnapshots(g, log) ==
    LET published == {log[i] : i \in OfGeography(g, log)}
        ids == Ascending(published, [s \in published |-> snapshots[s].at])
    IN  [i \in DOMAIN ids |-> snapshots[ids[i]]]

\* fetch: buildAndStoreSnapshotCandidate reads the history of now.  Every completed
\* run can be published, in any order and after any number of other publications;
\* runs that found the same of the same history are one.  Bound: runs of one
\* geography wait at a time, no more than can still be published; captures are made
\* between pages, so that publications of what waits, and rollbacks, come between
\* the reads of a page; and nothing happens while a page is on the screen, which is
\* a value by then.
Capture(g, extract, at) ==
    /\ reader.stage = "idle"
    /\ Cardinality(candidates[g]) < Min({MaxWaiting, MaxSnapshots - Len(snapshots), MaxEvents - Len(events)})
    /\ \A h \in DOMAIN candidates \ {g} : candidates[h] = None
    /\ candidates' = [candidates EXCEPT ![g] = @ \cup
           {With(BuildSnapshotCandidate(extract, at, LoadHistoricalSnapshots(g, events)),
                 [geography |-> g, capturedAfter |-> Len(events)])}]
    /\ UNCHANGED <<snapshots, events, reader>>

\* materializePayload takes the candidate as it was stored.
Publish(g) ==
    /\ reader.stage # "shown"
    /\ Len(snapshots) < MaxSnapshots /\ Len(events) < MaxEvents
    /\ \E candidate \in candidates[g] :
           /\ candidate.quality # "partial"
           /\ snapshots' = Append(snapshots, With(candidate, [publishedAt |-> Len(snapshots) + 1]))
           /\ candidates' = [candidates EXCEPT ![g] = @ \ {candidate}]
    /\ events' = Append(events, Len(snapshots) + 1)
    /\ UNCHANGED reader

Rollback(s) ==
    /\ reader.stage # "shown"
    /\ Len(events) < MaxEvents
    /\ events' = Append(events, s)
    /\ UNCHANGED <<candidates, snapshots, reader>>

\* getDistrictDetail: the active snapshot first, ...
OpenDistrictPage(g, id) ==
    /\ reader.stage = "idle" /\ g \in Read
    /\ \E s \in GetPublishedSnapshot(g) :
           /\ DistrictIn(snapshots[s], id) # <<>>
           /\ reader' = [stage |-> "reading", geography |-> g, id |-> id, snapshot |-> s]
    /\ UNCHANGED <<candidates, snapshots, events>>

\* ... then the history, and the page is rendered.
RenderDistrictPage ==
    /\ reader.stage = "reading"
    /\ reader' = [stage |-> "shown", geography |-> reader.geography, id |-> reader.id, snapshot |-> reader.snapshot,
                  history |-> DistrictHistory(LoadHistoricalSnapshots(reader.geography, events), reader.id)]
    /\ UNCHANGED <<candidates, snapshots, events>>

LeavePage ==
    /\ reader.stage = "shown"
    /\ reader' = Idle
    /\ UNCHANGED <<candidates, snapshots, events>>

DistrictIds == UNION {{x.districts[i].id : i \in DOMAIN x.districts} : x \in UNION Range(Extracts)}

Next ==
    \/ \E g \in ToSet(Geographies) : \E extract \in Extracts[g], at \in Dates : Capture(g, extract, at)
    \/ \E g \in ToSet(Geographies) : Publish(g)
    \/ \E s \in ToSet(events) : Rollback(s)
    \/ \E g \in ToSet(Geographies), id \in DistrictIds : OpenDistrictPage(g, id)
    \/ RenderDistrictPage
    \/ LeavePage

Spec == Init /\ [][Next]_vars

-----------------------------------------------------------------------------

\* What the other pages show now.
Active(g) == snapshots[CHOOSE s \in GetPublishedSnapshot(g) : TRUE]
Live == {g \in ToSet(Geographies) : GetPublishedSnapshot(g) # None}
Entries ==
    LET all == Live
        live == Where(Geographies, LAMBDA g : g \in all)
    IN  [i \in DOMAIN live |-> [geography |-> live[i], snapshot |-> Active(live[i])]]

History(g) == LoadHistoricalSnapshots(g, events)
ListMoversSinceFirst(g) ==
    IF Len(History(g)) < 2 THEN None ELSE {Movers(History(g)[Len(History(g))], History(g)[1])}
ListMovers(g) ==
    LET history == History(g)
    IN  IF Len(history) < 2 THEN None ELSE {Movers(history[Len(history)], history[Len(history) - 1])}

AllDistricts == [view |-> "all", sort |-> "rank", matches |-> DistrictIds]
FlaggedDistricts == [view |-> "flagged", sort |-> "rank", matches |-> DistrictIds]

\* The repeat signal of a district, stored when its capture was made, counts the
\* snapshots of the window whose workspace lists the district among those to
\* watch: the last ones published by then, whatever was rolled back, in which it
\* appears, in order of their dates, and its own
\* (normalize/snapshot-candidate.ts:410-435, api/pages/districts.ts:340-357).
ListedToWatch(snapshot, id) ==
    id \in ToSet(Ids(DistrictsPage(snapshot, FlaggedDistricts).rows))
RepeatSignalCountsTheWatchlists ==
    \A s \in DOMAIN snapshots : \A i \in DOMAIN snapshots[s].districts :
        LET d == snapshots[s].districts[i]
            before == {t \in ToSet(SubSeq(events, 1, snapshots[s].capturedAfter)) :
                           /\ snapshots[t].geography = snapshots[s].geography
                           /\ DistrictIn(snapshots[t], d.id) # <<>>}
            inWindow(n) == {t \in before : Cardinality({u \in before : HistoryOrder(t, u)}) < n - 1} \cup {s}
            listed(window) == Cardinality({t \in window : ListedToWatch(snapshots[t], d.id)})
        IN  /\ d.persistence.lastThreeWindow = Cardinality(inWindow(ShortWindow))
            /\ d.persistence.lastSixWindow = Cardinality(inWindow(LongWindow))
            /\ d.persistence.flaggedInLastThree = listed(inWindow(ShortWindow))
            /\ d.persistence.flaggedInLastSix = listed(inWindow(LongWindow))

\* The sentences on a page say the same of the backlog's movement.
NoSentenceContradicts(page) ==
    /\ page.movementNote = "grew" => page.breakEvenNote = "needed more"
    /\ page.movementNote = "shrank" => page.breakEvenNote = "cleared enough"
    /\ page.breakEvenNote = "needed more" => page.catchUpNote = "extra clearances"

\* The row, the page, the widget and the card of a district.  Only the cards, which
\* print the stored rate, say 0 where the others say N/A.
AgreesOnPace(row, page, d) ==
    LET unavailable == row.pace = NotAvailable
    IN  /\ page.gap = NotAvailable <=> unavailable
        /\ DistrictEmbed(d).pace = NotAvailable <=> unavailable
        /\ unavailable => "rate" \notin page.summary
        /\ unavailable => page.flagReason \in {"nothing reported", "no monthly activity", "no filed count"}
        /\ ~unavailable => page.flagReason \notin {"no monthly activity", "no filed count"}
        /\ DistrictCard(d).pace = IF unavailable THEN Shown(0) ELSE page.pace
        /\ NoSentenceContradicts(page)

\* A row of the table and all else that is shown of its district.
RowAgrees(snapshot, history, movers, table, i) ==
    LET d == DistrictIn(snapshot, table[i].id)[1]
    IN  /\ AgreesOnPace(table[i], DistrictPage(snapshot, d.id, DistrictHistory(history, d.id)), d)
        /\ \A j \in DOMAIN table :
              ComparePage(snapshot, d.id, table[j].id).clearanceDiff = NotAvailable
              <=> table[i].pace = NotAvailable \/ table[j].pace = NotAvailable
        /\ \A m \in movers : \A j \in DOMAIN m :
              m[j].id = d.id /\ snapshot = history[Len(history)] => MoversTable(m)[j].pace = table[i].pace

\* The home page of a state, its widget, its card and its row among the courts.
StateAgrees(home, snapshot) ==
    LET unavailable == home.pace = NotAvailable
    IN  /\ StateEmbed(snapshot).pace = NotAvailable <=> unavailable
        /\ home.caption \in {"no monthly activity", "no filed count"} <=> unavailable
        /\ HighCourtCards(<<StateActivity(snapshot.stats)>>)[1].rate = NotAvailable <=> unavailable
        /\ StateCard(snapshot).pace = IF unavailable THEN Shown(0) ELSE home.pace
        /\ home.caption = "backlog keeps growing" => home.movementNote # "shrank"
        /\ home.waitingRoom = NotAvailable <=> home.movement = NotAvailable
        /\ home.waitingRoom = {"shrinks"} => home.movementNote # "grew"
        /\ NoSentenceContradicts(home)

\* A month that the source leaves out is a rate on the share cards only, which
\* print the stored 0 (api/share/og-routes.ts:77 and :144): the table, the page, the
\* comparison, the movers, the home page, the widgets and the feed of a snapshot
\* say N/A of the same districts, no sentence quotes a rate of theirs, and what
\* they say of the backlog's movement has the sign of the figures
\* (normalize/snapshot-candidate.ts:198-269, api/pages/metric-insights.ts).
PaceIsShownOrNotEverywhere ==
    \A g \in Live :
        LET snapshot == Active(g)
            table == DistrictsPage(snapshot, AllDistricts).rows
            home == HomePage(snapshot)
        IN  /\ \A i \in DOMAIN table : RowAgrees(snapshot, History(g), ListMovers(g), table, i)
            /\ StateAgrees(home, snapshot)
            /\ \A item \in ToSet(RssFeed(Reverse(Filtered(events, OfGeography(g, events))), snapshot)) : item.pace = home.pace
            /\ StateExport(snapshot).comparison = DistrictsPage(snapshot, AllDistricts).comparison

\* A district's page compares the snapshot it shows with the one published for the
\* date before it, whatever is published or rolled back between its two reads; the
\* oldest snapshot, which has none before it, is the exception
\* (api/pages/district-detail.ts:38-48).
DistrictPageIsOfOneSnapshot ==
    reader.stage = "shown" =>
        LET snapshot == snapshots[reader.snapshot]
            history == reader.history
            shown == ShownPoint(snapshot, history)
            prior == PriorPoint(snapshot, history)
            published(i) == history[i].publishedAt
            earlier == {i \in DOMAIN history : HistoryOrder(published(i), reader.snapshot)}
        IN  /\ published(shown) = reader.snapshot
            /\ earlier # {} => /\ prior \in earlier
                               /\ \A i \in earlier : i = prior \/ HistoryOrder(published(i), published(prior))

\* When the newest snapshot is the active one, the movers page and the pages of its
\* districts tell the same changes, and the movers page calls improving exactly the
\* districts whose backlog fell (services/published-snapshot-service.ts:175-205).
MoversAgreeWithDistrictPages ==
    \A g \in Live : \A movers \in ListMovers(g) :
        LET snapshot == Active(g)
            history == History(g)
        IN  snapshot = history[Len(history)] =>
            /\ \A i \in DOMAIN movers :
                   LET page == DistrictPage(snapshot, movers[i].id, DistrictHistory(history, movers[i].id))
                   IN  /\ page.backlogDelta = Shown(movers[i].backlogDelta)
                       /\ page.rankDelta = Shown(movers[i].rankDelta)
                       /\ page.disposalNote \in {NotAvailable, Shown(movers[i].disposalDelta)}
            /\ LET page == MoversPage(movers, Len(movers))
                   gained == ToSet(Ids(page.biggestJumps)) \ ToSet(Ids(page.fastestImproving))
               IN  \A i \in DOMAIN movers : movers[i].id \in gained <=> movers[i].backlogDelta >= 0

\* The index of the watchrooms, each watchroom and the map, of the same entries.
OldCasesAgree(index, oldCases, all) ==
    /\ index.topOldCase # <<>> <=> oldCases.geographies # <<>>
    /\ index.topOldCase # <<>> =>
           index.topOldCase[1].figures[1] = oldCases.geographies[1].figures[1]
    /\ {oldCases.geographies[i].geography : i \in DOMAIN oldCases.geographies} = all \ oldCases.missing
ConcentrationAgrees(index, concentration, all) ==
    /\ index.topConcentration # <<>> <=> concentration.topGeography # <<>>
    /\ index.topConcentration # <<>> =>
           index.topConcentration[1].figures[1] = concentration.topGeography[1].figures[1]
    /\ {concentration.geographies[i].geography : i \in DOMAIN concentration.geographies} = all \ concentration.missing
PersistentAgrees(index, persistent) ==
    /\ index.topPersistent # <<>> <=> persistent.districts # <<>>
    /\ index.topPersistent # <<>> =>
           index.topPersistent[1].persistence.flaggedInLastSix = persistent.districts[1].persistence.flaggedInLastSix
    /\ index.withPersistent = Len(persistent.geographies)
MapAgrees(map, home) ==
    /\ home.topState = map.callouts[1]
    /\ \A b, c \in ToSet(map.bins) : b.score > c.score => b.bin >= c.bin

\* The index of the watchrooms names nothing that its watchroom does not confirm:
\* the first geography or district of each list is as high in the room's own
\* order, every geography is ranked in a room or named among those missing, and the
\* home page's top state leads the map's list, whose colours follow its scores.
HeadlinesOpenTheirWatchroom ==
    LET entries == Entries
        index == WatchIndex(entries)
    IN  /\ OldCasesAgree(index, OldCaseWatchroom(entries), Live)
        /\ ConcentrationAgrees(index, ConcentrationWatchroom(entries), Live)
        /\ PersistentAgrees(index, PersistentWatchroom(entries))
        /\ Live # {} => MapAgrees(RenderIndiaMap(entries), NationalHome(entries, <<>>))

=============================================================================
