------------------------- MODULE PublishedReportsProofs -------------------------
(***************************************************************************)
(* Proofs about PublishedReports, for every registry, source, calendar and *)
(* number of publications.  ReportsInv says what the tables hold and that  *)
(* an open page shows a snapshot that was active once.                     *)
(***************************************************************************)
EXTENDS PublishedReports, SortingProofs

Published(g, log) == {log[i] : i \in OfGeography(g, log)}
Has(s, id) == DistrictIn(snapshots[s], id) # <<>>
Having(g, log, id) == {s \in Published(g, log) : Has(s, id)}

\* The fields of a candidate.
Fields == {"at", "quality", "stats", "flagged", "districts", "trends", "geography", "capturedAfter"}

\* Candidates are of their geography, snapshots are numbered as they are published,
\* and the log names them.
TablesInv ==
    /\ candidates = [g \in ToSet(Geographies) |-> candidates[g]]
    /\ \A g \in ToSet(Geographies) : \A c \in candidates[g]  :
         DOMAIN c = Fields /\ c.geography = g /\ c.at \in Nat
    /\ \E T : snapshots \in Seq(T)
    /\ \A s \in 1 .. Len(snapshots) : snapshots[s].publishedAt = s /\ snapshots[s].at \in Nat
    /\ events \in Seq(1 .. Len(snapshots))

\* A page was opened on a published snapshot, and shows the history of now.
ReaderInv ==
    /\ reader.stage # "idle" =>
         reader.snapshot \in Published(reader.geography, events) /\ Has(reader.snapshot, reader.id)
    /\ reader.stage = "shown" =>
         reader.history = DistrictHistory(LoadHistoricalSnapshots(reader.geography, events), reader.id)


-----------------------------------------------------------------------------
(* The history of a geography *)

\* The members of a set of snapshots, once each, by date and then publication.
ListsInOrder(list, members, n) ==
    /\ list \in [1 .. n -> members]
    /\ \A s \in members : \E k \in 1 .. n : list[k] = s
    /\ \A j, k \in 1 .. n : j < k => HistoryOrder(list[j], list[k])

LEMMA PublishedAreSnapshots ==
    ASSUME NEW g, NEW log \in Seq(1 .. Len(snapshots)), Len(snapshots) \in Nat
    PROVE  Published(g, log) \in SUBSET (1 .. Len(snapshots)) /\ IsFiniteSet(Published(g, log))
<1>1. DOMAIN log = 1 .. Len(log) /\ \A i \in 1 .. Len(log) : log[i] \in 1 .. Len(snapshots)
  BY LenProperties, ElementOfSeq
<1>2. Published(g, log) \in SUBSET (1 .. Len(snapshots))
  BY <1>1 DEF Published, OfGeography
<1>3. IsFiniteSet(1 .. Len(snapshots))
  BY FS_Interval
<1> QED
  BY <1>2, <1>3, FS_Subset

LEMMA HistoryListsThePublished ==
    ASSUME TablesInv, NEW g, NEW log \in Seq(1 .. Len(snapshots))
    PROVE  \E n \in Nat : \E ids :
             /\ ListsInOrder(ids, Published(g, log), n)
             /\ LoadHistoricalSnapshots(g, log) = [i \in 1 .. n |-> snapshots[ids[i]]]
<1>1. Len(snapshots) \in Nat /\ \A s \in 1 .. Len(snapshots) : snapshots[s].at \in Nat
  BY LenProperties DEF TablesInv
<1>2. PICK published : /\ published = Published(g, log) /\ published \in SUBSET (1 .. Len(snapshots))
                       /\ IsFiniteSet(published)
  BY <1>1, PublishedAreSnapshots
<1> DEFINE values == [s \in published |-> snapshots[s].at]
<1>3. published \in SUBSET Nat /\ \A s \in published : values[s] \in Nat /\ values[s] = snapshots[s].at
  BY <1>1, <1>2
<1>4. LoadHistoricalSnapshots(g, log) =
        [i \in DOMAIN Ascending(published, values) |-> snapshots[Ascending(published, values)[i]]]
  BY <1>2 DEF LoadHistoricalSnapshots, Published
<1> HIDE DEF values
<1>5. PICK n \in Nat : \E ids \in [1 .. n -> published] :
         /\ n = Cardinality(published) /\ ids = Ascending(published, values)
         /\ \A s \in published : \E k \in 1 .. n : ids[k] = s
         /\ \A j, k \in 1 .. n : j < k =>
              values[ids[j]] < values[ids[k]] \/ (values[ids[j]] = values[ids[k]] /\ ids[j] < ids[k])
  BY <1>2, <1>3, Order
<1>6. PICK ids \in [1 .. n -> published] :
         /\ ids = Ascending(published, values)
         /\ \A s \in published : \E k \in 1 .. n : ids[k] = s
         /\ \A j, k \in 1 .. n : j < k =>
              values[ids[j]] < values[ids[k]] \/ (values[ids[j]] = values[ids[k]] /\ ids[j] < ids[k])
  BY <1>5
<1>7. \A j, k \in 1 .. n : j < k => HistoryOrder(ids[j], ids[k])
  <2>1. \A k \in 1 .. n : values[ids[k]] = snapshots[ids[k]].at
    BY <1>3, <1>6
  <2> SUFFICES ASSUME NEW j \in 1 .. n, NEW k \in 1 .. n, j < k PROVE HistoryOrder(ids[j], ids[k])
    OBVIOUS
  <2>2. values[ids[j]] < values[ids[k]] \/ (values[ids[j]] = values[ids[k]] /\ ids[j] < ids[k])
    BY <1>6
  <2> QED
    BY <2>1, <2>2 DEF HistoryOrder
<1>8. LoadHistoricalSnapshots(g, log) = [i \in 1 .. n |-> snapshots[ids[i]]]
  BY <1>4, <1>6
<1>9. ListsInOrder(ids, Published(g, log), n)
  BY <1>2, <1>6, <1>7 DEF ListsInOrder
<1> QED
  BY <1>8, <1>9

\* The snapshots of a history that have a district.
Present(history, id) == Where(history, LAMBDA s : DistrictIn(s, id) # <<>>)

ListsPresent(list, g, log, id, m) ==
    /\ ListsInOrder(list, Having(g, log, id), m)
    /\ Present(LoadHistoricalSnapshots(g, log), id) = [j \in 1 .. m |-> snapshots[list[j]]]

LEMMA PresentAreListed ==
    ASSUME TablesInv, NEW g, NEW log \in Seq(1 .. Len(snapshots)), NEW id
    PROVE  \E m \in Nat : \E list : ListsPresent(list, g, log, id, m)
<1>1. PICK n \in Nat : \E ids :
             /\ ListsInOrder(ids, Published(g, log), n)
             /\ LoadHistoricalSnapshots(g, log) = [i \in 1 .. n |-> snapshots[ids[i]]]
  BY HistoryListsThePublished
<1>2. PICK ids : /\ ListsInOrder(ids, Published(g, log), n)
                 /\ LoadHistoricalSnapshots(g, log) = [i \in 1 .. n |-> snapshots[ids[i]]]
  BY <1>1
<1>3. PICK all : all = [i \in 1 .. n |-> snapshots[ids[i]]]
  OBVIOUS
<1>4. PICK places : places = {i \in 1 .. n : Has(ids[i], id)}
  OBVIOUS
<1>5. PICK present : present = Filtered(all, places)
  OBVIOUS
<1>6. Present(LoadHistoricalSnapshots(g, log), id) = present
  <2>1. {i \in DOMAIN all : DistrictIn(all[i], id) # <<>>} = places
    BY <1>3, <1>4 DEF Has
  <2>2. Where(all, LAMBDA s : DistrictIn(s, id) # <<>>) = present
    BY <1>5, <2>1 DEF Where
  <2> QED
    BY <1>2, <1>3, <2>2 DEF Present
<1>7. PICK m \in Nat : \E order : Keeps(present, all, places, m, order)
  <2>1. places \in SUBSET (1 .. n)
    BY <1>4
  <2> QED
    BY <1>5, <2>1, Filters
<1>8. PICK order : Keeps(present, all, places, m, order)
  BY <1>7
<1>9. PICK list : list = [k \in 1 .. m |-> ids[order[k]]]
  OBVIOUS
<1>10. \A k \in 1 .. m : order[k] \in 1 .. n /\ list[k] = ids[order[k]] /\ Has(list[k], id)
                         /\ present[k] = snapshots[list[k]]
  BY <1>3, <1>4, <1>8, <1>9 DEF Keeps
<1>11. DOMAIN present = 1 .. m
  BY <1>8 DEF Keeps
<1>12. list \in [1 .. m -> Having(g, log, id)]
  BY <1>2, <1>9, <1>10 DEF ListsInOrder, Having
<1>13. ASSUME NEW s \in Published(g, log), Has(s, id) PROVE \E k \in 1 .. m : list[k] = s
  <2>1. PICK i \in 1 .. n : ids[i] = s
    BY <1>2 DEF ListsInOrder
  <2>2. PICK k \in 1 .. m : order[k] = i
    BY <1>4, <1>8, <1>13, <2>1 DEF Keeps
  <2> QED
    BY <1>10, <2>1, <2>2
<1>14. \A j, k \in 1 .. m : j < k => HistoryOrder(list[j], list[k])
  <2> SUFFICES ASSUME NEW j \in 1 .. m, NEW k \in 1 .. m, j < k PROVE HistoryOrder(list[j], list[k])
    OBVIOUS
  <2>1. order[j] < order[k]
    BY <1>8 DEF Keeps
  <2>2. order[j] \in 1 .. n /\ order[k] \in 1 .. n /\ list[j] = ids[order[j]] /\ list[k] = ids[order[k]]
    BY <1>10
  <2>3. HistoryOrder(ids[order[j]], ids[order[k]])
    BY <1>2, <2>1, <2>2 DEF ListsInOrder
  <2> QED
    BY <2>2, <2>3
<1>15. ListsInOrder(list, Having(g, log, id), m)
  BY <1>12, <1>13, <1>14 DEF ListsInOrder, Having
<1>16. Present(LoadHistoricalSnapshots(g, log), id) = [j \in 1 .. m |-> snapshots[list[j]]]
  <2>1. present = [k \in 1 .. m |-> present[k]]
    BY <1>8 DEF Keeps
  <2> QED
    BY <1>6, <1>10, <2>1
<1> QED
  BY <1>15, <1>16 DEF ListsPresent

\* A district's history has a point of each published snapshot that has the district.
LEMMA DistrictHistoryLists ==
    ASSUME TablesInv, NEW g, NEW log \in Seq(1 .. Len(snapshots)), NEW id
    PROVE  \E m \in Nat : \E list :
             /\ ListsInOrder(list, Having(g, log, id), m)
             /\ DistrictHistory(LoadHistoricalSnapshots(g, log), id)
                  = [k \in 1 .. m |-> BuildDistrictHistoryPoint(snapshots[list[k]], id)]
<1>1. PICK m \in Nat : \E list : ListsPresent(list, g, log, id, m)
  BY PresentAreListed
<1>2. PICK list : /\ ListsInOrder(list, Having(g, log, id), m)
                  /\ Present(LoadHistoricalSnapshots(g, log), id) = [j \in 1 .. m |-> snapshots[list[j]]]
  BY <1>1 DEF ListsPresent
<1>3. PICK present : /\ present = Present(LoadHistoricalSnapshots(g, log), id)
                     /\ present = [j \in 1 .. m |-> snapshots[list[j]]]
  BY <1>2
<1>4. DistrictHistory(LoadHistoricalSnapshots(g, log), id)
        = [k \in DOMAIN present |-> BuildDistrictHistoryPoint(present[k], id)]
  BY <1>3 DEF DistrictHistory, Present
<1>5. DistrictHistory(LoadHistoricalSnapshots(g, log), id)
         = [k \in 1 .. m |-> BuildDistrictHistoryPoint(snapshots[list[k]], id)]
  BY <1>3, <1>4
<1> QED
  BY <1>2, <1>5

-----------------------------------------------------------------------------
(* Records *)

LEMMA WithFields ==
    ASSUME NEW record, NEW fields, NEW field
    PROVE  /\ field \in DOMAIN fields => With(record, fields)[field] = fields[field]
           /\ field \in DOMAIN record /\ field \notin DOMAIN fields => With(record, fields)[field] = record[field]
BY DEF With

\* A point has the date and the number of its snapshot.
LEMMA PointOfSnapshot ==
    ASSUME NEW snapshot, NEW id, NEW point, point = BuildDistrictHistoryPoint(snapshot, id)
    PROVE  point.at = snapshot.at /\ point.publishedAt = snapshot.publishedAt
<1>1. PICK own : own = [at |-> snapshot.at, publishedAt |-> snapshot.publishedAt, quality |-> snapshot.quality]
  OBVIOUS
<1>2. DOMAIN own = {"at", "publishedAt", "quality"} /\ own.at = snapshot.at /\ own.publishedAt = snapshot.publishedAt
  BY <1>1
<1>3. point = With(DistrictIn(snapshot, id)[1], own)
  BY <1>1 DEF BuildDistrictHistoryPoint
<1>4. point["at"] = own["at"] /\ point["publishedAt"] = own["publishedAt"]
  BY <1>2, <1>3, WithFields
<1> QED
  BY <1>2, <1>4

-----------------------------------------------------------------------------
(* The districts of a candidate *)

LEMMA PercentageType ==
    ASSUME NEW n \in Nat, NEW d \in Nat PROVE Percentage(n, d) \in Int
<1>1. CASE d <= 0
  BY <1>1 DEF Percentage
<1>2. CASE d > 0
  <2>1. 2000 * n + d \in Int /\ 2 * d \in Nat /\ 2 * d > 0
    BY <1>2
  <2>2. \A a \in Int, b \in Nat : b > 0 => a \div b \in Int
    OBVIOUS
  <2>3. Tenths(n, d) \in Int
    BY <2>1, <2>2 DEF Tenths
  <2> QED
    BY <1>2, <2>3 DEF Percentage
<1> QED
  BY <1>1, <1>2

LEMMA MedianAgeType ==
    ASSUME NEW ages \in [Buckets -> Nat] PROVE InferMedianAgeDays(ages) \in Nat
<1>1. ages[1] \in Nat /\ ages[2] \in Nat /\ ages[3] \in Nat /\ ages[4] \in Nat /\ ages[5] \in Nat
  BY DEF Buckets
<1>2. PICK total : total = Total(ages)
  OBVIOUS
<1>3. total \in Nat
  BY <1>1, <1>2 DEF Total, ThreePlus, FivePlus, TenPlus
<1>4. PICK reached : reached = <<ages[1], ages[1] + ages[2], Total(ages) - FivePlus(ages),
                                 Total(ages) - TenPlus(ages), Total(ages)>>
  OBVIOUS
<1>5. PICK half : half = {b \in Buckets : 2 * reached[b] >= total}
  OBVIOUS
<1>6. 5 \in half /\ half \in SUBSET Buckets
  <2>1. reached[5] = total
    BY <1>2, <1>4
  <2> QED
    BY <1>3, <1>5, <2>1 DEF Buckets
<1>7. half \in SUBSET Nat /\ IsFiniteSet(half)
  <2>1. 1 \in Int /\ 5 \in Int /\ Buckets \subseteq Nat
    BY DEF Buckets
  <2>2. IsFiniteSet(Buckets)
    BY <2>1, FS_Interval DEF Buckets
  <2>3. IsFiniteSet(half)
    BY <1>6, <2>2, FS_Subset
  <2> QED
    BY <1>6, <2>1, <2>3
<1>8. Min(half) \in Buckets
  BY <1>6, <1>7, Extremes
<1>9. \A b \in Buckets : MedianDaysOfBucket[b] \in Nat
  BY DEF Buckets, MedianDaysOfBucket
<1>10. InferMedianAgeDays(ages) = IF total <= 0 THEN 0 ELSE MedianDaysOfBucket[Min(half)]
  BY <1>2, <1>4, <1>5 DEF InferMedianAgeDays
<1> QED
  BY <1>8, <1>9, <1>10

\* A district of a candidate has the figures of its row, its place, what was made of the history.
DistrictOf(d, entry, place, state, previous) ==
    /\ DOMAIN d = DOMAIN DistrictFigures(entry.id, entry.row) \cup {"rank", "persistence", "flagReason", "summary"}
    /\ \A field \in DOMAIN DistrictFigures(entry.id, entry.row) : d[field] = DistrictFigures(entry.id, entry.row)[field]
    /\ d.rank = place
    /\ d.persistence = WatchlistPersistence(entry.id, place, previous)
    /\ d.flagReason = FlagReason(DistrictFigures(entry.id, entry.row), place <= DistrictFlagLimit, state)
    /\ d.summary = Summary(DistrictFigures(entry.id, entry.row), place <= DistrictFlagLimit)

\* The districts of an extract, each once.
ListsDistricts(districts, x, n, order, state, previous) ==
    /\ DOMAIN districts = 1 .. n /\ n = Len(x.districts) /\ order \in [1 .. n -> 1 .. n]
    /\ \A i \in 1 .. n : \E k \in 1 .. n : order[k] = i
    /\ \A j, k \in 1 .. n : order[j] = order[k] => j = k
    /\ \A k \in 1 .. n : DistrictOf(districts[k], x.districts[order[k]], k, state, previous)

\* The fields of a district before it has a place.
FigureFields ==
    {"id", "backlog", "filed", "cleared", "disposalRate", "medianAge", "gap", "oldCaseBurden",
     "movement", "breakEven", "catchUp"}

LEMMA FiguresOfRow ==
    ASSUME NEW id, NEW row, NEW f, f = DistrictFigures(id, row)
    PROVE  /\ DOMAIN f = FigureFields
           /\ f.id = id /\ f.backlog = row.pending /\ f.filed = row.filed /\ f.cleared = row.cleared
           /\ f.disposalRate = Percentage(row.cleared, row.filed)
           /\ f.medianAge = InferMedianAgeDays(row.ages) /\ f.gap = PercentageGap(row)
           /\ f.movement = BacklogMovementShare(row) /\ f.breakEven = BreakEvenClearancesNeeded(row)
           /\ f.catchUp = CatchUpClearancesPerMonth(row)
BY DEF DistrictFigures, FigureFields

LEMMA DistrictsAreListed ==
    ASSUME NEW x \in Extract, NEW state, NEW previous
    PROVE  \E n \in Nat : \E order : ListsDistricts(Districts(x, state, previous), x, n, order, state, previous)
<1>1. PICK entries : entries = x.districts /\ entries \in Seq([id : Nat, row : Row])
  BY DEF Extract
<1>2. PICK n \in Nat : n = Len(entries) /\ DOMAIN entries = 1 .. n /\ \A i \in 1 .. n : entries[i] \in [id : Nat, row : Row]
  BY <1>1, LenProperties, ElementOfSeq
<1>3. PICK figures : figures = [i \in 1 .. n |-> DistrictFigures(entries[i].id, entries[i].row)]
  OBVIOUS
<1>4. ASSUME NEW i \in 1 .. n PROVE figures[i].backlog \in Nat /\ figures[i].medianAge \in Nat
  <2>1. PICK f : f = figures[i] /\ f = DistrictFigures(entries[i].id, entries[i].row)
    BY <1>3
  <2>2. entries[i].row.pending \in Nat /\ entries[i].row.ages \in [Buckets -> Nat]
    BY <1>2 DEF Row
  <2>3. InferMedianAgeDays(entries[i].row.ages) \in Nat
    BY <2>2, MedianAgeType
  <2>4. f.backlog = entries[i].row.pending /\ f.medianAge = InferMedianAgeDays(entries[i].row.ages)
    BY <2>1, FiguresOfRow
  <2> QED
    BY <2>1, <2>2, <2>3, <2>4
<1>5. PICK precedes : precedes = {p \in (1 .. n) \X (1 .. n) : LargerFirst(figures[p[1]], figures[p[2]])}
  OBVIOUS
<1>6. \A i, j \in 1 .. n : <<i, j>> \in precedes <=>
        \/ figures[i].backlog > figures[j].backlog
        \/ figures[i].backlog = figures[j].backlog /\ figures[i].medianAge > figures[j].medianAge
  BY <1>5 DEF LargerFirst
<1>7. WeaklyOrders(precedes, 1 .. n)
  <2>1. \A i \in 1 .. n : <<i, i>> \notin precedes
    BY <1>4, <1>6
  <2>2. ASSUME NEW h \in 1 .. n, NEW i \in 1 .. n, NEW j \in 1 .. n
        PROVE  /\ <<h, i>> \in precedes /\ <<i, j>> \in precedes => <<h, j>> \in precedes
               /\ <<h, j>> \in precedes => <<h, i>> \in precedes \/ <<i, j>> \in precedes
    BY <1>4, <1>6
  <2> QED
    BY <2>1, <2>2 DEF WeaklyOrders
<1>8. PICK sorted : sorted = StableSort(figures, LargerFirst)
  OBVIOUS
<1>9. sorted = Arranged(figures, precedes)
  BY <1>3, <1>5, <1>8 DEF StableSort
<1>10. PICK order : Arranges(sorted, figures, precedes, n, order)
  BY <1>3, <1>7, <1>9, Arrangement
<1>11. /\ order \in [1 .. n -> 1 .. n] /\ sorted = [k \in 1 .. n |-> figures[order[k]]]
       /\ \A i \in 1 .. n : \E k \in 1 .. n : order[k] = i
       /\ \A j, k \in 1 .. n : order[j] = order[k] => j = k
  BY <1>10 DEF Arranges
<1>12. PICK districts : districts = Districts(x, state, previous)
  OBVIOUS
<1>13. districts = [k \in DOMAIN sorted |->
            With(sorted[k],
                 [rank |-> k,
                  persistence |-> WatchlistPersistence(sorted[k].id, k, previous),
                  flagReason |-> FlagReason(sorted[k], k <= DistrictFlagLimit, state),
                  summary |-> Summary(sorted[k], k <= DistrictFlagLimit)])]
  BY <1>1, <1>2, <1>3, <1>8, <1>12, ZenonT(40) DEF Districts
<1>14. ASSUME NEW k \in 1 .. n PROVE DistrictOf(districts[k], entries[order[k]], k, state, previous)
  <2>1. PICK entry : entry = entries[order[k]]
    OBVIOUS
  <2>2. PICK f : f = DistrictFigures(entry.id, entry.row) /\ f = sorted[k]
    BY <1>3, <1>11, <2>1
  <2>3. PICK placed : placed = [rank |-> k,
                                persistence |-> WatchlistPersistence(f.id, k, previous),
                                flagReason |-> FlagReason(f, k <= DistrictFlagLimit, state),
                                summary |-> Summary(f, k <= DistrictFlagLimit)]
    OBVIOUS
  <2>4. districts[k] = With(f, placed)
    BY <1>11, <1>13, <2>2, <2>3
  <2>5. DOMAIN f = FigureFields /\ f.id = entry.id
    <3>1. f = DistrictFigures(entry.id, entry.row)
      BY <2>2
    <3>2. f.id = entry.id
      BY <3>1, FiguresOfRow
    <3>3. DOMAIN f = FigureFields
      BY <3>1 DEF DistrictFigures, FigureFields
    <3> QED
      BY <3>2, <3>3
  <2>6. /\ DOMAIN placed = {"rank", "persistence", "flagReason", "summary"}
        /\ placed["rank"] = k /\ placed["persistence"] = WatchlistPersistence(f.id, k, previous)
        /\ placed["flagReason"] = FlagReason(f, k <= DistrictFlagLimit, state)
        /\ placed["summary"] = Summary(f, k <= DistrictFlagLimit)
    BY <2>3
  <2>7. \A field \in FigureFields : field \notin DOMAIN placed
    BY <2>6 DEF FigureFields
  <2>8. /\ DOMAIN districts[k] = DOMAIN f \cup DOMAIN placed
        /\ \A field \in DOMAIN placed : districts[k][field] = placed[field]
        /\ \A field \in FigureFields : districts[k][field] = f[field]
    BY <2>4, <2>5, <2>7 DEF With
  <2> QED
    BY <2>1, <2>2, <2>5, <2>6, <2>8 DEF DistrictOf
<1>15. DOMAIN districts = 1 .. n
  BY <1>11, <1>13
<1>16. ListsDistricts(districts, x, n, order, state, previous)
  BY <1>1, <1>2, <1>11, <1>14, <1>15 DEF ListsDistricts
<1> QED
  BY <1>12, <1>16

\* A list of districts that names each once.
Distinct(districts, n) ==
    /\ DOMAIN districts = 1 .. n
    /\ \A j, k \in 1 .. n : districts[j].id = districts[k].id => j = k

\* The lookup of a district by its id finds it.
Finds(snapshot, n, id) ==
    /\ DistrictIn(snapshot, id) # <<>> <=> \E k \in 1 .. n : snapshot.districts[k].id = id
    /\ \A k \in 1 .. n : snapshot.districts[k].id = id => DistrictIn(snapshot, id)[1] = snapshot.districts[k]

LEMMA FoundDistrict ==
    ASSUME NEW snapshot, NEW n \in Nat, Distinct(snapshot.districts, n), NEW id
    PROVE  Finds(snapshot, n, id)
<1>1. PICK all : all = snapshot.districts
  OBVIOUS
<1>2. PICK places : places = {k \in 1 .. n : all[k].id = id}
  OBVIOUS
<1>3. PICK found : found = Filtered(all, places)
  OBVIOUS
<1>4. DOMAIN all = 1 .. n /\ \A j, k \in 1 .. n : all[j].id = all[k].id => j = k
  BY <1>1 DEF Distinct
<1>5. DistrictIn(snapshot, id) = found
  BY <1>1, <1>2, <1>3, <1>4 DEF DistrictIn, Where
<1>6. PICK m \in Nat : \E order : Keeps(found, all, places, m, order)
  <2>1. places \in SUBSET (1 .. n)
    BY <1>2
  <2> QED
    BY <1>3, <2>1, Filters
<1>7. PICK order : Keeps(found, all, places, m, order)
  BY <1>6
<1>8. /\ order \in [1 .. m -> places] /\ found = [k \in 1 .. m |-> all[order[k]]]
      /\ \A i \in places : \E k \in 1 .. m : order[k] = i
  BY <1>7 DEF Keeps
<1>9. found # <<>> <=> m > 0
  <2>1. PICK T : T = {all[i] : i \in places}
    OBVIOUS
  <2>2. found \in [1 .. m -> T]
    BY <1>8, <2>1
  <2>3. found \in Seq(T) /\ Len(found) = m
    BY <2>2
  <2>4. found = <<>> <=> Len(found) = 0
    BY <2>3, EmptySeq
  <2> QED
    BY <2>3, <2>4
<1>10. ASSUME m > 0 PROVE found[1] = all[order[1]] /\ order[1] \in places
  <2>1. 1 \in 1 .. m
    BY <1>10
  <2> QED
    BY <1>8, <2>1
<1>11. ASSUME NEW k \in 1 .. n, all[k].id = id PROVE m > 0 /\ found[1] = all[k]
  <2>1. PICK j \in 1 .. m : order[j] = k
    BY <1>2, <1>8, <1>11
  <2>2. m > 0
    BY <2>1
  <2>3. order[1] \in 1 .. n /\ all[order[1]].id = id
    BY <1>2, <1>10, <2>2
  <2>4. order[1] = k
    BY <1>4, <1>11, <2>3
  <2> QED
    BY <1>10, <2>2, <2>4
<1>12. m > 0 => \E k \in 1 .. n : all[k].id = id
  BY <1>2, <1>10
<1> QED
  BY <1>1, <1>5, <1>9, <1>11, <1>12 DEF Finds

-----------------------------------------------------------------------------
(* What a row was built from *)

\* The candidate that BuildSnapshotCandidate makes of an extract and a history.
BuiltFrom(c, x, previous) ==
    /\ c.stats = BuildSnapshotCandidate(x, c.at, previous).stats
    /\ c.flagged = BuildSnapshotCandidate(x, c.at, previous).flagged
    /\ c.districts = BuildSnapshotCandidate(x, c.at, previous).districts

IsBuilt(c) ==
    /\ c.geography \in ToSet(Geographies) /\ c.capturedAfter \in 0 .. Len(events)
    /\ \E x \in Extracts[c.geography] :
         BuiltFrom(c, x, LoadHistoricalSnapshots(c.geography, SubSeq(events, 1, c.capturedAfter)))

\* Candidates and snapshots were built from the history of their capture, which is older.
BuiltInv ==
    /\ \A g \in ToSet(Geographies) : \A c \in candidates[g] : IsBuilt(c)
    /\ \A s \in 1 .. Len(snapshots) :
         /\ IsBuilt(snapshots[s])
         /\ \A i \in 1 .. snapshots[s].capturedAfter : events[i] < s

\* Rows that are appended change no history there was.
LEMMA HistoryStays ==
    ASSUME Len(snapshots) \in Nat, \A s \in 1 .. Len(snapshots) : snapshots'[s] = snapshots[s],
           \A s \in 1 .. Len(snapshots) : snapshots[s].at \in Nat,
           NEW g, NEW log \in Seq(1 .. Len(snapshots))
    PROVE  LoadHistoricalSnapshots(g, log)' = LoadHistoricalSnapshots(g, log)
<1>1. DOMAIN log = 1 .. Len(log) /\ \A i \in 1 .. Len(log) : log[i] \in 1 .. Len(snapshots)
  BY LenProperties, ElementOfSeq
<1>2. OfGeography(g, log)' = OfGeography(g, log)
  BY <1>1 DEF OfGeography
<1>3. PICK published : /\ published = Published(g, log) /\ published \in SUBSET (1 .. Len(snapshots))
                       /\ IsFiniteSet(published)
  BY PublishedAreSnapshots
<1>4. {log[i] : i \in OfGeography(g, log)} = published /\ {log[i] : i \in OfGeography(g, log)'} = published
  BY <1>2, <1>3 DEF Published
<1>5. PICK values : values = [s \in published |-> snapshots[s].at]
  OBVIOUS
<1>6. values = [s \in published |-> snapshots'[s].at]
  BY <1>3, <1>5
<1>7. PICK ids : ids = Ascending(published, values)
  OBVIOUS
<1>8. PICK n \in Nat : ids \in [1 .. n -> published]
  <2>1. published \in SUBSET Nat /\ \A s \in published : values[s] \in Nat
    BY <1>3, <1>5
  <2>2. \E n \in Nat : \E order \in [1 .. n -> published] :
             /\ n = Cardinality(published) /\ order = Ascending(published, values)
             /\ \A s \in published : \E k \in 1 .. n : order[k] = s
             /\ \A j, k \in 1 .. n : j < k =>
                  values[order[j]] < values[order[k]] \/ (values[order[j]] = values[order[k]] /\ order[j] < order[k])
    BY <1>3, <2>1, Order, ZenonT(40)
  <2> QED
    BY <1>7, <2>2
<1>9. \A i \in 1 .. n : ids[i] \in 1 .. Len(snapshots)
  BY <1>3, <1>8
<1>10. LoadHistoricalSnapshots(g, log) = [i \in DOMAIN ids |-> snapshots[ids[i]]]
  BY <1>4, <1>5, <1>7 DEF LoadHistoricalSnapshots
<1>11. LoadHistoricalSnapshots(g, log)' = [i \in DOMAIN ids |-> snapshots'[ids[i]]]
  BY <1>4, <1>6, <1>7 DEF LoadHistoricalSnapshots
<1> QED
  BY <1>8, <1>9, <1>10, <1>11

LEMMA PrefixStays ==
    ASSUME NEW T, NEW log \in Seq(T), NEW x, NEW n \in 0 .. Len(log)
    PROVE  /\ SubSeq(log, 1, n) \in Seq(T) /\ Len(SubSeq(log, 1, n)) = n
           /\ \A i \in 1 .. n : SubSeq(log, 1, n)[i] = log[i]
           /\ SubSeq(Append(log, x), 1, n) = SubSeq(log, 1, n)
<1>1. Len(log) \in Nat /\ DOMAIN log = 1 .. Len(log) /\ \A i \in 1 .. Len(log) : log[i] \in T
  BY LenProperties, ElementOfSeq
<1>2. PICK U : U = T \cup {x}
  OBVIOUS
<1>3. log \in Seq(U)
  <2>1. \A i \in 1 .. Len(log) : log[i] \in U
    BY <1>1, <1>2
  <2> QED
    BY <1>1, <2>1
<1>4. PICK longer : longer = Append(log, x)
  OBVIOUS
<1>5. /\ longer \in Seq(U) /\ Len(longer) = Len(log) + 1
      /\ \A i \in 1 .. Len(log) : longer[i] = log[i]
  BY <1>2, <1>3, <1>4, AppendProperties
<1>6. n \in Int /\ 1 \in Int /\ \A i \in 1 .. n : i \in 1 .. Len(log)
  BY <1>1
<1>7. PICK short : short = SubSeq(log, 1, n)
  OBVIOUS
<1>8. short \in Seq(T) /\ Len(short) = n /\ \A i \in 1 .. n : short[i] = log[i]
  <2>1. /\ SubSeq(log, 1, n) \in Seq(T)
        /\ Len(SubSeq(log, 1, n)) = IF 1 <= n THEN n - 1 + 1 ELSE 0
        /\ \A i \in 1 .. n - 1 + 1 : SubSeq(log, 1, n)[i] = log[1 + i - 1]
    <3>1. \A i \in 1 .. n : log[i] \in T
      BY <1>1, <1>6
    <3> QED
      BY <1>6, <3>1, SubSeqProperties
  <2>2. (IF 1 <= n THEN n - 1 + 1 ELSE 0) = n /\ n - 1 + 1 = n /\ \A i \in 1 .. n : 1 + i - 1 = i
    OBVIOUS
  <2> QED
    BY <1>7, <2>1, <2>2
<1>9. PICK cut : cut = SubSeq(longer, 1, n)
  OBVIOUS
<1>10. cut \in Seq(U) /\ Len(cut) = n /\ \A i \in 1 .. n : cut[i] = longer[i]
  <2>1. /\ SubSeq(longer, 1, n) \in Seq(U)
        /\ Len(SubSeq(longer, 1, n)) = IF 1 <= n THEN n - 1 + 1 ELSE 0
        /\ \A i \in 1 .. n - 1 + 1 : SubSeq(longer, 1, n)[i] = longer[1 + i - 1]
    <3>1. \A i \in 1 .. n : longer[i] \in U
      BY <1>1, <1>2, <1>5, <1>6
    <3> QED
      BY <1>6, <3>1, SubSeqProperties
  <2>2. (IF 1 <= n THEN n - 1 + 1 ELSE 0) = n /\ n - 1 + 1 = n /\ \A i \in 1 .. n : 1 + i - 1 = i
    OBVIOUS
  <2> QED
    BY <1>9, <2>1, <2>2
<1>11. cut = short
  <2>1. DOMAIN cut = 1 .. n /\ DOMAIN short = 1 .. n
    BY <1>8, <1>10, LenProperties
  <2>2. cut = [i \in 1 .. n |-> cut[i]] /\ short = [i \in 1 .. n |-> short[i]]
    BY <1>8, <1>10, <2>1
  <2>3. \A i \in 1 .. n : cut[i] = short[i]
    BY <1>5, <1>6, <1>8, <1>10
  <2> QED
    BY <2>2, <2>3
<1> QED
  BY <1>4, <1>7, <1>8, <1>9, <1>11

LEMMA BuiltStays ==
    ASSUME TablesInv, Len(snapshots) <= Len(snapshots'), \A s \in 1 .. Len(snapshots) : snapshots'[s] = snapshots[s],
           NEW t, events' = Append(events, t), Len(events') = Len(events) + 1, NEW c, IsBuilt(c)
    PROVE  IsBuilt(c)'
<1>1. /\ Len(snapshots) \in Nat /\ \A s \in 1 .. Len(snapshots) : snapshots[s].at \in Nat
      /\ events \in Seq(1 .. Len(snapshots)) /\ Len(events) \in Nat
  BY LenProperties DEF TablesInv
<1>2. PICK n \in 0 .. Len(events) : n = c.capturedAfter
  BY DEF IsBuilt
<1>3. PICK log \in Seq(1 .. Len(snapshots)) : log = SubSeq(events, 1, n) /\ log = SubSeq(events', 1, n)
  <2>1. SubSeq(events, 1, n) \in Seq(1 .. Len(snapshots)) /\ SubSeq(Append(events, t), 1, n) = SubSeq(events, 1, n)
    BY <1>1, PrefixStays, SMTT(20)
  <2> QED
    BY <2>1
<1>4. PICK x \in Extracts[c.geography] : BuiltFrom(c, x, LoadHistoricalSnapshots(c.geography, log))
  BY <1>2, <1>3 DEF IsBuilt
<1>5. LoadHistoricalSnapshots(c.geography, log)' = LoadHistoricalSnapshots(c.geography, log)
  BY <1>1, HistoryStays
<1>6. BuiltFrom(c, x, LoadHistoricalSnapshots(c.geography, log)')
  BY <1>4, <1>5
<1>7. n \in 0 .. Len(events')
  BY <1>1, <1>2
<1>8. LoadHistoricalSnapshots(c.geography, log)' = LoadHistoricalSnapshots(c.geography, SubSeq(events, 1, n))'
  BY <1>3
<1> QED
  BY <1>2, <1>6, <1>7, <1>8 DEF IsBuilt

\* The inductive invariant.
ReportsInv == TablesInv /\ ReaderInv /\ BuiltInv

-----------------------------------------------------------------------------
(* The page *)

\* The page finds the point of its snapshot and the one before it.
ShowsPoint(history, m, list, here, g, id, s) ==
    /\ here \in 1 .. m /\ ListsInOrder(list, Having(g, events, id), m)
    /\ history = [k \in 1 .. m |-> BuildDistrictHistoryPoint(snapshots[list[k]], id)]
    /\ list[here] = s /\ ShownPoint(snapshots[s], history) = here
    /\ here > 1 => PriorPoint(snapshots[s], history) = here - 1

LEMMA PageFindsItsPoint ==
    ASSUME TablesInv, NEW g, NEW id, NEW s, s \in Published(g, events), Has(s, id),
           NEW history, history = DistrictHistory(LoadHistoricalSnapshots(g, events), id)
    PROVE  \E m \in Nat : \E list, here : ShowsPoint(history, m, list, here, g, id, s)
<1>1. /\ events \in Seq(1 .. Len(snapshots)) /\ Len(snapshots) \in Nat
      /\ \A t \in 1 .. Len(snapshots) : snapshots[t].publishedAt = t /\ snapshots[t].at \in Nat
  BY LenProperties DEF TablesInv
<1>2. Published(g, events) \in SUBSET (1 .. Len(snapshots))
  BY <1>1, PublishedAreSnapshots
<1>3. PICK m \in Nat : \E list :
             /\ ListsInOrder(list, Having(g, events, id), m)
             /\ history = [k \in 1 .. m |-> BuildDistrictHistoryPoint(snapshots[list[k]], id)]
  BY <1>1, DistrictHistoryLists
<1>4. PICK list : /\ ListsInOrder(list, Having(g, events, id), m)
                  /\ history = [k \in 1 .. m |-> BuildDistrictHistoryPoint(snapshots[list[k]], id)]
  BY <1>3
<1>5. \A k \in 1 .. m : list[k] \in 1 .. Len(snapshots)
  BY <1>2, <1>4 DEF ListsInOrder, Having
<1>6. ASSUME NEW k \in 1 .. m PROVE history[k].at = snapshots[list[k]].at /\ history[k].publishedAt = list[k]
  <2>1. PICK point : point = history[k] /\ point = BuildDistrictHistoryPoint(snapshots[list[k]], id)
    BY <1>4
  <2>2. point.at = snapshots[list[k]].at /\ point.publishedAt = snapshots[list[k]].publishedAt
    BY <2>1, PointOfSnapshot
  <2> QED
    BY <1>1, <1>5, <2>1, <2>2
<1>7. PICK here \in 1 .. m : list[here] = s
  BY <1>4 DEF ListsInOrder, Having
<1>8. \A k \in 1 .. m : list[k] = s => k = here
  <2>1. ASSUME NEW k \in 1 .. m, list[k] = s, k # here PROVE FALSE
    <3>1. k < here \/ here < k
      BY <2>1
    <3>2. HistoryOrder(s, s)
      BY <1>4, <1>7, <2>1, <3>1 DEF ListsInOrder
    <3>3. snapshots[s].at \in Nat /\ s \in Nat
      BY <1>1, <1>2
    <3> QED
      BY <3>2, <3>3 DEF HistoryOrder
  <2> QED
    BY <2>1
<1>9. {i \in DOMAIN history : history[i].at = snapshots[s].at /\ history[i].publishedAt = snapshots[s].publishedAt}
        = {here}
  <2>1. DOMAIN history = 1 .. m /\ snapshots[s].publishedAt = s
    BY <1>1, <1>2, <1>4
  <2> QED
    BY <1>6, <1>7, <1>8, <2>1
<1>10. CurrentPoint(snapshots[s], history) = here
  <2>1. here \in Nat /\ {here} \in SUBSET Nat /\ IsFiniteSet({here}) /\ {here} # {}
    BY FS_Singleton, SMTT(20)
  <2>2. Min({here}) = here
    BY <2>1, Extremes
  <2> QED
    BY <1>9, <2>2 DEF CurrentPoint
<1>11. ShownPoint(snapshots[s], history) = here /\ (here > 1 => PriorPoint(snapshots[s], history) = here - 1)
  BY <1>10 DEF ShownPoint, PriorPoint, NoPoint
<1>12. ShowsPoint(history, m, list, here, g, id, s)
  BY <1>4, <1>7, <1>11 DEF ShowsPoint
<1> QED
  BY <1>12

LEMMA ReportsInvImpliesPage == ReportsInv => DistrictPageIsOfOneSnapshot
<1> SUFFICES ASSUME ReportsInv, reader.stage = "shown" PROVE DistrictPageIsOfOneSnapshot
  BY DEF DistrictPageIsOfOneSnapshot
<1> DEFINE s == reader.snapshot
           has == Having(reader.geography, events, reader.id)
<1>1. PICK history : /\ history = reader.history
                     /\ history = DistrictHistory(LoadHistoricalSnapshots(reader.geography, events), reader.id)
  BY DEF ReportsInv, ReaderInv
<1>2. TablesInv /\ s \in Published(reader.geography, events) /\ Has(s, reader.id)
  BY DEF ReportsInv, ReaderInv
<1> HIDE DEF s
<1> HIDE DEF has
<1>3. PICK m \in Nat : \E list, here : ShowsPoint(history, m, list, here, reader.geography, reader.id, s)
  BY <1>1, <1>2, PageFindsItsPoint
<1>4. PICK list, here : ShowsPoint(history, m, list, here, reader.geography, reader.id, s)
  BY <1>3
<1>5. /\ here \in 1 .. m /\ ListsInOrder(list, has, m)
      /\ history = [k \in 1 .. m |-> BuildDistrictHistoryPoint(snapshots[list[k]], reader.id)]
      /\ list[here] = s /\ ShownPoint(snapshots[s], history) = here
      /\ here > 1 => PriorPoint(snapshots[s], history) = here - 1
  BY <1>4 DEF ShowsPoint, has
<1>6. \A t \in has : t \in 1 .. Len(snapshots) /\ t \in Nat /\ snapshots[t].at \in Nat /\ snapshots[t].publishedAt = t
  <2>1. events \in Seq(1 .. Len(snapshots)) /\ Len(snapshots) \in Nat
    BY <1>2, LenProperties DEF TablesInv
  <2>2. Published(reader.geography, events) \in SUBSET (1 .. Len(snapshots))
    BY <2>1, PublishedAreSnapshots
  <2> QED
    BY <1>2, <2>1, <2>2 DEF TablesInv, Having, has
<1>7. ASSUME NEW k \in 1 .. m PROVE history[k].publishedAt = list[k] /\ list[k] \in has
  <2>1. PICK point : point = history[k] /\ point = BuildDistrictHistoryPoint(snapshots[list[k]], reader.id)
    BY <1>5
  <2>2. point.publishedAt = snapshots[list[k]].publishedAt
    BY <2>1, PointOfSnapshot
  <2>3. list[k] \in has
    BY <1>5 DEF ListsInOrder
  <2> QED
    BY <1>6, <2>1, <2>2, <2>3
<1>8. \A k \in 1 .. m : HistoryOrder(list[k], s) <=> k < here
  <2> SUFFICES ASSUME NEW k \in 1 .. m PROVE HistoryOrder(list[k], s) <=> k < here
    OBVIOUS
  <2>1. snapshots[s].at \in Nat /\ s \in Nat /\ snapshots[list[k]].at \in Nat /\ list[k] \in Nat
    BY <1>5, <1>6, <1>7
  <2>2. k < here => HistoryOrder(list[k], s)
    BY <1>5 DEF ListsInOrder
  <2>3. here < k => HistoryOrder(s, list[k])
    BY <1>5 DEF ListsInOrder
  <2>4. HistoryOrder(s, list[k]) => ~HistoryOrder(list[k], s)
    BY <2>1 DEF HistoryOrder
  <2>5. k = here => ~HistoryOrder(list[k], s)
    BY <1>5, <2>1 DEF HistoryOrder
  <2>6. here \in Nat /\ k \in Nat
    BY <1>5
  <2>7. k < here \/ k = here \/ (here < k /\ ~(k < here))
    BY <2>6
  <2> QED
    BY <2>2, <2>3, <2>4, <2>5, <2>7
<1>9. DOMAIN history = 1 .. m
  BY <1>5
<1> DEFINE earlier == {i \in DOMAIN history : HistoryOrder(history[i].publishedAt, s)}
<1>10. earlier = 1 .. here - 1
  <2>1. \A k \in 1 .. m : HistoryOrder(history[k].publishedAt, s) <=> k < here
    BY <1>7, <1>8
  <2>2. \A k \in 1 .. m : k < here <=> k \in 1 .. here - 1
    BY <1>5
  <2>3. \A k \in 1 .. here - 1 : k \in 1 .. m
    BY <1>5
  <2> QED
    BY <1>9, <2>1, <2>2, <2>3
<1>11. history[here].publishedAt = s
  BY <1>5, <1>7
<1>12. ASSUME earlier # {}
       PROVE  /\ PriorPoint(snapshots[s], history) \in earlier
              /\ \A i \in earlier : \/ i = PriorPoint(snapshots[s], history)
                                    \/ HistoryOrder(history[i].publishedAt,
                                                    history[PriorPoint(snapshots[s], history)].publishedAt)
  <2>0. here > 1
    <3> HIDE DEF earlier
    <3> QED
      BY <1>5, <1>10, <1>12
  <2>1. here > 1 /\ PriorPoint(snapshots[s], history) = here - 1 /\ here - 1 \in 1 .. m
    BY <1>5, <2>0
  <2>2. ASSUME NEW i \in 1 .. here - 1, i # here - 1 PROVE HistoryOrder(list[i], list[here - 1])
    <3>1. i \in 1 .. m /\ i < here - 1
      BY <1>5, <2>2
    <3> QED
      BY <1>5, <2>1, <3>1 DEF ListsInOrder
  <2>3. \A i \in 1 .. here - 1 : i \in 1 .. m
    BY <1>5
  <2> HIDE DEF earlier
  <2> QED
    BY <1>7, <1>10, <2>1, <2>2, <2>3
<1>13. history[ShownPoint(snapshots[s], history)].publishedAt = s
  BY <1>5, <1>11
<1> QED
  BY <1>1, <1>12, <1>13 DEF DistrictPageIsOfOneSnapshot, s

-----------------------------------------------------------------------------
(* The districts of a snapshot *)

\* Each district once, with figures that can be compared, and in the order of its ranks.
IsRanked(s, n) ==
    /\ snapshots[s].flagged = Min({DistrictFlagLimit, n})
    /\ \A k \in 1 .. n :
         /\ snapshots[s].districts[k].rank = k /\ snapshots[s].districts[k].id \in DistrictIds
         /\ snapshots[s].districts[k].persistence =
              WatchlistPersistence(snapshots[s].districts[k].id, k,
                                   LoadHistoricalSnapshots(snapshots[s].geography,
                                                           SubSeq(events, 1, snapshots[s].capturedAfter)))
HasDistricts(s, n) ==
    /\ Distinct(snapshots[s].districts, n) /\ IsRanked(s, n)
    /\ \A k \in 1 .. n :
         /\ {"id", "backlog", "disposalRate", "rank"} \subseteq DOMAIN snapshots[s].districts[k]
         /\ snapshots[s].districts[k].backlog \in Int /\ snapshots[s].districts[k].disposalRate \in Int
         /\ snapshots[s].districts[k].rank \in Int

LEMMA SnapshotDistricts ==
    ASSUME BuiltInv, NEW s \in 1 .. Len(snapshots)
    PROVE  \E n \in Nat : HasDistricts(s, n)
<1>1. PICK c : c = snapshots[s] /\ IsBuilt(c)
  BY DEF BuiltInv
<1>3. PICK previous : previous = LoadHistoricalSnapshots(c.geography, SubSeq(events, 1, c.capturedAfter))
  OBVIOUS
<1>2. PICK x \in Extracts[c.geography] : BuiltFrom(c, x, previous)
  BY <1>1, <1>3 DEF IsBuilt
<1>4. x \in Extract /\ \A i, j \in DOMAIN x.districts : x.districts[i].id = x.districts[j].id => i = j
  BY <1>1, <1>2, ExtractsAssumption DEF IsBuilt
<1>5. PICK state : c.districts = Districts(x, state, previous)
  BY <1>2 DEF BuiltFrom, BuildSnapshotCandidate
<1>13. c.flagged = Min({DistrictFlagLimit, Len(x.districts)})
  BY <1>2 DEF BuiltFrom, BuildSnapshotCandidate
<1>6. PICK n \in Nat : \E order : ListsDistricts(c.districts, x, n, order, state, previous)
  BY <1>4, <1>5, DistrictsAreListed
<1>7. PICK order : ListsDistricts(c.districts, x, n, order, state, previous)
  BY <1>6
<1>8. /\ DOMAIN c.districts = 1 .. n /\ n = Len(x.districts) /\ order \in [1 .. n -> 1 .. n]
      /\ \A j, k \in 1 .. n : order[j] = order[k] => j = k
      /\ \A k \in 1 .. n : DistrictOf(c.districts[k], x.districts[order[k]], k, state, previous)
  BY <1>7 DEF ListsDistricts
<1>9. DOMAIN x.districts = 1 .. n /\ \A i \in 1 .. n : x.districts[i] \in [id : Nat, row : Row]
  <2>1. x.districts \in Seq([id : Nat, row : Row])
    BY <1>4 DEF Extract
  <2> QED
    BY <1>8, <2>1, LenProperties, ElementOfSeq
<1>10. ASSUME NEW k \in 1 .. n
       PROVE  /\ {"id", "backlog", "disposalRate", "rank"} \subseteq DOMAIN c.districts[k]
              /\ c.districts[k].backlog \in Int /\ c.districts[k].disposalRate \in Int
              /\ c.districts[k].rank \in Int /\ c.districts[k].id = x.districts[order[k]].id
              /\ c.districts[k].rank = k /\ c.districts[k].id \in DistrictIds
              /\ c.districts[k].persistence = WatchlistPersistence(c.districts[k].id, k, previous)
  <2>1. PICK entry \in [id : Nat, row : Row] : entry = x.districts[order[k]]
    BY <1>8, <1>9
  <2>2. PICK f : f = DistrictFigures(entry.id, entry.row)
    OBVIOUS
  <2>3. DOMAIN f = FigureFields /\ f.id = entry.id /\ f.backlog = entry.row.pending
        /\ f.disposalRate = Percentage(entry.row.cleared, entry.row.filed)
    BY <2>2, FiguresOfRow
  <2>4. entry.row.pending \in Nat /\ entry.row.cleared \in Nat /\ entry.row.filed \in Nat
    BY <2>1 DEF Row
  <2>5. f.disposalRate \in Int /\ f.backlog \in Int
    <3>1. Percentage(entry.row.cleared, entry.row.filed) \in Int
      BY <2>4, PercentageType
    <3>2. f.disposalRate \in Int
      BY <2>3, <3>1
    <3> QED
      BY <2>3, <2>4, <3>2
  <2>6. PICK d : d = c.districts[k] /\ DistrictOf(d, entry, k, state, previous)
    BY <1>8, <2>1
  <2>10. d.persistence = WatchlistPersistence(entry.id, k, previous)
    BY <2>6 DEF DistrictOf
  <2>11. entry.id \in DistrictIds
    <3>1. Extracts[c.geography] \in Range(Extracts)
      <4>1. c.geography \in ToSet(Geographies)
        BY <1>1 DEF IsBuilt
      <4>2. PICK i \in DOMAIN Geographies : c.geography = Geographies[i]
        BY <4>1 DEF ToSet
      <4>3. Geographies[i] \in DOMAIN Extracts
        BY RegistryAssumption, ElementOfSeq, LenProperties
      <4> QED
        BY <4>2, <4>3 DEF Range
    <3>2. x \in UNION Range(Extracts) /\ order[k] \in DOMAIN x.districts
      BY <1>2, <1>8, <1>9, <3>1
    <3>3. entry.id \in {x.districts[i].id : i \in DOMAIN x.districts}
      BY <2>1, <3>2
    <3> QED
      BY <3>2, <3>3 DEF DistrictIds
  <2>7. /\ DOMAIN d = FigureFields \cup {"rank", "persistence", "flagReason", "summary"}
        /\ \A field \in FigureFields : d[field] = f[field]
        /\ d.rank = k
    BY <2>2, <2>3, <2>6 DEF DistrictOf
  <2>8. d.id = f.id /\ d.backlog = f.backlog /\ d.disposalRate = f.disposalRate
    BY <2>7 DEF FigureFields
  <2>9. {"id", "backlog", "disposalRate", "rank"} \subseteq DOMAIN d
    BY <2>7 DEF FigureFields
  <2> QED
    BY <2>1, <2>3, <2>5, <2>6, <2>7, <2>8, <2>9, <2>10, <2>11
<1>11. ASSUME NEW j \in 1 .. n, NEW k \in 1 .. n, c.districts[j].id = c.districts[k].id PROVE j = k
  <2>1. order[j] \in 1 .. n /\ order[k] \in 1 .. n /\ x.districts[order[j]].id = x.districts[order[k]].id
    BY <1>8, <1>10, <1>11
  <2>2. order[j] = order[k]
    BY <1>4, <1>9, <2>1
  <2> QED
    BY <1>8, <2>2
<1>12. HasDistricts(s, n)
  <2>1. Distinct(c.districts, n)
    BY <1>8, <1>11 DEF Distinct
  <2>2. IsRanked(s, n)
    BY <1>1, <1>3, <1>8, <1>10, <1>13 DEF IsRanked
  <2> QED
    BY <1>1, <1>10, <2>1, <2>2 DEF HasDistricts
<1> QED
  BY <1>12

\* A point has the figures of the district in its snapshot.
LEMMA PointFigures ==
    ASSUME NEW snapshot, NEW id, NEW d, d = DistrictIn(snapshot, id)[1],
           NEW point, point = BuildDistrictHistoryPoint(snapshot, id),
           NEW field \in DOMAIN d \ {"at", "publishedAt", "quality"}
    PROVE  point[field] = d[field]
<1>1. PICK own : own = [at |-> snapshot.at, publishedAt |-> snapshot.publishedAt, quality |-> snapshot.quality]
  OBVIOUS
<1>2. DOMAIN own = {"at", "publishedAt", "quality"}
  BY <1>1
<1>3. point = With(d, own)
  BY <1>1 DEF BuildDistrictHistoryPoint
<1> QED
  BY <1>2, <1>3, WithFields

-----------------------------------------------------------------------------
(* The movers *)

\* The page of a district compares the two newest snapshots of its geography, when
\* both have the district and the newest is the active one.
ComparesNewest(history, snapshot, d, prev) ==
    \A direction \in Int : \A field \in {"backlog", "disposalRate", "rank"} :
        Delta(snapshot, history, field, direction) = Shown(direction * (d[field] - prev[field]))

LEMMA PageComparesNewest ==
    ASSUME TablesInv, BuiltInv, NEW g, NEW id, NEW n \in Nat, n >= 2, NEW ids, ListsInOrder(ids, Published(g, events), n),
           Has(ids[n], id), Has(ids[n - 1], id),
           NEW history, history = DistrictHistory(LoadHistoricalSnapshots(g, events), id),
           NEW d, d = DistrictIn(snapshots[ids[n]], id)[1],
           NEW prev, prev = DistrictIn(snapshots[ids[n - 1]], id)[1],
           {"backlog", "disposalRate", "rank"} \subseteq DOMAIN d,
           {"backlog", "disposalRate", "rank"} \subseteq DOMAIN prev
    PROVE  ComparesNewest(history, snapshots[ids[n]], d, prev)
<1>1. PICK new, old : new = ids[n] /\ old = ids[n - 1]
  OBVIOUS
<1>2. n \in 1 .. n /\ n - 1 \in 1 .. n /\ n - 1 < n
  OBVIOUS
<1>3. new \in Published(g, events) /\ old \in Published(g, events) /\ HistoryOrder(old, new)
  BY <1>1, <1>2 DEF ListsInOrder
<1>4. PICK m \in Nat : \E list, here : ShowsPoint(history, m, list, here, g, id, new)
  BY <1>1, <1>3, PageFindsItsPoint
<1>5. PICK list, here : ShowsPoint(history, m, list, here, g, id, new)
  BY <1>4
<1>6. /\ here \in 1 .. m /\ ListsInOrder(list, Having(g, events, id), m)
      /\ history = [k \in 1 .. m |-> BuildDistrictHistoryPoint(snapshots[list[k]], id)]
      /\ list[here] = new /\ ShownPoint(snapshots[new], history) = here
      /\ here > 1 => PriorPoint(snapshots[new], history) = here - 1
  BY <1>5 DEF ShowsPoint
<1>7. \A s \in Published(g, events) : s \in Nat /\ snapshots[s].at \in Nat
  <2>1. events \in Seq(1 .. Len(snapshots)) /\ Len(snapshots) \in Nat
    BY LenProperties DEF TablesInv
  <2>2. Published(g, events) \in SUBSET (1 .. Len(snapshots))
    BY <2>1, PublishedAreSnapshots
  <2> QED
    BY <2>1, <2>2 DEF TablesInv
<1>8. PICK there \in 1 .. m : list[there] = old
  BY <1>1, <1>3, <1>6 DEF ListsInOrder, Having
<1>9. there < here
  <2>1. ~(here < there) /\ here # there
    <3>1. ~HistoryOrder(new, old) /\ ~HistoryOrder(new, new)
      BY <1>3, <1>7 DEF HistoryOrder
    <3> QED
      BY <1>3, <1>6, <1>8, <3>1 DEF ListsInOrder
  <2> QED
    BY <1>6, <1>8, <2>1
<1>10. there = here - 1
  <2> SUFFICES ASSUME there < here - 1 PROVE FALSE
    BY <1>6, <1>8, <1>9
  <2>1. here - 1 \in 1 .. m /\ here - 1 < here
    BY <1>6, <1>8
  <2>2. PICK s : s = list[here - 1]
    OBVIOUS
  <2>3. s \in Published(g, events)
    BY <1>6, <2>1, <2>2 DEF ListsInOrder, Having
  <2>4. HistoryOrder(old, s) /\ HistoryOrder(s, new)
    BY <1>6, <1>8, <2>1, <2>2 DEF ListsInOrder
  <2>5. PICK j \in 1 .. n : ids[j] = s
    BY <2>3 DEF ListsInOrder
  <2>6. j # n /\ j # n - 1
    <3>1. ~HistoryOrder(new, new) /\ ~HistoryOrder(old, old)
      BY <1>3, <1>7 DEF HistoryOrder
    <3> QED
      BY <1>1, <2>4, <2>5, <3>1
  <2>7. j < n - 1
    BY <2>5, <2>6
  <2>8. HistoryOrder(s, old)
    BY <1>1, <1>2, <2>5, <2>7 DEF ListsInOrder
  <2> QED
    BY <1>3, <1>7, <2>3, <2>4, <2>8 DEF HistoryOrder
<1>11. /\ ShownPoint(snapshots[new], history) = here /\ here # NoPoint
       /\ PriorPoint(snapshots[new], history) = there /\ there # NoPoint
  BY <1>6, <1>8, <1>9, <1>10 DEF NoPoint
<1>12. ASSUME NEW field \in {"backlog", "disposalRate", "rank"}
       PROVE  history[here][field] = d[field] /\ history[there][field] = prev[field]
  <2>1. PICK point : point = history[here] /\ point = BuildDistrictHistoryPoint(snapshots[new], id)
    BY <1>6
  <2>2. point[field] = d[field]
    BY <1>1, <2>1, PointFigures
  <2>3. PICK before : before = history[there] /\ before = BuildDistrictHistoryPoint(snapshots[old], id)
    BY <1>6, <1>8
  <2>4. before[field] = prev[field]
    BY <1>1, <2>3, PointFigures
  <2> QED
    BY <2>1, <2>2, <2>3, <2>4
<1>13. ASSUME NEW direction \in Int, NEW field \in {"backlog", "disposalRate", "rank"}
       PROVE  Delta(snapshots[new], history, field, direction) = Shown(direction * (d[field] - prev[field]))
  BY <1>11, <1>12 DEF Delta
<1> QED
  BY <1>1, <1>13 DEF ComparesNewest

\* What the page says of the changes is what it computes.
LEMMA PageDeltas ==
    ASSUME NEW snapshot, NEW id, NEW history, NEW page, page = DistrictPage(snapshot, id, history)
    PROVE  /\ page.backlogDelta = Delta(snapshot, history, "backlog", 1)
           /\ page.rankDelta = Delta(snapshot, history, "rank", -1)
           /\ page.disposalNote \in {NotAvailable, Delta(snapshot, history, "disposalRate", 1)}
<1>1. PICK tiles : tiles = DistrictTiles(snapshot, id, history)
  OBVIOUS
<1>2. PICK row, changes :
        /\ tiles = With(row, changes)
        /\ {"backlogDelta", "rankDelta", "disposalNote"} \subseteq DOMAIN changes
        /\ changes["backlogDelta"] = Delta(snapshot, history, "backlog", 1)
        /\ changes["rankDelta"] = Delta(snapshot, history, "rank", -1)
        /\ changes["disposalNote"] \in {NotAvailable, Delta(snapshot, history, "disposalRate", 1)}
  BY <1>1 DEF DistrictTiles
<1>3. PICK card : page = With(tiles, card) /\ DOMAIN card = {"catchUpNote", "bars", "history"}
  <2>1. PICK note, bars, points : page = With(tiles, [catchUpNote |-> note, bars |-> bars, history |-> points])
    BY <1>1 DEF DistrictPage
  <2>2. PICK card : card = [catchUpNote |-> note, bars |-> bars, history |-> points]
    OBVIOUS
  <2> QED
    BY <2>1, <2>2
<1>4. \A field \in {"backlogDelta", "rankDelta", "disposalNote"} :
        field \in DOMAIN tiles /\ tiles[field] = changes[field]
  BY <1>2 DEF With
<1>5. \A field \in {"backlogDelta", "rankDelta", "disposalNote"} : page[field] = tiles[field]
  BY <1>3, <1>4, WithFields
<1> QED
  BY <1>2, <1>4, <1>5

\* The movers are the districts of both snapshots, each once.
IsMover(mover, d, prev) ==
    /\ mover.id = d.id /\ mover.backlogDelta = d.backlog - prev.backlog
    /\ mover.disposalDelta = d.disposalRate - prev.disposalRate /\ mover.rankDelta = prev.rank - d.rank

ListsMovers(movers, current, previous, m, order) ==
    /\ movers = [i \in 1 .. m |-> movers[i]]
    /\ \A i \in 1 .. m : /\ order[i] \in DOMAIN current.districts
                         /\ DistrictIn(previous, current.districts[order[i]].id) # <<>>
                         /\ IsMover(movers[i], current.districts[order[i]],
                                    DistrictIn(previous, current.districts[order[i]].id)[1])
    /\ \A i, j \in 1 .. m : i < j => order[i] < order[j]

LEMMA MoversAreListed ==
    ASSUME NEW current, NEW previous, NEW n \in Nat, DOMAIN current.districts = 1 .. n,
           NEW movers, movers = Movers(current, previous)
    PROVE  \E m \in Nat : \E order : ListsMovers(movers, current, previous, m, order)
<1>1. PICK all : all = current.districts /\ DOMAIN all = 1 .. n
  OBVIOUS
<1>2. PICK places : places = {i \in 1 .. n : DistrictIn(previous, all[i].id) # <<>>}
  OBVIOUS
<1>3. PICK both : both = Filtered(all, places)
  OBVIOUS
<1>4. Where(current.districts, LAMBDA d : DistrictIn(previous, d.id) # <<>>) = both
  BY <1>1, <1>2, <1>3 DEF Where
<1>5. PICK m \in Nat : \E order : Keeps(both, all, places, m, order)
  <2>1. places \in SUBSET (1 .. n)
    BY <1>2
  <2> QED
    BY <1>3, <2>1, Filters
<1>6. PICK order : Keeps(both, all, places, m, order)
  BY <1>5
<1>7. /\ order \in [1 .. m -> places] /\ both = [k \in 1 .. m |-> all[order[k]]]
      /\ \A j, k \in 1 .. m : j < k => order[j] < order[k]
  BY <1>6 DEF Keeps
<1>8. DOMAIN both = 1 .. m
  BY <1>7
<1>9. /\ movers = [i \in 1 .. m |-> movers[i]]
      /\ \A i \in 1 .. m : IsMover(movers[i], both[i], DistrictIn(previous, both[i].id)[1])
  BY <1>4, <1>8 DEF Movers, IsMover
<1>10. ASSUME NEW i \in 1 .. m
       PROVE  /\ order[i] \in 1 .. n /\ DistrictIn(previous, all[order[i]].id) # <<>>
              /\ IsMover(movers[i], all[order[i]], DistrictIn(previous, all[order[i]].id)[1])
  BY <1>2, <1>7, <1>9
<1>11. ListsMovers(movers, current, previous, m, order)
  BY <1>1, <1>7, <1>9, <1>10 DEF ListsMovers
<1> QED
  BY <1>11

LEMMA Lesser ==
    ASSUME NEW m \in Nat, NEW k \in Nat
    PROVE  Min({m, k}) = IF m < k THEN m ELSE k
<1>1. {m, k} \in SUBSET Nat /\ {m, k} # {}
  OBVIOUS
<1>2. IsFiniteSet({k}) /\ IsFiniteSet({k} \cup {m}) /\ {k} \cup {m} = {m, k}
  BY FS_Singleton, FS_AddElement
<1>3. PICK least : least = Min({m, k})
  OBVIOUS
<1>4. least \in {m, k} /\ \A x \in {m, k} : least <= x
  BY <1>1, <1>2, <1>3, Extremes
<1>5. (least = m \/ least = k) /\ least <= m /\ least <= k
  BY <1>4
<1>6. least = IF m < k THEN m ELSE k
  BY <1>5
<1> QED
  BY <1>3, <1>6

LEMMA UpToWhole ==
    ASSUME NEW m \in Nat, NEW k \in Nat, k <= m, NEW rows, rows = [i \in 1 .. k |-> rows[i]]
    PROVE  UpTo(rows, m) = rows
<1>1. SubSeq(rows, 1, k) = rows /\ Len(rows) = k
  BY WholeList
<1>2. Min({m, k}) = k
  <2>1. Min({m, k}) = IF m < k THEN m ELSE k
    BY Lesser
  <2> QED
    BY <2>1
<1> QED
  BY <1>1, <1>2 DEF UpTo

LEMMA TableShowsIds ==
    ASSUME NEW k \in Nat, NEW rows, DOMAIN rows = 1 .. k
    PROVE  ToSet(Ids(MoversTable(rows))) = {rows[i].id : i \in 1 .. k}
<1>1. PICK table : table = MoversTable(rows)
  OBVIOUS
<1>2. DOMAIN table = 1 .. k
  BY <1>1 DEF MoversTable
<1>3. ASSUME NEW i \in 1 .. k PROVE table[i].id = rows[i].id
  <2>1. PICK cells : cells = DistrictCells(rows[i])
    OBVIOUS
  <2>2. cells["id"] = rows[i].id /\ "id" \in DOMAIN cells
    BY <2>1 DEF DistrictCells
  <2>3. PICK own : own = [change |-> AbsOf(rows[i].backlogDelta)] /\ DOMAIN own = {"change"}
    <3>1. PICK change : change = AbsOf(rows[i].backlogDelta)
      OBVIOUS
    <3>2. PICK own : own = [change |-> change]
      OBVIOUS
    <3> QED
      BY <3>1, <3>2
  <2>4. table[i] = With(cells, own)
    BY <1>1, <2>1, <2>3 DEF MoversTable
  <2>5. table[i]["id"] = cells["id"]
    BY <2>2, <2>3, <2>4, WithFields
  <2> QED
    BY <2>2, <2>5
<1>4. ToSet(Ids(table)) = {table[i].id : i \in 1 .. k}
  <2>1. PICK ids : ids = Ids(table)
    OBVIOUS
  <2>2. DOMAIN ids = 1 .. k /\ \A i \in 1 .. k : ids[i] = table[i].id
    BY <1>2, <2>1 DEF Ids
  <2> QED
    BY <2>1, <2>2 DEF ToSet
<1> QED
  BY <1>1, <1>3, <1>4

\* A table of movers in an order shows them all.
LEMMA ArrangedTable ==
    ASSUME NEW m \in Nat, NEW k \in Nat, k <= m, NEW rows, DOMAIN rows = 1 .. k,
           NEW sorted, NEW precedes, NEW order, Arranges(sorted, rows, precedes, k, order)
    PROVE  ToSet(Ids(MoversTable(UpTo(sorted, m)))) = {rows[i].id : i \in 1 .. k}
<1>1. /\ order \in [1 .. k -> 1 .. k] /\ sorted = [i \in 1 .. k |-> rows[order[i]]]
      /\ \A i \in 1 .. k : \E j \in 1 .. k : order[j] = i
  BY DEF Arranges
<1>2. sorted = [i \in 1 .. k |-> sorted[i]] /\ DOMAIN sorted = 1 .. k
  BY <1>1
<1>3. UpTo(sorted, m) = sorted
  BY <1>2, UpToWhole
<1>4. ToSet(Ids(MoversTable(sorted))) = {sorted[i].id : i \in 1 .. k}
  BY <1>2, TableShowsIds
<1>5. {sorted[i].id : i \in 1 .. k} = {rows[i].id : i \in 1 .. k}
  BY <1>1
<1> QED
  BY <1>3, <1>4, <1>5

\* The first table has all movers, the second those whose backlog fell.
HasDeltas(movers, m) ==
    movers = [i \in 1 .. m |-> movers[i]] /\ \A i \in 1 .. m : movers[i].backlogDelta \in Int
ShowsMovers(page, movers, m) ==
    /\ ToSet(Ids(page.biggestJumps)) = {movers[i].id : i \in 1 .. m}
    /\ ToSet(Ids(page.fastestImproving)) = {movers[i].id : i \in {j \in 1 .. m : movers[j].backlogDelta < 0}}

LEMMA MoversAreShown ==
    ASSUME NEW m \in Nat, NEW movers, HasDeltas(movers, m)
    PROVE  ShowsMovers(MoversPage(movers, Len(movers)), movers, m)
<1>0. movers = [i \in 1 .. m |-> movers[i]] /\ \A i \in 1 .. m : movers[i].backlogDelta \in Int
  BY DEF HasDeltas
<1> DEFINE page == MoversPage(movers, Len(movers))
<1>1. Len(movers) = m /\ DOMAIN movers = 1 .. m
  BY <1>0, WholeList
<1>2. PICK larger : larger = {p \in (1 .. m) \X (1 .. m) : movers[p[1]].backlogDelta > movers[p[2]].backlogDelta}
  OBVIOUS
<1>3. PICK jumps : jumps = Arranged(movers, larger)
  OBVIOUS
<1>4. PICK falls : falls = {i \in 1 .. m : movers[i].backlogDelta < 0}
  OBVIOUS
<1>5. PICK falling : falling = Filtered(movers, falls)
  OBVIOUS
<1>6. PICK k \in Nat : \E order : Keeps(falling, movers, falls, k, order)
  <2>1. falls \in SUBSET (1 .. m)
    BY <1>4
  <2> QED
    BY <1>5, <2>1, Filters
<1>7. PICK order : Keeps(falling, movers, falls, k, order)
  BY <1>6
<1>8. /\ order \in [1 .. k -> falls] /\ falling = [i \in 1 .. k |-> movers[order[i]]] /\ k = Cardinality(falls)
      /\ \A i \in falls : \E j \in 1 .. k : order[j] = i
  BY <1>7 DEF Keeps
<1>9. DOMAIN falling = 1 .. k /\ \A i \in 1 .. k : falling[i].backlogDelta \in Int
  BY <1>0, <1>4, <1>8
<1>10. k <= m
  <2>1. 1 \in Int /\ m \in Int /\ falls \in SUBSET (1 .. m)
    BY <1>4
  <2>2. IsFiniteSet(1 .. m) /\ Cardinality(1 .. m) = IF 1 > m THEN 0 ELSE m - 1 + 1
    BY <2>1, FS_Interval
  <2>3. Cardinality(falls) <= Cardinality(1 .. m)
    BY <2>1, <2>2, FS_Subset
  <2>4. (IF 1 > m THEN 0 ELSE m - 1 + 1) = m
    OBVIOUS
  <2> QED
    BY <1>8, <2>2, <2>3, <2>4
<1>11. PICK smaller :
         smaller = {p \in (1 .. k) \X (1 .. k) : falling[p[1]].backlogDelta < falling[p[2]].backlogDelta}
  OBVIOUS
<1>12. PICK improving : improving = Arranged(falling, smaller)
  OBVIOUS
<1>13. page.biggestJumps = MoversTable(UpTo(jumps, m)) /\ page.fastestImproving = MoversTable(UpTo(improving, m))
  <2>1. StableSort(movers, LAMBDA p, q : p.backlogDelta > q.backlogDelta) = jumps
    BY <1>1, <1>2, <1>3 DEF StableSort
  <2>2. Where(movers, LAMBDA p : p.backlogDelta < 0) = falling
    BY <1>1, <1>4, <1>5 DEF Where
  <2>3. StableSort(falling, LAMBDA p, q : p.backlogDelta < q.backlogDelta) = improving
    BY <1>9, <1>11, <1>12 DEF StableSort
  <2> QED
    BY <1>1, <2>1, <2>2, <2>3 DEF MoversPage
<1>14. ToSet(Ids(MoversTable(UpTo(jumps, m)))) = {movers[i].id : i \in 1 .. m}
  <2>1. \A i, j \in 1 .. m : <<i, j>> \in larger <=> movers[i].backlogDelta > movers[j].backlogDelta
    BY <1>2
  <2>2. WeaklyOrders(larger, 1 .. m)
    <3>1. \A i \in 1 .. m : <<i, i>> \notin larger
      BY <1>0, <2>1
    <3>2. \A h, i, j \in 1 .. m : <<h, i>> \in larger /\ <<i, j>> \in larger => <<h, j>> \in larger
      BY <1>0, <2>1
    <3>3. \A h, i, j \in 1 .. m : <<h, j>> \in larger => <<h, i>> \in larger \/ <<i, j>> \in larger
      BY <1>0, <2>1
    <3> QED
      BY <3>1, <3>2, <3>3 DEF WeaklyOrders
  <2>3. PICK sorts : Arranges(jumps, movers, larger, m, sorts)
    BY <1>1, <1>3, <2>2, Arrangement
  <2> QED
    BY <1>1, <2>3, ArrangedTable
<1>15. ToSet(Ids(MoversTable(UpTo(improving, m)))) = {falling[i].id : i \in 1 .. k}
  <2>1. \A i, j \in 1 .. k : <<i, j>> \in smaller <=> falling[i].backlogDelta < falling[j].backlogDelta
    BY <1>11
  <2>2. WeaklyOrders(smaller, 1 .. k)
    <3>1. \A i \in 1 .. k : <<i, i>> \notin smaller
      BY <1>9, <2>1
    <3>2. \A h, i, j \in 1 .. k : <<h, i>> \in smaller /\ <<i, j>> \in smaller => <<h, j>> \in smaller
      BY <1>9, <2>1
    <3>3. \A h, i, j \in 1 .. k : <<h, j>> \in smaller => <<h, i>> \in smaller \/ <<i, j>> \in smaller
      BY <1>9, <2>1
    <3> QED
      BY <3>1, <3>2, <3>3 DEF WeaklyOrders
  <2>3. PICK sorts : Arranges(improving, falling, smaller, k, sorts)
    BY <1>9, <1>12, <2>2, Arrangement
  <2> QED
    BY <1>9, <1>10, <2>3, ArrangedTable
<1>16. {falling[i].id : i \in 1 .. k} = {movers[i].id : i \in falls}
  BY <1>8
<1> HIDE DEF page
<1>17. ShowsMovers(page, movers, m)
  BY <1>4, <1>13, <1>14, <1>15, <1>16 DEF ShowsMovers
<1> QED
  BY <1>17 DEF page

\* With the movers and the pages in hand, the invariant.
LEMMA ReportsInvImpliesMovers == ReportsInv => MoversAgreeWithDistrictPages
<1> SUFFICES ASSUME ReportsInv, NEW g \in Live, NEW movers \in ListMovers(g),
                    Active(g) = History(g)[Len(History(g))]
             PROVE  /\ \A i \in DOMAIN movers :
                         LET page == DistrictPage(Active(g), movers[i].id, DistrictHistory(History(g), movers[i].id))
                         IN  /\ page.backlogDelta = Shown(movers[i].backlogDelta)
                             /\ page.rankDelta = Shown(movers[i].rankDelta)
                             /\ page.disposalNote \in {NotAvailable, Shown(movers[i].disposalDelta)}
                    /\ LET page == MoversPage(movers, Len(movers))
                           gained == ToSet(Ids(page.biggestJumps)) \ ToSet(Ids(page.fastestImproving))
                       IN  \A i \in DOMAIN movers : movers[i].id \in gained <=> movers[i].backlogDelta >= 0
  BY DEF MoversAgreeWithDistrictPages
<1>1. TablesInv /\ BuiltInv /\ events \in Seq(1 .. Len(snapshots)) /\ Len(snapshots) \in Nat
  BY LenProperties DEF ReportsInv, TablesInv
<1>2. PICK n \in Nat : \E ids : /\ ListsInOrder(ids, Published(g, events), n)
                                /\ LoadHistoricalSnapshots(g, events) = [i \in 1 .. n |-> snapshots[ids[i]]]
  BY <1>1, HistoryListsThePublished
<1>3. PICK ids : /\ ListsInOrder(ids, Published(g, events), n)
                 /\ LoadHistoricalSnapshots(g, events) = [i \in 1 .. n |-> snapshots[ids[i]]]
  BY <1>2
<1>4. PICK history : /\ history = History(g) /\ history = LoadHistoricalSnapshots(g, events)
                     /\ history = [i \in 1 .. n |-> history[i]] /\ \A i \in 1 .. n : history[i] = snapshots[ids[i]]
  BY <1>3 DEF History
<1>5. Len(history) = n
  BY <1>4, WholeList
<1>6. n >= 2 /\ movers = Movers(history[n], history[n - 1])
  BY <1>4, <1>5 DEF ListMovers, None
<1>7. PICK current, previous : /\ current = snapshots[ids[n]] /\ previous = snapshots[ids[n - 1]]
                               /\ movers = Movers(current, previous) /\ Active(g) = current
  <2>1. n \in 1 .. n /\ n - 1 \in 1 .. n
    BY <1>6
  <2> QED
    BY <1>4, <1>5, <1>6, <2>1
<1>8. ids[n] \in 1 .. Len(snapshots) /\ ids[n - 1] \in 1 .. Len(snapshots)
  <2>1. n \in 1 .. n /\ n - 1 \in 1 .. n
    BY <1>6
  <2>2. ids[n] \in Published(g, events) /\ ids[n - 1] \in Published(g, events)
    BY <1>3, <2>1 DEF ListsInOrder
  <2> QED
    BY <1>1, <2>2, PublishedAreSnapshots
<1>9. PICK c \in Nat : HasDistricts(ids[n], c)
  BY <1>1, <1>8, SnapshotDistricts
<1>10. PICK p \in Nat : HasDistricts(ids[n - 1], p)
  BY <1>1, <1>8, SnapshotDistricts
<1>11. /\ DOMAIN current.districts = 1 .. c /\ Distinct(current.districts, c)
       /\ \A k \in 1 .. c :
            /\ {"id", "backlog", "disposalRate", "rank"} \subseteq DOMAIN current.districts[k]
            /\ current.districts[k].backlog \in Int /\ current.districts[k].disposalRate \in Int
            /\ current.districts[k].rank \in Int
  BY <1>7, <1>9 DEF HasDistricts, Distinct
<1>12. /\ Distinct(previous.districts, p)
       /\ \A k \in 1 .. p :
            /\ {"id", "backlog", "disposalRate", "rank"} \subseteq DOMAIN previous.districts[k]
            /\ previous.districts[k].backlog \in Int /\ previous.districts[k].disposalRate \in Int
            /\ previous.districts[k].rank \in Int
  BY <1>7, <1>10 DEF HasDistricts
<1>13. PICK m \in Nat : \E order : ListsMovers(movers, current, previous, m, order)
  BY <1>7, <1>11, MoversAreListed
<1>14. PICK order : ListsMovers(movers, current, previous, m, order)
  BY <1>13
<1>15. /\ movers = [i \in 1 .. m |-> movers[i]] /\ DOMAIN movers = 1 .. m
       /\ \A i \in 1 .. m : /\ order[i] \in 1 .. c
                            /\ DistrictIn(previous, current.districts[order[i]].id) # <<>>
                            /\ IsMover(movers[i], current.districts[order[i]],
                                       DistrictIn(previous, current.districts[order[i]].id)[1])
       /\ \A i, j \in 1 .. m : i < j => order[i] < order[j]
  BY <1>11, <1>14 DEF ListsMovers
<1>21. Distinct(current.districts, c) /\ Distinct(previous.districts, p)
  BY <1>11, <1>12
<1>22. \A id : Finds(current, c, id) /\ Finds(previous, p, id)
  BY <1>21, FoundDistrict
<1>16. ASSUME NEW i \in 1 .. m
       PROVE  \E d, prev :
                /\ IsMover(movers[i], d, prev) /\ d = current.districts[order[i]]
                /\ d = DistrictIn(current, movers[i].id)[1] /\ prev = DistrictIn(previous, movers[i].id)[1]
                /\ Has(ids[n], movers[i].id) /\ Has(ids[n - 1], movers[i].id)
                /\ {"backlog", "disposalRate", "rank"} \subseteq DOMAIN d
                /\ {"backlog", "disposalRate", "rank"} \subseteq DOMAIN prev
                /\ {d.backlog, d.disposalRate, d.rank, prev.backlog, prev.disposalRate, prev.rank} \subseteq Int
  <2>1. PICK d : d = current.districts[order[i]]
    OBVIOUS
  <2>2. PICK prev : prev = DistrictIn(previous, d.id)[1]
    OBVIOUS
  <2>3. IsMover(movers[i], d, prev) /\ movers[i].id = d.id /\ DistrictIn(previous, d.id) # <<>>
    BY <1>15, <2>1, <2>2 DEF IsMover
  <2>4. d = DistrictIn(current, d.id)[1] /\ DistrictIn(current, d.id) # <<>>
    BY <1>15, <1>22, <2>1 DEF Finds
  <2>5. PICK k \in 1 .. p : previous.districts[k].id = d.id
    BY <1>22, <2>3 DEF Finds
  <2>6. prev = previous.districts[k]
    BY <1>22, <2>2, <2>5 DEF Finds
  <2>7. Has(ids[n], d.id) /\ Has(ids[n - 1], d.id)
    BY <1>7, <2>3, <2>4 DEF Has
  <2>8. {"backlog", "disposalRate", "rank"} \subseteq DOMAIN d /\ {d.backlog, d.disposalRate, d.rank} \subseteq Int
    BY <1>11, <1>15, <2>1
  <2>9. {"backlog", "disposalRate", "rank"} \subseteq DOMAIN prev
        /\ {prev.backlog, prev.disposalRate, prev.rank} \subseteq Int
    BY <1>12, <2>6
  <2>10. d.id = movers[i].id
    BY <2>3
  <2>11. /\ IsMover(movers[i], d, prev) /\ d = current.districts[order[i]]
         /\ d = DistrictIn(current, movers[i].id)[1] /\ prev = DistrictIn(previous, movers[i].id)[1]
         /\ Has(ids[n], movers[i].id) /\ Has(ids[n - 1], movers[i].id)
    BY <2>1, <2>2, <2>3, <2>4, <2>7, <2>10
  <2> QED
    BY <2>8, <2>9, <2>11, ZenonT(40)
<1>17. ASSUME NEW i \in 1 .. m,
              NEW page, page = DistrictPage(Active(g), movers[i].id, DistrictHistory(History(g), movers[i].id))
       PROVE  /\ page.backlogDelta = Shown(movers[i].backlogDelta)
              /\ page.rankDelta = Shown(movers[i].rankDelta)
              /\ page.disposalNote \in {NotAvailable, Shown(movers[i].disposalDelta)}
  <2>1. PICK id, points : id = movers[i].id /\ points = DistrictHistory(LoadHistoricalSnapshots(g, events), id)
    OBVIOUS
  <2>2. PICK d, prev :
                /\ IsMover(movers[i], d, prev)
                /\ d = DistrictIn(current, id)[1] /\ prev = DistrictIn(previous, id)[1]
                /\ Has(ids[n], id) /\ Has(ids[n - 1], id)
                /\ {"backlog", "disposalRate", "rank"} \subseteq DOMAIN d
                /\ {"backlog", "disposalRate", "rank"} \subseteq DOMAIN prev
                /\ {d.backlog, d.disposalRate, d.rank, prev.backlog, prev.disposalRate, prev.rank} \subseteq Int
    BY <1>16, <2>1
  <2>3. ComparesNewest(points, current, d, prev)
    <3>1. d = DistrictIn(snapshots[ids[n]], id)[1] /\ prev = DistrictIn(snapshots[ids[n - 1]], id)[1]
      BY <1>7, <2>2
    <3>2. ComparesNewest(points, snapshots[ids[n]], d, prev)
      BY <1>1, <1>3, <1>6, <2>1, <2>2, <3>1, PageComparesNewest, ZenonT(40)
    <3> QED
      BY <1>7, <3>2
  <2>4. page = DistrictPage(current, id, points)
    BY <1>4, <1>7, <1>17, <2>1
  <2>5. /\ page.backlogDelta = Delta(current, points, "backlog", 1)
        /\ page.rankDelta = Delta(current, points, "rank", -1)
        /\ page.disposalNote \in {NotAvailable, Delta(current, points, "disposalRate", 1)}
    BY <2>4, PageDeltas
  <2>6. /\ Delta(current, points, "backlog", 1) = Shown(1 * (d["backlog"] - prev["backlog"]))
        /\ Delta(current, points, "rank", -1) = Shown((-1) * (d["rank"] - prev["rank"]))
        /\ Delta(current, points, "disposalRate", 1) = Shown(1 * (d["disposalRate"] - prev["disposalRate"]))
    <3>1. 1 \in Int /\ -1 \in Int
      OBVIOUS
    <3> QED
      BY <2>3, <3>1 DEF ComparesNewest
  <2>7. /\ 1 * (d["backlog"] - prev["backlog"]) = movers[i].backlogDelta
        /\ (-1) * (d["rank"] - prev["rank"]) = movers[i].rankDelta
        /\ 1 * (d["disposalRate"] - prev["disposalRate"]) = movers[i].disposalDelta
    BY <2>2 DEF IsMover
  <2> QED
    BY <2>5, <2>6, <2>7
<1>18. \A i \in 1 .. m : movers[i].backlogDelta \in Int
  <2> SUFFICES ASSUME NEW i \in 1 .. m PROVE movers[i].backlogDelta \in Int
    OBVIOUS
  <2>1. PICK d, prev : IsMover(movers[i], d, prev) /\ d.backlog \in Int /\ prev.backlog \in Int
    BY <1>16
  <2> QED
    BY <2>1 DEF IsMover
<1>19. \A i, j \in 1 .. m : movers[i].id = movers[j].id => i = j
  <2> SUFFICES ASSUME NEW i \in 1 .. m, NEW j \in 1 .. m, movers[i].id = movers[j].id PROVE i = j
    OBVIOUS
  <2>1. current.districts[order[i]].id = current.districts[order[j]].id
    BY <1>15 DEF IsMover
  <2>2. order[i] = order[j] /\ order[i] \in Nat
    BY <1>15, <1>21, <2>1, SMTT(20) DEF Distinct
  <2>3. ~(i < j) /\ ~(j < i)
    BY <1>15, <2>2
  <2> QED
    BY <2>3
<1>20. ASSUME NEW page, page = MoversPage(movers, Len(movers)), NEW i \in 1 .. m
       PROVE  movers[i].id \in ToSet(Ids(page.biggestJumps)) \ ToSet(Ids(page.fastestImproving))
              <=> movers[i].backlogDelta >= 0
  <2>1. /\ ToSet(Ids(page.biggestJumps)) = {movers[j].id : j \in 1 .. m}
        /\ ToSet(Ids(page.fastestImproving)) = {movers[j].id : j \in {h \in 1 .. m : movers[h].backlogDelta < 0}}
    <3>1. HasDeltas(movers, m)
      BY <1>15, <1>18 DEF HasDeltas
    <3>2. ShowsMovers(page, movers, m)
      BY <1>20, <3>1, MoversAreShown
    <3> QED
      BY <3>2 DEF ShowsMovers
  <2>2. movers[i].id \in {movers[j].id : j \in {h \in 1 .. m : movers[h].backlogDelta < 0}}
        <=> movers[i].backlogDelta < 0
    BY <1>19
  <2> QED
    BY <1>18, <2>1, <2>2
<1> QED
  BY <1>15, <1>17, <1>20

-----------------------------------------------------------------------------
(* The repeat signal *)

LEMMA RowShowsId == ASSUME NEW d PROVE TableRow(d).id = d.id
<1>1. PICK cells : cells = DistrictCells(d)
  OBVIOUS
<1>2. "id" \in DOMAIN cells /\ cells["id"] = d.id
  BY <1>1 DEF DistrictCells
<1>3. PICK own : TableRow(d) = With(cells, own) /\ "id" \notin DOMAIN own
  <2>1. PICK share, repeat, gap, reason, summary :
          TableRow(d) = With(cells, [fivePlusShare |-> share, repeat |-> repeat, gap |-> gap,
                                     flagReason |-> reason, summary |-> summary])
    BY <1>1 DEF TableRow
  <2>2. PICK own : own = [fivePlusShare |-> share, repeat |-> repeat, gap |-> gap,
                          flagReason |-> reason, summary |-> summary]
    OBVIOUS
  <2> QED
    BY <2>1, <2>2
<1>4. TableRow(d)["id"] = cells["id"]
  BY <1>2, <1>3, WithFields
<1> QED
  BY <1>2, <1>4

LEMMA FlaggedCount ==
    ASSUME NEW s, NEW n \in Nat, IsRanked(s, n)
    PROVE  snapshots[s].flagged = IF n < DistrictFlagLimit THEN n ELSE DistrictFlagLimit
<1>1. DistrictFlagLimit \in Nat
  BY ReportAssumption
<1>2. Min({DistrictFlagLimit, n}) = IF DistrictFlagLimit < n THEN DistrictFlagLimit ELSE n
  BY <1>1, Lesser
<1> QED
  BY <1>1, <1>2 DEF IsRanked

\* The workspace lists the districts up to the count of flagged ones among those to watch.
LEMMA ListedAreFlagged ==
    ASSUME NEW s, NEW n \in Nat, HasDistricts(s, n), NEW h \in 1 .. n
    PROVE  ListedToWatch(snapshots[s], snapshots[s].districts[h].id) <=> h <= snapshots[s].flagged
<1>1. PICK snapshot : snapshot = snapshots[s]
  OBVIOUS
<1>2. PICK all : all = snapshot.districts
  OBVIOUS
<1>3. /\ DOMAIN all = 1 .. n /\ \A j, k \in 1 .. n : all[j].id = all[k].id => j = k
      /\ \A k \in 1 .. n : all[k].rank = k /\ all[k].id \in DistrictIds
  BY <1>1, <1>2 DEF HasDistricts, Distinct, IsRanked
<1>4. PICK flagged \in Nat : flagged = snapshot.flagged
  <2>1. snapshot.flagged = IF n < DistrictFlagLimit THEN n ELSE DistrictFlagLimit
    BY <1>1, FlaggedCount DEF HasDistricts
  <2> QED
    BY <2>1, ReportAssumption
<1>5. PICK places : places = {k \in 1 .. n : k <= flagged}
  OBVIOUS
<1>6. PICK kept : kept = Filtered(all, places)
  OBVIOUS
<1>7. PICK m \in Nat : \E order : Keeps(kept, all, places, m, order)
  <2>1. places \in SUBSET (1 .. n)
    BY <1>5
  <2> QED
    BY <1>6, <2>1, Filters
<1>8. PICK order : Keeps(kept, all, places, m, order)
  BY <1>7
<1>9. /\ order \in [1 .. m -> places] /\ kept = [k \in 1 .. m |-> all[order[k]]]
      /\ \A i \in places : \E k \in 1 .. m : order[k] = i
  BY <1>8 DEF Keeps
<1>10. DOMAIN kept = 1 .. m /\ \A i \in 1 .. m : kept[i].rank \in Int
  BY <1>3, <1>5, <1>9
<1>11. PICK lower : lower = {p \in (1 .. m) \X (1 .. m) : kept[p[1]].rank < kept[p[2]].rank}
  OBVIOUS
<1>12. PICK sorted : sorted = Arranged(kept, lower)
  OBVIOUS
<1>13. PICK sorts : Arranges(sorted, kept, lower, m, sorts)
  <2>1. \A i, j \in 1 .. m : <<i, j>> \in lower <=> kept[i].rank < kept[j].rank
    BY <1>11
  <2>2. WeaklyOrders(lower, 1 .. m)
    <3>1. \A i \in 1 .. m : <<i, i>> \notin lower
      BY <1>10, <2>1
    <3>2. \A g, i, j \in 1 .. m : <<g, i>> \in lower /\ <<i, j>> \in lower => <<g, j>> \in lower
      BY <1>10, <2>1
    <3>3. \A g, i, j \in 1 .. m : <<g, j>> \in lower => <<g, i>> \in lower \/ <<i, j>> \in lower
      BY <1>10, <2>1
    <3> QED
      BY <3>1, <3>2, <3>3 DEF WeaklyOrders
  <2> QED
    BY <1>10, <1>12, <2>2, Arrangement
<1>14. /\ sorts \in [1 .. m -> 1 .. m] /\ sorted = [k \in 1 .. m |-> kept[sorts[k]]]
       /\ \A i \in 1 .. m : \E k \in 1 .. m : sorts[k] = i
  BY <1>13 DEF Arranges
<1>15. PICK options : /\ options = FlaggedDistricts /\ options.view = "flagged" /\ options.sort = "rank"
                      /\ options.matches = DistrictIds
  <2>1. PICK ids : ids = DistrictIds
    OBVIOUS
  <2>2. PICK options : options = [view |-> "flagged", sort |-> "rank", matches |-> ids]
    OBVIOUS
  <2>3. options = FlaggedDistricts
    BY <2>1, <2>2 DEF FlaggedDistricts
  <2> QED
    BY <2>1, <2>2, <2>3
<1>16. FilterAndSortDistricts(all, options, flagged) = sorted
  <2>1. {i \in DOMAIN all : /\ options.view = "all" \/ all[i].rank <= flagged
                            /\ all[i].id \in options.matches} = places
    BY <1>3, <1>5, <1>15
  <2>2. Where(all, LAMBDA d : /\ options.view = "all" \/ d.rank <= flagged
                              /\ d.id \in options.matches) = kept
    BY <1>6, <2>1 DEF Where
  <2>3. \A d, e : CompareDistricts(d, e, options.sort) <=> d.rank < e.rank
    BY <1>15 DEF CompareDistricts
  <2>4. StableSort(kept, LAMBDA d, e : CompareDistricts(d, e, options.sort)) = sorted
    BY <1>10, <1>11, <1>12, <2>3 DEF StableSort
  <2> QED
    BY <2>2, <2>4 DEF FilterAndSortDistricts
<1>17. PICK rows : /\ rows = DistrictsPage(snapshot, FlaggedDistricts).rows
                   /\ rows = [i \in DOMAIN sorted |-> TableRow(sorted[i])]
  BY <1>2, <1>4, <1>15, <1>16 DEF DistrictsPage
<1>18. DOMAIN rows = 1 .. m /\ \A i \in 1 .. m : rows[i].id = sorted[i].id
  BY <1>14, <1>17, RowShowsId, ZenonT(40)
<1>19. ToSet(Ids(rows)) = {sorted[i].id : i \in 1 .. m}
  <2>1. PICK ids : ids = Ids(rows)
    OBVIOUS
  <2>2. DOMAIN ids = 1 .. m /\ \A i \in 1 .. m : ids[i] = sorted[i].id
    BY <1>18, <2>1 DEF Ids
  <2> QED
    BY <2>1, <2>2 DEF ToSet
<1>20. {sorted[i].id : i \in 1 .. m} = {all[k].id : k \in places}
  <2>1. {sorted[i].id : i \in 1 .. m} = {kept[i].id : i \in 1 .. m}
    BY <1>14
  <2>2. {kept[i].id : i \in 1 .. m} = {all[k].id : k \in places}
    BY <1>9
  <2> QED
    BY <2>1, <2>2
<1>21. all[h].id \in {all[k].id : k \in places} <=> h \in places
  BY <1>3, <1>5
<1>22. ListedToWatch(snapshot, all[h].id) <=> all[h].id \in {all[k].id : k \in places}
  BY <1>17, <1>19, <1>20 DEF ListedToWatch
<1> QED
  BY <1>1, <1>2, <1>4, <1>5, <1>21, <1>22

\* So does the watch list that later captures look at, for a snapshot that has districts.
LEMMA WatchedAreListed ==
    ASSUME NEW s, NEW n \in Nat, HasDistricts(s, n), NEW h \in 1 .. n
    PROVE  IsOnWatchlist(snapshots[s].districts[h], snapshots[s])
           <=> ListedToWatch(snapshots[s], snapshots[s].districts[h].id)
<1>1. snapshots[s].flagged = IF n < DistrictFlagLimit THEN n ELSE DistrictFlagLimit
  BY FlaggedCount DEF HasDistricts
<1>2. snapshots[s].flagged >= 1
  BY <1>1, ReportAssumption
<1>3. snapshots[s].flagged \in Nat
  BY <1>1, ReportAssumption
<1>4. snapshots[s].districts[h].rank = h
  BY DEF HasDistricts, IsRanked
<1>5. IsOnWatchlist(snapshots[s].districts[h], snapshots[s]) <=> h <= snapshots[s].flagged
  BY <1>2, <1>3, <1>4 DEF IsOnWatchlist
<1> QED
  BY <1>5, ListedAreFlagged

\* Flags of the entries of a list without repetition, and its last entries.
Marks(flags, list, m, watched) ==
    /\ flags \in Seq(BOOLEAN) /\ Len(flags) = m
    /\ \A i \in 1 .. m : flags[i] = TRUE <=> list[i] \in watched
    /\ \A i, j \in 1 .. m : i # j => list[i] # list[j]

LastOf(list, m, n) == {list[i] : i \in {j \in 1 .. m : m - j < n}}

LEMMA CountOfWindow ==
    ASSUME NEW m \in Nat, NEW flags, NEW list, NEW watched, Marks(flags, list, m, watched), NEW n \in Nat \ {0}
    PROVE  /\ Len(Newest(flags, n)) = Cardinality(LastOf(list, m, n))
           /\ Count(Newest(flags, n)) = Cardinality({t \in LastOf(list, m, n) : t \in watched})
<1>1. /\ flags \in Seq(BOOLEAN) /\ Len(flags) = m
      /\ \A i \in 1 .. m : flags[i] = TRUE <=> list[i] \in watched
      /\ \A i, j \in 1 .. m : i # j => list[i] # list[j]
  BY DEF Marks
<1>2. PICK cut \in 0 .. m : Follows(Newest(flags, n), flags, m, n, BOOLEAN, cut)
  BY <1>1, NewestEntries
<1>3. PICK newest : newest = Newest(flags, n)
  OBVIOUS
<1>4. /\ newest \in Seq(BOOLEAN) /\ Len(newest) = m - cut /\ DOMAIN newest = 1 .. m - cut
      /\ \A i \in 1 .. m - cut : newest[i] = flags[cut + i]
  BY <1>2, <1>3, LenProperties DEF Follows
<1>5. LastOf(list, m, n) = {list[i] : i \in cut + 1 .. m}
  <2>1. cut = IF m < n THEN 0 ELSE m - n
    BY <1>2 DEF Follows
  <2>2. {j \in 1 .. m : m - j < n} = cut + 1 .. m
    BY <2>1
  <2> QED
    BY <2>2 DEF LastOf
<1>6. Cardinality({list[i] : i \in cut + 1 .. m}) = m - cut
  <2>1. \A i, j \in cut + 1 .. m : i # j => list[i] # list[j]
    BY <1>1
  <2>2. Cardinality({list[i] : i \in cut + 1 .. m}) = IF cut + 1 > m THEN 0 ELSE m - (cut + 1) + 1
    <3>1. cut + 1 \in Int /\ m \in Int
      OBVIOUS
    <3> QED
      BY <2>1, <3>1, ImageCount
  <2>3. (IF cut + 1 > m THEN 0 ELSE m - (cut + 1) + 1) = m - cut
    OBVIOUS
  <2> QED
    BY <2>2, <2>3
<1>7. PICK places : places = {i \in 1 .. m - cut : newest[i] = TRUE}
  OBVIOUS
<1>8. IsFiniteSet(places) /\ places \in SUBSET (1 .. m - cut)
  <2>1. 1 \in Int /\ m - cut \in Int /\ places \in SUBSET (1 .. m - cut)
    BY <1>7
  <2>2. IsFiniteSet(1 .. m - cut)
    BY <2>1, FS_Interval
  <2> QED
    BY <2>1, <2>2, FS_Subset
<1>9. Count(newest) = Len(Filtered(newest, places))
  <2>1. \A i \in DOMAIN newest : newest[i] \in BOOLEAN
    BY <1>4, ElementOfSeq
  <2>2. {i \in DOMAIN newest : newest[i]} = places
    BY <1>4, <1>7, <2>1
  <2> QED
    BY <2>2 DEF Count, Where
<1>10. Len(Filtered(newest, places)) = Cardinality(places)
  <2>1. PICK c \in Nat : \E order : Keeps(Filtered(newest, places), newest, places, c, order)
    <3>1. m - cut \in Nat
      OBVIOUS
    <3> QED
      BY <1>8, <3>1, Filters
  <2>2. PICK found : found = Filtered(newest, places) /\ \E order : Keeps(found, newest, places, c, order)
    BY <2>1
  <2>3. c = Cardinality(places) /\ found = [k \in 1 .. c |-> found[k]]
    BY <2>2 DEF Keeps
  <2>4. Len(found) = c
    BY <2>1, <2>3, WholeList
  <2> QED
    BY <2>2, <2>3, <2>4
<1>11. PICK among : among = {t \in LastOf(list, m, n) : t \in watched}
  OBVIOUS
<1>12. PICK f : f = [i \in places |-> list[cut + i]]
  OBVIOUS
<1>13. f \in Bijection(places, among)
  <2>1. \A i \in places : i \in 1 .. m - cut /\ cut + i \in cut + 1 .. m /\ cut + i \in 1 .. m
    BY <1>7
  <2>2. \A i \in places : list[cut + i] \in watched
    BY <1>1, <1>4, <1>7, <2>1
  <2>3. f \in [places -> among]
    BY <1>5, <1>11, <1>12, <2>1, <2>2
  <2>4. \A i, j \in places : f[i] = f[j] => i = j
    BY <1>1, <1>12, <2>1
  <2>5. ASSUME NEW t \in among PROVE \E i \in places : f[i] = t
    <3>1. PICK j \in cut + 1 .. m : t = list[j] /\ t \in watched
      BY <1>5, <1>11
    <3>2. PICK i \in 1 .. m - cut : j = cut + i
      <4>1. j - cut \in 1 .. m - cut /\ j = cut + (j - cut)
        OBVIOUS
      <4> QED
        BY <4>1
    <3>3. newest[i] = TRUE
      BY <1>1, <1>4, <3>1, <3>2
    <3> QED
      BY <1>7, <1>12, <3>1, <3>2, <3>3
  <2> QED
    BY <2>3, <2>4, <2>5 DEF Bijection, Injection, IsInjective, Surjection
<1>14. Cardinality(among) = Cardinality(places)
  <2>1. ExistsBijection(places, among)
    BY <1>13 DEF ExistsBijection
  <2> QED
    BY <1>8, <2>1, FS_Bijection
<1> QED
  BY <1>3, <1>4, <1>5, <1>6, <1>9, <1>10, <1>11, <1>14

\* The snapshots of a window are the last ones of the list, and the snapshot itself.
Window(before, s, n) == {t \in before : Cardinality({u \in before : HistoryOrder(t, u)}) < n - 1} \cup {s}

Extends(longer, list, m, s) == longer[m + 1] = s /\ \A i \in 1 .. m : longer[i] = list[i]

LEMMA WindowIsLast ==
    ASSUME NEW before \in SUBSET Nat, \A t \in before : snapshots[t].at \in Nat,
           NEW m \in Nat, NEW list, ListsInOrder(list, before, m),
           NEW s, NEW longer, Extends(longer, list, m, s), NEW n \in Nat \ {0}
    PROVE  Window(before, s, n) = LastOf(longer, m + 1, n)
<1>1. /\ \A i \in 1 .. m : list[i] \in before
      /\ \A t \in before : \E i \in 1 .. m : list[i] = t
      /\ \A i, j \in 1 .. m : i < j => HistoryOrder(list[i], list[j])
  BY DEF ListsInOrder
<1>2. \A t, u \in before : ~(HistoryOrder(t, u) /\ HistoryOrder(u, t)) /\ ~HistoryOrder(t, t)
  <2> SUFFICES ASSUME NEW t \in before, NEW u \in before
               PROVE  ~(HistoryOrder(t, u) /\ HistoryOrder(u, t)) /\ ~HistoryOrder(t, t)
    OBVIOUS
  <2>1. PICK x \in Nat, y \in Nat : x = snapshots[t].at /\ y = snapshots[u].at
    OBVIOUS
  <2>2. t \in Nat /\ u \in Nat
    OBVIOUS
  <2> QED
    BY <2>1, <2>2, SMTT(20) DEF HistoryOrder
<1>3. ASSUME NEW i \in 1 .. m, NEW j \in 1 .. m PROVE HistoryOrder(list[i], list[j]) => i < j
  <2>1. list[i] \in before /\ list[j] \in before
    BY <1>1
  <2>2. CASE i = j
    BY <1>2, <2>1, <2>2
  <2>3. CASE j < i
    <3>1. HistoryOrder(list[j], list[i])
      BY <1>1, <2>3
    <3> QED
      BY <1>2, <2>1, <3>1
  <2> QED
    BY <2>2, <2>3
<1>4. ASSUME NEW i \in 1 .. m, NEW j \in 1 .. m, i # j PROVE list[i] # list[j]
  <2>1. list[i] \in before /\ list[j] \in before
    BY <1>1
  <2>2. HistoryOrder(list[i], list[j]) \/ HistoryOrder(list[j], list[i])
    BY <1>1, <1>4
  <2> QED
    BY <1>2, <2>1, <2>2
<1>5. ASSUME NEW i \in 1 .. m PROVE Cardinality({u \in before : HistoryOrder(list[i], u)}) = m - i
  <2>1. {u \in before : HistoryOrder(list[i], u)} = {list[j] : j \in i + 1 .. m}
    <3>1. ASSUME NEW u \in before, HistoryOrder(list[i], u) PROVE u \in {list[j] : j \in i + 1 .. m}
      <4>1. PICK j \in 1 .. m : list[j] = u
        BY <1>1
      <4>2. i < j
        BY <1>3, <3>1, <4>1
      <4> QED
        BY <4>1, <4>2
    <3>2. ASSUME NEW j \in i + 1 .. m PROVE list[j] \in before /\ HistoryOrder(list[i], list[j])
      <4>1. j \in 1 .. m /\ i < j
        OBVIOUS
      <4> QED
        BY <1>1, <4>1
    <3> QED
      BY <3>1, <3>2
  <2>2. \A j, k \in i + 1 .. m : j # k => list[j] # list[k]
    BY <1>4
  <2>3. i + 1 \in Int /\ m \in Int
    OBVIOUS
  <2>4. Cardinality({list[j] : j \in i + 1 .. m}) = IF i + 1 > m THEN 0 ELSE m - (i + 1) + 1
    BY <2>2, <2>3, ImageCount
  <2>5. (IF i + 1 > m THEN 0 ELSE m - (i + 1) + 1) = m - i
    OBVIOUS
  <2> QED
    BY <2>1, <2>4, <2>5
<1>6. PICK window : window = {t \in before : Cardinality({u \in before : HistoryOrder(t, u)}) < n - 1}
  OBVIOUS
<1>7. window = {longer[i] : i \in {j \in 1 .. m : m + 1 - j < n}}
  <2>1. ASSUME NEW i \in 1 .. m PROVE list[i] \in window <=> m + 1 - i < n
    <3>1. list[i] \in window <=> m - i < n - 1
      BY <1>1, <1>5, <1>6
    <3> QED
      BY <3>1
  <2>2. \A i \in 1 .. m : longer[i] = list[i]
    BY DEF Extends
  <2>3. \A t \in window : \E i \in 1 .. m : longer[i] = t /\ m + 1 - i < n
    BY <1>1, <1>6, <2>1, <2>2
  <2>4. \A i \in 1 .. m : m + 1 - i < n => longer[i] \in window
    BY <2>1, <2>2
  <2> QED
    BY <2>3, <2>4
<1>8. LastOf(longer, m + 1, n) = {longer[i] : i \in {j \in 1 .. m : m + 1 - j < n}} \cup {s}
  <2>1. {j \in 1 .. m + 1 : m + 1 - j < n} = {j \in 1 .. m : m + 1 - j < n} \cup {m + 1}
    OBVIOUS
  <2>2. longer[m + 1] = s
    BY DEF Extends
  <2> QED
    BY <2>1, <2>2 DEF LastOf
<1> QED
  BY <1>6, <1>7, <1>8 DEF Window

\* The flags of a district mark the snapshots that list it, its own the last.
Watched(id) == {t \in 1 .. Len(snapshots) : ListedToWatch(snapshots[t], id)}
Previous(s) == SubSeq(events, 1, snapshots[s].capturedAfter)

LEMMA PreviousAreOlder ==
    ASSUME TablesInv, BuiltInv, NEW s \in 1 .. Len(snapshots)
    PROVE  Previous(s) \in Seq(1 .. Len(snapshots)) /\ \A i \in DOMAIN Previous(s) : Previous(s)[i] < s
<1>1. events \in Seq(1 .. Len(snapshots)) /\ Len(events) \in Nat
  BY LenProperties DEF TablesInv
<1>2. PICK n \in 0 .. Len(events) : n = snapshots[s].capturedAfter
  BY DEF BuiltInv, IsBuilt
<1>3. \A i \in 1 .. n : events[i] < s
  BY <1>2 DEF BuiltInv
<1>4. PICK log : log = SubSeq(events, 1, n)
  OBVIOUS
<1>5. log \in Seq(1 .. Len(snapshots)) /\ Len(log) = n /\ \A i \in 1 .. n : log[i] = events[i]
  BY <1>1, <1>4, PrefixStays
<1>6. DOMAIN log = 1 .. n
  BY <1>5, LenProperties
<1>7. Previous(s) = log
  BY <1>2, <1>4 DEF Previous
<1> QED
  BY <1>3, <1>5, <1>6, <1>7

LEMMA FlagsMarkTheWatched ==
    ASSUME TablesInv, BuiltInv, NEW s \in 1 .. Len(snapshots), NEW n \in Nat, HasDistricts(s, n), NEW k \in 1 .. n,
           NEW id, id = snapshots[s].districts[k].id, NEW g
    PROVE  \E m \in Nat : \E list, longer :
             /\ ListsInOrder(list, Having(g, Previous(s), id), m) /\ Extends(longer, list, m, s)
             /\ Marks(Flags(id, k, LoadHistoricalSnapshots(g, Previous(s))), longer, m + 1, Watched(id))
<1>1. PICK log \in Seq(1 .. Len(snapshots)) : log = Previous(s)
  BY PreviousAreOlder
<1>2. \A i \in DOMAIN log : log[i] \in 1 .. Len(snapshots) /\ log[i] < s
  <2>1. DOMAIN log = 1 .. Len(log) /\ \A i \in 1 .. Len(log) : log[i] \in 1 .. Len(snapshots)
    BY LenProperties, ElementOfSeq
  <2> QED
    BY <1>1, <2>1, PreviousAreOlder
<1>3. PICK m \in Nat : \E list : ListsPresent(list, g, log, id, m)
  BY <1>1, PresentAreListed
<1>4. PICK list : /\ ListsInOrder(list, Having(g, log, id), m)
                  /\ Present(LoadHistoricalSnapshots(g, log), id) = [j \in 1 .. m |-> snapshots[list[j]]]
  BY <1>3 DEF ListsPresent
<1>5. \A j \in 1 .. m : list[j] \in 1 .. Len(snapshots) /\ list[j] < s /\ Has(list[j], id)
  BY <1>2, <1>4 DEF ListsInOrder, Having, Published, OfGeography
<1>6. \A i, j \in 1 .. m : i # j => list[i] # list[j]
  <2>1. \A j \in 1 .. m : snapshots[list[j]].at \in Nat /\ ~HistoryOrder(list[j], list[j])
    BY <1>5 DEF TablesInv, HistoryOrder
  <2> SUFFICES ASSUME NEW i \in 1 .. m, NEW j \in 1 .. m, i < j PROVE list[i] # list[j]
    OBVIOUS
  <2>2. HistoryOrder(list[i], list[j])
    BY <1>4 DEF ListsInOrder
  <2> QED
    BY <2>1, <2>2
<1>7. PICK longer : longer = [i \in 1 .. m + 1 |-> IF i = m + 1 THEN s ELSE list[i]]
  OBVIOUS
<1>8. Extends(longer, list, m, s) /\ \A i \in 1 .. m : longer[i] = list[i]
  <2>1. m + 1 \in 1 .. m + 1 /\ \A i \in 1 .. m : i \in 1 .. m + 1 /\ i # m + 1
    OBVIOUS
  <2> QED
    BY <1>7, <2>1 DEF Extends
<1>9. PICK earlier : earlier = [i \in 1 .. m |-> IsOnWatchlist(DistrictIn(snapshots[list[i]], id)[1], snapshots[list[i]])]
  OBVIOUS
<1>10. ASSUME NEW i \in 1 .. m PROVE earlier[i] = TRUE <=> list[i] \in Watched(id)
  <2>1. PICK t \in 1 .. Len(snapshots) : t = list[i] /\ Has(t, id)
    BY <1>5
  <2>2. PICK p \in Nat : HasDistricts(t, p)
    BY SnapshotDistricts
  <2>3. Finds(snapshots[t], p, id)
    BY <2>2, FoundDistrict DEF HasDistricts
  <2>4. PICK h \in 1 .. p : snapshots[t].districts[h].id = id
    BY <2>1, <2>3 DEF Finds, Has
  <2>5. DistrictIn(snapshots[t], id)[1] = snapshots[t].districts[h]
    BY <2>3, <2>4 DEF Finds
  <2>6. IsOnWatchlist(snapshots[t].districts[h], snapshots[t]) <=> ListedToWatch(snapshots[t], id)
    BY <2>2, <2>4, WatchedAreListed
  <2>7. earlier[i] = IsOnWatchlist(snapshots[t].districts[h], snapshots[t])
    BY <1>9, <2>1, <2>5
  <2>8. t \in Watched(id) <=> ListedToWatch(snapshots[t], id)
    BY DEF Watched
  <2>9. IsOnWatchlist(snapshots[t].districts[h], snapshots[t]) \in BOOLEAN
    BY DEF IsOnWatchlist
  <2> QED
    BY <2>1, <2>6, <2>7, <2>8
<1>11. (k <= DistrictFlagLimit) <=> s \in Watched(id)
  <2>1. snapshots[s].flagged = IF n < DistrictFlagLimit THEN n ELSE DistrictFlagLimit
    BY FlaggedCount DEF HasDistricts
  <2>2. ListedToWatch(snapshots[s], id) <=> k <= snapshots[s].flagged
    BY ListedAreFlagged
  <2>3. k <= snapshots[s].flagged <=> k <= DistrictFlagLimit
    BY <2>1, ReportAssumption
  <2> QED
    BY <2>2, <2>3 DEF Watched
<1>12. PICK flags : flags = Flags(id, k, LoadHistoricalSnapshots(g, log))
  OBVIOUS
<1>13. flags = Append(earlier, k <= DistrictFlagLimit)
  <2>1. PICK present : /\ present = Present(LoadHistoricalSnapshots(g, log), id)
                       /\ present = [j \in 1 .. m |-> snapshots[list[j]]]
    BY <1>4
  <2>2. flags = Append([i \in DOMAIN present |-> IsOnWatchlist(DistrictIn(present[i], id)[1], present[i])],
                       k <= DistrictFlagLimit)
    BY <1>12, <2>1 DEF Flags, Present
  <2>3. [i \in DOMAIN present |-> IsOnWatchlist(DistrictIn(present[i], id)[1], present[i])] = earlier
    BY <1>9, <2>1
  <2> QED
    BY <2>2, <2>3
<1>14. earlier \in Seq(BOOLEAN) /\ Len(earlier) = m /\ (k <= DistrictFlagLimit) \in BOOLEAN
  <2>1. \A i \in 1 .. m : earlier[i] \in BOOLEAN
    BY <1>9 DEF IsOnWatchlist
  <2>2. earlier = [i \in 1 .. m |-> earlier[i]]
    BY <1>9
  <2>3. earlier \in [1 .. m -> BOOLEAN]
    BY <2>1, <2>2
  <2>4. (k <= DistrictFlagLimit) \in BOOLEAN
    OBVIOUS
  <2> QED
    BY <2>3, <2>4
<1>15. /\ flags \in Seq(BOOLEAN) /\ Len(flags) = m + 1
       /\ \A i \in 1 .. m : flags[i] = earlier[i]
       /\ flags[m + 1] = (k <= DistrictFlagLimit)
  BY <1>13, <1>14, AppendProperties
<1>16. Marks(flags, longer, m + 1, Watched(id))
  <2>1. ASSUME NEW i \in 1 .. m + 1 PROVE flags[i] = TRUE <=> longer[i] \in Watched(id)
    <3>1. CASE i = m + 1
      BY <1>8, <1>11, <1>15, <3>1 DEF Extends
    <3>2. CASE i \in 1 .. m
      BY <1>8, <1>10, <1>15, <3>2
    <3>3. i = m + 1 \/ i \in 1 .. m
      OBVIOUS
    <3> QED
      BY <3>1, <3>2, <3>3
  <2>2. ASSUME NEW i \in 1 .. m + 1, NEW j \in 1 .. m + 1, i # j PROVE longer[i] # longer[j]
    <3>1. longer[m + 1] = s /\ \A h \in 1 .. m : longer[h] = list[h] /\ list[h] < s /\ list[h] # s
      BY <1>5, <1>8 DEF Extends
    <3>2. CASE i \in 1 .. m /\ j \in 1 .. m
      BY <1>6, <2>2, <3>1, <3>2
    <3>3. CASE i = m + 1 /\ j \in 1 .. m
      BY <3>1, <3>3
    <3>4. CASE j = m + 1 /\ i \in 1 .. m
      BY <3>1, <3>4
    <3> QED
      BY <2>2, <3>2, <3>3, <3>4
  <2> QED
    BY <1>15, <2>1, <2>2 DEF Marks
<1> QED
  BY <1>1, <1>4, <1>8, <1>12, <1>16

LEMMA ReportsInvImpliesRepeat == ReportsInv => RepeatSignalCountsTheWatchlists
<1> SUFFICES ASSUME ReportsInv, NEW s \in DOMAIN snapshots, NEW k \in DOMAIN snapshots[s].districts
             PROVE  LET d == snapshots[s].districts[k]
                        before == {t \in ToSet(SubSeq(events, 1, snapshots[s].capturedAfter)) :
                                       /\ snapshots[t].geography = snapshots[s].geography
                                       /\ DistrictIn(snapshots[t], d.id) # <<>>}
                        inWindow(n) == {t \in before : Cardinality({u \in before : HistoryOrder(t, u)}) < n - 1} \cup {s}
                        listed(window) == Cardinality({t \in window : ListedToWatch(snapshots[t], d.id)})
                    IN  /\ d.persistence.lastThreeWindow = Cardinality(inWindow(ShortWindow))
                        /\ d.persistence.lastSixWindow = Cardinality(inWindow(LongWindow))
                        /\ d.persistence.flaggedInLastThree = listed(inWindow(ShortWindow))
                        /\ d.persistence.flaggedInLastSix = listed(inWindow(LongWindow))
  BY Zenon DEF RepeatSignalCountsTheWatchlists
<1> DEFINE d == snapshots[s].districts[k]
           before == {t \in ToSet(SubSeq(events, 1, snapshots[s].capturedAfter)) :
                          /\ snapshots[t].geography = snapshots[s].geography
                          /\ DistrictIn(snapshots[t], d.id) # <<>>}
<1> SUFFICES /\ d.persistence.lastThreeWindow = Cardinality(Window(before, s, ShortWindow))
             /\ d.persistence.lastSixWindow = Cardinality(Window(before, s, LongWindow))
             /\ d.persistence.flaggedInLastThree
                  = Cardinality({t \in Window(before, s, ShortWindow) : ListedToWatch(snapshots[t], d.id)})
             /\ d.persistence.flaggedInLastSix
                  = Cardinality({t \in Window(before, s, LongWindow) : ListedToWatch(snapshots[t], d.id)})
  BY Zenon DEF Window
<1>1. TablesInv /\ BuiltInv /\ s \in 1 .. Len(snapshots) /\ Len(snapshots) \in Nat
      /\ \A t \in 1 .. Len(snapshots) : snapshots[t].at \in Nat
  <2>1. PICK T : snapshots \in Seq(T)
    BY DEF ReportsInv, TablesInv
  <2> QED
    BY <2>1, LenProperties DEF ReportsInv, TablesInv
<1>2. PICK n \in Nat : HasDistricts(s, n)
  BY <1>1, SnapshotDistricts
<1>3. k \in 1 .. n
  BY <1>2 DEF HasDistricts, Distinct
<1>4. PICK id, g, log : id = d.id /\ g = snapshots[s].geography /\ log = Previous(s)
  OBVIOUS
<1>5. log \in Seq(1 .. Len(snapshots)) /\ DOMAIN log = 1 .. Len(log)
      /\ \A i \in DOMAIN log : log[i] \in 1 .. Len(snapshots)
  BY <1>1, <1>4, PreviousAreOlder, LenProperties, ElementOfSeq
<1>6. before = Having(g, log, id) /\ before \in SUBSET (1 .. Len(snapshots))
  <2>1. ToSet(log) = {log[i] : i \in DOMAIN log}
    BY DEF ToSet
  <2>2. before = {t \in ToSet(log) : snapshots[t].geography = g /\ Has(t, id)}
    BY <1>4 DEF Has, Previous
  <2>3. Having(g, log, id) = {t \in Published(g, log) : Has(t, id)}
    BY DEF Having
  <2>4. Published(g, log) = {t \in ToSet(log) : snapshots[t].geography = g}
    BY <2>1 DEF Published, OfGeography
  <2>5. Published(g, log) \in SUBSET (1 .. Len(snapshots))
    BY <1>5, <2>1, <2>4
  <2> HIDE DEF before
  <2> QED
    BY <2>2, <2>3, <2>4, <2>5
<1>7. PICK flags : flags = Flags(id, k, LoadHistoricalSnapshots(g, log))
  OBVIOUS
<1>8. PICK m \in Nat : \E list, longer :
             /\ ListsInOrder(list, before, m) /\ Extends(longer, list, m, s)
             /\ Marks(flags, longer, m + 1, Watched(id))
  <2>1. \E m \in Nat : \E list, longer :
             /\ ListsInOrder(list, Having(g, Previous(s), id), m) /\ Extends(longer, list, m, s)
             /\ Marks(Flags(id, k, LoadHistoricalSnapshots(g, Previous(s))), longer, m + 1, Watched(id))
    BY <1>1, <1>2, <1>3, <1>4, FlagsMarkTheWatched
  <2> QED
    BY <1>4, <1>6, <1>7, <2>1
<1>9. PICK list, longer :
             /\ ListsInOrder(list, before, m) /\ Extends(longer, list, m, s)
             /\ Marks(flags, longer, m + 1, Watched(id))
  BY <1>8
<1>10. ASSUME NEW w \in {ShortWindow, LongWindow}
       PROVE  /\ Len(Newest(flags, w)) = Cardinality(Window(before, s, w))
              /\ Count(Newest(flags, w)) = Cardinality({t \in Window(before, s, w) : ListedToWatch(snapshots[t], id)})
  <2>1. w \in Nat \ {0}
    BY ReportAssumption
  <2>2. PICK window : window = Window(before, s, w)
    OBVIOUS
  <2>3. window = LastOf(longer, m + 1, w)
    <3>1. before \in SUBSET Nat /\ \A t \in before : snapshots[t].at \in Nat
      BY <1>1, <1>6
    <3> QED
      BY <1>9, <2>1, <2>2, <3>1, WindowIsLast
  <2>4. /\ Len(Newest(flags, w)) = Cardinality(window)
        /\ Count(Newest(flags, w)) = Cardinality({t \in window : t \in Watched(id)})
    <3>1. m + 1 \in Nat
      OBVIOUS
    <3> QED
      BY <1>9, <2>1, <2>3, <3>1, CountOfWindow
  <2>5. {t \in window : t \in Watched(id)} = {t \in window : ListedToWatch(snapshots[t], id)}
    <3>1. window \in SUBSET (1 .. Len(snapshots))
      BY <1>1, <1>6, <2>2 DEF Window
    <3> QED
      BY <3>1 DEF Watched
  <2> QED
    BY <2>2, <2>4, <2>5
<1>11. d.persistence = WatchlistPersistence(id, k, LoadHistoricalSnapshots(g, log))
  BY <1>2, <1>3, <1>4 DEF HasDistricts, IsRanked, Previous
<1>12. /\ d.persistence.lastThreeWindow = Len(Newest(flags, ShortWindow))
       /\ d.persistence.flaggedInLastThree = Count(Newest(flags, ShortWindow))
       /\ d.persistence.lastSixWindow = Len(Newest(flags, LongWindow))
       /\ d.persistence.flaggedInLastSix = Count(Newest(flags, LongWindow))
  BY <1>7, <1>11 DEF WatchlistPersistence
<1> QED
  BY <1>4, <1>10, <1>12

LEMMA Quotient ==
    ASSUME NEW a \in Int, NEW b \in Nat \ {0}
    PROVE  a \div b \in Int /\ b * (a \div b) <= a /\ a < b * (a \div b) + b
OBVIOUS

LEMMA Signs ==
    ASSUME NEW n \in Int, NEW d \in Nat \ {0}
    PROVE  /\ Tenths(n, d) \in Int
           /\ n >= 0 => Tenths(n, d) >= 0
           /\ n <= 0 => Tenths(n, d) <= 0
           /\ n >= d => Tenths(n, d) >= 1000
           /\ n <= d => Tenths(n, d) <= 1000
<1>1. PICK q : q = Tenths(n, d)
  OBVIOUS
<1>2. 2000 * n + d \in Int /\ 2 * d \in Nat \ {0}
  OBVIOUS
<1>3. q \in Int /\ 2 * d * q <= 2000 * n + d /\ 2000 * n + d < 2 * d * q + 2 * d
  <2>1. PICK a \in Int, b \in Nat \ {0} : a = 2000 * n + d /\ b = 2 * d
    BY <1>2
  <2>2. a \div b \in Int /\ b * (a \div b) <= a /\ a < b * (a \div b) + b
    BY Quotient
  <2>3. q = a \div b
    BY <1>1, <2>1 DEF Tenths
  <2> QED
    BY <2>1, <2>2, <2>3
<1>4. n >= 0 => q >= 0
  <2>1. q < 0 => d * (q + 1) <= 0
    BY <1>3
  <2>2. d * (q + 1) = d * q + d
    BY <1>3
  <2> QED
    BY <1>3, <2>1, <2>2
<1>5. n <= 0 => q <= 0
  <2>1. q > 0 => d * (q - 1) >= 0
    BY <1>3
  <2>2. d * (q - 1) = d * q - d
    BY <1>3
  <2> QED
    BY <1>3, <2>1, <2>2
<1>6. n >= d => q >= 1000
  <2>1. q < 1000 => d * (999 - q) >= 0
    BY <1>3
  <2>2. d * (999 - q) = 999 * d - d * q
    BY <1>3
  <2> QED
    BY <1>3, <2>1, <2>2
<1>7. n <= d => q <= 1000
  <2>1. q > 1000 => d * (q - 1001) >= 0
    BY <1>3
  <2>2. d * (q - 1001) = d * q - 1001 * d
    BY <1>3
  <2> QED
    BY <1>3, <2>1, <2>2
<1> QED
  BY <1>1, <1>3, <1>4, <1>5, <1>6, <1>7
\* A row's month.
IsActivity(a) == {a.pending, a.filed, a.cleared} \subseteq Nat

LEMMA MovementSigns ==
    ASSUME NEW a, IsActivity(a)
    PROVE  /\ BacklogMovementShare(a) \in Int
           /\ BacklogMovementShare(a) > 0 => a.filed > a.cleared
           /\ BacklogMovementShare(a) < 0 => a.filed < a.cleared
<1>1. a.pending \in Nat /\ a.filed \in Nat /\ a.cleared \in Nat
  BY DEF IsActivity
<1>2. PICK d \in Nat, n \in Int : d = a.pending /\ n = a.filed - a.cleared
  BY <1>1
<1>3. BacklogMovementShare(a) = IF d <= 0 THEN 0 ELSE Tenths(n, d)
  BY <1>2 DEF BacklogMovementShare
<1>4. d > 0 => /\ Tenths(n, d) \in Int
               /\ n >= 0 => Tenths(n, d) >= 0
               /\ n <= 0 => Tenths(n, d) <= 0
  BY Signs
<1>5. /\ BacklogMovementShare(a) \in Int
      /\ n >= 0 => BacklogMovementShare(a) >= 0
      /\ n <= 0 => BacklogMovementShare(a) <= 0
  BY <1>3, <1>4
<1> QED
  BY <1>1, <1>2, <1>5

LEMMA NeededSigns ==
    ASSUME NEW a, IsActivity(a)
    PROVE  /\ BreakEvenClearancesNeeded(a) \in Nat /\ CatchUpClearancesPerMonth(a) \in Nat
           /\ BreakEvenClearancesNeeded(a) > 0 <=> a.filed > a.cleared
           /\ a.filed > a.cleared => CatchUpClearancesPerMonth(a) > 0
<1>1. a.pending \in Nat /\ a.filed \in Nat /\ a.cleared \in Nat
  BY DEF IsActivity
<1>2. PICK p \in Int, b \in Nat \ {0} : p = a.pending + 119 /\ b = 120
  BY <1>1
<1>3. PICK target : target = MonthlyReductionTarget(a) /\ target = p \div b
  BY <1>2 DEF MonthlyReductionTarget
<1>4. target \in Int /\ p < b * target + b
  BY <1>3, Quotient
<1>5. target >= 0
  BY <1>1, <1>2, <1>4
<1> QED
  BY <1>1, <1>3, <1>4, <1>5 DEF BreakEvenClearancesNeeded, CatchUpClearancesPerMonth, AtLeastZero

\* The notes of a page on its month.
HasNotes(page, a) ==
    /\ page.movementNote = DescribeBacklogMovementFromMonthlyActivity(a)
    /\ page.breakEvenNote = DescribeBreakEvenFromMonthlyActivity(a)
    /\ page.catchUpNote = DescribeCatchUpFromMonthlyActivity(a)

LEMMA NotesAgree ==
    ASSUME NEW a, IsActivity(a), NEW page, HasNotes(page, a)
    PROVE  NoSentenceContradicts(page)
<1>1. PICK share, needed, catchUp :
        /\ share = BacklogMovementShare(a) /\ needed = BreakEvenClearancesNeeded(a)
        /\ catchUp = CatchUpClearancesPerMonth(a)
  OBVIOUS
<1>2. /\ share \in Int /\ needed \in Nat /\ catchUp \in Nat
      /\ share > 0 => needed > 0
      /\ share < 0 => needed = 0
      /\ needed > 0 => catchUp > 0
  <2>1. a.filed \in Nat /\ a.cleared \in Nat
    BY DEF IsActivity
  <2>2. share \in Int /\ (share > 0 => a.filed > a.cleared) /\ (share < 0 => a.filed < a.cleared)
    BY <1>1, MovementSigns
  <2>3. /\ needed \in Nat /\ catchUp \in Nat /\ (needed > 0 <=> a.filed > a.cleared)
        /\ (a.filed > a.cleared => catchUp > 0)
    BY <1>1, NeededSigns
  <2> QED
    BY <2>1, <2>2, <2>3
<1>3. CASE SourceReportsMissingMonthlyActivity(a)
  BY <1>3 DEF HasNotes, NoSentenceContradicts, DescribeBacklogMovementFromMonthlyActivity,
              DescribeBreakEvenFromMonthlyActivity, DescribeCatchUpFromMonthlyActivity
<1>4. CASE ~SourceReportsMissingMonthlyActivity(a)
  <2>1. /\ page.movementNote = DescribeBacklogMovement(share) /\ page.breakEvenNote = DescribeBreakEven(needed)
        /\ page.catchUpNote = DescribeCatchUp(catchUp)
    BY <1>1, <1>4 DEF HasNotes, DescribeBacklogMovementFromMonthlyActivity,
              DescribeBreakEvenFromMonthlyActivity, DescribeCatchUpFromMonthlyActivity
  <2>2. /\ page.movementNote = "grew" => share > 0
        /\ page.movementNote = "shrank" => share < 0
    BY <2>1 DEF DescribeBacklogMovement
  <2>3. page.breakEvenNote = IF needed <= 0 THEN "cleared enough" ELSE "needed more"
    BY <2>1 DEF DescribeBreakEven
  <2>6. page.catchUpNote = IF catchUp <= 0 THEN "no extra clearances" ELSE "extra clearances"
    BY <2>1 DEF DescribeCatchUp
  <2>7. (needed > 0 <=> ~(needed <= 0)) /\ (catchUp > 0 <=> ~(catchUp <= 0)) /\ (needed = 0 => needed <= 0)
    BY <1>2
  <2>4. catchUp > 0 => page.catchUpNote = "extra clearances"
    BY <2>6, <2>7
  <2>5. /\ page.breakEvenNote = "needed more" <=> needed > 0
        /\ needed = 0 => page.breakEvenNote = "cleared enough"
    BY <2>3, <2>7
  <2> QED
    BY <1>2, <2>2, <2>4, <2>5 DEF NoSentenceContradicts
<1> QED
  BY <1>3, <1>4

-----------------------------------------------------------------------------
(* What a district and the state of a snapshot were given *)

TellsPace(d) ==
    /\ {d.backlog, d.filed, d.cleared} \subseteq Nat
    /\ d.disposalRate = Percentage(d.cleared, d.filed)
    /\ d.catchUp = CatchUpClearancesPerMonth(MonthlyActivity(d))
    /\ d.filed = 0 => /\ "rate" \notin d.summary
                      /\ d.flagReason \in {"nothing reported", "no monthly activity", "no filed count"}
    /\ d.filed > 0 => d.flagReason \notin {"no monthly activity", "no filed count"}

LEMMA FiguresTellPace ==
    ASSUME NEW id, NEW row \in Row, NEW f, f = DistrictFigures(id, row), NEW isFlagged, NEW state,
           NEW d, \A field \in FigureFields : d[field] = f[field],
           d.flagReason = FlagReason(f, isFlagged, state), d.summary = Summary(f, isFlagged)
    PROVE  TellsPace(d)
<1>1. row.pending \in Nat /\ row.cleared \in Nat /\ row.filed \in Nat
  BY DEF Row
<1>2. /\ f.backlog = row.pending /\ f.filed = row.filed /\ f.cleared = row.cleared
      /\ f.disposalRate = Percentage(row.cleared, row.filed)
      /\ f.catchUp = CatchUpClearancesPerMonth(row)
  BY FiguresOfRow
<1>3. /\ d.backlog = f.backlog /\ d.filed = f.filed /\ d.cleared = f.cleared
      /\ d.disposalRate = f.disposalRate /\ d.catchUp = f.catchUp
  BY DEF FigureFields
<1>4. CatchUpClearancesPerMonth(MonthlyActivity(d)) = CatchUpClearancesPerMonth(row)
  <2>1. PICK a : a = MonthlyActivity(d)
    OBVIOUS
  <2>2. a.pending = row.pending /\ a.filed = row.filed /\ a.cleared = row.cleared
    BY <1>2, <1>3, <2>1 DEF MonthlyActivity
  <2>3. CatchUpClearancesPerMonth(a) = CatchUpClearancesPerMonth(row)
    BY <2>2 DEF CatchUpClearancesPerMonth, MonthlyReductionTarget
  <2> QED
    BY <2>1, <2>3
<1>5. f.filed = 0 => "rate" \notin d.summary
  <2>0. PICK listed : listed = IF isFlagged THEN {"listed"} ELSE {}
    OBVIOUS
  <2>1. "rate" \notin listed
    BY <2>0, Zenon
  <2>2. "rate" \notin {"nothing reported"} /\ "rate" \notin {"pace is N/A"} \cup listed
    BY <2>1
  <2> SUFFICES ASSUME f.filed = 0 PROVE "rate" \notin Summary(f, isFlagged)
    OBVIOUS
  <2>3. f.filed <= 0
    OBVIOUS
  <2>4. Summary(f, isFlagged) \in {{"nothing reported"}, {"pace is N/A"} \cup listed}
    BY <2>0, <2>3, Zenon DEF Summary
  <2> QED
    BY <2>2, <2>4
<1>6. f.filed = 0 => d.flagReason \in {"nothing reported", "no monthly activity", "no filed count"}
  <2> SUFFICES ASSUME f.filed = 0
               PROVE  FlagReason(f, isFlagged, state) \in {"nothing reported", "no monthly activity", "no filed count"}
    OBVIOUS
  <2>1. f.filed <= 0
    OBVIOUS
  <2> QED
    BY <2>1, Zenon DEF FlagReason
<1>7. f.filed > 0 => d.flagReason \notin {"no monthly activity", "no filed count"}
  <2> SUFFICES ASSUME f.filed > 0
               PROVE  FlagReason(f, isFlagged, state) \notin {"no monthly activity", "no filed count"}
    OBVIOUS
  <2>1. ~SourceReportsNoMonthlyActivity(f) /\ ~(f.filed <= 0)
    BY <1>1, <1>2 DEF SourceReportsNoMonthlyActivity
  <2> QED
    BY <2>1, Zenon DEF FlagReason
<1> QED
  BY <1>1, <1>2, <1>3, <1>4, <1>5, <1>6, <1>7 DEF TellsPace

StatesPace(stats) ==
    /\ {stats.pending, stats.filed, stats.cleared} \subseteq Nat
    /\ stats.disposalRate = Percentage(stats.cleared, stats.filed)

LEMMA SnapshotsTellPace ==
    ASSUME BuiltInv, NEW s \in 1 .. Len(snapshots)
    PROVE  /\ StatesPace(snapshots[s].stats)
           /\ \A k \in DOMAIN snapshots[s].districts : TellsPace(snapshots[s].districts[k])
<1>1. PICK c : c = snapshots[s] /\ IsBuilt(c)
  BY DEF BuiltInv
<1>2. PICK previous : previous = LoadHistoricalSnapshots(c.geography, SubSeq(events, 1, c.capturedAfter))
  OBVIOUS
<1>3. PICK x \in Extracts[c.geography] : BuiltFrom(c, x, previous)
  BY <1>1, <1>2 DEF IsBuilt
<1>4. x \in Extract
  BY <1>1, <1>3, ExtractsAssumption DEF IsBuilt
<1>5. PICK state : c.districts = Districts(x, state, previous)
  BY <1>3 DEF BuiltFrom, BuildSnapshotCandidate
<1>6. StatesPace(c.stats)
  <2>1. x.state.pending \in Nat /\ x.state.filed \in Nat /\ x.state.cleared \in Nat
    BY <1>4 DEF Extract, Row
  <2>2. /\ c.stats.pending = x.state.pending /\ c.stats.filed = x.state.filed
        /\ c.stats.cleared = x.state.cleared /\ c.stats.disposalRate = Percentage(x.state.cleared, x.state.filed)
    BY <1>3 DEF BuiltFrom, BuildSnapshotCandidate
  <2> QED
    BY <2>1, <2>2 DEF StatesPace
<1>7. PICK n \in Nat : \E order : ListsDistricts(c.districts, x, n, order, state, previous)
  BY <1>4, <1>5, DistrictsAreListed
<1>8. PICK order : ListsDistricts(c.districts, x, n, order, state, previous)
  BY <1>7
<1>9. /\ DOMAIN c.districts = 1 .. n /\ n = Len(x.districts) /\ order \in [1 .. n -> 1 .. n]
      /\ \A k \in 1 .. n : DistrictOf(c.districts[k], x.districts[order[k]], k, state, previous)
  BY <1>8 DEF ListsDistricts
<1>10. DOMAIN x.districts = 1 .. n /\ \A i \in 1 .. n : x.districts[i] \in [id : Nat, row : Row]
  <2>1. x.districts \in Seq([id : Nat, row : Row])
    BY <1>4 DEF Extract
  <2> QED
    BY <1>9, <2>1, LenProperties, ElementOfSeq
<1>11. ASSUME NEW k \in 1 .. n PROVE TellsPace(c.districts[k])
  <2>1. PICK entry \in [id : Nat, row : Row] : entry = x.districts[order[k]]
    BY <1>9, <1>10
  <2>2. PICK f : f = DistrictFigures(entry.id, entry.row)
    OBVIOUS
  <2>3. DOMAIN f = FigureFields
    BY <2>2, FiguresOfRow
  <2>4. PICK d : d = c.districts[k] /\ DistrictOf(d, entry, k, state, previous)
    BY <1>9, <2>1
  <2>5. /\ \A field \in FigureFields : d[field] = f[field]
        /\ d.flagReason = FlagReason(f, k <= DistrictFlagLimit, state)
        /\ d.summary = Summary(f, k <= DistrictFlagLimit)
    BY <2>2, <2>3, <2>4 DEF DistrictOf
  <2>6. TellsPace(d)
    BY <2>1, <2>2, <2>5, FiguresTellPace
  <2> QED
    BY <2>4, <2>6
<1> QED
  BY <1>1, <1>6, <1>9, <1>11

\* The rows of the workspace, for some of the districts.
ListsRows(rows, districts, places, m) ==
    /\ DOMAIN rows = 1 .. m
    /\ \A i \in 1 .. m : \E k \in places : rows[i] = TableRow(districts[k])
    /\ \A k \in places : \E i \in 1 .. m : rows[i] = TableRow(districts[k])

LEMMA WorkspaceRows ==
    ASSUME NEW s, NEW n \in Nat, HasDistricts(s, n),
           NEW options, options.sort = "rank", options.matches = DistrictIds,
           NEW places, places = {k \in 1 .. n : options.view = "all" \/ k <= snapshots[s].flagged}
    PROVE  \E m \in Nat : ListsRows(DistrictsPage(snapshots[s], options).rows, snapshots[s].districts, places, m)
<1>1. PICK snapshot : snapshot = snapshots[s]
  OBVIOUS
<1>2. PICK all : all = snapshot.districts
  OBVIOUS
<1>3. /\ DOMAIN all = 1 .. n
      /\ \A k \in 1 .. n : all[k].rank = k /\ all[k].id \in DistrictIds
  BY <1>1, <1>2 DEF HasDistricts, Distinct, IsRanked
<1>4. PICK flagged : flagged = snapshot.flagged
  OBVIOUS
<1>5. places = {k \in 1 .. n : options.view = "all" \/ k <= flagged}
  BY <1>1, <1>4
<1>6. PICK kept : kept = Filtered(all, places)
  OBVIOUS
<1>7. PICK m \in Nat : \E order : Keeps(kept, all, places, m, order)
  <2>1. places \in SUBSET (1 .. n)
    OBVIOUS
  <2> QED
    BY <1>6, <2>1, Filters
<1>8. PICK order : Keeps(kept, all, places, m, order)
  BY <1>7
<1>9. /\ order \in [1 .. m -> places] /\ kept = [k \in 1 .. m |-> all[order[k]]]
      /\ \A i \in places : \E k \in 1 .. m : order[k] = i
  BY <1>8 DEF Keeps
<1>10. DOMAIN kept = 1 .. m /\ \A i \in 1 .. m : kept[i].rank \in Int
  BY <1>3, <1>9
<1>11. PICK lower : lower = {p \in (1 .. m) \X (1 .. m) : kept[p[1]].rank < kept[p[2]].rank}
  OBVIOUS
<1>12. PICK sorted : sorted = Arranged(kept, lower)
  OBVIOUS
<1>13. PICK sorts : Arranges(sorted, kept, lower, m, sorts)
  <2>1. \A i, j \in 1 .. m : <<i, j>> \in lower <=> kept[i].rank < kept[j].rank
    BY <1>11
  <2>2. WeaklyOrders(lower, 1 .. m)
    <3>1. \A i \in 1 .. m : <<i, i>> \notin lower
      BY <1>10, <2>1
    <3>2. \A g, i, j \in 1 .. m : <<g, i>> \in lower /\ <<i, j>> \in lower => <<g, j>> \in lower
      BY <1>10, <2>1
    <3>3. \A g, i, j \in 1 .. m : <<g, j>> \in lower => <<g, i>> \in lower \/ <<i, j>> \in lower
      BY <1>10, <2>1
    <3> QED
      BY <3>1, <3>2, <3>3 DEF WeaklyOrders
  <2> QED
    BY <1>10, <1>12, <2>2, Arrangement
<1>14. /\ sorts \in [1 .. m -> 1 .. m] /\ sorted = [k \in 1 .. m |-> kept[sorts[k]]]
       /\ \A i \in 1 .. m : \E k \in 1 .. m : sorts[k] = i
  BY <1>13 DEF Arranges
<1>15. FilterAndSortDistricts(all, options, flagged) = sorted
  <2>1. {i \in DOMAIN all : /\ options.view = "all" \/ all[i].rank <= flagged
                            /\ all[i].id \in options.matches} = places
    BY <1>3, <1>5
  <2>2. Where(all, LAMBDA d : /\ options.view = "all" \/ d.rank <= flagged
                              /\ d.id \in options.matches) = kept
    BY <1>6, <2>1 DEF Where
  <2>3. \A d, e : CompareDistricts(d, e, options.sort) <=> d.rank < e.rank
    BY DEF CompareDistricts
  <2>4. StableSort(kept, LAMBDA d, e : CompareDistricts(d, e, options.sort)) = sorted
    BY <1>10, <1>11, <1>12, <2>3 DEF StableSort
  <2> QED
    BY <2>2, <2>4 DEF FilterAndSortDistricts
<1>16. PICK rows : rows = DistrictsPage(snapshot, options).rows /\ rows = [i \in DOMAIN sorted |-> TableRow(sorted[i])]
  BY <1>2, <1>4, <1>15 DEF DistrictsPage
<1>17. \A i \in 1 .. m : order[sorts[i]] \in places /\ sorted[i] = all[order[sorts[i]]]
  BY <1>9, <1>14
<1>18. ASSUME NEW k \in places PROVE \E i \in 1 .. m : order[sorts[i]] = k
  <2>1. PICK j \in 1 .. m : order[j] = k
    BY <1>9
  <2>2. PICK i \in 1 .. m : sorts[i] = j
    BY <1>14
  <2> QED
    BY <2>1, <2>2
<1>19. DOMAIN rows = 1 .. m /\ \A i \in 1 .. m : rows[i] = TableRow(all[order[sorts[i]]])
  BY <1>14, <1>16, <1>17
<1>20. ASSUME NEW k \in places PROVE \E i \in 1 .. m : rows[i] = TableRow(all[k])
  <2>1. PICK i \in 1 .. m : order[sorts[i]] = k
    BY <1>18
  <2> QED
    BY <1>19, <2>1
<1>21. ListsRows(rows, all, places, m)
  BY <1>17, <1>19, <1>20 DEF ListsRows
<1> QED
  BY <1>1, <1>2, <1>16, <1>21

\* The fields of a row.
ShowsDistrict(row, d) ==
    /\ {"id", "pace", "gap", "flagReason", "summary"} \subseteq DOMAIN row
    /\ row.id = d.id /\ row.pace = FormatClearancePer100(MonthlyActivity(d))
    /\ row.gap = FormatFileClearGap(MonthlyActivity(d))
    /\ row.flagReason = d.flagReason /\ row.summary = d.summary

LEMMA CellsShow ==
    ASSUME NEW d, NEW cells, cells = DistrictCells(d)
    PROVE  /\ DOMAIN cells = {"id", "rank", "backlog", "months", "pace"}
           /\ cells.id = d.id /\ cells.pace = FormatClearancePer100(MonthlyActivity(d))
BY DEF DistrictCells

LEMMA RowShowsDistrict == ASSUME NEW d PROVE ShowsDistrict(TableRow(d), d)
<1>1. PICK cells : cells = DistrictCells(d)
  OBVIOUS
<1>2. /\ DOMAIN cells = {"id", "rank", "backlog", "months", "pace"}
      /\ cells.id = d.id /\ cells.pace = FormatClearancePer100(MonthlyActivity(d))
  BY <1>1, CellsShow
<1>3. PICK share, repeat, gap, reason, summary :
        /\ TableRow(d) = With(cells, [fivePlusShare |-> share, repeat |-> repeat, gap |-> gap,
                                      flagReason |-> reason, summary |-> summary])
        /\ gap = FormatFileClearGap(MonthlyActivity(d)) /\ reason = d.flagReason /\ summary = d.summary
  BY <1>1 DEF TableRow
<1>4. PICK own : own = [fivePlusShare |-> share, repeat |-> repeat, gap |-> gap,
                        flagReason |-> reason, summary |-> summary]
  OBVIOUS
<1>5. /\ DOMAIN own = {"fivePlusShare", "repeat", "gap", "flagReason", "summary"}
      /\ own.gap = gap /\ own.flagReason = reason /\ own.summary = summary
  BY <1>4
<1>6. PICK row : row = TableRow(d) /\ row = With(cells, own)
  BY <1>3, <1>4
<1>7. /\ DOMAIN row = DOMAIN cells \cup DOMAIN own
      /\ row["id"] = cells["id"] /\ row["pace"] = cells["pace"]
      /\ row["gap"] = own["gap"] /\ row["flagReason"] = own["flagReason"] /\ row["summary"] = own["summary"]
  BY <1>2, <1>5, <1>6 DEF With
<1> QED
  BY <1>2, <1>3, <1>5, <1>6, <1>7 DEF ShowsDistrict

\* What a district's page says of it.
TellsOf(page, d) ==
    /\ page.pace = FormatClearancePer100(MonthlyActivity(d)) /\ page.gap = FormatFileClearGap(MonthlyActivity(d))
    /\ page.flagReason = d.flagReason /\ page.summary = d.summary
    /\ d.catchUp = CatchUpClearancesPerMonth(MonthlyActivity(d)) => HasNotes(page, MonthlyActivity(d))

LEMMA PageTells ==
    ASSUME NEW snapshot, NEW id, NEW history, NEW page, page = DistrictPage(snapshot, id, history),
           NEW d, d = DistrictIn(snapshot, id)[1]
    PROVE  TellsOf(page, d)
<1>1. PICK tiles : tiles = DistrictTiles(snapshot, id, history)
  OBVIOUS
<1>2. PICK row : row = TableRow(d) /\ ShowsDistrict(row, d)
  BY RowShowsDistrict
<1>3. PICK own :
        /\ tiles = With(row, own)
        /\ DOMAIN own = {"backlogDelta", "disposalNote", "rankDelta", "clock", "movement", "movementNote",
                         "breakEven", "breakEvenNote", "persistenceNote"}
        /\ own["movementNote"] = DescribeBacklogMovementFromMonthlyActivity(MonthlyActivity(d))
        /\ own["breakEvenNote"] = DescribeBreakEvenFromMonthlyActivity(MonthlyActivity(d))
  BY <1>1, <1>2 DEF DistrictTiles
<1>4. PICK card :
        /\ page = With(tiles, card) /\ DOMAIN card = {"catchUpNote", "bars", "history"}
        /\ card["catchUpNote"] = IF SourceReportsMissingMonthlyActivity(MonthlyActivity(d)) THEN "not computed"
                                 ELSE DescribeCatchUp(d.catchUp)
  <2>1. PICK note, bars, points :
          /\ page = With(tiles, [catchUpNote |-> note, bars |-> bars, history |-> points])
          /\ note = IF SourceReportsMissingMonthlyActivity(MonthlyActivity(d)) THEN "not computed"
                    ELSE DescribeCatchUp(d.catchUp)
    BY <1>1 DEF DistrictPage
  <2>2. PICK card : card = [catchUpNote |-> note, bars |-> bars, history |-> points]
    OBVIOUS
  <2>3. DOMAIN card = {"catchUpNote", "bars", "history"} /\ card["catchUpNote"] = note
    BY <2>2
  <2> QED
    BY <2>1, <2>2, <2>3, Zenon
<1>5. \A field \in {"id", "pace", "gap", "flagReason", "summary"} :
        field \in DOMAIN tiles /\ tiles[field] = row[field]
  BY <1>2, <1>3 DEF With, ShowsDistrict
<1>6. \A field \in {"movementNote", "breakEvenNote"} : field \in DOMAIN tiles /\ tiles[field] = own[field]
  BY <1>3 DEF With
<1>7. /\ \A field \in {"id", "pace", "gap", "flagReason", "summary"} : page[field] = row[field]
      /\ \A field \in {"movementNote", "breakEvenNote"} : page[field] = own[field]
      /\ page["catchUpNote"] = card["catchUpNote"]
  <2>1. \A field \in DOMAIN tiles \ {"catchUpNote", "bars", "history"} : page[field] = tiles[field]
    BY <1>4 DEF With
  <2>2. page["catchUpNote"] = card["catchUpNote"]
    BY <1>4 DEF With
  <2> QED
    BY <1>5, <1>6, <2>1, <2>2
<1>8. ASSUME d.catchUp = CatchUpClearancesPerMonth(MonthlyActivity(d)) PROVE HasNotes(page, MonthlyActivity(d))
  <2>1. page.catchUpNote = DescribeCatchUpFromMonthlyActivity(MonthlyActivity(d))
    BY <1>4, <1>7, <1>8, Zenon DEF DescribeCatchUpFromMonthlyActivity
  <2> QED
    BY <1>3, <1>7, <2>1 DEF HasNotes
<1> QED
  BY <1>2, <1>7, <1>8 DEF TellsOf, ShowsDistrict

-----------------------------------------------------------------------------
(* One month, everywhere a rate or none *)

LEMMA RateIffFiled ==
    ASSUME NEW a, IsActivity(a)
    PROVE  /\ CanComputeClearancePace(a) <=> a.filed > 0
           /\ SourceReportsMissingMonthlyActivity(a) => a.filed = 0
           /\ FormatClearancePer100(a) = NotAvailable <=> a.filed = 0
           /\ FormatFileClearGap(a) = NotAvailable <=> a.filed = 0
           /\ a.filed > 0 => FormatClearancePer100(a) = Shown(Percentage(a.cleared, a.filed))
<1>1. a.pending \in Nat /\ a.filed \in Nat /\ a.cleared \in Nat
  BY DEF IsActivity
<1>2. CanComputeClearancePace(a) <=> a.filed > 0
  BY <1>1 DEF CanComputeClearancePace, SourceReportsMissingMonthlyActivity
<1>3. SourceReportsMissingMonthlyActivity(a) => a.filed = 0
  BY DEF SourceReportsMissingMonthlyActivity
<1>4. \A x : Shown(x) # NotAvailable
  BY DEF Shown, NotAvailable
<1>5. a.filed > 0 <=> a.filed # 0
  BY <1>1
<1>6. FormatClearancePer100(a) = NotAvailable <=> a.filed = 0
  BY <1>2, <1>4, <1>5, Zenon DEF FormatClearancePer100
<1>7. FormatFileClearGap(a) = NotAvailable <=> a.filed = 0
  BY <1>2, <1>4, <1>5, Zenon DEF FormatFileClearGap
<1>8. a.filed > 0 => FormatClearancePer100(a) = Shown(Percentage(a.cleared, a.filed))
  <2>1. a.filed > 0 => Percentage(a.cleared, a.filed) = Tenths(a.cleared, a.filed)
    BY <1>1 DEF Percentage
  <2> QED
    BY <1>2, <2>1 DEF FormatClearancePer100
<1> QED
  BY <1>2, <1>3, <1>6, <1>7, <1>8

LEMMA DistrictActivity ==
    ASSUME NEW d, TellsPace(d), NEW a, a = MonthlyActivity(d)
    PROVE  /\ IsActivity(a) /\ a.pending = d.backlog /\ a.filed = d.filed /\ a.cleared = d.cleared
<1>1. a.pending = d.backlog /\ a.filed = d.filed /\ a.cleared = d.cleared
  BY DEF MonthlyActivity
<1> QED
  BY <1>1 DEF TellsPace, IsActivity

LEMMA DistrictSaysOnePace ==
    ASSUME NEW d, TellsPace(d), NEW row, ShowsDistrict(row, d), NEW page, TellsOf(page, d)
    PROVE  AgreesOnPace(row, page, d)
<1>1. PICK a : a = MonthlyActivity(d)
  OBVIOUS
<1>2. IsActivity(a) /\ a.filed = d.filed /\ a.cleared = d.cleared
  BY <1>1, DistrictActivity
<1>3. /\ FormatClearancePer100(a) = NotAvailable <=> a.filed = 0
      /\ FormatFileClearGap(a) = NotAvailable <=> a.filed = 0
      /\ a.filed > 0 => FormatClearancePer100(a) = Shown(Percentage(a.cleared, a.filed))
  BY <1>2, RateIffFiled
<1>4. row.pace = FormatClearancePer100(a)
  BY <1>1 DEF ShowsDistrict
<1>5. /\ page.pace = FormatClearancePer100(a) /\ page.gap = FormatFileClearGap(a)
      /\ page.flagReason = d.flagReason /\ page.summary = d.summary /\ HasNotes(page, a)
  BY <1>1 DEF TellsOf, TellsPace
<1>6. DistrictEmbed(d).pace = FormatClearancePer100(a)
  <2>1. PICK cells : cells = DistrictCells(d)
    OBVIOUS
  <2>2. DOMAIN cells = {"id", "rank", "backlog", "months", "pace"} /\ cells.pace = FormatClearancePer100(a)
    BY <1>1, <2>1, CellsShow
  <2>3. PICK own : own = [summary |-> d.summary] /\ DOMAIN own = {"summary"}
    <3>1. PICK summary : summary = d.summary
      OBVIOUS
    <3>2. PICK own : own = [summary |-> summary]
      OBVIOUS
    <3> QED
      BY <3>1, <3>2
  <2>4. PICK embed : embed = DistrictEmbed(d) /\ embed = With(cells, own)
    BY <2>1, <2>3 DEF DistrictEmbed
  <2>5. embed["pace"] = cells["pace"]
    BY <2>2, <2>3, <2>4, WithFields
  <2> QED
    BY <2>2, <2>4, <2>5
<1>7. /\ a.filed > 0 => DistrictCard(d).pace = Shown(Percentage(a.cleared, a.filed))
      /\ a.filed = 0 => DistrictCard(d).pace = Shown(0)
  <2>1. DistrictCard(d).pace = Shown(d.disposalRate) /\ d.disposalRate = Percentage(a.cleared, a.filed)
    BY <1>2 DEF DistrictCard, TellsPace
  <2>2. a.filed = 0 => Percentage(a.cleared, a.filed) = 0
    BY DEF Percentage
  <2> QED
    BY <2>1, <2>2
<1>8. a.filed > 0 <=> a.filed # 0
  BY <1>2 DEF IsActivity
<1>9. NoSentenceContradicts(page)
  BY <1>2, <1>5, NotesAgree
<1>10. /\ d.filed = 0 => /\ "rate" \notin d.summary
                         /\ d.flagReason \in {"nothing reported", "no monthly activity", "no filed count"}
       /\ d.filed > 0 => d.flagReason \notin {"no monthly activity", "no filed count"}
  BY DEF TellsPace
<1> QED
  BY <1>2, <1>3, <1>4, <1>5, <1>6, <1>7, <1>8, <1>9, <1>10, Zenon DEF AgreesOnPace

LEMMA ComparisonsAgree ==
    ASSUME NEW snapshot, NEW id, NEW other, NEW d, NEW e, TellsPace(d), TellsPace(e),
           d = DistrictIn(snapshot, id)[1], e = DistrictIn(snapshot, other)[1],
           NEW row, ShowsDistrict(row, d), NEW second, ShowsDistrict(second, e)
    PROVE  ComparePage(snapshot, id, other).clearanceDiff = NotAvailable
           <=> row.pace = NotAvailable \/ second.pace = NotAvailable
<1>1. PICK a, b : a = MonthlyActivity(d) /\ b = MonthlyActivity(e)
  OBVIOUS
<1>2. IsActivity(a) /\ IsActivity(b)
  BY <1>1, DistrictActivity
<1>3. /\ CanComputeClearancePace(a) <=> a.filed > 0
      /\ FormatClearancePer100(a) = NotAvailable <=> a.filed = 0
  BY <1>2, RateIffFiled
<1>4. /\ CanComputeClearancePace(b) <=> b.filed > 0
      /\ FormatClearancePer100(b) = NotAvailable <=> b.filed = 0
  BY <1>2, RateIffFiled
<1>5. row.pace = FormatClearancePer100(a) /\ second.pace = FormatClearancePer100(b)
  BY <1>1 DEF ShowsDistrict
<1>6. ComparePage(snapshot, id, other).clearanceDiff = ClearanceDiff(d, e)
  BY DEF ComparePage
<1>7. ClearanceDiff(d, e) = NotAvailable <=> ~(CanComputeClearancePace(a) /\ CanComputeClearancePace(b))
  <2>1. \A x : Shown(x) # NotAvailable
    BY DEF Shown, NotAvailable
  <2> QED
    BY <1>1, <2>1, Zenon DEF ClearanceDiff
<1>8. (a.filed > 0 <=> a.filed # 0) /\ (b.filed > 0 <=> b.filed # 0)
  BY <1>2 DEF IsActivity
<1> QED
  BY <1>3, <1>4, <1>5, <1>6, <1>7, <1>8, Zenon

\* A mover has the month of its district.
LEMMA MoversHaveMonths ==
    ASSUME NEW current, NEW previous, NEW n \in Nat, DOMAIN current.districts = 1 .. n,
           NEW movers, movers = Movers(current, previous), NEW j \in DOMAIN movers
    PROVE  \E k \in 1 .. n : /\ movers[j].id = current.districts[k].id
                             /\ MoversTable(movers)[j].pace = FormatClearancePer100(MonthlyActivity(current.districts[k]))
<1>1. PICK all : all = current.districts /\ DOMAIN all = 1 .. n
  OBVIOUS
<1>2. PICK places : places = {i \in 1 .. n : DistrictIn(previous, all[i].id) # <<>>}
  OBVIOUS
<1>3. PICK both : both = Filtered(all, places)
  OBVIOUS
<1>4. Where(current.districts, LAMBDA d : DistrictIn(previous, d.id) # <<>>) = both
  BY <1>1, <1>2, <1>3 DEF Where
<1>5. PICK m \in Nat : \E order : Keeps(both, all, places, m, order)
  <2>1. places \in SUBSET (1 .. n)
    BY <1>2
  <2> QED
    BY <1>3, <2>1, Filters
<1>6. PICK order : Keeps(both, all, places, m, order)
  BY <1>5
<1>7. order \in [1 .. m -> places] /\ both = [k \in 1 .. m |-> all[order[k]]]
  BY <1>6 DEF Keeps
<1>8. /\ DOMAIN movers = DOMAIN both
      /\ \A i \in DOMAIN both : /\ movers[i].id = both[i].id /\ movers[i].backlog = both[i].backlog
                                /\ movers[i].filed = both[i].filed /\ movers[i].cleared = both[i].cleared
  BY <1>4 DEF Movers
<1>9. PICK k \in 1 .. n : both[j] = all[k] /\ j \in DOMAIN both
  BY <1>2, <1>7, <1>8
<1>10. PICK mover, d : mover = movers[j] /\ d = current.districts[k]
  OBVIOUS
<1>11. /\ mover.id = d.id /\ mover.backlog = d.backlog
       /\ mover.filed = d.filed /\ mover.cleared = d.cleared
  BY <1>1, <1>8, <1>9, <1>10
<1>12. MonthlyActivity(mover) = MonthlyActivity(d)
  BY <1>11 DEF MonthlyActivity
<1>13. MoversTable(movers)[j].pace = FormatClearancePer100(MonthlyActivity(mover))
  <2>1. PICK cells : cells = DistrictCells(mover)
    OBVIOUS
  <2>2. DOMAIN cells = {"id", "rank", "backlog", "months", "pace"}
        /\ cells.pace = FormatClearancePer100(MonthlyActivity(mover))
    BY <2>1, CellsShow
  <2>3. PICK own : own = [change |-> AbsOf(mover.backlogDelta)] /\ DOMAIN own = {"change"}
    <3>1. PICK change : change = AbsOf(mover.backlogDelta)
      OBVIOUS
    <3>2. PICK own : own = [change |-> change]
      OBVIOUS
    <3> QED
      BY <3>1, <3>2
  <2>4. PICK line : line = MoversTable(movers)[j] /\ line = With(cells, own)
    BY <1>10, <2>1, <2>3 DEF MoversTable
  <2>5. line["pace"] = cells["pace"]
    BY <2>2, <2>3, <2>4, WithFields
  <2> QED
    BY <2>2, <2>4, <2>5
<1> QED
  BY <1>10, <1>11, <1>12, <1>13

-----------------------------------------------------------------------------
(* The home page of a geography *)

\* The order of the high courts keeps a court that stands alone.
LEMMA OneCourt ==
    ASSUME NEW a, IsActivity(a)
    PROVE  HighCourtCards(<<a>>)[1].rate = FormatClearanceRateDisplay(a)
<1>1. PICK list : list = <<a>>
  OBVIOUS
<1>2. DOMAIN list = 1 .. 1 /\ list[1] = a
  BY <1>1
<1>3. PICK precedes :
        precedes = {p \in (1 .. 1) \X (1 .. 1) : CompareHighCourtPressure(list[p[1]], list[p[2]])}
  OBVIOUS
<1>4. ~CompareHighCourtPressure(a, a)
  <2>1. PICK figures : figures = <<a.filed - a.cleared, -Percentage(a.cleared, a.filed), a.pending>>
    OBVIOUS
  <2>2. a.filed - a.cleared \in Int /\ -Percentage(a.cleared, a.filed) \in Int /\ a.pending \in Int
    <3>1. a.filed \in Nat /\ a.cleared \in Nat /\ a.pending \in Nat
      BY DEF IsActivity
    <3>2. Percentage(a.cleared, a.filed) \in Int
      BY <3>1, PercentageType
    <3> QED
      BY <3>1, <3>2
  <2>3. DOMAIN figures = 1 .. 3 /\ \A i \in 1 .. 3 : figures[i] \in Int
    BY <2>1, <2>2
  <2>4. \A i \in DOMAIN figures : ~(figures[i] > figures[i])
    BY <2>3
  <2> QED
    BY <2>1, <2>4 DEF CompareHighCourtPressure, LargerFiguresFirst
<1>5. WeaklyOrders(precedes, 1 .. 1)
  <2>1. precedes = {}
    <3>1. \A i, j \in 1 .. 1 : list[i] = a /\ list[j] = a
      BY <1>2
    <3> QED
      BY <1>3, <1>4, <3>1
  <2> QED
    BY <2>1 DEF WeaklyOrders
<1>6. PICK sorted : sorted = Arranged(list, precedes)
  OBVIOUS
<1>7. PICK order : Arranges(sorted, list, precedes, 1, order)
  BY <1>2, <1>5, <1>6, Arrangement
<1>8. DOMAIN sorted = 1 .. 1 /\ sorted[1] = a
  BY <1>2, <1>7 DEF Arranges
<1>9. StableSort(list, CompareHighCourtPressure) = sorted
  BY <1>2, <1>3, <1>6 DEF StableSort
<1>10. 1 \in DOMAIN sorted
  BY <1>8
<1> QED
  BY <1>1, <1>8, <1>9, <1>10 DEF HighCourtCards

LEMMA StatsActivity ==
    ASSUME NEW stats, StatesPace(stats), NEW a, a = StateActivity(stats)
    PROVE  /\ IsActivity(a) /\ a.pending = stats.pending /\ a.filed = stats.filed /\ a.cleared = stats.cleared
           /\ stats.disposalRate = Percentage(a.cleared, a.filed)
<1>1. a.pending = stats.pending /\ a.filed = stats.filed /\ a.cleared = stats.cleared
  BY DEF StateActivity
<1> QED
  BY <1>1 DEF StatesPace, IsActivity

\* What the home page says of the state's month.
ShowsState(home, snapshot) ==
    /\ home.pace = FormatClearancePer100(StateActivity(snapshot.stats))
    /\ home.caption = ClearanceCaption(snapshot) /\ home.waitingRoom = ComputeWaitingRoomRates(snapshot.stats)
    /\ home.movement = FormatBacklogMovementFromMonthlyActivity(StateActivity(snapshot.stats))
    /\ HasNotes(home, StateActivity(snapshot.stats))

LEMMA HomeShowsState == ASSUME NEW snapshot PROVE ShowsState(HomePage(snapshot), snapshot)
<1>1. PICK a : a = StateActivity(snapshot.stats)
  OBVIOUS
<1>2. PICK tiles : tiles = HomeTiles(snapshot)
  OBVIOUS
<1>3. /\ DOMAIN tiles = {"oldCases", "movement", "movementNote", "breakEven", "breakEvenNote", "catchUp", "catchUpNote",
                         "concentration", "topPersistence"}
      /\ tiles.movement = FormatBacklogMovementFromMonthlyActivity(a)
      /\ tiles.movementNote = DescribeBacklogMovementFromMonthlyActivity(a)
      /\ tiles.breakEvenNote = DescribeBreakEvenFromMonthlyActivity(a)
      /\ tiles.catchUpNote = DescribeCatchUpFromMonthlyActivity(a)
  BY <1>1, <1>2 DEF HomeTiles
<1>4. PICK cards, lede, flagged, trend, pace, caption, room :
        /\ HomePage(snapshot) = With(tiles, [cards |-> cards, pace |-> pace, caption |-> caption, lede |-> lede,
                                             waitingRoom |-> room, flaggedCount |-> flagged, trend |-> trend])
        /\ pace = FormatClearancePer100(a) /\ caption = ClearanceCaption(snapshot)
        /\ room = ComputeWaitingRoomRates(snapshot.stats)
  BY <1>1, <1>2 DEF HomePage
<1>5. PICK own : own = [cards |-> cards, pace |-> pace, caption |-> caption, lede |-> lede,
                        waitingRoom |-> room, flaggedCount |-> flagged, trend |-> trend]
  OBVIOUS
<1>6. /\ DOMAIN own = {"cards", "pace", "caption", "lede", "waitingRoom", "flaggedCount", "trend"}
      /\ own.pace = pace /\ own.caption = caption /\ own.waitingRoom = room
  BY <1>5
<1>7. PICK home : home = HomePage(snapshot) /\ home = With(tiles, own)
  BY <1>4, <1>5
<1>8. \A field \in {"pace", "caption", "waitingRoom"} : home[field] = own[field]
  BY <1>6, <1>7 DEF With
<1>9. \A field \in {"movement", "movementNote", "breakEvenNote", "catchUpNote"} : home[field] = tiles[field]
  BY <1>3, <1>6, <1>7 DEF With
<1>10. HasNotes(home, a)
  BY <1>3, <1>9 DEF HasNotes
<1> QED
  BY <1>1, <1>3, <1>4, <1>6, <1>7, <1>8, <1>9, <1>10 DEF ShowsState

LEMMA ModelShows ==
    ASSUME NEW snapshot, NEW model, model = BuildViewModel(snapshot)
    PROVE  /\ model.clearanceRate = snapshot.stats.disposalRate
           /\ model.clearancePaceAvailable <=> snapshot.stats.filed > 0
BY DEF BuildViewModel

CaptionOver(model, a) ==
    IF ~model.clearancePaceAvailable THEN DescribeClearancePer100(a)
    ELSE IF model.clearanceRate >= 1000 THEN "clearing faster"
    ELSE IF model.clearanceRate >= 900 THEN "nearly keeping pace" ELSE "backlog keeps growing"

LEMMA CaptionOfModel ==
    ASSUME NEW snapshot, NEW model, model = BuildViewModel(snapshot), NEW a, a = StateActivity(snapshot.stats)
    PROVE  ClearanceCaption(snapshot) = CaptionOver(model, a)
BY DEF ClearanceCaption, CaptionOver

LEMMA StateSaysOnePace ==
    ASSUME NEW snapshot, StatesPace(snapshot.stats), NEW home, ShowsState(home, snapshot)
    PROVE  StateAgrees(home, snapshot)
<1>1. PICK a : a = StateActivity(snapshot.stats)
  OBVIOUS
<1>2. PICK stats : stats = snapshot.stats
  OBVIOUS
<1>3. /\ IsActivity(a) /\ a.pending = stats.pending /\ a.filed = stats.filed /\ a.cleared = stats.cleared
      /\ stats.disposalRate = Percentage(a.cleared, a.filed)
  BY <1>1, <1>2, StatsActivity
<1>4. a.pending \in Nat /\ a.filed \in Nat /\ a.cleared \in Nat
  BY <1>3 DEF IsActivity
<1>5. /\ CanComputeClearancePace(a) <=> a.filed > 0
      /\ SourceReportsMissingMonthlyActivity(a) => a.filed = 0
      /\ FormatClearancePer100(a) = NotAvailable <=> a.filed = 0
      /\ a.filed > 0 => FormatClearancePer100(a) = Shown(Percentage(a.cleared, a.filed))
  BY <1>3, RateIffFiled
<1>6. /\ home.pace = FormatClearancePer100(a)
      /\ home.caption = ClearanceCaption(snapshot) /\ home.waitingRoom = ComputeWaitingRoomRates(stats)
      /\ home.movement = FormatBacklogMovementFromMonthlyActivity(a) /\ HasNotes(home, a)
  BY <1>1, <1>2 DEF ShowsState
<1>7. PICK model : /\ model = BuildViewModel(snapshot) /\ model.clearanceRate = stats.disposalRate
                   /\ model.clearancePaceAvailable <=> a.filed > 0
  BY <1>2, <1>3, ModelShows
<1>8. (a.filed > 0 <=> a.filed # 0) /\ (a.filed <= 0 <=> a.filed = 0)
  BY <1>4
<1>9. \A x : Shown(x) # NotAvailable
  BY DEF Shown, NotAvailable
<1>10. home.pace = NotAvailable <=> StateEmbed(snapshot).pace = NotAvailable
  <2>1. StateEmbed(snapshot).pace = IF model.clearancePaceAvailable THEN Shown(model.clearanceRate) ELSE NotAvailable
    BY <1>7 DEF StateEmbed
  <2> QED
    BY <1>5, <1>6, <1>7, <1>8, <1>9, <2>1, Zenon
<1>11. home.caption = CaptionOver(model, a)
  BY <1>1, <1>6, <1>7, CaptionOfModel
<1>12. a.filed = 0 => home.caption \in {"no monthly activity", "no filed count"}
  BY <1>7, <1>8, <1>11, Zenon DEF CaptionOver, DescribeClearancePer100
<1>13. a.filed > 0 => home.caption \in {"clearing faster", "nearly keeping pace", "backlog keeps growing"}
  BY <1>7, <1>11, ZenonT(40) DEF CaptionOver
<1>14. home.caption = "backlog keeps growing" => a.filed > 0 /\ ~(model.clearanceRate >= 1000)
  <2>1. home.caption = "backlog keeps growing" => a.filed # 0
    BY <1>12, Zenon
  <2> QED
    BY <1>7, <1>8, <1>11, <2>1, ZenonT(40) DEF CaptionOver
<1>15. home.pace = NotAvailable <=> home.caption \in {"no monthly activity", "no filed count"}
  <2>1. a.filed > 0 => home.caption \notin {"no monthly activity", "no filed count"}
    BY <1>13, Zenon
  <2> QED
    BY <1>5, <1>6, <1>8, <1>12, <2>1
<1>16. home.pace = NotAvailable <=> HighCourtCards(<<a>>)[1].rate = NotAvailable
  <2>1. HighCourtCards(<<a>>)[1].rate = FormatClearanceRateDisplay(a)
    BY <1>3, OneCourt
  <2>2. FormatClearanceRateDisplay(a) = NotAvailable <=> a.filed = 0
    BY <1>8, <1>9, Zenon DEF FormatClearanceRateDisplay
  <2> QED
    BY <1>5, <1>6, <2>1, <2>2
<1>17. StateCard(snapshot).pace = IF home.pace = NotAvailable THEN Shown(0) ELSE home.pace
  <2>1. StateCard(snapshot).pace = Shown(model.clearanceRate)
    BY <1>7 DEF StateCard
  <2>2. a.filed = 0 => Percentage(a.cleared, a.filed) = 0
    BY DEF Percentage
  <2> QED
    BY <1>3, <1>5, <1>6, <1>7, <1>8, <2>1, <2>2
<1>18. PICK missing \in BOOLEAN : missing = SourceReportsMissingMonthlyActivity(a)
  BY DEF SourceReportsMissingMonthlyActivity
<1>19. PICK share : /\ share = BacklogMovementShare(a) /\ share \in Int
                    /\ share > 0 => a.filed > a.cleared
                    /\ share < 0 => a.filed < a.cleared
  BY <1>3, MovementSigns
<1>20. home.movementNote = IF missing THEN "not computed" ELSE DescribeBacklogMovement(share)
  BY <1>6, <1>18, <1>19, Zenon DEF HasNotes, DescribeBacklogMovementFromMonthlyActivity
<1>21. /\ home.movementNote = "grew" => a.filed > a.cleared
       /\ home.movementNote = "shrank" => a.filed < a.cleared
  <2>1. missing => home.movementNote # "grew" /\ home.movementNote # "shrank"
    BY <1>20, Zenon
  <2>2. ~missing => home.movementNote = IF share > 0 THEN "grew" ELSE IF share < 0 THEN "shrank" ELSE "did not move"
    BY <1>20, Zenon DEF DescribeBacklogMovement
  <2>3. /\ home.movementNote = "grew" => share > 0
        /\ home.movementNote = "shrank" => share < 0
    BY <2>1, <2>2, Zenon
  <2> QED
    BY <1>19, <2>3
<1>22. home.caption = "backlog keeps growing" => home.movementNote # "shrank"
  <2>1. PICK rate : rate = model.clearanceRate /\ rate = Percentage(a.cleared, a.filed)
    BY <1>3, <1>7
  <2>2. ASSUME a.filed > 0, a.filed < a.cleared PROVE rate >= 1000
    <3>1. a.filed \in Nat \ {0} /\ a.cleared \in Int /\ a.cleared >= a.filed
      BY <1>4, <2>2
    <3>2. Tenths(a.cleared, a.filed) >= 1000
      BY <3>1, Signs
    <3> QED
      BY <1>4, <2>1, <2>2, <3>2 DEF Percentage
  <2>3. home.caption = "backlog keeps growing" => a.filed > 0 /\ ~(rate >= 1000)
    BY <1>14, <2>1, ZenonT(40)
  <2> QED
    BY <1>21, <2>2, <2>3, ZenonT(40)
<1>23. home.waitingRoom = NotAvailable <=> home.movement = NotAvailable
  <2>1. home.waitingRoom = IF missing THEN NotAvailable
                           ELSE IF stats.disposalRate <= 1000 \/ stats.pending = 0 THEN Shown("grows") ELSE Shown("shrinks")
    BY <1>1, <1>2, <1>6, <1>18, ZenonT(60) DEF ComputeWaitingRoomRates
  <2>2. home.movement = IF missing THEN NotAvailable ELSE Shown(share)
    BY <1>6, <1>18, <1>19, Zenon DEF FormatBacklogMovementFromMonthlyActivity, UnlessActivityMissing
  <2> QED
    BY <1>9, <2>1, <2>2, ZenonT(40)
<1>24. home.waitingRoom = {"shrinks"} => home.movementNote # "grew"
  <2> SUFFICES ASSUME home.waitingRoom = {"shrinks"}, a.filed > a.cleared PROVE FALSE
    BY <1>21
  <2>1. ~missing /\ ~(stats.disposalRate <= 1000)
    <3>1. Shown("grows") # {"shrinks"} /\ NotAvailable # {"shrinks"}
      BY Zenon DEF Shown, NotAvailable
    <3>2. home.waitingRoom = IF missing THEN NotAvailable
                             ELSE IF stats.disposalRate <= 1000 \/ stats.pending = 0 THEN Shown("grows")
                             ELSE Shown("shrinks")
      BY <1>1, <1>2, <1>6, <1>18, ZenonT(60) DEF ComputeWaitingRoomRates
    <3> QED
      BY <3>1, <3>2, ZenonT(40)
  <2>2. a.filed \in Nat \ {0} /\ a.cleared \in Int /\ a.cleared <= a.filed
    BY <1>4
  <2>3. Tenths(a.cleared, a.filed) <= 1000
    BY <2>2, Signs
  <2>4. stats.disposalRate = Tenths(a.cleared, a.filed)
    BY <1>3, <1>4, <2>2 DEF Percentage
  <2> QED
    BY <2>1, <2>3, <2>4
<1>25. NoSentenceContradicts(home)
  BY <1>3, <1>6, NotesAgree
<1> QED
  BY <1>1, <1>10, <1>15, <1>16, <1>17, <1>22, <1>23, <1>24, <1>25 DEF StateAgrees

-----------------------------------------------------------------------------
(* One pace in every place *)

LEMMA ActiveIsPublished ==
    ASSUME TablesInv, NEW g \in Live
    PROVE  \E s \in 1 .. Len(snapshots) : Active(g) = snapshots[s]
<1>1. events \in Seq(1 .. Len(snapshots)) /\ Len(snapshots) \in Nat
  BY LenProperties DEF TablesInv
<1>2. PICK own : own = OfGeography(g, events)
  OBVIOUS
<1>3. own \in SUBSET (1 .. Len(events)) /\ Len(events) \in Nat
  BY <1>1, <1>2, LenProperties DEF OfGeography
<1>4. own \in SUBSET Nat /\ IsFiniteSet(own)
  <2>1. 1 \in Int /\ Len(events) \in Int
    BY <1>3
  <2>2. IsFiniteSet(1 .. Len(events))
    BY <2>1, FS_Interval
  <2>3. IsFiniteSet(own)
    BY <1>3, <2>2, FS_Subset
  <2> QED
    BY <1>3, <2>3
<1>5. own # {} /\ GetPublishedSnapshot(g) = {events[Max(own)]}
  BY <1>2 DEF Live, GetPublishedSnapshot, None
<1>6. Max(own) \in own
  BY <1>4, <1>5, Extremes
<1>7. PICK s : s = events[Max(own)] /\ s \in 1 .. Len(snapshots)
  BY <1>1, <1>3, <1>6, ElementOfSeq
<1>8. (CHOOSE t \in GetPublishedSnapshot(g) : TRUE) = s
  BY <1>5, <1>7
<1> QED
  BY <1>7, <1>8 DEF Active

LEMMA RowsAgree ==
    ASSUME TablesInv, BuiltInv, NEW s \in 1 .. Len(snapshots), NEW snapshot, snapshot = snapshots[s],
           NEW g, NEW table, table = DistrictsPage(snapshot, AllDistricts).rows, NEW i \in DOMAIN table
    PROVE  RowAgrees(snapshot, History(g), ListMovers(g), table, i)
<1>1. PICK n \in Nat : HasDistricts(s, n)
  BY SnapshotDistricts
<1>2. Distinct(snapshot.districts, n) /\ DOMAIN snapshot.districts = 1 .. n
  BY <1>1 DEF HasDistricts, Distinct
<1>3. \A id : Finds(snapshot, n, id)
  BY <1>2, FoundDistrict
<1>4. \A k \in 1 .. n : TellsPace(snapshot.districts[k])
  BY <1>2, SnapshotsTellPace
<1>5. PICK options : options = AllDistricts /\ options.view = "all" /\ options.sort = "rank" /\ options.matches = DistrictIds
  <2>1. PICK ids : ids = DistrictIds
    OBVIOUS
  <2>2. PICK options : options = [view |-> "all", sort |-> "rank", matches |-> ids]
    OBVIOUS
  <2>3. options = AllDistricts
    BY <2>1, <2>2 DEF AllDistricts
  <2> QED
    BY <2>1, <2>2, <2>3
<1>6. PICK places : places = {k \in 1 .. n : options.view = "all" \/ k <= snapshots[s].flagged}
  OBVIOUS
<1>7. PICK rows : rows = table /\ \E c \in Nat : ListsRows(rows, snapshot.districts, places, c)
  <2>1. \E c \in Nat : ListsRows(DistrictsPage(snapshots[s], options).rows, snapshots[s].districts, places, c)
    BY <1>1, <1>5, <1>6, WorkspaceRows
  <2> QED
    BY <1>5, <2>1
<1>8. \A j \in DOMAIN table : \E k \in 1 .. n : table[j] = TableRow(snapshot.districts[k])
  BY <1>6, <1>7 DEF ListsRows
<1>9. ASSUME NEW j \in DOMAIN table
      PROVE  \E e : /\ e = DistrictIn(snapshot, table[j].id)[1] /\ e.id = table[j].id
                    /\ TellsPace(e) /\ ShowsDistrict(table[j], e)
                    /\ \A k \in 1 .. n : snapshot.districts[k].id = e.id => snapshot.districts[k] = e
  <2>1. PICK k \in 1 .. n : table[j] = TableRow(snapshot.districts[k])
    BY <1>8
  <2>2. PICK e : e = snapshot.districts[k] /\ TellsPace(e)
    BY <1>4
  <2>3. ShowsDistrict(table[j], e)
    BY <2>1, <2>2, RowShowsDistrict
  <2>4. e.id = table[j].id
    BY <2>3 DEF ShowsDistrict
  <2>5. e = DistrictIn(snapshot, table[j].id)[1]
    BY <1>3, <2>2, <2>4 DEF Finds
  <2>6. \A h \in 1 .. n : snapshot.districts[h].id = e.id => h = k
    BY <1>2, <2>2 DEF Distinct
  <2>7. \A h \in 1 .. n : snapshot.districts[h].id = e.id => snapshot.districts[h] = e
    BY <2>2, <2>6
  <2> QED
    BY <2>2, <2>3, <2>4, <2>5, <2>7, Zenon
<1>10. PICK d : /\ d = DistrictIn(snapshot, table[i].id)[1] /\ d.id = table[i].id
                /\ TellsPace(d) /\ ShowsDistrict(table[i], d)
                /\ \A k \in 1 .. n : snapshot.districts[k].id = d.id => snapshot.districts[k] = d
  BY <1>9
<1>11. d = DistrictIn(snapshot, d.id)[1]
  BY <1>10
<1>12. PICK page : page = DistrictPage(snapshot, d.id, DistrictHistory(History(g), d.id))
  OBVIOUS
<1>13. AgreesOnPace(table[i], page, d)
  <2>1. TellsOf(page, d)
    BY <1>11, <1>12, PageTells
  <2> QED
    BY <1>10, <2>1, DistrictSaysOnePace
<1>14. ASSUME NEW j \in DOMAIN table
       PROVE  ComparePage(snapshot, d.id, table[j].id).clearanceDiff = NotAvailable
              <=> table[i].pace = NotAvailable \/ table[j].pace = NotAvailable
  <2>1. PICK e : e = DistrictIn(snapshot, table[j].id)[1] /\ TellsPace(e) /\ ShowsDistrict(table[j], e)
    BY <1>9
  <2>2. PICK row, second, other : row = table[i] /\ second = table[j] /\ other = table[j].id
    OBVIOUS
  <2>3. TellsPace(d) /\ TellsPace(e) /\ ShowsDistrict(row, d) /\ ShowsDistrict(second, e)
    BY <1>10, <2>1, <2>2
  <2>4. PICK id : id = d.id
    OBVIOUS
  <2>5. d = DistrictIn(snapshot, id)[1] /\ e = DistrictIn(snapshot, other)[1]
    BY <1>11, <2>1, <2>2, <2>4
  <2>6. ComparePage(snapshot, id, other).clearanceDiff = NotAvailable
        <=> row.pace = NotAvailable \/ second.pace = NotAvailable
    BY ONLY <2>3, <2>5, ComparisonsAgree
  <2> QED
    BY <2>2, <2>4, <2>6
<1>15. ASSUME NEW m \in ListMovers(g), NEW j \in DOMAIN m, m[j].id = d.id, snapshot = History(g)[Len(History(g))]
       PROVE  MoversTable(m)[j].pace = table[i].pace
  <2>1. PICK previous : m = Movers(snapshot, previous)
    BY <1>15 DEF ListMovers, None
  <2>2. PICK k \in 1 .. n : /\ m[j].id = snapshot.districts[k].id
                            /\ MoversTable(m)[j].pace = FormatClearancePer100(MonthlyActivity(snapshot.districts[k]))
    BY <1>2, <2>1, MoversHaveMonths
  <2>3. snapshot.districts[k] = d
    BY <1>10, <1>15, <2>2
  <2>4. table[i].pace = FormatClearancePer100(MonthlyActivity(d))
    BY <1>10 DEF ShowsDistrict
  <2> QED
    BY <2>2, <2>3, <2>4
<1> QED
  BY <1>10, <1>12, <1>13, <1>14, <1>15, Zenon DEF RowAgrees

LEMMA FeedAgrees ==
    ASSUME NEW publications, NEW snapshot, NEW item \in ToSet(RssFeed(publications, snapshot))
    PROVE  item.pace = FormatClearancePer100(StateActivity(snapshot.stats))
<1>1. PICK i \in DOMAIN RssFeed(publications, snapshot) : item = RssFeed(publications, snapshot)[i]
  BY DEF ToSet
<1> QED
  BY <1>1 DEF RssFeed

LEMMA ReportsInvImpliesPace == ReportsInv => PaceIsShownOrNotEverywhere
<1> SUFFICES ASSUME ReportsInv, NEW g \in Live
             PROVE  LET snapshot == Active(g)
                        table == DistrictsPage(snapshot, AllDistricts).rows
                        home == HomePage(snapshot)
                    IN  /\ \A i \in DOMAIN table : RowAgrees(snapshot, History(g), ListMovers(g), table, i)
                        /\ StateAgrees(home, snapshot)
                        /\ \A item \in ToSet(RssFeed(Reverse(Filtered(events, OfGeography(g, events))), snapshot)) : item.pace = home.pace
                        /\ StateExport(snapshot).comparison = DistrictsPage(snapshot, AllDistricts).comparison
  BY Zenon DEF PaceIsShownOrNotEverywhere
<1> DEFINE snapshot == Active(g)
           table == DistrictsPage(snapshot, AllDistricts).rows
           home == HomePage(snapshot)
           publications == Reverse(Filtered(events, OfGeography(g, events)))
<1>1. TablesInv /\ BuiltInv
  BY DEF ReportsInv
<1>2. PICK s \in 1 .. Len(snapshots) : snapshot = snapshots[s]
  BY <1>1, ActiveIsPublished
<1>3. ShowsState(home, snapshot)
  BY HomeShowsState
<1> HIDE DEF snapshot, home
<1>4. table = DistrictsPage(snapshot, AllDistricts).rows
  OBVIOUS
<1> HIDE DEF table, publications
<1>5. \A i \in DOMAIN table : RowAgrees(snapshot, History(g), ListMovers(g), table, i)
  BY <1>1, <1>2, <1>4, RowsAgree
<1>6. StateAgrees(home, snapshot)
  BY <1>1, <1>2, <1>3, SnapshotsTellPace, StateSaysOnePace
<1>7. \A item \in ToSet(RssFeed(publications, snapshot)) : item.pace = home.pace
  BY <1>3, FeedAgrees DEF ShowsState
<1>8. StateExport(snapshot).comparison = DistrictsPage(snapshot, AllDistricts).comparison
  BY DEF StateExport, DistrictsPage
<1> QED
  BY <1>5, <1>6, <1>7, <1>8, Zenon DEF snapshot, table, home, publications

-----------------------------------------------------------------------------
(* The figures that the watchrooms compare *)

LEMMA AgesCount ==
    ASSUME NEW ages \in [Buckets -> Nat]
    PROVE  /\ ThreePlus(ages) \in Nat /\ FivePlus(ages) \in Nat /\ TenPlus(ages) \in Nat /\ Total(ages) \in Nat
           /\ InferMedianAgeDays(ages) \in Nat
<1>1. ages[1] \in Nat /\ ages[2] \in Nat /\ ages[3] \in Nat /\ ages[4] \in Nat /\ ages[5] \in Nat
  BY DEF Buckets
<1>2. TenPlus(ages) \in Nat /\ FivePlus(ages) \in Nat /\ ThreePlus(ages) \in Nat
  BY <1>1 DEF TenPlus, FivePlus, ThreePlus
<1>3. Total(ages) \in Nat
  BY <1>1, <1>2 DEF Total
<1>4. CASE Total(ages) <= 0
  BY <1>2, <1>3, <1>4 DEF InferMedianAgeDays
<1>5. CASE Total(ages) > 0
  <2>1. PICK reached : reached = <<ages[1], ages[1] + ages[2], Total(ages) - FivePlus(ages),
                                   Total(ages) - TenPlus(ages), Total(ages)>>
    OBVIOUS
  <2>2. PICK half : half = {b \in Buckets : 2 * reached[b] >= Total(ages)}
    OBVIOUS
  <2>3. half \in SUBSET Nat /\ half \subseteq 1 .. 5
    BY <2>2 DEF Buckets
  <2>4. 5 \in half
    <3>1. reached[5] = Total(ages)
      BY <2>1
    <3> QED
      BY <1>3, <2>2, <3>1 DEF Buckets
  <2>5. IsFiniteSet(half)
    BY <2>3, FS_Interval, FS_Subset, 1 \in Int, 5 \in Int
  <2>6. Min(half) \in half
    BY <2>3, <2>4, <2>5, Extremes
  <2>7. InferMedianAgeDays(ages) = MedianDaysOfBucket[Min(half)]
    BY <1>3, <1>5, <2>1, <2>2 DEF InferMedianAgeDays
  <2>8. PICK b \in 1 .. 5 : b = Min(half)
    BY <2>3, <2>6
  <2>9. MedianDaysOfBucket[b] \in Nat
    BY DEF MedianDaysOfBucket
  <2> QED
    BY <1>2, <1>3, <2>7, <2>8, <2>9
<1> QED
  BY <1>2, <1>3, <1>4, <1>5

\* A metric of the state has a value with two figures or is missing.
Figures(metric, first, second) ==
    /\ metric.state \in {"ok", "missing"}
    /\ metric.state = "ok" => metric.value[first] \in Int /\ metric.value[second] \in Int

LEMMA MetricStates ==
    /\ \A value : Ok(value).state = "ok" /\ Ok(value).value = value
    /\ \A reason : Missing(reason).state = "missing"
BY DEF Ok, Missing

LEMMA OldCaseFigures ==
    ASSUME NEW row \in Row
    PROVE  Figures(OldCaseBurdenMetric(row), "threePlusShare", "threePlus")
<1>1. row.ages \in [Buckets -> Nat]
  BY DEF Row
<1>2. ThreePlus(row.ages) \in Nat /\ Total(row.ages) \in Nat
  BY <1>1, AgesCount
<1>3. PICK burden : burden = OldCaseBurden(row.ages)
  OBVIOUS
<1>4. burden.threePlus = ThreePlus(row.ages) /\ burden.threePlusShare = Percentage(ThreePlus(row.ages), Total(row.ages))
  BY <1>3 DEF OldCaseBurden
<1>5. burden["threePlus"] \in Int /\ burden["threePlusShare"] \in Int
  BY <1>2, <1>4, PercentageType
<1>6. OldCaseBurdenMetric(row) = Ok(burden) \/ \E reason : OldCaseBurdenMetric(row) = Missing(reason)
  BY <1>3 DEF OldCaseBurdenMetric
<1>7. CASE OldCaseBurdenMetric(row) = Ok(burden)
  BY <1>5, <1>7, MetricStates DEF Figures
<1>8. CASE \E reason : OldCaseBurdenMetric(row) = Missing(reason)
  BY <1>8, MetricStates DEF Figures
<1> QED
  BY <1>6, <1>7, <1>8

LEMMA SumTopType ==
    ASSUME NEW n \in Nat, NEW backlogs, DOMAIN backlogs = 1 .. n, \A i \in 1 .. n : backlogs[i] \in Nat, NEW limit \in Nat
    PROVE  SumTop(backlogs, limit) \in Nat
<1>1. PICK precedes : precedes = {p \in (1 .. n) \X (1 .. n) : backlogs[p[1]] > backlogs[p[2]]}
  OBVIOUS
<1>2. WeaklyOrders(precedes, 1 .. n)
  <2>1. \A i \in 1 .. n : backlogs[i] \in Int
    OBVIOUS
  <2> QED
    BY <1>1, <2>1, FigureOrders DEF ByFigure
<1>3. PICK sorted : sorted = StableSort(backlogs, LAMBDA x, y : x > y)
  OBVIOUS
<1>4. sorted = Arranged(backlogs, precedes)
  BY <1>1, <1>3 DEF StableSort
<1>5. PICK order : Arranges(sorted, backlogs, precedes, n, order)
  BY <1>2, <1>4, Arrangement
<1>6. DOMAIN sorted = 1 .. n /\ \A i \in 1 .. n : sorted[i] \in Nat
  BY <1>5 DEF Arranges
<1>7. Len(sorted) = n
  BY <1>6, LenProperties
<1>8. PICK top : top = 1 .. Min({limit, n})
  OBVIOUS
<1>9. top \subseteq 1 .. n /\ IsFiniteSet(top)
  <2>1. {limit, n} \in SUBSET Nat /\ IsFiniteSet({limit, n}) /\ {limit, n} # {}
    <3>1. IsFiniteSet({limit}) /\ {limit, n} = {limit} \cup {n}
      BY FS_Singleton
    <3> QED
      BY <3>1, FS_AddElement
  <2>2. Min({limit, n}) \in {limit, n} /\ Min({limit, n}) <= n
    BY <2>1, Extremes
  <2>3. PICK least \in Nat : least = Min({limit, n}) /\ least <= n
    BY <2>2
  <2> QED
    BY <1>8, <2>3, FS_Interval, 1 \in Int
<1>10. PICK units : units = {{i} \X (1 .. sorted[i]) : i \in top}
  OBVIOUS
<1>11. IsFiniteSet(units)
  <2>1. PICK unitsOf : unitsOf = [i \in top |-> {i} \X (1 .. sorted[i])]
    OBVIOUS
  <2>2. unitsOf \in Surjection(top, units)
    BY <1>10, <2>1 DEF Surjection
  <2> QED
    BY <1>9, <2>2, FS_Surjection
<1>12. ASSUME NEW u \in units PROVE IsFiniteSet(u)
  <2>1. PICK i \in top : u = {i} \X (1 .. sorted[i])
    BY <1>10
  <2>2. PICK size \in Nat : size = sorted[i]
    BY <1>6, <1>9
  <2>3. IsFiniteSet({i}) /\ IsFiniteSet(1 .. size)
    <3>1. IsFiniteSet({i})
      BY FS_Singleton
    <3>2. IsFiniteSet(1 .. size)
      BY FS_Interval, 1 \in Int
    <3> QED
      BY <3>1, <3>2
  <2> QED
    BY <2>1, <2>2, <2>3, FS_Product
<1>13. IsFiniteSet(UNION units)
  BY <1>11, <1>12, FS_UNION
<1>14. Cardinality(UNION units) \in Nat
  BY <1>13, FS_CardinalityType
<1>15. SumTop(backlogs, limit) = Cardinality(UNION units)
  BY <1>3, <1>7, <1>8, <1>10 DEF SumTop
<1> QED
  BY <1>14, <1>15

LEMMA ConcentrationFigures ==
    ASSUME NEW n \in Nat, NEW backlogs, DOMAIN backlogs = 1 .. n, \A i \in 1 .. n : backlogs[i] \in Nat, NEW pending \in Nat
    PROVE  Figures(BacklogConcentrationMetric(backlogs, pending), "topFewShare", "topManyShare")
<1>1. TopFew \in Nat /\ TopMany \in Nat
  BY ReportAssumption
<1>2. PICK few, many : few = Percentage(SumTop(backlogs, TopFew), pending) /\ many = Percentage(SumTop(backlogs, TopMany), pending)
  OBVIOUS
<1>3. few \in Int /\ many \in Int
  <2>1. SumTop(backlogs, TopFew) \in Nat /\ SumTop(backlogs, TopMany) \in Nat
    BY <1>1, SumTopType
  <2> QED
    BY <1>2, <2>1, PercentageType
<1>4. PICK shares : shares = [topFewShare |-> few, topManyShare |-> many]
  OBVIOUS
<1>5. shares["topFewShare"] \in Int /\ shares["topManyShare"] \in Int
  BY <1>3, <1>4
<1>6. PICK metric : metric = BacklogConcentrationMetric(backlogs, pending)
  OBVIOUS
<1>7. metric = Ok(shares) \/ \E reason : metric = Missing(reason)
  BY <1>2, <1>4, <1>6, Zenon DEF BacklogConcentrationMetric
<1>8. CASE metric = Ok(shares)
  BY <1>5, <1>6, <1>8, MetricStates DEF Figures
<1>9. CASE \E reason : metric = Missing(reason)
  BY <1>6, <1>9, MetricStates DEF Figures
<1> QED
  BY <1>7, <1>8, <1>9

\* What the watchrooms compare of a snapshot is numbers.
IsFigured(snapshot) ==
    /\ snapshot.stats.pending \in Nat /\ snapshot.stats.medianAge \in Nat /\ snapshot.stats.disposalRate \in Int
    /\ snapshot.flagged \in Nat
    /\ Figures(snapshot.stats.oldCaseBurden, "threePlusShare", "threePlus")
    /\ Figures(snapshot.stats.concentration, "topFewShare", "topManyShare")
HasSignals(districts, n) ==
    /\ DOMAIN districts = 1 .. n
    /\ \A k \in 1 .. n :
         /\ districts[k].backlog \in Nat /\ districts[k].id \in Nat
         /\ districts[k].persistence.flaggedInLastSix \in Nat
         /\ districts[k].persistence.lastSixWindow \in Nat

LEMMA SignalType ==
    ASSUME NEW id, NEW rank, NEW previous, Flags(id, rank, previous) \in Seq(BOOLEAN)
    PROVE  /\ WatchlistPersistence(id, rank, previous).flaggedInLastSix \in Nat
           /\ WatchlistPersistence(id, rank, previous).lastSixWindow \in Nat
<1>1. PICK flags \in Seq(BOOLEAN) : flags = Flags(id, rank, previous)
  OBVIOUS
<1>2. LongWindow \in Nat \ {0}
  BY ReportAssumption
<1>3. PICK newest : newest = Newest(flags, LongWindow)
  OBVIOUS
<1>4. newest \in Seq(BOOLEAN)
  BY <1>1, <1>2, <1>3, NewestEntries DEF Follows
<1>5. PICK n \in Nat : n = Len(newest) /\ DOMAIN newest = 1 .. n
  BY <1>4, LenProperties
<1>6. PICK places : places = {i \in 1 .. n : newest[i]}
  OBVIOUS
<1>7. PICK m \in Nat : \E order : Keeps(Filtered(newest, places), newest, places, m, order)
  BY <1>6, Filters
<1>8. DOMAIN Filtered(newest, places) = 1 .. m
  BY <1>7 DEF Keeps
<1>9. Len(Filtered(newest, places)) = m
  BY <1>8, LenProperties
<1>10. Count(newest) = m
  BY <1>5, <1>6, <1>9 DEF Count, Where
<1>11. PICK few, few6, some, some6 : WatchlistPersistence(id, rank, previous) =
         [flaggedInLastThree |-> few, lastThreeWindow |-> few6, flaggedInLastSix |-> Count(newest), lastSixWindow |-> Len(newest)]
  BY <1>1, <1>3 DEF WatchlistPersistence
<1> QED
  BY <1>5, <1>10, <1>11

LEMMA SnapshotsAreFigured ==
    ASSUME TablesInv, BuiltInv, NEW s \in 1 .. Len(snapshots)
    PROVE  /\ IsFigured(snapshots[s])
           /\ \E n \in Nat : HasSignals(snapshots[s].districts, n)
<1>1. PICK c : c = snapshots[s] /\ IsBuilt(c)
  BY DEF BuiltInv
<1>2. PICK previous : previous = LoadHistoricalSnapshots(c.geography, SubSeq(events, 1, c.capturedAfter))
  OBVIOUS
<1>3. PICK x \in Extracts[c.geography] : BuiltFrom(c, x, previous)
  BY <1>1, <1>2 DEF IsBuilt
<1>4. x \in Extract
  BY <1>1, <1>3, ExtractsAssumption DEF IsBuilt
<1>5. PICK state : c.districts = Districts(x, state, previous)
  BY <1>3 DEF BuiltFrom, BuildSnapshotCandidate
<1>6. PICK n \in Nat : \E order : ListsDistricts(c.districts, x, n, order, state, previous)
  BY <1>4, <1>5, DistrictsAreListed
<1>7. PICK order : ListsDistricts(c.districts, x, n, order, state, previous)
  BY <1>6
<1>8. /\ DOMAIN c.districts = 1 .. n /\ n = Len(x.districts) /\ order \in [1 .. n -> 1 .. n]
      /\ \A k \in 1 .. n : DistrictOf(c.districts[k], x.districts[order[k]], k, state, previous)
  BY <1>7 DEF ListsDistricts
<1>9. DOMAIN x.districts = 1 .. n /\ \A i \in 1 .. n : x.districts[i] \in [id : Nat, row : Row]
  <2>1. x.districts \in Seq([id : Nat, row : Row])
    BY <1>4 DEF Extract
  <2> QED
    BY <1>8, <2>1, LenProperties, ElementOfSeq
<1>10. PICK row \in Row : row = x.state
  BY <1>4 DEF Extract
<1>11. IsFigured(c)
  <2>1. PICK backlogs : backlogs = [i \in DOMAIN x.districts |-> x.districts[i].row.pending]
    OBVIOUS
  <2>2. /\ c.stats.pending = row.pending /\ c.stats.disposalRate = Percentage(row.cleared, row.filed)
        /\ c.stats.medianAge = InferMedianAgeDays(row.ages) /\ c.stats.oldCaseBurden = OldCaseBurdenMetric(row)
        /\ c.stats.concentration = BacklogConcentrationMetric(backlogs, row.pending)
    BY <1>3, <1>10, <2>1 DEF BuiltFrom, BuildSnapshotCandidate
  <2>3. row.pending \in Nat /\ row.filed \in Nat /\ row.cleared \in Nat /\ row.ages \in [Buckets -> Nat]
    BY DEF Row
  <2>4. Percentage(row.cleared, row.filed) \in Int /\ InferMedianAgeDays(row.ages) \in Nat
    BY <2>3, PercentageType, AgesCount
  <2>5. DOMAIN backlogs = 1 .. n /\ \A i \in 1 .. n : backlogs[i] \in Nat
    BY <1>9, <2>1 DEF Row
  <2>6. Figures(BacklogConcentrationMetric(backlogs, row.pending), "topFewShare", "topManyShare")
    BY <2>3, <2>5, ConcentrationFigures
  <2>7. Figures(OldCaseBurdenMetric(row), "threePlusShare", "threePlus")
    BY OldCaseFigures
  <2>8. c.flagged \in Nat
    <3>1. c.flagged = Min({DistrictFlagLimit, n})
      BY <1>3, <1>8 DEF BuiltFrom, BuildSnapshotCandidate
    <3>2. DistrictFlagLimit \in Nat
      BY ReportAssumption
    <3>3. IsFiniteSet({DistrictFlagLimit}) /\ {DistrictFlagLimit, n} = {DistrictFlagLimit} \cup {n}
      BY FS_Singleton
    <3>4. IsFiniteSet({DistrictFlagLimit, n})
      BY <3>3, FS_AddElement
    <3>5. Min({DistrictFlagLimit, n}) \in {DistrictFlagLimit, n}
      BY <3>2, <3>4, Extremes
    <3> QED
      BY <3>1, <3>2, <3>5
  <2> QED
    BY <2>2, <2>3, <2>4, <2>6, <2>7, <2>8 DEF IsFigured
<1>12. PICK size \in Nat : HasDistricts(s, size)
  BY SnapshotDistricts
<1>13. size = n
  BY <1>1, <1>8, <1>12 DEF HasDistricts, Distinct
<1>14. ASSUME NEW k \in 1 .. n
       PROVE  /\ c.districts[k].backlog \in Nat /\ c.districts[k].id \in Nat
              /\ c.districts[k].persistence.flaggedInLastSix \in Nat
              /\ c.districts[k].persistence.lastSixWindow \in Nat
  <2>1. PICK entry \in [id : Nat, row : Row] : entry = x.districts[order[k]]
    BY <1>8, <1>9
  <2>2. PICK f : f = DistrictFigures(entry.id, entry.row)
    OBVIOUS
  <2>3. DOMAIN f = FigureFields /\ f.id = entry.id /\ f.backlog = entry.row.pending
    BY <2>2, FiguresOfRow
  <2>4. PICK d : d = c.districts[k] /\ DistrictOf(d, entry, k, state, previous)
    BY <1>8, <2>1
  <2>5. d.id = f.id /\ d.backlog = f.backlog /\ d.persistence = WatchlistPersistence(entry.id, k, previous)
    BY <2>2, <2>3, <2>4 DEF DistrictOf, FigureFields
  <2>6. d.id \in Nat /\ d.backlog \in Nat
    BY <2>3, <2>5 DEF Row
  <2>7. previous = LoadHistoricalSnapshots(c.geography, Previous(s))
    BY <1>1, <1>2 DEF Previous
  <2>8. Flags(d.id, k, previous) \in Seq(BOOLEAN)
    BY <1>1, <1>12, <1>13, <2>4, <2>7, FlagsMarkTheWatched DEF Marks
  <2>9. d.persistence = WatchlistPersistence(d.id, k, previous)
    BY <2>3, <2>5
  <2> QED
    BY <2>4, <2>6, <2>8, <2>9, SignalType
<1>15. HasSignals(c.districts, n)
  BY <1>8, <1>14 DEF HasSignals
<1> QED
  BY <1>1, <1>11, <1>15

\* The first entries of a list: some, when there are any.
Starts(short, list, m, c) ==
    /\ short = [k \in 1 .. c |-> list[k]]
    /\ c > 0 <=> m > 0
    /\ short # <<>> <=> m > 0
    /\ m > 0 => short[1] = list[1]

LEMMA FirstRows ==
    ASSUME NEW m \in Nat, NEW list, list = [k \in 1 .. m |-> list[k]], NEW limit \in Nat \ {0}
    PROVE  \E c \in 0 .. m : Starts(UpTo(list, limit), list, m, c)
<1>1. Len(list) = m
  BY WholeList
<1>2. PICK c \in Nat : c = Min({limit, m}) /\ c <= m /\ (c > 0 <=> m > 0)
  <2>1. {limit, m} = {limit} \cup {m}
    OBVIOUS
  <2>2. IsFiniteSet({limit, m})
    <3>1. IsFiniteSet({limit})
      BY FS_Singleton
    <3>2. IsFiniteSet({limit} \cup {m})
      BY <3>1, FS_AddElement
    <3> QED
      BY <2>1, <3>2
  <2>3. Min({limit, m}) \in {limit, m} /\ Min({limit, m}) <= m
    BY <2>2, Extremes
  <2> QED
    BY <2>3
<1>3. PICK short : short = UpTo(list, limit)
  OBVIOUS
<1>4. short = SubSeq(list, 1, c)
  BY <1>1, <1>2, <1>3 DEF UpTo
<1>5. PICK T : \A i \in 1 .. m : list[i] \in T
  <2>1. \A i \in 1 .. m : list[i] \in {list[k] : k \in 1 .. m}
    OBVIOUS
  <2> QED
    BY <2>1
<1>6. /\ short \in Seq(T) /\ Len(short) = IF 1 <= c THEN c - 1 + 1 ELSE 0
      /\ \A i \in 1 .. c - 1 + 1 : short[i] = list[1 + i - 1]
  <2>1. 1 \in Int /\ c \in Int /\ \A i \in 1 .. c : list[i] \in T
    BY <1>2, <1>5
  <2> QED
    BY <1>4, <2>1, SubSeqProperties
<1>7. DOMAIN short = 1 .. c /\ Len(short) = c /\ \A i \in 1 .. c : short[i] = list[i]
  <2>1. (IF 1 <= c THEN c - 1 + 1 ELSE 0) = c /\ c - 1 + 1 = c /\ \A i \in 1 .. c : 1 + i - 1 = i
    OBVIOUS
  <2>2. Len(short) = c /\ \A i \in 1 .. c : short[i] = list[i]
    BY <1>6, <2>1
  <2> QED
    BY <1>6, <2>2, LenProperties
<1>8. short = [k \in 1 .. c |-> list[k]]
  <2>1. short \in [1 .. c -> T]
    BY <1>6, <1>7, LenProperties
  <2> QED
    BY <1>7, <2>1
<1>9. short # <<>> <=> c > 0
  BY <1>6, <1>7
<1>10. c > 0 => short[1] = list[1]
  BY <1>7
<1>11. c \in 0 .. m
  BY <1>2
<1>12. Starts(short, list, m, c)
  BY <1>2, <1>8, <1>9, <1>10, Zenon DEF Starts
<1> QED
  BY <1>3, <1>11, <1>12

LEMMA TwoFigures ==
    ASSUME NEW a, NEW b, NEW c, NEW d
    PROVE  LargerFiguresFirst(<<a, b>>, <<c, d>>) <=> a > c \/ (a = c /\ b > d)
<1>1. PICK x, y : x = <<a, b>> /\ y = <<c, d>>
  OBVIOUS
<1>2. x[1] = a /\ x[2] = b /\ y[1] = c /\ y[2] = d /\ DOMAIN x = 1 .. 2
  BY <1>1
<1>3. (\A j \in 1 .. 1 - 1 : x[j] = y[j]) /\ ((\A j \in 1 .. 2 - 1 : x[j] = y[j]) <=> x[1] = y[1])
  OBVIOUS
<1>4. LargerFiguresFirst(x, y) <=> x[1] > y[1] \/ (x[1] = y[1] /\ x[2] > y[2])
  BY <1>2, <1>3 DEF LargerFiguresFirst
<1> QED
  BY <1>1, <1>2, <1>4

\* A sort by two figures, larger first: what comes first has the largest first figure.
ByTwo(first, second, n) ==
    {p \in (1 .. n) \X (1 .. n) :
        first[p[1]] > first[p[2]] \/ (first[p[1]] = first[p[2]] /\ second[p[1]] > second[p[2]])}

LEMMA TwoOrders ==
    ASSUME NEW n \in Nat, NEW first, NEW second, \A i \in 1 .. n : first[i] \in Int /\ second[i] \in Int
    PROVE  /\ WeaklyOrders(ByTwo(first, second, n), 1 .. n)
           /\ \A j, k \in 1 .. n : <<j, k>> \notin ByTwo(first, second, n) => first[j] <= first[k]
<1>1. PICK places : places = 1 .. n
  OBVIOUS
<1>2. WeaklyOrders(ByFigure(first, places), places) /\ WeaklyOrders(ByFigure(second, places), places)
  BY <1>1, FigureOrders
<1>3. WeaklyOrders(Then(ByFigure(first, places), ByFigure(second, places), places), places)
  BY <1>2, ThenOrders
<1>4. ByTwo(first, second, n) = Then(ByFigure(first, places), ByFigure(second, places), places)
  <2>1. \A i, j \in places : <<i, j>> \in ByTwo(first, second, n) <=> <<i, j>> \in Then(ByFigure(first, places), ByFigure(second, places), places)
    BY <1>1 DEF ByTwo, Then, ByFigure
  <2>2. /\ ByTwo(first, second, n) \subseteq places \X places
        /\ Then(ByFigure(first, places), ByFigure(second, places), places) \subseteq places \X places
    BY <1>1 DEF ByTwo, Then
  <2> QED
    BY <2>1, <2>2
<1>5. \A j, k \in 1 .. n : <<j, k>> \notin ByTwo(first, second, n) => first[j] <= first[k]
  BY DEF ByTwo
<1> QED
  BY <1>1, <1>3, <1>4, <1>5

\* The list of the entries with something published: one of each geography.
ListsEntries(entries, n) ==
    /\ DOMAIN entries = 1 .. n
    /\ \A i \in 1 .. n : /\ IsFigured(entries[i].snapshot)
                         /\ \E m \in Nat : HasSignals(entries[i].snapshot.districts, m)
    /\ \A i, j \in 1 .. n : entries[i].geography = entries[j].geography => i = j

\* The entries with a metric.
ListsMetric(list, entries, n, metric, m) ==
    /\ DOMAIN list = 1 .. m
    /\ \A i \in 1 .. m : \E j \in 1 .. n : list[i] = entries[j] /\ entries[j].snapshot.stats[metric].state = "ok"
    /\ \A j \in 1 .. n : entries[j].snapshot.stats[metric].state = "ok" => \E i \in 1 .. m : list[i] = entries[j]

LEMMA MetricEntries ==
    ASSUME NEW n \in Nat, NEW entries, ListsEntries(entries, n), NEW metric
    PROVE  \E m \in Nat : ListsMetric(WithMetric(entries, metric), entries, n, metric, m)
<1>1. DOMAIN entries = 1 .. n
  BY DEF ListsEntries
<1>2. PICK places : places = {i \in 1 .. n : entries[i].snapshot.stats[metric].state = "ok"}
  OBVIOUS
<1>3. PICK m \in Nat : \E order : Keeps(Filtered(entries, places), entries, places, m, order)
  BY <1>2, Filters
<1>4. PICK order : Keeps(Filtered(entries, places), entries, places, m, order)
  BY <1>3
<1>5. PICK list : list = Filtered(entries, places)
  OBVIOUS
<1>6. /\ order \in [1 .. m -> places] /\ list = [k \in 1 .. m |-> entries[order[k]]]
      /\ \A i \in places : \E k \in 1 .. m : order[k] = i
  BY <1>4, <1>5 DEF Keeps
<1>7. ListsMetric(list, entries, n, metric, m)
  BY <1>2, <1>6 DEF ListsMetric
<1>8. WithMetric(entries, metric) = list
  BY <1>1, <1>2, <1>5 DEF WithMetric, Where
<1> QED
  BY <1>7, <1>8

-----------------------------------------------------------------------------
(* The old-case watchroom *)

LEMMA NotEmpty ==
    ASSUME NEW m \in Nat, NEW rows, rows = [k \in 1 .. m |-> rows[k]]
    PROVE  rows # <<>> <=> m > 0
<1>1. CASE m > 0
  <2>1. 1 \in DOMAIN rows
    BY <1>1
  <2> QED
    BY <1>1, <2>1
<1>2. CASE m = 0
  <2>1. rows = [k \in 1 .. 0 |-> rows[k]]
    BY <1>2
  <2>2. rows = [k \in {} |-> rows[k]]
    BY <2>1
  <2> QED
    BY <1>2, <2>2
<1> QED
  BY <1>1, <1>2

\* Every geography is in a ranking or is said to be missing.
LEMMA RankedOrMissing ==
    ASSUME NEW n \in Nat, NEW entries, ListsEntries(entries, n), NEW metric \in {"oldCaseBurden", "concentration"},
           NEW m \in Nat, NEW list, ListsMetric(list, entries, n, metric, m), NEW ranked, SameEntries(ranked, list, m)
    PROVE  {ranked[k].geography : k \in 1 .. m}
           = {entries[i].geography : i \in 1 .. n} \ GeographiesMissing(entries, metric)
<1>1. \A i \in 1 .. n : entries[i].snapshot.stats[metric].state \in {"ok", "missing"}
  BY DEF ListsEntries, IsFigured, Figures
<1>2. \A i, j \in 1 .. n : entries[i].geography = entries[j].geography => i = j
  BY DEF ListsEntries
<1>3. ASSUME NEW g
      PROVE  g \in GeographiesMissing(entries, metric)
             <=> \E i \in 1 .. n : entries[i].geography = g /\ entries[i].snapshot.stats[metric].state = "missing"
  <2>1. ToSet(entries) = {entries[i] : i \in 1 .. n}
    BY DEF ListsEntries, ToSet
  <2> QED
    BY <2>1 DEF GeographiesMissing
<1>4. ASSUME NEW k \in 1 .. m
      PROVE  ranked[k].geography \in {entries[i].geography : i \in 1 .. n} \ GeographiesMissing(entries, metric)
  <2>1. PICK i \in 1 .. m : ranked[k] = list[i]
    BY DEF SameEntries
  <2>2. PICK j \in 1 .. n : list[i] = entries[j] /\ entries[j].snapshot.stats[metric].state = "ok"
    BY DEF ListsMetric
  <2>3. ASSUME NEW h \in 1 .. n, entries[h].geography = entries[j].geography, entries[h].snapshot.stats[metric].state = "missing"
        PROVE  FALSE
    <3>1. h = j
      BY <1>2, <2>3
    <3> QED
      BY <2>2, <2>3, <3>1
  <2>4. entries[j].geography \notin GeographiesMissing(entries, metric)
    BY <1>3, <2>3
  <2> QED
    BY <2>1, <2>2, <2>4
<1>5. ASSUME NEW i \in 1 .. n, entries[i].geography \notin GeographiesMissing(entries, metric)
      PROVE  entries[i].geography \in {ranked[k].geography : k \in 1 .. m}
  <2>1. entries[i].snapshot.stats[metric].state = "ok"
    BY <1>1, <1>3, <1>5
  <2>2. PICK j \in 1 .. m : list[j] = entries[i]
    BY <2>1 DEF ListsMetric
  <2>3. PICK k \in 1 .. m : ranked[k] = list[j]
    BY DEF SameEntries
  <2> QED
    BY <2>2, <2>3
<1> QED
  BY <1>4, <1>5

LEMMA OldCaseHeadlines ==
    ASSUME NEW n \in Nat, NEW entries, ListsEntries(entries, n)
    PROVE  OldCasesAgree(WatchIndex(entries), OldCaseWatchroom(entries), {entries[i].geography : i \in 1 .. n})
<1>1. PICK list : list = WithMetric(entries, "oldCaseBurden")
  OBVIOUS
<1>2. PICK m \in Nat : ListsMetric(list, entries, n, "oldCaseBurden", m)
  BY <1>1, MetricEntries
<1>3. DOMAIN list = 1 .. m
  BY <1>2 DEF ListsMetric
<1>4. PICK share, cases, pending :
        /\ share = [i \in 1 .. m |-> list[i].snapshot.stats.oldCaseBurden.value.threePlusShare]
        /\ cases = [i \in 1 .. m |-> list[i].snapshot.stats.oldCaseBurden.value.threePlus]
        /\ pending = [i \in 1 .. m |-> list[i].snapshot.stats.pending]
  OBVIOUS
<1>5. \A i \in 1 .. m : share[i] \in Int /\ cases[i] \in Int /\ pending[i] \in Int
  <2>1. ASSUME NEW i \in 1 .. m PROVE share[i] \in Int /\ cases[i] \in Int /\ pending[i] \in Int
    <3>1. PICK j \in 1 .. n : list[i] = entries[j] /\ entries[j].snapshot.stats["oldCaseBurden"].state = "ok"
      BY <1>2 DEF ListsMetric
    <3>2. IsFigured(list[i].snapshot)
      BY <3>1 DEF ListsEntries
    <3>3. PICK stats : stats = list[i].snapshot.stats
      OBVIOUS
    <3>4. stats.pending \in Nat /\ Figures(stats.oldCaseBurden, "threePlusShare", "threePlus")
      BY <3>2, <3>3 DEF IsFigured
    <3>5. stats.oldCaseBurden.state = "ok"
      BY <3>1, <3>3
    <3>6. stats.oldCaseBurden.value["threePlusShare"] \in Int /\ stats.oldCaseBurden.value["threePlus"] \in Int
      BY <3>4, <3>5 DEF Figures
    <3> QED
      BY <1>4, <3>3, <3>4, <3>6
  <2> QED
    BY <2>1
<1>6. PICK ranked : ranked = RankedStates(entries)
  OBVIOUS
<1>7. ranked = Arranged(list, ByTwo(share, cases, m))
  <2>1. \A i, j \in 1 .. m :
          LargerFiguresFirst(OldCaseOrder(list[i].snapshot.stats.oldCaseBurden.value),
                             OldCaseOrder(list[j].snapshot.stats.oldCaseBurden.value))
          <=> share[i] > share[j] \/ (share[i] = share[j] /\ cases[i] > cases[j])
    BY <1>4, TwoFigures DEF OldCaseOrder
  <2>2. {p \in (DOMAIN list) \X (DOMAIN list) :
           LargerFiguresFirst(OldCaseOrder(list[p[1]].snapshot.stats.oldCaseBurden.value),
                              OldCaseOrder(list[p[2]].snapshot.stats.oldCaseBurden.value))}
        = ByTwo(share, cases, m)
    BY <1>3, <2>1 DEF ByTwo
  <2> QED
    BY <1>1, <1>6, <2>2 DEF RankedStates, StableSort
<1>8. PICK first : first = StableSort(list, LAMBDA d, e : LargerFiguresFirst(
                             <<OldCaseOrder(d.snapshot.stats.oldCaseBurden.value)[1], d.snapshot.stats.pending>>,
                             <<OldCaseOrder(e.snapshot.stats.oldCaseBurden.value)[1], e.snapshot.stats.pending>>))
  OBVIOUS
<1>9. first = Arranged(list, ByTwo(share, pending, m))
  <2>1. \A i, j \in 1 .. m :
          LargerFiguresFirst(<<OldCaseOrder(list[i].snapshot.stats.oldCaseBurden.value)[1], list[i].snapshot.stats.pending>>,
                             <<OldCaseOrder(list[j].snapshot.stats.oldCaseBurden.value)[1], list[j].snapshot.stats.pending>>)
          <=> share[i] > share[j] \/ (share[i] = share[j] /\ pending[i] > pending[j])
    BY <1>4, TwoFigures DEF OldCaseOrder
  <2>2. {p \in (DOMAIN list) \X (DOMAIN list) : LargerFiguresFirst(
           <<OldCaseOrder(list[p[1]].snapshot.stats.oldCaseBurden.value)[1], list[p[1]].snapshot.stats.pending>>,
           <<OldCaseOrder(list[p[2]].snapshot.stats.oldCaseBurden.value)[1], list[p[2]].snapshot.stats.pending>>)}
        = ByTwo(share, pending, m)
    BY <1>3, <2>1 DEF ByTwo
  <2> QED
    BY <1>8, <2>2 DEF StableSort
<1>10. /\ SameEntries(ranked, list, m)
       /\ m > 0 => \E k \in 1 .. m : ranked[1] = list[k] /\ \A j \in 1 .. m : share[j] <= share[k]
  <2>1. PICK precedes : precedes = ByTwo(share, cases, m)
    OBVIOUS
  <2>2. WeaklyOrders(precedes, 1 .. m) /\ \A j, k \in 1 .. m : <<j, k>> \notin precedes => share[j] <= share[k]
    BY <1>5, <2>1, TwoOrders
  <2>3. ranked = Arranged(list, precedes)
    BY <1>7, <2>1
  <2>4. SameEntries(ranked, list, m) /\ StartsWithFirst(ranked, list, precedes, m)
    BY <1>3, <2>2, <2>3, FirstArranged
  <2> QED
    BY <2>2, <2>4 DEF StartsWithFirst
<1>11. /\ SameEntries(first, list, m)
       /\ m > 0 => \E k \in 1 .. m : first[1] = list[k] /\ \A j \in 1 .. m : share[j] <= share[k]
  <2>1. PICK precedes : precedes = ByTwo(share, pending, m)
    OBVIOUS
  <2>2. WeaklyOrders(precedes, 1 .. m) /\ \A j, k \in 1 .. m : <<j, k>> \notin precedes => share[j] <= share[k]
    BY <1>5, <2>1, TwoOrders
  <2>3. first = Arranged(list, precedes)
    BY <1>9, <2>1
  <2>4. SameEntries(first, list, m) /\ StartsWithFirst(first, list, precedes, m)
    BY <1>3, <2>2, <2>3, FirstArranged
  <2> QED
    BY <2>2, <2>4 DEF StartsWithFirst
<1>12. \A e : StateRow(e).geography = e.geography /\ StateRow(e).figures[1] = e.snapshot.stats.oldCaseBurden.value.threePlusShare
  BY DEF StateRow, OldCaseOrder
<1>13. PICK geographies : geographies = [i \in 1 .. m |-> StateRow(ranked[i])]
  OBVIOUS
<1>14. PICK tops : tops = [i \in 1 .. m |-> StateRow(first[i])]
  OBVIOUS
<1>15. OldCaseWatchroom(entries).geographies = geographies
       /\ OldCaseWatchroom(entries).missing = GeographiesMissing(entries, "oldCaseBurden")
  BY <1>6, <1>10, <1>13 DEF OldCaseWatchroom, SameEntries
<1>16. WatchIndex(entries).topOldCase = UpTo(tops, 1)
  BY <1>1, <1>8, <1>11, <1>14 DEF WatchIndex, SameEntries
<1>17. geographies # <<>> <=> m > 0
  BY <1>13, NotEmpty
<1>18. /\ UpTo(tops, 1) # <<>> <=> m > 0
       /\ m > 0 => UpTo(tops, 1)[1] = tops[1]
  <2>1. tops = [k \in 1 .. m |-> tops[k]]
    BY <1>14
  <2> QED
    BY <2>1, FirstRows DEF Starts
<1>19. m > 0 => tops[1].figures[1] = geographies[1].figures[1]
  <2>1. SUFFICES ASSUME m > 0 PROVE tops[1].figures[1] = geographies[1].figures[1]
    OBVIOUS
  <2>2. PICK j \in 1 .. m : first[1] = list[j] /\ \A i \in 1 .. m : share[i] <= share[j]
    BY <1>11, <2>1
  <2>3. PICK k \in 1 .. m : ranked[1] = list[k] /\ \A i \in 1 .. m : share[i] <= share[k]
    BY <1>10, <2>1
  <2>4. share[j] = share[k]
    BY <1>5, <2>2, <2>3
  <2>5. tops[1] = StateRow(list[j]) /\ geographies[1] = StateRow(list[k])
    BY <1>13, <1>14, <2>1, <2>2, <2>3
  <2>6. StateRow(list[j]).figures[1] = share[j] /\ StateRow(list[k]).figures[1] = share[k]
    BY <1>4, <1>12
  <2> QED
    BY <2>4, <2>5, <2>6
<1>20. {geographies[i].geography : i \in DOMAIN geographies}
       = {entries[i].geography : i \in 1 .. n} \ GeographiesMissing(entries, "oldCaseBurden")
  <2>1. {ranked[k].geography : k \in 1 .. m}
        = {entries[i].geography : i \in 1 .. n} \ GeographiesMissing(entries, "oldCaseBurden")
    <3>1. PICK metric \in {"oldCaseBurden", "concentration"} : metric = "oldCaseBurden"
      OBVIOUS
    <3>2. ListsMetric(list, entries, n, metric, m)
      BY <1>2, <3>1
    <3>3. SameEntries(ranked, list, m)
      BY <1>10
    <3>4. {ranked[k].geography : k \in 1 .. m}
          = {entries[i].geography : i \in 1 .. n} \ GeographiesMissing(entries, metric)
      BY <3>2, <3>3, RankedOrMissing
    <3> QED
      BY <3>1, <3>4
  <2>2. {geographies[i].geography : i \in DOMAIN geographies} = {ranked[k].geography : k \in 1 .. m}
    BY <1>12, <1>13
  <2> QED
    BY <2>1, <2>2
<1> QED
  BY <1>15, <1>16, <1>17, <1>18, <1>19, <1>20, Zenon DEF OldCasesAgree

-----------------------------------------------------------------------------
(* The backlog-concentration watchroom *)

LEMMA ConcentrationHeadlines ==
    ASSUME NEW n \in Nat, NEW entries, ListsEntries(entries, n)
    PROVE  ConcentrationAgrees(WatchIndex(entries), ConcentrationWatchroom(entries), {entries[i].geography : i \in 1 .. n})
<1>1. PICK list : list = WithMetric(entries, "concentration")
  OBVIOUS
<1>2. PICK m \in Nat : ListsMetric(list, entries, n, "concentration", m)
  BY <1>1, MetricEntries
<1>3. DOMAIN list = 1 .. m
  BY <1>2 DEF ListsMetric
<1>4. PICK few, many :
        /\ few = [i \in 1 .. m |-> list[i].snapshot.stats.concentration.value.topFewShare]
        /\ many = [i \in 1 .. m |-> list[i].snapshot.stats.concentration.value.topManyShare]
  OBVIOUS
<1>5. \A i \in 1 .. m : few[i] \in Int /\ many[i] \in Int /\ list[i].snapshot.stats.pending \in Int
  <2>1. ASSUME NEW i \in 1 .. m PROVE few[i] \in Int /\ many[i] \in Int /\ list[i].snapshot.stats.pending \in Int
    <3>1. PICK j \in 1 .. n : list[i] = entries[j] /\ entries[j].snapshot.stats["concentration"].state = "ok"
      BY <1>2 DEF ListsMetric
    <3>2. IsFigured(list[i].snapshot)
      BY <3>1 DEF ListsEntries
    <3>3. PICK stats : stats = list[i].snapshot.stats
      OBVIOUS
    <3>4. stats.pending \in Nat /\ Figures(stats.concentration, "topFewShare", "topManyShare")
      BY <3>2, <3>3 DEF IsFigured
    <3>5. stats.concentration.state = "ok"
      BY <3>1, <3>3
    <3>6. stats.concentration.value["topFewShare"] \in Int /\ stats.concentration.value["topManyShare"] \in Int
      BY <3>4, <3>5 DEF Figures
    <3> QED
      BY <1>4, <3>3, <3>4, <3>6
  <2> QED
    BY <2>1
<1>6. PICK passing : passing = {e \in {list[i] : i \in 1 .. m} : HasComparableTopFive(e.snapshot)}
  OBVIOUS
<1>7. \A i \in 1 .. m : list[i] \in passing <=> HasComparableTopFive(list[i].snapshot)
  BY <1>6
\* The watchroom: sorted, then filtered.
<1>8. PICK ranked : ranked = RankedGeographies(entries)
  OBVIOUS
<1>9. PICK precedes : precedes = ByTwo(few, many, m)
  OBVIOUS
<1>10. WeaklyOrders(precedes, 1 .. m) /\ \A j, k \in 1 .. m : <<j, k>> \notin precedes => few[j] <= few[k]
  BY <1>5, <1>9, TwoOrders
<1>11. ranked = Arranged(list, precedes)
  <2>1. \A i, j \in 1 .. m :
          LargerFiguresFirst(ConcentrationOrder(list[i]), ConcentrationOrder(list[j]))
          <=> few[i] > few[j] \/ (few[i] = few[j] /\ many[i] > many[j])
    <3>1. \A i \in 1 .. m : ConcentrationOrder(list[i]) = <<few[i], many[i]>>
      BY <1>4 DEF ConcentrationOrder
    <3> QED
      BY <3>1, TwoFigures, SMTT(30)
  <2>2. {p \in (DOMAIN list) \X (DOMAIN list) :
           LargerFiguresFirst(ConcentrationOrder(list[p[1]]), ConcentrationOrder(list[p[2]]))} = precedes
    BY <1>3, <1>9, <2>1 DEF ByTwo
  <2> QED
    BY <1>1, <1>8, <2>2 DEF RankedGeographies, StableSort
<1>12. SameEntries(ranked, list, m)
  BY <1>3, <1>10, <1>11, FirstArranged
<1>13. PICK places : places = {i \in 1 .. m : ranked[i] \in passing}
  OBVIOUS
<1>14. PICK comparable : comparable = Filtered(ranked, places)
  OBVIOUS
<1>15. PICK c \in Nat : KeepsFirst(comparable, list, passing, precedes, m, c)
  BY <1>3, <1>10, <1>11, <1>13, <1>14, FirstFiltered
<1>16. Where(ranked, LAMBDA e : HasComparableTopFive(e.snapshot)) = comparable
  <2>1. \A i \in 1 .. m : ranked[i] \in passing <=> HasComparableTopFive(ranked[i].snapshot)
    BY <1>7, <1>12 DEF SameEntries
  <2>2. DOMAIN ranked = 1 .. m
    BY <1>12 DEF SameEntries
  <2>3. places = {i \in DOMAIN ranked : HasComparableTopFive(ranked[i].snapshot)}
    BY <1>13, <2>1, <2>2
  <2> QED
    BY <1>14, <2>3 DEF Where
\* The index: filtered, then sorted.
<1>17. PICK kept : kept = {i \in 1 .. m : list[i] \in passing}
  OBVIOUS
<1>18. PICK chosen : chosen = Filtered(list, kept)
  OBVIOUS
<1>19. Where(list, LAMBDA e : HasComparableTopFive(e.snapshot)) = chosen
  <2>1. kept = {i \in DOMAIN list : HasComparableTopFive(list[i].snapshot)}
    BY <1>3, <1>7, <1>17
  <2> QED
    BY <1>18, <2>1 DEF Where
<1>20. PICK d \in Nat : \E order : Keeps(chosen, list, kept, d, order)
  BY <1>17, <1>18, Filters
<1>20a. PICK order : Keeps(chosen, list, kept, d, order)
  BY <1>20
<1>21. /\ DOMAIN chosen = 1 .. d
       /\ \A i \in 1 .. d : \E k \in 1 .. m : chosen[i] = list[k] /\ list[k] \in passing
       /\ \A k \in 1 .. m : list[k] \in passing => \E i \in 1 .. d : chosen[i] = list[k]
  BY <1>17, <1>20a DEF Keeps
<1>22. PICK share, pending :
        /\ share = [i \in 1 .. d |-> chosen[i].snapshot.stats.concentration.value.topFewShare]
        /\ pending = [i \in 1 .. d |-> chosen[i].snapshot.stats.pending]
  OBVIOUS
<1>23. \A i \in 1 .. d : share[i] \in Int /\ pending[i] \in Int
  <2>1. ASSUME NEW i \in 1 .. d PROVE share[i] \in Int /\ pending[i] \in Int
    <3>1. PICK k \in 1 .. m : chosen[i] = list[k]
      BY <1>21
    <3> QED
      BY <1>4, <1>5, <1>22, <3>1
  <2> QED
    BY <2>1
<1>24. PICK first : first = StableSort(chosen, LAMBDA x, y : LargerFiguresFirst(
                             <<ConcentrationOrder(x)[1], x.snapshot.stats.pending>>,
                             <<ConcentrationOrder(y)[1], y.snapshot.stats.pending>>))
  OBVIOUS
<1>25. PICK before : before = ByTwo(share, pending, d)
  OBVIOUS
<1>26. WeaklyOrders(before, 1 .. d) /\ \A j, k \in 1 .. d : <<j, k>> \notin before => share[j] <= share[k]
  BY <1>23, <1>25, TwoOrders
<1>27. first = Arranged(chosen, before)
  <2>1. \A i, j \in 1 .. d :
          LargerFiguresFirst(<<ConcentrationOrder(chosen[i])[1], chosen[i].snapshot.stats.pending>>,
                             <<ConcentrationOrder(chosen[j])[1], chosen[j].snapshot.stats.pending>>)
          <=> share[i] > share[j] \/ (share[i] = share[j] /\ pending[i] > pending[j])
    BY <1>22, TwoFigures DEF ConcentrationOrder
  <2>2. {p \in (DOMAIN chosen) \X (DOMAIN chosen) : LargerFiguresFirst(
           <<ConcentrationOrder(chosen[p[1]])[1], chosen[p[1]].snapshot.stats.pending>>,
           <<ConcentrationOrder(chosen[p[2]])[1], chosen[p[2]].snapshot.stats.pending>>)} = before
    <3>1. DOMAIN chosen = 1 .. d
      BY <1>21
    <3> QED
      BY <1>25, <2>1, <3>1 DEF ByTwo
  <2> QED
    BY <1>24, <2>2 DEF StableSort
<1>28. SameEntries(first, chosen, d) /\ StartsWithFirst(first, chosen, before, d)
  <2>1. DOMAIN chosen = 1 .. d
    BY <1>21
  <2> QED
    BY <1>26, <1>27, <2>1, FirstArranged
\* Both have the largest share of those that can be compared.
<1>29. \A e : /\ GeographyRow(e).geography = e.geography
              /\ GeographyRow(e).figures[1] = e.snapshot.stats.concentration.value.topFewShare
  BY DEF GeographyRow, ConcentrationOrder
<1>30. PICK rows, tops, index :
         /\ rows = [i \in 1 .. m |-> GeographyRow(ranked[i])]
         /\ tops = [i \in 1 .. c |-> GeographyRow(comparable[i])]
         /\ index = [i \in 1 .. d |-> GeographyRow(first[i])]
  OBVIOUS
<1>31. /\ ConcentrationWatchroom(entries).geographies = rows
       /\ ConcentrationWatchroom(entries).topGeography = UpTo(tops, 1)
       /\ ConcentrationWatchroom(entries).missing = GeographiesMissing(entries, "concentration")
  <2>1. DOMAIN ranked = 1 .. m /\ DOMAIN comparable = 1 .. c
    BY <1>12, <1>15 DEF SameEntries, KeepsFirst
  <2> QED
    BY <1>8, <1>16, <1>30, <2>1 DEF ConcentrationWatchroom
<1>32. WatchIndex(entries).topConcentration = UpTo(index, 1)
  <2>1. DOMAIN first = 1 .. d
    BY <1>28 DEF SameEntries
  <2> QED
    BY <1>1, <1>19, <1>24, <1>30, <2>1 DEF WatchIndex
<1>33. /\ UpTo(tops, 1) # <<>> <=> c > 0
       /\ c > 0 => UpTo(tops, 1)[1] = tops[1]
  <2>1. tops = [k \in 1 .. c |-> tops[k]]
    BY <1>30
  <2> QED
    BY <2>1, FirstRows DEF Starts
<1>34. /\ UpTo(index, 1) # <<>> <=> d > 0
       /\ d > 0 => UpTo(index, 1)[1] = index[1]
  <2>1. index = [k \in 1 .. d |-> index[k]]
    BY <1>30
  <2> QED
    BY <2>1, FirstRows DEF Starts
<1>35. c > 0 <=> d > 0
  <2>1. c > 0 <=> \E j \in 1 .. m : list[j] \in passing
    BY <1>15 DEF KeepsFirst
  <2>2. d > 0 <=> \E j \in 1 .. m : list[j] \in passing
    <3>1. ASSUME d > 0 PROVE \E j \in 1 .. m : list[j] \in passing
      <4>1. 1 \in 1 .. d
        BY <3>1
      <4> QED
        BY <1>21, <4>1
    <3>2. ASSUME NEW j \in 1 .. m, list[j] \in passing PROVE d > 0
      <4>1. PICK i \in 1 .. d : chosen[i] = list[j]
        BY <1>21, <3>2
      <4> QED
        BY <4>1
    <3> QED
      BY <3>1, <3>2
  <2> QED
    BY <2>1, <2>2
<1>36. d > 0 => index[1].figures[1] = tops[1].figures[1]
  <2>1. SUFFICES ASSUME d > 0 PROVE index[1].figures[1] = tops[1].figures[1]
    OBVIOUS
  <2>2. PICK i \in 1 .. d : first[1] = chosen[i] /\ \A j \in 1 .. d : share[j] <= share[i]
    BY <1>26, <1>28, <2>1 DEF StartsWithFirst
  <2>3. PICK k \in 1 .. m : /\ comparable[1] = list[k] /\ list[k] \in passing
                            /\ \A j \in 1 .. m : list[j] \in passing => few[j] <= few[k]
    BY <1>10, <1>15, <1>35, <2>1 DEF KeepsFirst
  <2>4. PICK h \in 1 .. m : chosen[i] = list[h] /\ list[h] \in passing
    BY <1>21
  <2>5. PICK j \in 1 .. d : chosen[j] = list[k]
    BY <1>21, <2>3
  <2>6. share[i] = few[h] /\ share[j] = few[k]
    BY <1>4, <1>22, <2>4, <2>5
  <2>7. few[h] = few[k]
    BY <1>5, <2>2, <2>3, <2>4, <2>6
  <2>8. index[1] = GeographyRow(list[h]) /\ tops[1] = GeographyRow(list[k])
    BY <1>30, <1>35, <2>1, <2>2, <2>3, <2>4
  <2>9. GeographyRow(list[h]).figures[1] = few[h] /\ GeographyRow(list[k]).figures[1] = few[k]
    BY <1>4, <1>29
  <2> QED
    BY <2>7, <2>8, <2>9
<1>37. {rows[i].geography : i \in DOMAIN rows}
       = {entries[i].geography : i \in 1 .. n} \ GeographiesMissing(entries, "concentration")
  <2>1. {ranked[k].geography : k \in 1 .. m}
        = {entries[i].geography : i \in 1 .. n} \ GeographiesMissing(entries, "concentration")
    <3>1. PICK metric \in {"oldCaseBurden", "concentration"} : metric = "concentration"
      OBVIOUS
    <3>2. ListsMetric(list, entries, n, metric, m)
      BY <1>2, <3>1
    <3>3. {ranked[k].geography : k \in 1 .. m}
          = {entries[i].geography : i \in 1 .. n} \ GeographiesMissing(entries, metric)
      BY <1>12, <3>2, RankedOrMissing
    <3> QED
      BY <3>1, <3>3
  <2>2. {rows[i].geography : i \in DOMAIN rows} = {ranked[k].geography : k \in 1 .. m}
    BY <1>29, <1>30
  <2> QED
    BY <2>1, <2>2
<1> QED
  BY <1>31, <1>32, <1>33, <1>34, <1>35, <1>36, <1>37, Zenon DEF ConcentrationAgrees

-----------------------------------------------------------------------------
(* The order by the rate of repeats *)

\* A rate is a fraction of a window that is not empty.
IsRated(d) ==
    /\ d.backlog \in Nat /\ d.id \in Nat
    /\ d.persistence.flaggedInLastSix \in Nat \ {0} /\ d.persistence.lastSixWindow \in Nat \ {0}

LEMMA CrossProducts ==
    ASSUME NEW a \in Nat, NEW b \in Nat \ {0}, NEW c \in Nat, NEW d \in Nat \ {0}, NEW e \in Nat, NEW f \in Nat \ {0},
           a * d >= c * b, c * f >= e * d
    PROVE  /\ a * f >= e * b
           /\ a * d > c * b \/ c * f > e * d => a * f > e * b
<1>1. a * d * f >= c * b * f
  <2>1. PICK x \in Nat, y \in Nat : x = a * d /\ y = c * b
    OBVIOUS
  <2>2. x >= y => x * f >= y * f
    OBVIOUS
  <2> QED
    BY <2>1, <2>2
<1>2. c * f * b >= e * d * b
  <2>1. PICK x \in Nat, y \in Nat : x = c * f /\ y = e * d
    OBVIOUS
  <2>2. x >= y => x * b >= y * b
    OBVIOUS
  <2> QED
    BY <2>1, <2>2
<1>3. PICK x \in Nat, y \in Nat : x = a * f /\ y = e * b
  OBVIOUS
<1>4. a * d * f = x * d /\ e * d * b = y * d /\ c * b * f = c * f * b
  BY <1>3
<1>5. x * d >= y * d
  BY <1>1, <1>2, <1>4
<1>6. x >= y
  BY <1>5
<1>7. ASSUME a * d > c * b \/ c * f > e * d PROVE x > y
  <2>1. CASE a * d > c * b
    <3>1. PICK u \in Nat, v \in Nat : u = a * d /\ v = c * b
      OBVIOUS
    <3>2. u > v => u * f > v * f
      OBVIOUS
    <3>3. a * d * f > c * b * f
      BY <2>1, <3>1, <3>2
    <3>4. x * d > y * d
      BY <1>2, <1>4, <3>3
    <3> QED
      BY <1>6, <3>4
  <2>2. CASE c * f > e * d
    <3>1. PICK u \in Nat, v \in Nat : u = c * f /\ v = e * d
      OBVIOUS
    <3>2. u > v => u * b > v * b
      OBVIOUS
    <3>3. c * f * b > e * d * b
      BY <2>2, <3>1, <3>2
    <3>4. x * d > y * d
      BY <1>1, <1>4, <3>3
    <3> QED
      BY <1>6, <3>4
  <2> QED
    BY <1>7, <2>1, <2>2
<1> QED
  BY <1>3, <1>6, <1>7

\* What a comparison of rates says, of places with rates.
ByRate(of, places) == {p \in places \X places : HigherRate(of[p[1]], of[p[2]])}

LEMMA RateOrders ==
    ASSUME NEW places, NEW of, \A i \in places : IsRated(of[i])
    PROVE  WeaklyOrders(ByRate(of, places), places)
<1>1. PICK flagged, window :
        /\ flagged = [i \in places |-> of[i].persistence.flaggedInLastSix]
        /\ window = [i \in places |-> of[i].persistence.lastSixWindow]
  OBVIOUS
<1>2. \A i \in places : flagged[i] \in Nat /\ window[i] \in Nat \ {0}
  BY <1>1 DEF IsRated
<1>3. \A i, j \in places : <<i, j>> \in ByRate(of, places) <=> flagged[i] * window[j] > flagged[j] * window[i]
  BY <1>1 DEF ByRate, HigherRate
<1>4. \A i, j \in places : flagged[i] * window[j] \in Nat
  BY <1>2
<1>5. \A i \in places : <<i, i>> \notin ByRate(of, places)
  <2>1. ASSUME NEW i \in places PROVE ~(flagged[i] * window[i] > flagged[i] * window[i])
    BY <1>4
  <2> QED
    BY <1>3, <2>1
<1>6. ASSUME NEW h \in places, NEW i \in places, NEW j \in places,
             <<h, i>> \in ByRate(of, places), <<i, j>> \in ByRate(of, places)
      PROVE  <<h, j>> \in ByRate(of, places)
  <2>1. PICK a \in Nat, b \in Nat \ {0}, c \in Nat, d \in Nat \ {0}, e \in Nat, f \in Nat \ {0} :
          a = flagged[h] /\ b = window[h] /\ c = flagged[i] /\ d = window[i] /\ e = flagged[j] /\ f = window[j]
    BY <1>2
  <2>2. a * d > c * b /\ c * f > e * d
    BY <1>3, <1>6, <2>1
  <2>3. a * d >= c * b /\ c * f >= e * d
    BY <2>2
  <2>4. a * f > e * b
    BY <2>2, <2>3, CrossProducts
  <2> QED
    BY <1>3, <2>1, <2>4
<1>7. ASSUME NEW h \in places, NEW i \in places, NEW j \in places, <<h, j>> \in ByRate(of, places),
             <<h, i>> \notin ByRate(of, places), <<i, j>> \notin ByRate(of, places)
      PROVE  FALSE
  <2>1. PICK a \in Nat, b \in Nat \ {0}, c \in Nat, d \in Nat \ {0}, e \in Nat, f \in Nat \ {0} :
          a = flagged[j] /\ b = window[j] /\ c = flagged[i] /\ d = window[i] /\ e = flagged[h] /\ f = window[h]
    BY <1>2
  <2>2. ~(e * d > c * f) /\ ~(c * b > a * d) /\ e * b > a * f
    BY <1>3, <1>7, <2>1
  <2>3. {e * d, c * f, c * b, a * d, e * b, a * f} \subseteq Nat
    OBVIOUS
  <2>4. c * f >= e * d /\ a * d >= c * b
    BY <2>2, <2>3
  <2>5. a * f >= e * b
    BY <2>4, CrossProducts
  <2> QED
    BY <2>2, <2>3, <2>5
<1> QED
  BY <1>5, <1>6, <1>7, Zenon DEF WeaklyOrders

\* A figure first, or a rate first, and an order for those of the same.
LEMMA FigureThen ==
    ASSUME NEW places, NEW value, \A i \in places : value[i] \in Int, NEW second, WeaklyOrders(second, places), NEW precedes,
           \A i, j \in places : <<i, j>> \in precedes <=> value[i] > value[j] \/ (value[i] = value[j] /\ <<i, j>> \in second)
    PROVE  WeaklyOrders(precedes, places)
<1>1. \A i, j \in places : <<i, j>> \in ByFigure(value, places) <=> value[i] > value[j]
  BY DEF ByFigure
<1>2. WeaklyOrders(Then(ByFigure(value, places), second, places), places)
  BY FigureOrders, ThenOrders
<1>3. ASSUME NEW i \in places, NEW j \in places
      PROVE  <<i, j>> \in Then(ByFigure(value, places), second, places) <=> <<i, j>> \in precedes
  <2>1. value[i] = value[j] <=> ~(value[i] > value[j]) /\ ~(value[j] > value[i])
    OBVIOUS
  <2> QED
    BY <1>1, <2>1 DEF Then
<1> QED
  BY <1>2, <1>3, Zenon DEF WeaklyOrders

LEMMA RateThen ==
    ASSUME NEW places, NEW of, \A i \in places : IsRated(of[i]), NEW second, WeaklyOrders(second, places), NEW precedes,
           \A i, j \in places :
             <<i, j>> \in precedes <=> HigherRate(of[i], of[j]) \/ (SameRate(of[i], of[j]) /\ <<i, j>> \in second)
    PROVE  WeaklyOrders(precedes, places)
<1>1. \A i, j \in places : <<i, j>> \in ByRate(of, places) <=> HigherRate(of[i], of[j])
  BY DEF ByRate
<1>2. WeaklyOrders(Then(ByRate(of, places), second, places), places)
  BY RateOrders, ThenOrders
<1>3. \A i, j \in places : <<i, j>> \in Then(ByRate(of, places), second, places) <=> <<i, j>> \in precedes
  BY <1>1 DEF Then, SameRate
<1> QED
  BY <1>2, <1>3, Zenon DEF WeaklyOrders

\* An order in which the highest rate comes first, and of the same rates the most repeats.
RateFirst(precedes, of, n) ==
    /\ WeaklyOrders(precedes, 1 .. n)
    /\ \A j, k \in 1 .. n : <<j, k>> \notin precedes =>
         /\ ~HigherRate(of[j], of[k])
         /\ SameRate(of[j], of[k]) =>
              of[j].persistence.flaggedInLastSix <= of[k].persistence.flaggedInLastSix

LEMMA RatesComeFirst ==
    ASSUME NEW n \in Nat, NEW of, \A i \in 1 .. n : IsRated(of[i]), NEW second, WeaklyOrders(second, 1 .. n),
           \A j, k \in 1 .. n : <<j, k>> \notin second =>
               of[j].persistence.flaggedInLastSix <= of[k].persistence.flaggedInLastSix,
           NEW precedes,
           \A i, j \in 1 .. n :
             <<i, j>> \in precedes <=> HigherRate(of[i], of[j]) \/ (SameRate(of[i], of[j]) /\ <<i, j>> \in second)
    PROVE  RateFirst(precedes, of, n)
<1>1. PICK places : places = 1 .. n
  OBVIOUS
<1>2. WeaklyOrders(precedes, places)
  BY <1>1, RateThen
<1> QED
  BY <1>1, <1>2, Zenon DEF RateFirst

\* The first of two such orders have as many repeats.
LEMMA FirstRates ==
    ASSUME NEW n \in Nat, NEW of, \A i \in 1 .. n : IsRated(of[i]),
           NEW one, RateFirst(one, of, n), NEW other, RateFirst(other, of, n),
           NEW j \in 1 .. n, \A i \in 1 .. n : <<i, j>> \notin one,
           NEW k \in 1 .. n, \A i \in 1 .. n : <<i, k>> \notin other
    PROVE  of[j].persistence.flaggedInLastSix = of[k].persistence.flaggedInLastSix
<1>1. PICK x, y : x = of[j] /\ y = of[k]
  OBVIOUS
<1>2. /\ ~HigherRate(y, x)
      /\ SameRate(y, x) => y.persistence.flaggedInLastSix <= x.persistence.flaggedInLastSix
  BY <1>1 DEF RateFirst
<1>3. /\ ~HigherRate(x, y)
      /\ SameRate(x, y) => x.persistence.flaggedInLastSix <= y.persistence.flaggedInLastSix
  BY <1>1 DEF RateFirst
<1>4. SameRate(x, y) /\ SameRate(y, x)
  BY <1>2, <1>3 DEF SameRate
<1>5. x.persistence.flaggedInLastSix \in Nat /\ y.persistence.flaggedInLastSix \in Nat
  BY <1>1 DEF IsRated
<1> QED
  BY <1>1, <1>2, <1>3, <1>4, <1>5

LEMMA FourFigures ==
    ASSUME NEW a, NEW b, NEW c, NEW d, NEW e, NEW f, NEW g, NEW h
    PROVE  LargerFiguresFirst(<<a, b, c, d>>, <<e, f, g, h>>)
           <=> a > e \/ (a = e /\ (b > f \/ (b = f /\ (c > g \/ (c = g /\ d > h)))))
<1>1. PICK x, y : x = <<a, b, c, d>> /\ y = <<e, f, g, h>>
  OBVIOUS
<1>2. /\ x[1] = a /\ x[2] = b /\ x[3] = c /\ x[4] = d /\ DOMAIN x = 1 .. 4
      /\ y[1] = e /\ y[2] = f /\ y[3] = g /\ y[4] = h
  BY <1>1
<1>3. /\ \A j \in 1 .. 1 - 1 : x[j] = y[j]
      /\ (\A j \in 1 .. 2 - 1 : x[j] = y[j]) <=> x[1] = y[1]
      /\ (\A j \in 1 .. 3 - 1 : x[j] = y[j]) <=> x[1] = y[1] /\ x[2] = y[2]
      /\ (\A j \in 1 .. 4 - 1 : x[j] = y[j]) <=> x[1] = y[1] /\ x[2] = y[2] /\ x[3] = y[3]
  OBVIOUS
<1>4. LargerFiguresFirst(x, y) <=> \/ x[1] > y[1]
                                   \/ x[2] > y[2] /\ x[1] = y[1]
                                   \/ x[3] > y[3] /\ x[1] = y[1] /\ x[2] = y[2]
                                   \/ x[4] > y[4] /\ x[1] = y[1] /\ x[2] = y[2] /\ x[3] = y[3]
  <2>1. LargerFiguresFirst(x, y) <=> \E i \in 1 .. 4 : x[i] > y[i] /\ \A j \in 1 .. i - 1 : x[j] = y[j]
    BY <1>2 DEF LargerFiguresFirst
  <2>2. 1 .. 4 = {1, 2, 3, 4}
    OBVIOUS
  <2> QED
    BY <1>3, <2>1, <2>2
<1> QED
  BY <1>1, <1>2, <1>4

-----------------------------------------------------------------------------
(* The districts of all entries *)

LEMMA TurnsOrder ==
    ASSUME NEW places \in SUBSET (Nat \X Nat)
    PROVE  Orders(InTurn(places), places)
<1>1. \A p \in places : p[1] \in Nat /\ p[2] \in Nat /\ p = <<p[1], p[2]>>
  OBVIOUS
<1>2. \A p, q \in places : <<p, q>> \in InTurn(places) <=> p[1] < q[1] \/ (p[1] = q[1] /\ p[2] < q[2])
  BY DEF InTurn
<1> QED
  BY <1>1, <1>2 DEF Orders

\* Each is a district of an entry.
ListsDistrictsOf(list, entries, n, c) ==
    /\ DOMAIN list = 1 .. c
    /\ \A k \in 1 .. c : \E i \in 1 .. n : /\ list[k].geography = entries[i].geography
                                           /\ \E j \in DOMAIN entries[i].snapshot.districts :
                                                list[k].district = entries[i].snapshot.districts[j]

LEMMA DistrictsInTurn ==
    ASSUME NEW n \in Nat, NEW entries, ListsEntries(entries, n)
    PROVE  \E c \in Nat : ListsDistrictsOf(DistrictsOf(entries), entries, n, c)
<1>1. PICK all : all = [i \in 1 .. n |-> {i} \X DOMAIN entries[i].snapshot.districts]
  OBVIOUS
<1>2. ASSUME NEW i \in 1 .. n PROVE IsFiniteSet(all[i]) /\ all[i] \subseteq Nat \X Nat
  <2>1. PICK m \in Nat : HasSignals(entries[i].snapshot.districts, m)
    BY DEF ListsEntries
  <2>2. DOMAIN entries[i].snapshot.districts = 1 .. m
    BY <2>1 DEF HasSignals
  <2>3. IsFiniteSet({i})
    BY FS_Singleton
  <2>4. IsFiniteSet(1 .. m)
    BY FS_Interval, 1 \in Int
  <2>5. all[i] = {i} \X (1 .. m)
    BY <1>1, <2>2
  <2> QED
    BY <2>3, <2>4, <2>5, FS_Product
<1>3. PICK places : places = UNION {all[i] : i \in 1 .. n}
  OBVIOUS
<1>4. IsFiniteSet({all[i] : i \in 1 .. n})
  <2>1. all \in Surjection(1 .. n, {all[i] : i \in 1 .. n})
    BY <1>1 DEF Surjection
  <2>2. IsFiniteSet(1 .. n)
    BY FS_Interval, 1 \in Int
  <2> QED
    BY <2>1, <2>2, FS_Surjection
<1>5. IsFiniteSet(places) /\ places \in SUBSET (Nat \X Nat)
  <2>1. \A T \in {all[i] : i \in 1 .. n} : IsFiniteSet(T)
    BY <1>2
  <2>2. IsFiniteSet(places)
    BY <1>3, <1>4, <2>1, FS_UNION
  <2> QED
    BY <1>2, <1>3, <2>2
<1>6. PICK before : before = InTurn(places)
  OBVIOUS
<1>7. Orders(before, places)
  BY <1>5, <1>6, TurnsOrder
<1>8. PICK c \in Nat : \E turns \in [1 .. c -> places] : turns = Ranked(places, before)
  <2>1. IsFiniteSet(places)
    BY <1>5
  <2> QED
    BY <1>7, <2>1, Ranks
<1>9. PICK turns \in [1 .. c -> places] : turns = Ranked(places, before)
  BY <1>8
<1>10. UNION {{i} \X DOMAIN entries[i].snapshot.districts : i \in DOMAIN entries} = places
  BY <1>1, <1>3 DEF ListsEntries
<1>11. PICK list : list = DistrictsOf(entries)
  OBVIOUS
<1>12. DOMAIN turns = 1 .. c
  OBVIOUS
<1>13. list = [k \in 1 .. c |-> [geography |-> entries[turns[k][1]].geography,
                                 stats |-> entries[turns[k][1]].snapshot.stats,
                                 count |-> Len(entries[turns[k][1]].snapshot.districts),
                                 district |-> entries[turns[k][1]].snapshot.districts[turns[k][2]]]]
  BY <1>6, <1>9, <1>10, <1>11, <1>12 DEF DistrictsOf
<1>14. ASSUME NEW k \in 1 .. c
       PROVE  \E i \in 1 .. n : /\ list[k].geography = entries[i].geography
                                /\ \E j \in DOMAIN entries[i].snapshot.districts :
                                     list[k].district = entries[i].snapshot.districts[j]
  <2>1. PICK p \in places : p = turns[k]
    OBVIOUS
  <2>2. PICK i \in 1 .. n : p \in {i} \X DOMAIN entries[i].snapshot.districts
    BY <1>1, <1>3
  <2>3. p[1] = i /\ p[2] \in DOMAIN entries[i].snapshot.districts
    BY <2>2
  <2>4. list[k].geography = entries[p[1]].geography /\ list[k].district = entries[p[1]].snapshot.districts[p[2]]
    BY <1>13, <2>1
  <2> QED
    BY <2>3, <2>4
<1>15. ListsDistrictsOf(list, entries, n, c)
  BY <1>13, <1>14 DEF ListsDistrictsOf
<1> QED
  BY <1>11, <1>15

\* The persistent ones among them, each with a rate.
ListsPersistent(list, entries, n, c) ==
    /\ DOMAIN list = 1 .. c
    /\ \A k \in 1 .. c : /\ IsRated(list[k].district)
                         /\ \E i \in 1 .. n : list[k].geography = entries[i].geography

LEMMA PersistentInTurn ==
    ASSUME NEW n \in Nat, NEW entries, ListsEntries(entries, n)
    PROVE  \E c \in Nat : ListsPersistent(PersistentDistricts(entries), entries, n, c)
<1>1. PICK all : all = DistrictsOf(entries)
  OBVIOUS
<1>2. PICK b \in Nat : ListsDistrictsOf(all, entries, n, b)
  BY <1>1, DistrictsInTurn
<1>3. DOMAIN all = 1 .. b
  BY <1>2 DEF ListsDistrictsOf
<1>4. PICK places : places = {i \in 1 .. b : IsPersistent(all[i].district)}
  OBVIOUS
<1>5. PICK list : list = Filtered(all, places)
  OBVIOUS
<1>6. PICK c \in Nat : \E order : Keeps(list, all, places, c, order)
  BY <1>4, <1>5, Filters
<1>6a. PICK order : Keeps(list, all, places, c, order)
  BY <1>6
<1>7. order \in [1 .. c -> places] /\ list = [k \in 1 .. c |-> all[order[k]]]
  BY <1>6a DEF Keeps
<1>8. PersistentDistricts(entries) = list
  BY <1>1, <1>3, <1>4, <1>5 DEF PersistentDistricts, Where
<1>9. ASSUME NEW k \in 1 .. c
      PROVE  IsRated(list[k].district) /\ \E i \in 1 .. n : list[k].geography = entries[i].geography
  <2>1. PICK h \in places : h = order[k] /\ list[k] = all[h]
    BY <1>7
  <2>2. h \in 1 .. b /\ IsPersistent(all[h].district)
    BY <1>4
  <2>3. PICK i \in 1 .. n : /\ all[h].geography = entries[i].geography
                            /\ \E j \in DOMAIN entries[i].snapshot.districts :
                                 all[h].district = entries[i].snapshot.districts[j]
    BY <1>2, <2>2 DEF ListsDistrictsOf
  <2>4. PICK j \in DOMAIN entries[i].snapshot.districts : all[h].district = entries[i].snapshot.districts[j]
    BY <2>3
  <2>5. PICK m \in Nat : HasSignals(entries[i].snapshot.districts, m)
    BY DEF ListsEntries
  <2>6. PICK d : d = entries[i].snapshot.districts[j]
    OBVIOUS
  <2>7. /\ d.backlog \in Nat /\ d.id \in Nat
        /\ d.persistence.flaggedInLastSix \in Nat /\ d.persistence.lastSixWindow \in Nat
    BY <2>5, <2>6 DEF HasSignals
  <2>8. d.persistence.lastSixWindow > 0 /\ d.persistence.flaggedInLastSix > 0
    BY <2>2, <2>4, <2>6 DEF IsPersistent
  <2>9. IsRated(d)
    BY <2>7, <2>8 DEF IsRated
  <2> QED
    BY <2>1, <2>3, <2>4, <2>6, <2>9
<1>10. ListsPersistent(list, entries, n, c)
  BY <1>7, <1>9 DEF ListsPersistent
<1> QED
  BY <1>8, <1>10

-----------------------------------------------------------------------------
(* The persistent-pressure watchroom *)

\* The rated districts in the order of the watchroom, and in that of the index.
LEMMA WatchroomOrder ==
    ASSUME NEW n \in Nat, NEW list, NEW of, of = [k \in 1 .. n |-> list[k].district], \A k \in 1 .. n : IsRated(of[k]),
           NEW precedes, precedes = {p \in (1 .. n) \X (1 .. n) :
                                       CompareDistrictsByPersistence(list[p[1]].district, list[p[2]].district)}
    PROVE  RateFirst(precedes, of, n)
<1>1. PICK flagged, window, backlog, id :
        /\ flagged = [k \in 1 .. n |-> of[k].persistence.flaggedInLastSix]
        /\ window = [k \in 1 .. n |-> of[k].persistence.lastSixWindow]
        /\ backlog = [k \in 1 .. n |-> of[k].backlog]
        /\ id = [k \in 1 .. n |-> -of[k].id]
  OBVIOUS
<1>2. \A k \in 1 .. n : flagged[k] \in Int /\ window[k] \in Int /\ backlog[k] \in Int /\ id[k] \in Int
  BY <1>1 DEF IsRated
<1>3. PICK places : places = 1 .. n
  OBVIOUS
<1>4. PICK last : last = ByFigure(id, places)
  OBVIOUS
<1>5. WeaklyOrders(last, places) /\ \A i, j \in places : <<i, j>> \in last <=> id[i] > id[j]
  <2>1. \A k \in places : id[k] \in Int
    BY <1>2, <1>3
  <2> QED
    BY <1>4, <2>1, FigureOrders DEF ByFigure
<1>6. PICK third : third = {p \in places \X places : backlog[p[1]] > backlog[p[2]] \/ (backlog[p[1]] = backlog[p[2]] /\ p \in last)}
  OBVIOUS
<1>7. \A i, j \in places : <<i, j>> \in third <=> backlog[i] > backlog[j] \/ (backlog[i] = backlog[j] /\ <<i, j>> \in last)
  BY <1>6
<1>8. WeaklyOrders(third, places)
  <2>1. \A k \in places : backlog[k] \in Int
    BY <1>2, <1>3
  <2> QED
    BY <1>5, <1>7, <2>1, FigureThen
<1>9. PICK then : then = {p \in places \X places : window[p[1]] > window[p[2]] \/ (window[p[1]] = window[p[2]] /\ p \in third)}
  OBVIOUS
<1>10. \A i, j \in places : <<i, j>> \in then <=> window[i] > window[j] \/ (window[i] = window[j] /\ <<i, j>> \in third)
  BY <1>9
<1>11. WeaklyOrders(then, places)
  <2>1. \A k \in places : window[k] \in Int
    BY <1>2, <1>3
  <2> QED
    BY <1>8, <1>10, <2>1, FigureThen
<1>12. PICK second : second = {p \in places \X places : flagged[p[1]] > flagged[p[2]] \/ (flagged[p[1]] = flagged[p[2]] /\ p \in then)}
  OBVIOUS
<1>13. \A i, j \in places : <<i, j>> \in second <=> flagged[i] > flagged[j] \/ (flagged[i] = flagged[j] /\ <<i, j>> \in then)
  BY <1>12
<1>14. WeaklyOrders(second, places)
  <2>1. \A k \in places : flagged[k] \in Int
    BY <1>2, <1>3
  <2> QED
    BY <1>11, <1>13, <2>1, FigureThen
<1>15. \A j, k \in 1 .. n : <<j, k>> \notin second => of[j].persistence.flaggedInLastSix <= of[k].persistence.flaggedInLastSix
  <2>1. ASSUME NEW j \in places, NEW k \in places, <<j, k>> \notin second PROVE flagged[j] <= flagged[k]
    <3>1. ~(flagged[j] > flagged[k])
      BY <1>13, <2>1
    <3>2. flagged[j] \in Int /\ flagged[k] \in Int
      BY <1>2, <1>3
    <3> QED
      BY <3>1, <3>2
  <2> QED
    BY <1>1, <1>3, <2>1
<1>16. ASSUME NEW i \in 1 .. n, NEW j \in 1 .. n
       PROVE  <<i, j>> \in precedes <=> HigherRate(of[i], of[j]) \/ (SameRate(of[i], of[j]) /\ <<i, j>> \in second)
  <2>1. PICK d, e : d = of[i] /\ e = of[j] /\ d = list[i].district /\ e = list[j].district
    OBVIOUS
  <2>2. <<i, j>> \in precedes <=> CompareDistrictsByPersistence(d, e)
    BY <2>1
  <2>3. PICK figures, others :
          /\ figures = <<d.persistence.flaggedInLastSix, d.persistence.lastSixWindow, d.backlog, -d.id>>
          /\ others = <<e.persistence.flaggedInLastSix, e.persistence.lastSixWindow, e.backlog, -e.id>>
    OBVIOUS
  <2>4. CompareDistrictsByPersistence(d, e) <=> HigherRate(d, e) \/ (SameRate(d, e) /\ LargerFiguresFirst(figures, others))
    BY <2>3 DEF CompareDistrictsByPersistence
  <2>5. figures = <<flagged[i], window[i], backlog[i], id[i]>> /\ others = <<flagged[j], window[j], backlog[j], id[j]>>
    BY <1>1, <2>1, <2>3
  <2>6. LargerFiguresFirst(figures, others)
        <=> \/ flagged[i] > flagged[j]
            \/ flagged[i] = flagged[j] /\ (\/ window[i] > window[j]
                                           \/ window[i] = window[j] /\ (\/ backlog[i] > backlog[j]
                                                                        \/ backlog[i] = backlog[j] /\ id[i] > id[j]))
    BY <2>5, FourFigures
  <2>7. <<i, j>> \in second <=> LargerFiguresFirst(figures, others)
    <3>1. i \in places /\ j \in places
      BY <1>3
    <3>2. <<i, j>> \in third <=> backlog[i] > backlog[j] \/ (backlog[i] = backlog[j] /\ id[i] > id[j])
      BY <1>5, <1>7, <3>1, ZenonT(40)
    <3>3. <<i, j>> \in second
          <=> flagged[i] > flagged[j]
              \/ (flagged[i] = flagged[j] /\ (window[i] > window[j] \/ (window[i] = window[j] /\ <<i, j>> \in third)))
      BY <1>10, <1>13, <3>1, ZenonT(40)
    <3> QED
      BY <2>6, <3>2, <3>3, ZenonT(40)
  <2> QED
    BY <2>1, <2>2, <2>4, <2>7
<1>17. WeaklyOrders(second, 1 .. n)
  BY <1>3, <1>14
<1> QED
  BY <1>15, <1>16, <1>17, RatesComeFirst

LEMMA IndexOrder ==
    ASSUME NEW n \in Nat, NEW list, NEW of, of = [k \in 1 .. n |-> list[k].district], \A k \in 1 .. n : IsRated(of[k]),
           NEW precedes, precedes = {p \in (1 .. n) \X (1 .. n) :
               \/ HigherRate(list[p[1]].district, list[p[2]].district)
               \/ /\ SameRate(list[p[1]].district, list[p[2]].district)
                  /\ LargerFiguresFirst(
                        <<list[p[1]].district.persistence.flaggedInLastSix, list[p[1]].district.backlog>>,
                        <<list[p[2]].district.persistence.flaggedInLastSix, list[p[2]].district.backlog>>)}
    PROVE  RateFirst(precedes, of, n)
<1>1. PICK flagged, backlog :
        /\ flagged = [k \in 1 .. n |-> of[k].persistence.flaggedInLastSix]
        /\ backlog = [k \in 1 .. n |-> of[k].backlog]
  OBVIOUS
<1>2. \A k \in 1 .. n : flagged[k] \in Int /\ backlog[k] \in Int
  BY <1>1 DEF IsRated
<1>3. PICK second : second = ByTwo(flagged, backlog, n)
  OBVIOUS
<1>4. WeaklyOrders(second, 1 .. n) /\ \A j, k \in 1 .. n : <<j, k>> \notin second => flagged[j] <= flagged[k]
  BY <1>2, <1>3, TwoOrders
<1>5. \A j, k \in 1 .. n : <<j, k>> \notin second => of[j].persistence.flaggedInLastSix <= of[k].persistence.flaggedInLastSix
  BY <1>1, <1>4
<1>6. ASSUME NEW i \in 1 .. n, NEW j \in 1 .. n
      PROVE  <<i, j>> \in precedes <=> HigherRate(of[i], of[j]) \/ (SameRate(of[i], of[j]) /\ <<i, j>> \in second)
  <2>1. PICK d, e : d = of[i] /\ e = of[j] /\ d = list[i].district /\ e = list[j].district
    OBVIOUS
  <2>2. PICK figures, others : /\ figures = <<d.persistence.flaggedInLastSix, d.backlog>>
                               /\ others = <<e.persistence.flaggedInLastSix, e.backlog>>
    OBVIOUS
  <2>3. <<i, j>> \in precedes <=> HigherRate(d, e) \/ (SameRate(d, e) /\ LargerFiguresFirst(figures, others))
    BY <2>1, <2>2
  <2>4. figures = <<flagged[i], backlog[i]>> /\ others = <<flagged[j], backlog[j]>>
    BY <1>1, <2>1, <2>2
  <2>5. LargerFiguresFirst(figures, others)
        <=> flagged[i] > flagged[j] \/ (flagged[i] = flagged[j] /\ backlog[i] > backlog[j])
    BY <2>4, TwoFigures
  <2>6. <<i, j>> \in second <=> LargerFiguresFirst(figures, others)
    BY <1>3, <2>5 DEF ByTwo
  <2> QED
    BY <2>1, <2>3, <2>6
<1> QED
  BY <1>4, <1>5, <1>6, RatesComeFirst

\* The index and the persistent-pressure watchroom, of the same entries: their first districts.
FirstRepeatsAgree(index, persistent) ==
    /\ index.topPersistent # <<>> <=> persistent.districts # <<>>
    /\ index.topPersistent # <<>> =>
           index.topPersistent[1].persistence.flaggedInLastSix = persistent.districts[1].persistence.flaggedInLastSix

LEMMA RepeatRows ==
    ASSUME NEW r
    PROVE  RepeatRow(r).persistence = r.district.persistence
<1>1. PICK signal : signal = r.district.persistence
  OBVIOUS
<1>2. PICK own : own = [persistence |-> signal]
  OBVIOUS
<1>3. DOMAIN own = {"persistence"} /\ own["persistence"] = signal
  BY <1>2
<1>4. PICK row : row = DistrictRow(r)
  OBVIOUS
<1>5. RepeatRow(r) = [field \in DOMAIN row \cup DOMAIN own |-> IF field \in DOMAIN own THEN own[field] ELSE row[field]]
  BY <1>1, <1>2, <1>4, Zenon DEF RepeatRow, With
<1>6. RepeatRow(r)["persistence"] = own["persistence"]
  BY <1>3, <1>5
<1> QED
  BY <1>1, <1>3, <1>6

LEMMA RankedPersistentList ==
    ASSUME NEW n \in Nat, NEW entries, ListsEntries(entries, n), NEW list, list = PersistentDistricts(entries),
           NEW c \in Nat, ListsPersistent(list, entries, n, c), NEW of, of = [k \in 1 .. c |-> list[k].district],
           NEW ranked, ranked = RankedPersistent(entries)
    PROVE  \E precedes : /\ RateFirst(precedes, of, c)
                         /\ SameEntries(ranked, list, c) /\ StartsWithFirst(ranked, list, precedes, c)
<1>1. DOMAIN list = 1 .. c /\ \A k \in 1 .. c : IsRated(of[k])
  BY DEF ListsPersistent
<1>2. PICK precedes : precedes = {p \in (1 .. c) \X (1 .. c) :
                                    CompareDistrictsByPersistence(list[p[1]].district, list[p[2]].district)}
  OBVIOUS
<1>3. RateFirst(precedes, of, c)
  BY <1>1, <1>2, WatchroomOrder
<1>4. ranked = Arranged(list, precedes)
  BY <1>1, <1>2 DEF RankedPersistent, StableSort
<1>5. WeaklyOrders(precedes, 1 .. c)
  BY <1>3 DEF RateFirst
<1>6. SameEntries(ranked, list, c) /\ StartsWithFirst(ranked, list, precedes, c)
  BY <1>1, <1>4, <1>5, FirstArranged
<1> QED
  BY <1>3, <1>6

LEMMA FirstRepeats ==
    ASSUME NEW n \in Nat, NEW entries, ListsEntries(entries, n)
    PROVE  FirstRepeatsAgree(WatchIndex(entries), PersistentWatchroom(entries))
<1>1. PICK list : list = PersistentDistricts(entries)
  OBVIOUS
<1>2. PICK c \in Nat : ListsPersistent(list, entries, n, c)
  BY <1>1, PersistentInTurn
<1>3. PICK of : of = [k \in 1 .. c |-> list[k].district]
  OBVIOUS
<1>4. DOMAIN list = 1 .. c /\ \A k \in 1 .. c : IsRated(of[k])
  BY <1>2, <1>3 DEF ListsPersistent
<1>5. PICK ranked : ranked = RankedPersistent(entries)
  OBVIOUS
<1>6. PICK precedes : /\ RateFirst(precedes, of, c)
                      /\ SameEntries(ranked, list, c) /\ StartsWithFirst(ranked, list, precedes, c)
  BY <1>1, <1>2, <1>3, <1>5, RankedPersistentList
<1>7. PICK before : before = {p \in (1 .. c) \X (1 .. c) :
               \/ HigherRate(list[p[1]].district, list[p[2]].district)
               \/ /\ SameRate(list[p[1]].district, list[p[2]].district)
                  /\ LargerFiguresFirst(
                        <<list[p[1]].district.persistence.flaggedInLastSix, list[p[1]].district.backlog>>,
                        <<list[p[2]].district.persistence.flaggedInLastSix, list[p[2]].district.backlog>>)}
  OBVIOUS
<1>8. RateFirst(before, of, c)
  BY <1>3, <1>4, <1>7, IndexOrder
<1>9. PICK first : first = Arranged(list, before)
  OBVIOUS
<1>10. SameEntries(first, list, c) /\ StartsWithFirst(first, list, before, c)
  <2>1. WeaklyOrders(before, 1 .. c)
    BY <1>8 DEF RateFirst
  <2> QED
    BY <1>4, <1>9, <2>1, FirstArranged
<1>11. DOMAIN ranked = 1 .. c /\ DOMAIN first = 1 .. c
  BY <1>6, <1>10 DEF SameEntries
<1>12. PICK tops : tops = [k \in 1 .. c |-> RepeatRow(first[k])]
  OBVIOUS
<1>13. WatchIndex(entries).topPersistent = UpTo(tops, 1)
  BY <1>1, <1>4, <1>7, <1>9, <1>11, <1>12 DEF WatchIndex, StableSort
<1>14. PICK shown : shown = UpTo(ranked, DistrictRows)
  OBVIOUS
<1>15. ranked = [k \in 1 .. c |-> ranked[k]]
  BY <1>6 DEF SameEntries
<1>16. PICK b \in 0 .. c : /\ shown = [k \in 1 .. b |-> ranked[k]] /\ (b > 0 <=> c > 0)
                           /\ c > 0 => shown[1] = ranked[1]
  <2>1. PICK limit \in Nat \ {0} : limit = DistrictRows
    BY WatchroomsAssumption
  <2>2. PICK b \in 0 .. c : Starts(UpTo(ranked, limit), ranked, c, b)
    BY <1>15, FirstRows
  <2>3. Starts(shown, ranked, c, b)
    BY <1>14, <2>1, <2>2
  <2> QED
    BY <2>3 DEF Starts
<1>17. PICK rows : rows = [k \in 1 .. b |-> RepeatRow(shown[k])]
  OBVIOUS
<1>18. PersistentWatchroom(entries).districts = rows
  <2>1. DOMAIN shown = 1 .. b
    BY <1>16
  <2> QED
    BY <1>5, <1>14, <1>17, <2>1 DEF PersistentWatchroom
<1>19. rows # <<>> <=> c > 0
  <2>1. b \in Nat /\ rows = [k \in 1 .. b |-> rows[k]]
    BY <1>17
  <2> QED
    BY <1>16, <2>1, NotEmpty
<1>20. /\ UpTo(tops, 1) # <<>> <=> c > 0
       /\ c > 0 => UpTo(tops, 1)[1] = tops[1]
  <2>1. tops = [k \in 1 .. c |-> tops[k]]
    BY <1>12
  <2> QED
    BY <2>1, FirstRows DEF Starts
<1>21. c > 0 => tops[1].persistence.flaggedInLastSix = rows[1].persistence.flaggedInLastSix
  <2>1. SUFFICES ASSUME c > 0 PROVE tops[1].persistence.flaggedInLastSix = rows[1].persistence.flaggedInLastSix
    OBVIOUS
  <2>2. PICK j \in 1 .. c : first[1] = list[j] /\ \A i \in 1 .. c : <<i, j>> \notin before
    BY <1>10, <2>1 DEF StartsWithFirst
  <2>3. PICK k \in 1 .. c : ranked[1] = list[k] /\ \A i \in 1 .. c : <<i, k>> \notin precedes
    BY <1>6, <2>1 DEF StartsWithFirst
  <2>4. of[j].persistence.flaggedInLastSix = of[k].persistence.flaggedInLastSix
    <3>1. RateFirst(before, of, c) /\ RateFirst(precedes, of, c) /\ \A i \in 1 .. c : IsRated(of[i])
      BY <1>4, <1>6, <1>8
    <3>2. (\A i \in 1 .. c : <<i, j>> \notin before) /\ (\A i \in 1 .. c : <<i, k>> \notin precedes)
      BY <2>2, <2>3
    <3> QED
      BY ONLY <1>2, <3>1, <3>2, FirstRates, SMTT(30)
  <2>5. tops[1] = RepeatRow(list[j]) /\ rows[1] = RepeatRow(list[k])
    BY <1>12, <1>16, <1>17, <2>1, <2>2, <2>3
  <2>6. tops[1].persistence = of[j].persistence /\ rows[1].persistence = of[k].persistence
    BY <1>3, <2>5, RepeatRows
  <2> QED
    BY <2>4, <2>6
<1> QED
  BY <1>13, <1>18, <1>19, <1>20, <1>21, Zenon DEF FirstRepeatsAgree

-----------------------------------------------------------------------------
(* The geographies of the persistent-pressure watchroom *)

\* The districts that repeat, of one geography.
IsRepeat(q, ranked, g, c) ==
    /\ Len(q) \in Nat
    /\ q # <<>> <=> Len(q) > 0
    /\ Len(q) > 0 <=> \E k \in 1 .. c : ranked[k].geography = g
    /\ Len(q) > 0 => IsRated(q[1].district)

LEMMA RepeatsAreRated ==
    ASSUME NEW c \in Nat, NEW ranked, DOMAIN ranked = 1 .. c, \A k \in 1 .. c : IsRated(ranked[k].district), NEW g
    PROVE  IsRepeat(Repeat(ranked, g), ranked, g, c)
<1>1. PICK places : places = {k \in 1 .. c : ranked[k].geography = g}
  OBVIOUS
<1>2. PICK q : q = Filtered(ranked, places)
  OBVIOUS
<1>3. PICK m \in Nat : \E order : Keeps(q, ranked, places, m, order)
  BY <1>1, <1>2, Filters
<1>4. PICK order : Keeps(q, ranked, places, m, order)
  BY <1>3
<1>5. /\ order \in [1 .. m -> places] /\ q = [k \in 1 .. m |-> ranked[order[k]]]
      /\ \A i \in places : \E k \in 1 .. m : order[k] = i
  BY <1>4 DEF Keeps
<1>6. q = [k \in 1 .. m |-> q[k]]
  BY <1>5
<1>7. Len(q) = m
  BY <1>6, WholeList
<1>8. q # <<>> <=> m > 0
  BY <1>6, NotEmpty
<1>9. ASSUME m > 0 PROVE IsRated(q[1].district) /\ \E k \in 1 .. c : ranked[k].geography = g
  <2>1. 1 \in 1 .. m
    BY <1>9
  <2>2. PICK k \in places : k = order[1]
    BY <1>5, <2>1
  <2>3. q[1] = ranked[k] /\ k \in 1 .. c /\ ranked[k].geography = g
    BY <1>1, <1>5, <2>1, <2>2
  <2> QED
    BY <2>3
<1>10. ASSUME NEW k \in 1 .. c, ranked[k].geography = g PROVE m > 0
  <2>1. k \in places
    BY <1>1, <1>10
  <2> QED
    BY <1>5, <2>1
<1>11. Repeat(ranked, g) = q
  BY <1>1, <1>2 DEF Repeat, Where
<1> QED
  BY <1>7, <1>8, <1>9, <1>10, <1>11 DEF IsRepeat

LEMMA RepeatsOrder ==
    ASSUME NEW m \in Nat, NEW repeats, \A k \in 1 .. m : Len(repeats[k]) \in Nat /\ IsRated(repeats[k][1].district),
           NEW precedes, precedes = {p \in (1 .. m) \X (1 .. m) : MorePersistent(repeats[p[1]], repeats[p[2]])}
    PROVE  WeaklyOrders(precedes, 1 .. m)
<1>1. PICK count, top, backlog :
        /\ count = [k \in 1 .. m |-> Len(repeats[k])]
        /\ top = [k \in 1 .. m |-> repeats[k][1].district]
        /\ backlog = [k \in 1 .. m |-> repeats[k][1].district.backlog]
  OBVIOUS
<1>2. PICK places : places = 1 .. m
  OBVIOUS
<1>3. \A k \in places : count[k] \in Int /\ backlog[k] \in Int /\ IsRated(top[k])
  BY <1>1, <1>2 DEF IsRated
<1>4. PICK third : third = ByFigure(backlog, places)
  OBVIOUS
<1>5. WeaklyOrders(third, places) /\ \A i, j \in places : <<i, j>> \in third <=> backlog[i] > backlog[j]
  BY <1>3, <1>4, FigureOrders DEF ByFigure
<1>6. PICK second : second = {p \in places \X places :
                                HigherRate(top[p[1]], top[p[2]]) \/ (SameRate(top[p[1]], top[p[2]]) /\ p \in third)}
  OBVIOUS
<1>7. \A i, j \in places :
        <<i, j>> \in second <=> HigherRate(top[i], top[j]) \/ (SameRate(top[i], top[j]) /\ <<i, j>> \in third)
  BY <1>6
<1>8. WeaklyOrders(second, places)
  <2>1. \A k \in places : IsRated(top[k])
    BY <1>3
  <2> QED
    BY <1>5, <1>7, <2>1, RateThen
<1>9. ASSUME NEW i \in places, NEW j \in places
      PROVE  <<i, j>> \in precedes <=> count[i] > count[j] \/ (count[i] = count[j] /\ <<i, j>> \in second)
  <2>1. PICK q, r : q = repeats[i] /\ r = repeats[j]
    OBVIOUS
  <2>2. <<i, j>> \in precedes <=> MorePersistent(q, r)
    BY <1>2, <2>1
  <2>3. /\ count[i] = Len(q) /\ top[i] = q[1].district /\ backlog[i] = q[1].district.backlog
        /\ count[j] = Len(r) /\ top[j] = r[1].district /\ backlog[j] = r[1].district.backlog
    BY <1>1, <1>2, <2>1
  <2>4. MorePersistent(q, r)
        <=> \/ count[i] > count[j]
            \/ count[i] = count[j] /\ HigherRate(top[i], top[j])
            \/ count[i] = count[j] /\ SameRate(top[i], top[j]) /\ backlog[i] > backlog[j]
    BY <2>3 DEF MorePersistent
  <2> QED
    BY <1>5, <1>7, <2>2, <2>4
<1>10. \A k \in places : count[k] \in Int
  BY <1>3
<1>11. WeaklyOrders(precedes, places)
  BY <1>8, <1>9, <1>10, FigureThen, SMTT(30)
<1> QED
  BY <1>2, <1>11

\* The index counts the geographies that the watchroom lists.
LEMMA PersistentCount ==
    ASSUME NEW n \in Nat, NEW entries, ListsEntries(entries, n)
    PROVE  WatchIndex(entries).withPersistent = Len(PersistentWatchroom(entries).geographies)
<1>1. PICK list : list = PersistentDistricts(entries)
  OBVIOUS
<1>2. PICK c \in Nat : ListsPersistent(list, entries, n, c)
  BY <1>1, PersistentInTurn
<1>3. PICK ranked : ranked = RankedPersistent(entries)
  OBVIOUS
<1>4. SameEntries(ranked, list, c)
  <2>1. PICK of : of = [k \in 1 .. c |-> list[k].district]
    OBVIOUS
  <2> QED
    BY <1>1, <1>2, <1>3, <2>1, RankedPersistentList
<1>5. DOMAIN ranked = 1 .. c /\ \A k \in 1 .. c : \E i \in 1 .. c : ranked[k] = list[i]
  BY <1>4 DEF SameEntries
<1>6. /\ DOMAIN list = 1 .. c
      /\ \A k \in 1 .. c : IsRated(list[k].district) /\ \E i \in 1 .. n : list[k].geography = entries[i].geography
  BY <1>2 DEF ListsPersistent
<1>7. \A k \in 1 .. c : IsRated(ranked[k].district)
  BY <1>5, <1>6
<1>8. DOMAIN entries = 1 .. n /\ \A i, j \in 1 .. n : entries[i].geography = entries[j].geography => i = j
  BY DEF ListsEntries
<1>9. PICK all : all = [i \in 1 .. n |-> Repeat(ranked, entries[i].geography)]
  OBVIOUS
<1>10. \A i \in 1 .. n : IsRepeat(all[i], ranked, entries[i].geography, c)
  BY <1>5, <1>7, <1>9, RepeatsAreRated
<1>11. PICK places : places = {i \in 1 .. n : all[i] # <<>>}
  OBVIOUS
<1>12. PICK repeats : repeats = Filtered(all, places)
  OBVIOUS
<1>13. PICK m \in Nat : \E order : Keeps(repeats, all, places, m, order)
  BY <1>11, <1>12, Filters
<1>14. PICK order : Keeps(repeats, all, places, m, order)
  BY <1>13
<1>15. /\ order \in [1 .. m -> places] /\ repeats = [k \in 1 .. m |-> all[order[k]]]
       /\ \A i \in places : \E k \in 1 .. m : order[k] = i
       /\ \A j, k \in 1 .. m : j < k => order[j] < order[k]
  BY <1>14 DEF Keeps
<1>16. \A k \in 1 .. m : Len(repeats[k]) \in Nat /\ IsRated(repeats[k][1].district)
  <2>1. ASSUME NEW k \in 1 .. m PROVE Len(repeats[k]) \in Nat /\ IsRated(repeats[k][1].district)
    <3>1. PICK i \in places : i = order[k] /\ repeats[k] = all[i]
      BY <1>15
    <3>2. i \in 1 .. n /\ all[i] # <<>>
      BY <1>11
    <3> QED
      BY <1>10, <3>1, <3>2 DEF IsRepeat
  <2> QED
    BY <2>1
<1>17. PICK precedes : precedes = {p \in (1 .. m) \X (1 .. m) : MorePersistent(repeats[p[1]], repeats[p[2]])}
  OBVIOUS
<1>18. WeaklyOrders(precedes, 1 .. m)
  BY <1>16, <1>17, RepeatsOrder
<1>19. PICK sorted : sorted = Arranged(repeats, precedes)
  OBVIOUS
<1>20. DOMAIN repeats = 1 .. m
  BY <1>15
<1>21. SameEntries(sorted, repeats, m)
  BY <1>18, <1>19, <1>20, FirstArranged
<1>22. DOMAIN sorted = 1 .. m
  BY <1>21 DEF SameEntries
<1>23. PersistentGeographies(entries) = sorted
  <2>1. [i \in DOMAIN entries |-> Repeat(ranked, entries[i].geography)] = all
    BY <1>8, <1>9
  <2>2. Where(all, LAMBDA repeat : repeat # <<>>) = repeats
    BY <1>9, <1>11, <1>12 DEF Where
  <2>3. StableSort(repeats, MorePersistent) = sorted
    BY <1>17, <1>19, <1>20 DEF StableSort
  <2> QED
    BY <1>3, <2>1, <2>2, <2>3 DEF PersistentGeographies
<1>24. Len(PersistentWatchroom(entries).geographies) = m
  <2>1. PICK rows : rows = [i \in 1 .. m |-> [geography |-> sorted[i][1].geography,
                                              repeats |-> Len(sorted[i]), top |-> RepeatRow(sorted[i][1])]]
    OBVIOUS
  <2>2. PersistentWatchroom(entries).geographies = rows
    BY <1>22, <1>23, <2>1 DEF PersistentWatchroom
  <2>3. rows = [k \in 1 .. m |-> rows[k]]
    BY <2>1
  <2>4. Len(rows) = m
    BY <2>3, WholeList
  <2> QED
    BY <2>2, <2>4
<1>25. PICK named : named = {list[k].geography : k \in 1 .. c}
  OBVIOUS
<1>26. ASSUME NEW i \in 1 .. n PROVE i \in places <=> entries[i].geography \in named
  <2>1. i \in places <=> \E k \in 1 .. c : ranked[k].geography = entries[i].geography
    BY <1>10, <1>11 DEF IsRepeat
  <2>2. \A k \in 1 .. c : \E h \in 1 .. c : ranked[h] = list[k]
    BY <1>4 DEF SameEntries
  <2>3. ASSUME NEW k \in 1 .. c, ranked[k].geography = entries[i].geography PROVE entries[i].geography \in named
    BY <1>5, <1>25, <2>3
  <2>4. ASSUME entries[i].geography \in named PROVE \E k \in 1 .. c : ranked[k].geography = entries[i].geography
    <3>1. PICK k \in 1 .. c : list[k].geography = entries[i].geography
      BY <1>25, <2>4
    <3>2. PICK h \in 1 .. c : ranked[h] = list[k]
      BY <2>2
    <3> QED
      BY <3>1, <3>2
  <2> QED
    BY <2>1, <2>3, <2>4
<1>27. PICK f : f = [k \in 1 .. m |-> entries[order[k]].geography]
  OBVIOUS
<1>28. f \in Bijection(1 .. m, named)
  <2>1. ASSUME NEW k \in 1 .. m PROVE f[k] \in named
    <3>1. PICK i \in places : i = order[k]
      BY <1>15
    <3> QED
      BY <1>11, <1>26, <1>27, <3>1
  <2>2. ASSUME NEW j \in 1 .. m, NEW k \in 1 .. m, f[j] = f[k] PROVE j = k
    <3>1. order[j] \in 1 .. n /\ order[k] \in 1 .. n
      BY <1>11, <1>15
    <3>2. order[j] = order[k]
      BY <1>8, <1>27, <2>2, <3>1
    <3>3. ~(j < k) /\ ~(k < j)
      BY <1>15, <3>1, <3>2
    <3> QED
      BY <3>3
  <2>3. ASSUME NEW g \in named PROVE \E k \in 1 .. m : f[k] = g
    <3>1. PICK i \in 1 .. n : entries[i].geography = g
      BY <1>6, <1>25
    <3>2. i \in places
      BY <1>26, <3>1
    <3>3. PICK k \in 1 .. m : order[k] = i
      BY <1>15, <3>2
    <3> QED
      BY <1>27, <3>1, <3>3
  <2> QED
    BY <1>27, <2>1, <2>2, <2>3 DEF Bijection, Injection, Surjection, IsInjective
<1>29. Cardinality(named) = m
  <2>1. ExistsBijection(1 .. m, named)
    BY <1>28 DEF ExistsBijection
  <2> QED
    BY <2>1, FS_CountingElements
<1>30. WatchIndex(entries).withPersistent = Cardinality(named)
  <2>1. {r.geography : r \in ToSet(list)} = named
    BY <1>6, <1>25 DEF ToSet
  <2> QED
    BY <1>1, <2>1 DEF WatchIndex
<1> QED
  BY <1>24, <1>29, <1>30

-----------------------------------------------------------------------------
(* The pressure index *)

LEMMA LargerOfTwo ==
    ASSUME NEW a \in Int, NEW b \in Int
    PROVE  Max({a, b}) \in {a, b} /\ Min({a, b}) \in {a, b}
<1>1. \E x \in {a, b} : \A y \in {a, b} : x >= y
  OBVIOUS
<1>2. \E x \in {a, b} : \A y \in {a, b} : x =< y
  OBVIOUS
<1> QED
  BY <1>1, <1>2 DEF Max, Min

LEMMA ClampType == ASSUME NEW tenths \in Int PROVE Clamp(tenths) \in Int
<1>1. PICK least \in Int : least = Min({tenths, 1000})
  <2>1. 1000 \in Int
    OBVIOUS
  <2>2. Min({tenths, 1000}) \in {tenths, 1000}
    BY <2>1, LargerOfTwo
  <2> QED
    BY <2>2
<1>2. Max({0, least}) \in {0, least}
  BY LargerOfTwo, 0 \in Int
<1> QED
  BY <1>1, <1>2 DEF Clamp

LEMMA NormalizedType ==
    ASSUME NEW values \in SUBSET Nat, IsFiniteSet(values), NEW value \in values
    PROVE  NormalizedIn(value, values) \in Int
<1>1. Max(values) \in values /\ Min(values) \in values
  BY Extremes
<1>2. PICK most \in Nat, least \in Nat : most = Max(values) /\ least = Min(values)
  BY <1>1
<1>3. CASE most <= least
  BY <1>2, <1>3 DEF NormalizedIn
<1>4. CASE most > least
  <2>1. value - least \in Int /\ most - least \in Nat \ {0}
    BY <1>4
  <2>2. PICK share \in Int : share = Tenths(value - least, most - least)
    BY <2>1, Signs
  <2>3. Clamp(share) \in Int
    BY ClampType
  <2>4. ~(most <= least)
    BY <1>4
  <2>5. NormalizedIn(value, values) = Clamp(share)
    BY <1>2, <2>2, <2>4 DEF NormalizedIn
  <2> QED
    BY <2>3, <2>5
<1> QED
  BY <1>3, <1>4

LEMMA NormalizedAmong ==
    ASSUME NEW n \in Nat, NEW value, \A i \in 1 .. n : value[i] \in Nat, NEW i \in 1 .. n
    PROVE  NormalizedIn(value[i], {value[k] : k \in 1 .. n}) \in Int
<1>1. PICK values : values = {value[k] : k \in 1 .. n}
  OBVIOUS
<1>2. PICK f : f = [k \in 1 .. n |-> value[k]]
  OBVIOUS
<1>3. f \in Surjection(1 .. n, values)
  BY <1>1, <1>2 DEF Surjection
<1>4. IsFiniteSet(1 .. n)
  BY FS_Interval, 1 \in Int
<1>5. IsFiniteSet(values)
  BY <1>3, <1>4, FS_Surjection
<1>6. values \in SUBSET Nat /\ value[i] \in values
  BY <1>1
<1> QED
  BY <1>1, <1>5, <1>6, NormalizedType

LEMMA PressureType ==
    ASSUME NEW n \in Nat, NEW entries, ListsEntries(entries, n), NEW i \in 1 .. n
    PROVE  ComputePressure(entries[i], entries) \in Int
<1>1. DOMAIN entries = 1 .. n /\ \A k \in 1 .. n : IsFigured(entries[k].snapshot)
  BY DEF ListsEntries
<1>2. PICK pending, age : /\ pending = [k \in 1 .. n |-> entries[k].snapshot.stats.pending]
                          /\ age = [k \in 1 .. n |-> entries[k].snapshot.stats.medianAge]
  OBVIOUS
<1>3. \A k \in 1 .. n : pending[k] \in Nat /\ age[k] \in Nat
  BY <1>1, <1>2 DEF IsFigured
<1>4. PICK first \in Int : first = NormalizedIn(pending[i], {pending[k] : k \in 1 .. n})
  BY <1>3, NormalizedAmong
<1>5. PICK second \in Int : second = NormalizedIn(age[i], {age[k] : k \in 1 .. n})
  BY <1>3, NormalizedAmong
<1>6. PICK snapshot : snapshot = entries[i].snapshot
  OBVIOUS
<1>7. snapshot.stats.disposalRate \in Int /\ snapshot.flagged \in Nat
  BY <1>1, <1>6 DEF IsFigured
<1>8. PICK third \in Int : third = Clamp(1000 - snapshot.stats.disposalRate)
  BY <1>7, ClampType
<1>9. PICK m \in Nat : HasSignals(snapshot.districts, m)
  BY <1>6 DEF ListsEntries
<1>10. Len(snapshot.districts) = m
  BY <1>9 DEF HasSignals
<1>11. PICK fourth \in Int : fourth = Clamp(Percentage(snapshot.flagged, Len(snapshot.districts)))
  BY <1>7, <1>10, PercentageType, ClampType
<1>12. ToSet(entries) = {entries[k] : k \in 1 .. n}
  BY <1>1 DEF ToSet
<1>13. /\ {x.snapshot.stats.pending : x \in ToSet(entries)} = {pending[k] : k \in 1 .. n}
       /\ {x.snapshot.stats.medianAge : x \in ToSet(entries)} = {age[k] : k \in 1 .. n}
  BY <1>2, <1>12
<1>14. snapshot.stats.pending = pending[i] /\ snapshot.stats.medianAge = age[i]
  BY <1>2, <1>6
<1>15. ComputePressure(entries[i], entries) = 4 * first + 3 * second + 2 * third + fourth
  <2>1. ComputePressure(entries[i], entries) =
            4 * NormalizedIn(entries[i].snapshot.stats.pending, {x.snapshot.stats.pending : x \in ToSet(entries)})
            + 3 * NormalizedIn(entries[i].snapshot.stats.medianAge, {x.snapshot.stats.medianAge : x \in ToSet(entries)})
            + 2 * Clamp(1000 - entries[i].snapshot.stats.disposalRate)
            + Clamp(Percentage(entries[i].snapshot.flagged, Len(entries[i].snapshot.districts)))
    BY Zenon DEF ComputePressure
  <2>2. first = NormalizedIn(entries[i].snapshot.stats.pending, {x.snapshot.stats.pending : x \in ToSet(entries)})
    BY <1>4, <1>6, <1>13, <1>14, Zenon
  <2>3. second = NormalizedIn(entries[i].snapshot.stats.medianAge, {x.snapshot.stats.medianAge : x \in ToSet(entries)})
    BY <1>5, <1>6, <1>13, <1>14, Zenon
  <2>4. third = Clamp(1000 - entries[i].snapshot.stats.disposalRate)
    BY <1>6, <1>8
  <2>5. fourth = Clamp(Percentage(entries[i].snapshot.flagged, Len(entries[i].snapshot.districts)))
    BY <1>6, <1>11
  <2> QED
    BY <2>1, <2>2, <2>3, <2>4, <2>5, ZenonT(40)
<1> QED
  BY <1>15

-----------------------------------------------------------------------------
(* The map and the home page *)

LEMMA QuotientsRise ==
    ASSUME NEW a \in Int, NEW b \in Int, a <= b, NEW d \in Nat \ {0}
    PROVE  a \div d <= b \div d
<1>1. PICK q \in Int, r \in Int : q = a \div d /\ r = b \div d
  BY Quotient
<1>2. d * q <= a /\ b < d * r + d
  BY <1>1, Quotient
<1>3. d * q < d * (r + 1)
  <2>1. d * (r + 1) = d * r + d /\ d * q \in Int /\ d * r \in Int
    OBVIOUS
  <2> QED
    BY <1>2, <2>1
<1>4. q < r + 1
  BY <1>3
<1> QED
  BY <1>1, <1>4

\* The colour of a place on the map.
BinOf(i, n) ==
    IF n <= 1 THEN RampBins - 1 ELSE (2 * (i - 1) * (RampBins - 1) + n - 1) \div (2 * (n - 1))

LEMMA BinsRise ==
    ASSUME NEW n \in Nat, NEW i \in 1 .. n, NEW j \in 1 .. n, i <= j
    PROVE  BinOf(i, n) <= BinOf(j, n)
<1>1. PICK r \in Nat : r = RampBins - 1
  BY WatchroomsAssumption
<1>2. CASE n <= 1
  BY <1>1, <1>2 DEF BinOf
<1>3. CASE n > 1
  <2>1. PICK x \in Nat, y \in Nat : x = i - 1 /\ y = j - 1 /\ x <= y
    OBVIOUS
  <2>2. 2 * x * r \in Int /\ 2 * y * r \in Int /\ 2 * x * r <= 2 * y * r
    <3>1. PICK z \in Nat : y = x + z
      BY <2>1
    <3>2. 2 * y * r = 2 * x * r + 2 * z * r /\ 2 * z * r \in Nat /\ 2 * x * r \in Nat
      BY <3>1
    <3> QED
      BY <3>2
  <2>3. PICK a \in Int, b \in Int : a = 2 * x * r + n - 1 /\ b = 2 * y * r + n - 1 /\ a <= b
    BY <2>2
  <2>4. PICK d \in Nat \ {0} : d = 2 * (n - 1)
    BY <1>3
  <2>5. a \div d <= b \div d
    BY <2>3, <2>4, QuotientsRise
  <2>6. BinOf(i, n) = a \div d /\ BinOf(j, n) = b \div d
    <3>1. ~(n <= 1)
      BY <1>3
    <3> QED
      BY <1>1, <2>1, <2>3, <2>4, <3>1, Zenon DEF BinOf
  <2> QED
    BY <2>5, <2>6
<1> QED
  BY <1>2, <1>3

LEMMA BinsFollowScores ==
    ASSUME NEW n \in Nat, NEW scored, DOMAIN scored = 1 .. n, \A i \in 1 .. n : scored[i].score \in Int
    PROVE  \A b, c \in ToSet(AssignBinsByRank(scored)) : b.score > c.score => b.bin >= c.bin
<1>1. PICK fall : fall = [i \in 1 .. n |-> -scored[i].score]
  OBVIOUS
<1>2. \A i \in 1 .. n : fall[i] \in Int
  BY <1>1
<1>3. PICK precedes : precedes = ByFigure(fall, 1 .. n)
  OBVIOUS
<1>4. WeaklyOrders(precedes, 1 .. n)
  BY <1>2, <1>3, FigureOrders
<1>5. \A i, j \in 1 .. n : <<i, j>> \in precedes <=> scored[i].score < scored[j].score
  BY <1>1, <1>3 DEF ByFigure
<1>6. PICK rising : rising = Arranged(scored, precedes)
  OBVIOUS
<1>7. PICK order : Arranges(rising, scored, precedes, n, order)
  BY <1>4, <1>6, Arrangement
<1>8. /\ order \in [1 .. n -> 1 .. n] /\ rising = [k \in 1 .. n |-> scored[order[k]]]
      /\ \A j, k \in 1 .. n : j < k => <<order[k], order[j]>> \notin precedes
  BY <1>7 DEF Arranges
<1>9. StableSort(scored, LAMBDA x, y : x.score < y.score) = rising
  <2>1. {p \in (1 .. n) \X (1 .. n) : scored[p[1]].score < scored[p[2]].score} = precedes
    <3>1. precedes \subseteq (1 .. n) \X (1 .. n)
      BY <1>3 DEF ByFigure
    <3> QED
      BY <1>5, <3>1
  <2> QED
    BY <1>6, <2>1 DEF StableSort
<1>10. DOMAIN rising = 1 .. n /\ Len(rising) = n
  <2>1. rising = [k \in 1 .. n |-> rising[k]]
    BY <1>8
  <2> QED
    BY <2>1, WholeList
<1>11. PICK bins : bins = [i \in 1 .. n |-> [geography |-> rising[i].entry.geography,
                                             score |-> rising[i].score, bin |-> BinOf(i, n)]]
  OBVIOUS
<1>12. AssignBinsByRank(scored) = bins
  BY <1>9, <1>10, <1>11, Zenon DEF AssignBinsByRank, BinOf
<1>13. ASSUME NEW i \in 1 .. n, NEW j \in 1 .. n, bins[i].score > bins[j].score
       PROVE  bins[i].bin >= bins[j].bin
  <2>1. /\ bins[i].score = scored[order[i]].score /\ bins[i].bin = BinOf(i, n)
        /\ bins[j].score = scored[order[j]].score /\ bins[j].bin = BinOf(j, n)
    BY <1>8, <1>11
  <2>2. PICK h \in 1 .. n, k \in 1 .. n : h = order[i] /\ k = order[j]
    BY <1>8
  <2>3. scored[h].score \in Int /\ scored[k].score \in Int /\ scored[k].score < scored[h].score
    BY <1>13, <2>1, <2>2
  <2>4. ~(i < j)
    BY <1>5, <1>8, <2>2, <2>3
  <2>5. BinOf(j, n) <= BinOf(i, n)
    BY <2>4, BinsRise
  <2> QED
    BY <2>1, <2>5
<1>14. ToSet(bins) = {bins[i] : i \in 1 .. n}
  BY <1>11 DEF ToSet
<1> QED
  BY <1>12, <1>13, <1>14

LEMMA MapHeadlines ==
    ASSUME NEW n \in Nat \ {0}, NEW entries, ListsEntries(entries, n)
    PROVE  MapAgrees(RenderIndiaMap(entries), NationalHome(entries, <<>>))
<1>1. PICK scored : scored = [i \in 1 .. n |-> [entry |-> entries[i], score |-> ComputePressure(entries[i], entries)]]
  OBVIOUS
<1>2. \A i \in 1 .. n : scored[i].score \in Int
  BY <1>1, PressureType
<1>3. PICK score : score = [i \in 1 .. n |-> scored[i].score]
  OBVIOUS
<1>4. \A i \in 1 .. n : score[i] \in Int
  BY <1>2, <1>3
<1>5. PICK precedes : precedes = ByFigure(score, 1 .. n)
  OBVIOUS
<1>6. WeaklyOrders(precedes, 1 .. n)
  BY <1>4, <1>5, FigureOrders
<1>7. PICK ranked : ranked = Arranged(scored, precedes)
  OBVIOUS
<1>8. DOMAIN scored = 1 .. n
  BY <1>1
<1>9. SameEntries(ranked, scored, n)
  BY <1>6, <1>7, <1>8, FirstArranged
<1>10. DOMAIN ranked = 1 .. n /\ \A k \in 1 .. n : ranked[k].score \in Int
  BY <1>2, <1>9 DEF SameEntries
<1>11. RankIndiaMapEntriesByPressure(entries) = ranked
  <2>1. DOMAIN entries = 1 .. n
    BY DEF ListsEntries
  <2>2. {p \in (1 .. n) \X (1 .. n) : scored[p[1]].score > scored[p[2]].score} = precedes
    BY <1>3, <1>5 DEF ByFigure
  <2> QED
    BY <1>1, <1>7, <1>8, <2>1, <2>2, Zenon DEF RankIndiaMapEntriesByPressure, StableSort
<1>12. PICK names : names = [i \in 1 .. n |-> ranked[i].entry.geography]
  OBVIOUS
<1>13. UpTo(names, 3)[1] = names[1]
  <2>1. names = [k \in 1 .. n |-> names[k]]
    BY <1>12
  <2>2. PICK c \in 0 .. n : Starts(UpTo(names, 3), names, n, c)
    BY <2>1, FirstRows, 3 \in Nat \ {0}
  <2> QED
    BY <2>2 DEF Starts
<1>14. RenderIndiaMap(entries).callouts = UpTo(names, 3)
  BY <1>10, <1>11, <1>12 DEF RenderIndiaMap
<1>15. RenderIndiaMap(entries).bins = AssignBinsByRank(ranked)
  BY <1>11 DEF RenderIndiaMap
<1>16. NationalHome(entries, <<>>).topState = ranked[1].entry.geography
  BY <1>11 DEF NationalHome
<1>17. names[1] = ranked[1].entry.geography
  BY <1>12
<1>18. \A b, c \in ToSet(AssignBinsByRank(ranked)) : b.score > c.score => b.bin >= c.bin
  BY <1>10, BinsFollowScores
<1> QED
  BY <1>13, <1>14, <1>15, <1>16, <1>17, <1>18, Zenon DEF MapAgrees

LEMMA PersistentHeadlines ==
    ASSUME NEW n \in Nat, NEW entries, ListsEntries(entries, n)
    PROVE  PersistentAgrees(WatchIndex(entries), PersistentWatchroom(entries))
<1>1. PICK index, persistent : index = WatchIndex(entries) /\ persistent = PersistentWatchroom(entries)
  OBVIOUS
<1>2. FirstRepeatsAgree(index, persistent)
  BY <1>1, FirstRepeats
<1>3. index.withPersistent = Len(persistent.geographies)
  BY <1>1, PersistentCount
<1>4. PersistentAgrees(index, persistent)
  BY <1>2, <1>3 DEF FirstRepeatsAgree, PersistentAgrees
<1> QED
  BY <1>1, <1>4

-----------------------------------------------------------------------------
(* The entries *)

LEMMA EntriesAreListed ==
    ASSUME TablesInv, BuiltInv
    PROVE  \E n \in Nat : /\ ListsEntries(Entries, n)
                          /\ {Entries[i].geography : i \in 1 .. n} = Live
                          /\ Live # {} => n # 0
<1>1. PICK all : all = Live
  OBVIOUS
<1>2. PICK size \in Nat : size = Len(Geographies) /\ DOMAIN Geographies = 1 .. size
  BY RegistryAssumption, LenProperties
<1>3. \A i, j \in 1 .. size : Geographies[i] = Geographies[j] => i = j
  BY <1>2, RegistryAssumption DEF IsInjective
<1>4. \A g \in all : \E i \in 1 .. size : Geographies[i] = g
  BY <1>1, <1>2 DEF Live, ToSet
<1>5. PICK places : places = {i \in 1 .. size : Geographies[i] \in all}
  OBVIOUS
<1>6. PICK live : live = Filtered(Geographies, places)
  OBVIOUS
<1>7. PICK n \in Nat : \E order : Keeps(live, Geographies, places, n, order)
  BY <1>5, <1>6, Filters
<1>8. PICK order : Keeps(live, Geographies, places, n, order)
  BY <1>7
<1>9. /\ order \in [1 .. n -> places] /\ live = [k \in 1 .. n |-> Geographies[order[k]]]
      /\ \A i \in places : \E k \in 1 .. n : order[k] = i
      /\ \A j, k \in 1 .. n : j < k => order[j] < order[k]
  BY <1>8 DEF Keeps
<1>10. PICK entries : entries = [i \in 1 .. n |-> [geography |-> live[i], snapshot |-> Active(live[i])]]
  OBVIOUS
<1>11. Entries = entries
  <2>1. {i \in DOMAIN Geographies : Geographies[i] \in Live} = places
    BY <1>1, <1>2, <1>5
  <2>2. DOMAIN live = 1 .. n
    BY <1>9
  <2>3. Entries = [i \in DOMAIN live |-> [geography |-> live[i], snapshot |-> Active(live[i])]]
    BY <1>6, <2>1, Zenon DEF Entries, Where
  <2> QED
    BY <1>10, <2>2, <2>3
<1>12. \A i \in 1 .. n : live[i] \in all
  BY <1>5, <1>9
<1>13. ASSUME NEW i \in 1 .. n
       PROVE  /\ IsFigured(entries[i].snapshot)
              /\ \E m \in Nat : HasSignals(entries[i].snapshot.districts, m)
  <2>1. PICK g \in Live : g = live[i]
    BY <1>1, <1>12
  <2>2. PICK s \in 1 .. Len(snapshots) : Active(g) = snapshots[s]
    BY ActiveIsPublished
  <2>3. entries[i].snapshot = snapshots[s]
    BY <1>10, <2>1, <2>2
  <2>4. IsFigured(snapshots[s]) /\ \E m \in Nat : HasSignals(snapshots[s].districts, m)
    BY SnapshotsAreFigured
  <2> QED
    BY <2>3, <2>4
<1>14. ASSUME NEW i \in 1 .. n, NEW j \in 1 .. n, entries[i].geography = entries[j].geography PROVE i = j
  <2>1. live[i] = live[j]
    BY <1>10, <1>14
  <2>2. order[i] \in 1 .. size /\ order[j] \in 1 .. size
    BY <1>5, <1>9
  <2>3. order[i] = order[j]
    BY <1>3, <1>9, <2>1, <2>2
  <2>4. ~(i < j) /\ ~(j < i)
    BY <1>9, <2>2, <2>3
  <2> QED
    BY <2>4
<1>15. DOMAIN entries = 1 .. n
  BY <1>10
<1>16. ListsEntries(entries, n)
  BY <1>13, <1>14, <1>15 DEF ListsEntries
<1>17. ASSUME NEW g \in all PROVE \E i \in 1 .. n : entries[i].geography = g
  <2>1. PICK i \in 1 .. size : Geographies[i] = g
    BY <1>4
  <2>2. i \in places
    BY <1>5, <2>1
  <2>3. PICK k \in 1 .. n : order[k] = i
    BY <1>9, <2>2
  <2> QED
    BY <1>9, <1>10, <2>1, <2>3
<1>18. {entries[i].geography : i \in 1 .. n} = all
  BY <1>10, <1>12, <1>17
<1>19. all # {} => n # 0
  BY <1>17
<1> QED
  BY <1>1, <1>11, <1>16, <1>18, <1>19, Zenon

LEMMA ReportsInvImpliesHeadlines == ReportsInv => HeadlinesOpenTheirWatchroom
<1> SUFFICES ASSUME ReportsInv PROVE HeadlinesOpenTheirWatchroom
  OBVIOUS
<1>1. TablesInv /\ BuiltInv
  BY DEF ReportsInv
<1>2. PICK n \in Nat : /\ ListsEntries(Entries, n)
                       /\ {Entries[i].geography : i \in 1 .. n} = Live
                       /\ Live # {} => n # 0
  BY <1>1, EntriesAreListed
<1>3. PICK entries : entries = Entries
  OBVIOUS
<1>4. ListsEntries(entries, n) /\ {entries[i].geography : i \in 1 .. n} = Live
  BY <1>2, <1>3
<1>5. OldCasesAgree(WatchIndex(entries), OldCaseWatchroom(entries), {entries[i].geography : i \in 1 .. n})
  BY <1>4, OldCaseHeadlines
<1>6. ConcentrationAgrees(WatchIndex(entries), ConcentrationWatchroom(entries), {entries[i].geography : i \in 1 .. n})
  BY <1>4, ConcentrationHeadlines
<1>7. PersistentAgrees(WatchIndex(entries), PersistentWatchroom(entries))
  BY <1>4, PersistentHeadlines
<1>8. Live # {} => MapAgrees(RenderIndiaMap(entries), NationalHome(entries, <<>>))
  <2>1. Live # {} => n \in Nat \ {0}
    BY <1>2
  <2> QED
    BY <1>4, <2>1, MapHeadlines
<1> QED
  BY <1>3, <1>4, <1>5, <1>6, <1>7, <1>8, Zenon DEF HeadlinesOpenTheirWatchroom

-----------------------------------------------------------------------------
(* Steps *)

LEMMA InitReports == Init => ReportsInv
<1> SUFFICES ASSUME Init PROVE ReportsInv
  OBVIOUS
<1>1. TablesInv
  BY DEF Init, None, TablesInv
<1>2. ReaderInv
  BY DEF Init, Idle, ReaderInv
<1>3. BuiltInv
  BY DEF Init, None, BuiltInv
<1> QED
  BY <1>1, <1>2, <1>3 DEF ReportsInv

LEMMA CaptureStep ==
    ASSUME ReportsInv, NEW g \in ToSet(Geographies), NEW extract \in Extracts[g], NEW at \in Dates, Capture(g, extract, at)
    PROVE  ReportsInv'
<1>1. PICK built : built = BuildSnapshotCandidate(extract, at, LoadHistoricalSnapshots(g, events))
  OBVIOUS
<1>2. PICK stored : stored = [geography |-> g, capturedAfter |-> Len(events)]
  OBVIOUS
<1>3. PICK candidate : candidate = With(built, stored)
  OBVIOUS
<1>4. /\ candidate.geography = g /\ candidate.at = at /\ DOMAIN candidate = Fields
      /\ candidate.capturedAfter = Len(events) /\ candidate.stats = built.stats
      /\ candidate.flagged = built.flagged /\ candidate.districts = built.districts
  <2>1. /\ DOMAIN stored = {"geography", "capturedAfter"}
        /\ stored["geography"] = g /\ stored["capturedAfter"] = Len(events)
    BY <1>2
  <2>2. DOMAIN built = {"at", "quality", "stats", "flagged", "districts", "trends"} /\ built["at"] = at
    BY <1>1 DEF BuildSnapshotCandidate
  <2>3. DOMAIN candidate = DOMAIN built \cup DOMAIN stored
    BY <1>3 DEF With
  <2>4. /\ \A field \in DOMAIN stored : candidate[field] = stored[field]
        /\ \A field \in DOMAIN built \ DOMAIN stored : candidate[field] = built[field]
    BY <1>3 DEF With
  <2> QED
    BY <2>1, <2>2, <2>3, <2>4 DEF Fields
<1>5. /\ candidates' = [candidates EXCEPT ![g] = candidates[g] \cup {candidate}]
      /\ UNCHANGED <<snapshots, events, reader>>
  BY <1>1, <1>2, <1>3 DEF Capture
<1>6. at \in Nat
  BY ReportsAssumption
<1>7. TablesInv'
  <2>1. candidates' = [h \in ToSet(Geographies) |-> candidates'[h]]
    BY <1>5 DEF ReportsInv, TablesInv
  <2>2. \A h \in ToSet(Geographies) : \A c \in candidates'[h] :
          DOMAIN c = Fields /\ c.geography = h /\ c.at \in Nat
    BY <1>4, <1>5, <1>6 DEF ReportsInv, TablesInv
  <2> QED
    BY <1>5, <2>1, <2>2 DEF ReportsInv, TablesInv
<1>8. ReaderInv'
  BY <1>5 DEF Capture, ReaderInv
<1>9. IsBuilt(candidate)
  <2>1. events \in Seq(1 .. Len(snapshots)) /\ Len(events) \in Nat
    BY LenProperties DEF ReportsInv, TablesInv
  <2>2. SubSeq(events, 1, Len(events)) = events
    <3>1. events = [i \in 1 .. Len(events) |-> events[i]]
      BY <2>1, LenProperties
    <3> QED
      BY <2>1, <3>1, WholeList
  <2>3. BuiltFrom(candidate, extract, LoadHistoricalSnapshots(g, events))
    BY <1>1, <1>4 DEF BuiltFrom
  <2>4. candidate.capturedAfter \in 0 .. Len(events)
    BY <1>4, <2>1
  <2>5. LoadHistoricalSnapshots(candidate.geography, SubSeq(events, 1, candidate.capturedAfter))
          = LoadHistoricalSnapshots(g, events)
    BY <1>4, <2>2
  <2>6. BuiltFrom(candidate, extract, LoadHistoricalSnapshots(candidate.geography, SubSeq(events, 1, candidate.capturedAfter)))
    BY <2>3, <2>5
  <2> QED
    BY <1>4, <2>4, <2>6 DEF IsBuilt
<1>10. \A c : IsBuilt(c) => IsBuilt(c)'
  BY <1>5, ZenonT(40) DEF IsBuilt, LoadHistoricalSnapshots, OfGeography
<1>11. BuiltInv'
  <2>1. \A h \in ToSet(Geographies) : \A c \in candidates'[h] : IsBuilt(c)
    BY <1>5, <1>9 DEF ReportsInv, TablesInv, BuiltInv
  <2>2. \A s \in 1 .. Len(snapshots) : IsBuilt(snapshots[s])
    BY DEF ReportsInv, BuiltInv
  <2> QED
    BY <1>5, <1>10, <2>1, <2>2 DEF ReportsInv, BuiltInv
<1> QED
  BY <1>7, <1>8, <1>11 DEF ReportsInv

\* Rows that are appended leave the others, and what was published, as they were.
LEMMA LogGrows ==
    ASSUME TablesInv, ReaderInv, reader.stage # "shown", UNCHANGED reader, TablesInv',
           Len(snapshots) <= Len(snapshots'),
           \A s \in 1 .. Len(snapshots) : snapshots'[s] = snapshots[s],
           NEW s, events' = Append(events, s)
    PROVE  ReaderInv'
<1>1. events \in Seq(1 .. Len(snapshots)) /\ Len(snapshots) \in Nat
  BY LenProperties DEF TablesInv
<1>2. DOMAIN events = 1 .. Len(events) /\ Len(events) \in Nat
  BY <1>1, LenProperties
<1>3. /\ DOMAIN events' = 1 .. Len(events) + 1
      /\ \A i \in 1 .. Len(events) : events'[i] = events[i] /\ events[i] \in 1 .. Len(snapshots)
  BY <1>1, <1>2, AppendProperties, ElementOfSeq
<1>4. \A g : OfGeography(g, events) \subseteq OfGeography(g, events)'
  BY <1>2, <1>3 DEF OfGeography
<1>5. \A g : Published(g, events) \subseteq Published(g, events)'
  BY <1>2, <1>3, <1>4 DEF Published, OfGeography
<1>6. \A g, t, id : t \in Published(g, events) /\ Has(t, id) => Has(t, id)'
  <2>1. \A g : Published(g, events) \subseteq 1 .. Len(snapshots)
    BY <1>1, PublishedAreSnapshots
  <2> QED
    BY <2>1 DEF Has
<1> QED
  BY <1>5, <1>6 DEF ReaderInv

LEMMA PublishStep ==
    ASSUME ReportsInv, NEW g \in ToSet(Geographies), Publish(g) PROVE ReportsInv'
<1>0. PICK T : snapshots \in Seq(T)
  BY DEF ReportsInv, TablesInv
<1>1. PICK n \in Nat : n = Len(snapshots) /\ snapshots \in Seq(T)
  BY <1>0, LenProperties
<1>2. PICK candidate \in candidates[g] :
         /\ snapshots' = Append(snapshots, With(candidate, [publishedAt |-> n + 1]))
         /\ candidates' = [candidates EXCEPT ![g] = @ \ {candidate}]
  BY <1>1 DEF Publish
<1>3. PICK snapshot : snapshot = With(candidate, [publishedAt |-> n + 1])
  OBVIOUS
<1>4. snapshot.publishedAt = n + 1 /\ snapshot.at \in Nat
  <2>1. candidate.at \in Nat /\ "at" \in DOMAIN candidate
    BY <1>2 DEF ReportsInv, TablesInv, Fields
  <2>2. PICK own : own = [publishedAt |-> n + 1]
    OBVIOUS
  <2>3. DOMAIN own = {"publishedAt"} /\ own["publishedAt"] = n + 1
    BY <2>2
  <2>4. snapshot["publishedAt"] = own["publishedAt"] /\ snapshot["at"] = candidate["at"]
    BY <1>3, <2>1, <2>2, <2>3, WithFields
  <2> QED
    BY <2>1, <2>3, <2>4
<1>5. /\ events' = Append(events, n + 1) /\ UNCHANGED reader /\ reader.stage # "shown"
      /\ candidates' = [candidates EXCEPT ![g] = candidates[g] \ {candidate}]
  BY <1>1, <1>2 DEF Publish
<1>6. /\ snapshots' \in Seq(T \cup {snapshot}) /\ Len(snapshots') = n + 1
      /\ snapshots'[n + 1] = snapshot /\ \A s \in 1 .. n : snapshots'[s] = snapshots[s]
  <2>1. snapshots \in Seq(T \cup {snapshot}) /\ snapshots' = Append(snapshots, snapshot)
    BY <1>1, <1>2, <1>3
  <2> QED
    BY <1>1, <2>1, AppendProperties
<1>7. events' \in Seq(1 .. n + 1)
  <2>1. events \in Seq(1 .. n)
    BY <1>1 DEF ReportsInv, TablesInv
  <2>2. events \in Seq(1 .. n + 1) /\ n + 1 \in 1 .. n + 1
    <3>1. \A i \in 1 .. n : i \in 1 .. n + 1
      OBVIOUS
    <3> QED
      BY <2>1, <3>1
  <2> QED
    BY <1>5, <2>2, AppendProperties
<1>8. TablesInv'
  <2>1. candidates' = [h \in ToSet(Geographies) |-> candidates'[h]]
    BY <1>5 DEF ReportsInv, TablesInv
  <2>2. \A h \in ToSet(Geographies) : \A c \in candidates'[h] :
          DOMAIN c = Fields /\ c.geography = h /\ c.at \in Nat
    BY <1>5 DEF ReportsInv, TablesInv
  <2>3. \A s \in 1 .. n + 1 : snapshots'[s].publishedAt = s /\ snapshots'[s].at \in Nat
    <3> SUFFICES ASSUME NEW s \in 1 .. n + 1 PROVE snapshots'[s].publishedAt = s /\ snapshots'[s].at \in Nat
      OBVIOUS
    <3>1. CASE s = n + 1
      BY <1>4, <1>6, <3>1
    <3>2. CASE s # n + 1
      <4>1. s \in 1 .. n
        BY <3>2
      <4> QED
        BY <1>1, <1>6, <4>1 DEF ReportsInv, TablesInv
    <3> QED
      BY <3>1, <3>2
  <2> QED
    BY <1>6, <1>7, <2>1, <2>2, <2>3 DEF TablesInv
<1>9. ReaderInv'
  <2>1. Len(snapshots) <= Len(snapshots') /\ \A s \in 1 .. Len(snapshots) : snapshots'[s] = snapshots[s]
    BY <1>1, <1>6
  <2> QED
    BY <1>5, <1>8, <2>1, LogGrows DEF ReportsInv
<1>10. BuiltInv'
  <2>1. /\ Len(snapshots) <= Len(snapshots') /\ \A s \in 1 .. Len(snapshots) : snapshots'[s] = snapshots[s]
        /\ Len(events) \in Nat /\ Len(events') = Len(events) + 1
        /\ \A i \in 1 .. Len(events) : events'[i] = events[i] /\ events[i] \in 1 .. n
    <3>1. events \in Seq(1 .. n)
      BY <1>1 DEF ReportsInv, TablesInv
    <3>2. Len(events) \in Nat /\ \A i \in 1 .. Len(events) : events[i] \in 1 .. n
      BY <3>1, LenProperties, ElementOfSeq
    <3>3. events \in Seq(1 .. n + 1) /\ n + 1 \in 1 .. n + 1
      <4>1. \A i \in 1 .. n : i \in 1 .. n + 1
        OBVIOUS
      <4> QED
        BY <3>1, <4>1
    <3>4. Len(events') = Len(events) + 1 /\ \A i \in 1 .. Len(events) : events'[i] = events[i]
      BY <1>5, <3>3, AppendProperties
    <3> QED
      BY <1>1, <1>6, <3>2, <3>4
  <2>2. /\ DOMAIN candidate = Fields /\ IsBuilt(candidate)
        /\ TablesInv
    BY <1>2 DEF ReportsInv, TablesInv, BuiltInv
  <2>3. \A field \in Fields : snapshot[field] = candidate[field]
    <3>1. PICK own : own = [publishedAt |-> n + 1]
      OBVIOUS
    <3>2. \A field \in Fields : field \notin DOMAIN own
      BY <3>1 DEF Fields
    <3> QED
      BY <1>3, <2>2, <3>1, <3>2, WithFields
  <2>4. /\ snapshot.geography = candidate.geography /\ snapshot.capturedAfter = candidate.capturedAfter
        /\ snapshot.at = candidate.at /\ snapshot.stats = candidate.stats
        /\ snapshot.flagged = candidate.flagged /\ snapshot.districts = candidate.districts
    BY <2>3 DEF Fields
  <2>5. IsBuilt(snapshot)
    BY <2>2, <2>4 DEF IsBuilt, BuiltFrom
  <2>6. ASSUME NEW c, IsBuilt(c) PROVE IsBuilt(c)'
    BY <1>5, <2>1, <2>2, <2>6, BuiltStays
  <2>7. \A h \in ToSet(Geographies) : \A c \in candidates'[h] : IsBuilt(c)'
    BY <1>5, <2>6 DEF ReportsInv, TablesInv, BuiltInv
  <2>8. ASSUME NEW s \in 1 .. n PROVE IsBuilt(snapshots[s])' /\ \A i \in 1 .. snapshots'[s].capturedAfter : events'[i] < s
    <3>1. PICK c : c = snapshots[s] /\ c = snapshots'[s]
      BY <1>6
    <3>2. IsBuilt(c) /\ \A i \in 1 .. c.capturedAfter : events[i] < s
      BY <1>1, <3>1 DEF ReportsInv, BuiltInv
    <3>3. IsBuilt(c)'
      BY <2>6, <3>2
    <3>4. IsBuilt(snapshots[s])'
      BY <3>1, <3>3 DEF IsBuilt
    <3>5. c.capturedAfter \in 0 .. Len(events)
      BY <3>2 DEF IsBuilt
    <3>6. \A i \in 1 .. c.capturedAfter : i \in 1 .. Len(events)
      BY <2>1, <3>5
    <3> QED
      BY <2>1, <3>1, <3>2, <3>4, <3>6
  <2>9. IsBuilt(snapshots[n + 1])' /\ \A i \in 1 .. snapshots'[n + 1].capturedAfter : events'[i] < n + 1
    <3>1. IsBuilt(snapshot)'
      BY <2>5, <2>6
    <3>2. IsBuilt(snapshots[n + 1])'
      BY <1>6, <3>1 DEF IsBuilt
    <3>3. snapshot.capturedAfter \in 0 .. Len(events)
      BY <2>5 DEF IsBuilt
    <3>4. \A i \in 1 .. snapshot.capturedAfter : i \in 1 .. Len(events)
      BY <2>1, <3>3
    <3> QED
      BY <1>6, <2>1, <3>2, <3>4
  <2>10. \A s \in 1 .. n + 1 : s \in 1 .. n \/ s = n + 1
    OBVIOUS
  <2>11. \A s \in 1 .. Len(snapshots') :
           IsBuilt(snapshots[s])' /\ \A i \in 1 .. snapshots'[s].capturedAfter : events'[i] < s
    BY <1>6, <2>8, <2>9, <2>10
  <2> QED
    BY <2>7, <2>11 DEF BuiltInv
<1> QED
  BY <1>8, <1>9, <1>10 DEF ReportsInv

LEMMA RollbackStep ==
    ASSUME ReportsInv, NEW s \in ToSet(events), Rollback(s) PROVE ReportsInv'
<1>1. events \in Seq(1 .. Len(snapshots)) /\ s \in 1 .. Len(snapshots) /\ Len(snapshots) \in Nat
  BY LenProperties, ElementOfSeq DEF ReportsInv, TablesInv, ToSet
<1>2. events' = Append(events, s) /\ UNCHANGED <<candidates, snapshots, reader>> /\ reader.stage # "shown"
  BY DEF Rollback
<1>3. events' \in Seq(1 .. Len(snapshots))
  BY <1>1, <1>2, AppendProperties
<1>4. TablesInv'
  BY <1>2, <1>3 DEF ReportsInv, TablesInv
<1>5. ReaderInv'
  BY <1>1, <1>2, <1>4, LogGrows DEF ReportsInv
<1>6. BuiltInv'
  <2>1. /\ Len(events) \in Nat /\ Len(events') = Len(events) + 1 /\ TablesInv
        /\ \A i \in 1 .. Len(events) : events'[i] = events[i]
    BY <1>1, <1>2, LenProperties, AppendProperties DEF ReportsInv
  <2>2. ASSUME NEW c, IsBuilt(c) PROVE IsBuilt(c)'
    <3>1. Len(snapshots) <= Len(snapshots') /\ \A t \in 1 .. Len(snapshots) : snapshots'[t] = snapshots[t]
      BY <1>1, <1>2
    <3> QED
      BY <1>2, <2>1, <2>2, <3>1, BuiltStays
  <2>3. \A h \in ToSet(Geographies) : \A c \in candidates'[h] : IsBuilt(c)'
    BY <1>2, <2>2 DEF ReportsInv, BuiltInv
  <2>4. ASSUME NEW t \in 1 .. Len(snapshots')
        PROVE  IsBuilt(snapshots[t])' /\ \A i \in 1 .. snapshots'[t].capturedAfter : events'[i] < t
    <3>1. PICK c : c = snapshots[t] /\ c = snapshots'[t]
      BY <1>2
    <3>2. IsBuilt(c) /\ \A i \in 1 .. c.capturedAfter : events[i] < t
      BY <1>2, <2>4, <3>1 DEF ReportsInv, BuiltInv
    <3>3. IsBuilt(c)'
      BY <2>2, <3>2
    <3>4. IsBuilt(snapshots[t])'
      BY <3>1, <3>3 DEF IsBuilt
    <3>5. c.capturedAfter \in 0 .. Len(events)
      BY <3>2 DEF IsBuilt
    <3>6. \A i \in 1 .. c.capturedAfter : i \in 1 .. Len(events)
      BY <2>1, <3>5
    <3> QED
      BY <2>1, <3>1, <3>2, <3>4, <3>6
  <2> QED
    BY <2>3, <2>4 DEF BuiltInv
<1> QED
  BY <1>4, <1>5, <1>6 DEF ReportsInv

LEMMA BuiltUnchanged == ASSUME BuiltInv, UNCHANGED <<candidates, snapshots, events>> PROVE BuiltInv'
<1>1. ASSUME NEW g, NEW log PROVE LoadHistoricalSnapshots(g, log)' = LoadHistoricalSnapshots(g, log)
  BY DEF LoadHistoricalSnapshots, OfGeography
<1>2. ASSUME NEW c, IsBuilt(c) PROVE IsBuilt(c)'
  <2>1. PICK log : log = SubSeq(events, 1, c.capturedAfter) /\ log = SubSeq(events', 1, c.capturedAfter)
    OBVIOUS
  <2>2. PICK x \in Extracts[c.geography] : BuiltFrom(c, x, LoadHistoricalSnapshots(c.geography, log))
    BY <1>2, <2>1 DEF IsBuilt
  <2>3. BuiltFrom(c, x, LoadHistoricalSnapshots(c.geography, log)')
    BY <1>1, <2>2
  <2>4. LoadHistoricalSnapshots(c.geography, log)' = LoadHistoricalSnapshots(c.geography, SubSeq(events, 1, c.capturedAfter))'
    BY <2>1
  <2> QED
    BY <1>2, <2>3, <2>4 DEF IsBuilt
<1>3. \A g \in ToSet(Geographies) : \A c \in candidates'[g] : IsBuilt(c)'
  BY <1>2 DEF BuiltInv
<1>4. ASSUME NEW s \in 1 .. Len(snapshots')
      PROVE  IsBuilt(snapshots[s])' /\ \A i \in 1 .. snapshots'[s].capturedAfter : events'[i] < s
  <2>1. PICK c : c = snapshots[s] /\ c = snapshots'[s]
    OBVIOUS
  <2>2. IsBuilt(c)' /\ \A i \in 1 .. c.capturedAfter : events[i] < s
    BY <1>2, <1>4, <2>1 DEF BuiltInv
  <2>3. IsBuilt(snapshots[s])'
    BY <2>1, <2>2 DEF IsBuilt
  <2> QED
    BY <2>1, <2>2, <2>3
<1> QED
  BY <1>3, <1>4 DEF BuiltInv

LEMMA ReadingStep ==
    ASSUME ReportsInv,
           \/ \E g, id : OpenDistrictPage(g, id)
           \/ RenderDistrictPage
           \/ LeavePage
    PROVE  ReportsInv'
<1>1. UNCHANGED <<candidates, snapshots, events>>
  BY DEF OpenDistrictPage, RenderDistrictPage, LeavePage
<1>2. TablesInv'
  BY <1>1 DEF ReportsInv, TablesInv
<1>3. ASSUME NEW g, NEW id, OpenDistrictPage(g, id) PROVE ReaderInv'
  <2>1. PICK s \in GetPublishedSnapshot(g) :
           Has(s, id) /\ reader' = [stage |-> "reading", geography |-> g, id |-> id, snapshot |-> s]
    BY <1>3 DEF OpenDistrictPage, Has
  <2>2. PICK own : own = OfGeography(g, events) /\ own \in SUBSET Nat /\ IsFiniteSet(own)
    <3>1. DOMAIN events = 1 .. Len(events) /\ Len(events) \in Nat
      BY LenProperties DEF ReportsInv, TablesInv
    <3>2. OfGeography(g, events) \in SUBSET (1 .. Len(events)) /\ IsFiniteSet(1 .. Len(events))
      BY <3>1, FS_Interval DEF OfGeography
    <3>3. IsFiniteSet(OfGeography(g, events)) /\ OfGeography(g, events) \in SUBSET Nat
      BY <3>2, FS_Subset
    <3> QED
      BY <3>3
  <2>3. own # {} /\ s = events[Max(own)]
    BY <2>1, <2>2 DEF GetPublishedSnapshot, None
  <2>4. Max(own) \in own
    BY <2>2, <2>3, Extremes
  <2>5. s \in Published(g, events)
    BY <2>2, <2>3, <2>4 DEF Published
  <2>6. Has(s, id)' /\ Published(g, events)' = Published(g, events)
    BY <1>1, <2>1 DEF Has, Published, OfGeography
  <2> QED
    BY <2>1, <2>5, <2>6 DEF ReaderInv
<1>4. ASSUME RenderDistrictPage PROVE ReaderInv'
  <2>1. /\ reader.stage = "reading" /\ reader'.stage = "shown"
        /\ reader'.geography = reader.geography /\ reader'.id = reader.id /\ reader'.snapshot = reader.snapshot
        /\ reader'.history = DistrictHistory(LoadHistoricalSnapshots(reader.geography, events), reader.id)
    BY <1>4 DEF RenderDistrictPage
  <2>2. /\ LoadHistoricalSnapshots(reader.geography, events)' = LoadHistoricalSnapshots(reader'.geography, events)
        /\ Published(reader.geography, events)' = Published(reader'.geography, events)
        /\ Has(reader.snapshot, reader.id)' <=> Has(reader'.snapshot, reader'.id)
    BY <1>1 DEF LoadHistoricalSnapshots, Published, OfGeography, Has
  <2>3. reader'.history = DistrictHistory(LoadHistoricalSnapshots(reader.geography, events)', reader'.id)
    BY <2>1, <2>2
  <2> QED
    BY <2>1, <2>2, <2>3 DEF ReportsInv, ReaderInv
<1>5. ASSUME LeavePage PROVE ReaderInv'
  BY <1>5 DEF LeavePage, Idle, ReaderInv
<1>6. BuiltInv'
  BY <1>1, BuiltUnchanged DEF ReportsInv
<1> QED
  BY <1>2, <1>3, <1>4, <1>5, <1>6 DEF ReportsInv

LEMMA NextReports == ReportsInv /\ [Next]_vars => ReportsInv'
<1> SUFFICES ASSUME ReportsInv, [Next]_vars PROVE ReportsInv'
  OBVIOUS
<1>1. ASSUME UNCHANGED vars PROVE ReportsInv'
  <2>1. UNCHANGED <<candidates, snapshots, events, reader>>
    BY <1>1 DEF vars
  <2>2. TablesInv'
    BY <2>1 DEF ReportsInv, TablesInv
  <2>3. /\ LoadHistoricalSnapshots(reader.geography, events)' = LoadHistoricalSnapshots(reader.geography, events)
        /\ Published(reader.geography, events)' = Published(reader.geography, events)
        /\ Has(reader.snapshot, reader.id)' <=> Has(reader.snapshot, reader.id)
    BY <2>1 DEF LoadHistoricalSnapshots, Published, OfGeography, Has
  <2>4. ReaderInv'
    BY <2>1, <2>3 DEF ReportsInv, ReaderInv
  <2>5. BuiltInv'
    BY <2>1, BuiltUnchanged DEF ReportsInv
  <2> QED
    BY <2>2, <2>4, <2>5 DEF ReportsInv
<1> QED
  BY <1>1, CaptureStep, PublishStep, RollbackStep, ReadingStep DEF Next

\* A district's page compares the snapshot it shows with the one published for the
\* date before it, whatever is published or rolled back between its two reads.
THEOREM DistrictPagesAreOfOneSnapshot == Spec => []DistrictPageIsOfOneSnapshot
BY InitReports, NextReports, ReportsInvImpliesPage, PTL DEF Spec

\* When the newest snapshot is the active one, the movers page and the pages of its
\* districts tell the same changes, and the movers page calls improving exactly the
\* districts whose backlog fell.
THEOREM MoversAgreeWithPages == Spec => []MoversAgreeWithDistrictPages
BY InitReports, NextReports, ReportsInvImpliesMovers, PTL DEF Spec

\* The repeat signal of a district counts the watch lists of the snapshots before its own,
\* and its own, as the pages of those snapshots show them.
THEOREM RepeatSignalsCountWatchlists == Spec => []RepeatSignalCountsTheWatchlists
BY InitReports, NextReports, ReportsInvImpliesRepeat, PTL DEF Spec

\* A month that the source leaves out is no rate in the workspace, on a page, in a comparison,
\* among the movers, in a widget, in the feed or in a sentence, and what is said of the
\* backlog's movement has the sign of the figures; the share cards print the stored 0.
THEOREM PaceAgreesEverywhere == Spec => []PaceIsShownOrNotEverywhere
BY InitReports, NextReports, ReportsInvImpliesPace, PTL DEF Spec

\* The index of the watchrooms names what the watchrooms confirm, every geography is
\* ranked or said to be missing, and the home page's top state leads the map, whose
\* colours follow the scores: whatever is published and whatever the source showed
\* (api/pages/watch-index.ts, *-watchroom.ts, api/home/india-map.ts).
THEOREM HeadlinesOpenWatchrooms == Spec => []HeadlinesOpenTheirWatchroom
BY InitReports, NextReports, ReportsInvImpliesHeadlines, PTL DEF Spec

=============================================================================
