------------------------------ MODULE Watchrooms ------------------------------
(***************************************************************************)
(* The pages that set the geographies beside each other: the index of the  *)
(* three watchrooms and the watchrooms themselves (api/pages/watch-index,  *)
(* old-case-, backlog-concentration- and persistent-pressure-watchroom),   *)
(* and the ranking by the pressure index on the national home page         *)
(* (api/home/india-map.ts, national-view-model.ts).                        *)
(*                                                                         *)
(* An entry is [geography, snapshot]; the entries come as a sequence, in   *)
(* the order of the registry of geographies, and a geography with nothing  *)
(* published has none.                                                     *)
(***************************************************************************)
EXTENDS PublicPages

CONSTANTS DistrictRows,   \* rows of a watchroom's district table (12 and 15)
          RampBins        \* colours of the map (5)

ASSUME WatchroomsAssumption == {DistrictRows, RampBins} \subseteq Nat \ {0}

\* Compare by a list of figures, larger first, as the chains of || do.
LargerFiguresFirst(x, y) ==
    \E i \in DOMAIN x : x[i] > y[i] /\ \A j \in 1 .. i - 1 : x[j] = y[j]

\* Entries with a metric, and the districts of a sequence of entries, each in its turn.
WithMetric(entries, metric) == Where(entries, LAMBDA e : e.snapshot.stats[metric].state = "ok")
GeographiesMissing(entries, metric) == {e.geography : e \in {x \in ToSet(entries) : x.snapshot.stats[metric].state = "missing"}}
InTurn(places) ==
    {p \in places \X places : p[1][1] < p[2][1] \/ (p[1][1] = p[2][1] /\ p[1][2] < p[2][2])}
DistrictsOf(entries) ==
    LET places == UNION {{i} \X DOMAIN entries[i].snapshot.districts : i \in DOMAIN entries}
        turns == Ranked(places, InTurn(places))
        of(e, i) == [geography |-> e.geography, stats |-> e.snapshot.stats,
                     count |-> Len(e.snapshot.districts), district |-> e.snapshot.districts[i]]
    IN  [k \in DOMAIN turns |-> of(entries[turns[k][1]], turns[k][2])]

-----------------------------------------------------------------------------
(* The old-case watchroom *)

OldCaseOrder(burden) == <<burden.threePlusShare, burden.threePlus>>
RankedStates(entries) ==
    StableSort(WithMetric(entries, "oldCaseBurden"),
               LAMBDA d, e : LargerFiguresFirst(OldCaseOrder(d.snapshot.stats.oldCaseBurden.value),
                                                OldCaseOrder(e.snapshot.stats.oldCaseBurden.value)))
OldCaseDistricts(entries) ==
    UpTo(StableSort(Where(DistrictsOf(RankedStates(entries)),
                          LAMBDA r : r.district.oldCaseBurden.threePlus > 0),
                    LAMBDA q, r : LargerFiguresFirst(OldCaseOrder(q.district.oldCaseBurden),
                                                     OldCaseOrder(r.district.oldCaseBurden))),
         DistrictRows)

StateRow(e) ==
    LET burden == e.snapshot.stats.oldCaseBurden.value
    IN  [geography |-> e.geography, figures |-> OldCaseOrder(burden),
         fivePlusShare |-> burden.fivePlusShare, tenPlusShare |-> burden.tenPlusShare]
DistrictRow(r) == [geography |-> r.geography, id |-> r.district.id, backlog |-> r.district.backlog]

OldCaseWatchroom(entries) ==
    LET ranked == RankedStates(entries)
        districts == OldCaseDistricts(entries)
    IN  [geographies |-> [i \in DOMAIN ranked |-> StateRow(ranked[i])],
         districts |-> [i \in DOMAIN districts |-> DistrictRow(districts[i])],
         missing |-> GeographiesMissing(entries, "oldCaseBurden")]

-----------------------------------------------------------------------------
(* The backlog-concentration watchroom *)

HasComparableTopFive(snapshot) == Len(snapshot.districts) > TopFew
HasComparableLargestDistrict(snapshot) == Len(snapshot.districts) > 1

ConcentrationOrder(e) ==
    <<e.snapshot.stats.concentration.value.topFewShare, e.snapshot.stats.concentration.value.topManyShare>>
RankedGeographies(entries) ==
    StableSort(WithMetric(entries, "concentration"),
               LAMBDA d, e : LargerFiguresFirst(ConcentrationOrder(d), ConcentrationOrder(e)))

\* Shares of different geographies compare as fractions: district / pending.
LargerShare(q, r) ==
    LET left == q.district.backlog * r.stats.pending
        right == r.district.backlog * q.stats.pending
    IN  left > right \/ (left = right /\ q.district.backlog > r.district.backlog)
ConcentrationDistricts(entries) ==
    UpTo(StableSort(Where(DistrictsOf(RankedGeographies(entries)),
                          LAMBDA r : r.stats.pending > 0 /\ r.district.backlog > 0),
                    LargerShare),
         DistrictRows)

GeographyRow(e) ==
    LET largest == ByBacklog(e.snapshot)
    IN  [geography |-> e.geography, figures |-> ConcentrationOrder(e), largest |-> FirstOrNone(largest)]

\* The table has all geographies and the first districts; the headlines only
\* name those with something to compare, looked for in the districts shown.
ConcentrationWatchroom(entries) ==
    LET ranked == RankedGeographies(entries)
        comparable == Where(ranked, LAMBDA e : HasComparableTopFive(e.snapshot))
        districts == ConcentrationDistricts(entries)
        comparableDistricts == Where(districts, LAMBDA r : r.count > 1)
    IN  [geographies |-> [i \in DOMAIN ranked |-> GeographyRow(ranked[i])],
         topGeography |-> UpTo([i \in DOMAIN comparable |-> GeographyRow(comparable[i])], 1),
         districts |-> [i \in DOMAIN districts |-> DistrictRow(districts[i])],
         topDistrict |-> UpTo([i \in DOMAIN comparableDistricts |-> DistrictRow(comparableDistricts[i])], 1),
         small |-> Len(ranked) - Len(comparable),
         single |-> Len(Where(ranked, LAMBDA e : ~HasComparableLargestDistrict(e.snapshot))),
         missing |-> GeographiesMissing(entries, "concentration")]

-----------------------------------------------------------------------------
(* The persistent-pressure watchroom *)

IsPersistent(d) == d.persistence.lastSixWindow > 0 /\ d.persistence.flaggedInLastSix > 0

\* A rate compares as a fraction; then the counts, the backlog and, in the
\* watchroom, the name: the ids number the districts in the order of their names.
HigherRate(d, e) ==
    d.persistence.flaggedInLastSix * e.persistence.lastSixWindow
        > e.persistence.flaggedInLastSix * d.persistence.lastSixWindow
SameRate(d, e) == ~HigherRate(d, e) /\ ~HigherRate(e, d)
CompareDistrictsByRate(d, e) ==
    HigherRate(d, e) \/ (SameRate(d, e) /\ LargerFiguresFirst(<<d.backlog, -d.id>>, <<e.backlog, -e.id>>))
CompareDistrictsByPersistence(d, e) ==
    LET figures(x) == <<x.persistence.flaggedInLastSix, x.persistence.lastSixWindow, x.backlog, -x.id>>
    IN  HigherRate(d, e) \/ (SameRate(d, e) /\ LargerFiguresFirst(figures(d), figures(e)))

PersistentDistricts(entries) == Where(DistrictsOf(entries), LAMBDA r : IsPersistent(r.district))
RankedPersistent(entries) ==
    StableSort(PersistentDistricts(entries),
               LAMBDA q, r : CompareDistrictsByPersistence(q.district, r.district))

RepeatRow(r) == With(DistrictRow(r), [persistence |-> r.district.persistence])

\* A geography's persistent districts; the first stands for it.
Repeat(ranked, g) == Where(ranked, LAMBDA r : r.geography = g)
MorePersistent(q, r) ==
    \/ Len(q) > Len(r)
    \/ Len(q) = Len(r) /\ HigherRate(q[1].district, r[1].district)
    \/ /\ Len(q) = Len(r) /\ SameRate(q[1].district, r[1].district)
       /\ q[1].district.backlog > r[1].district.backlog
PersistentGeographies(entries) ==
    LET ranked == RankedPersistent(entries)
    IN  StableSort(Where([i \in DOMAIN entries |-> Repeat(ranked, entries[i].geography)],
                         LAMBDA repeat : repeat # <<>>),
                   MorePersistent)

PersistentWatchroom(entries) ==
    LET districts == UpTo(RankedPersistent(entries), DistrictRows)
        geographies == PersistentGeographies(entries)
    IN  [districts |-> [i \in DOMAIN districts |-> RepeatRow(districts[i])],
         geographies |-> [i \in DOMAIN geographies |->
                             [geography |-> geographies[i][1].geography,
                              repeats |-> Len(geographies[i]), top |-> RepeatRow(geographies[i][1])]]]

-----------------------------------------------------------------------------
(* The index of the watchrooms, with its own order of each list *)

WatchIndex(entries) ==
    LET byShare(list, Share(_)) ==
            StableSort(list, LAMBDA d, e : LargerFiguresFirst(<<Share(d), d.snapshot.stats.pending>>,
                                                              <<Share(e), e.snapshot.stats.pending>>))
        oldCases == byShare(WithMetric(entries, "oldCaseBurden"),
                            LAMBDA e : OldCaseOrder(e.snapshot.stats.oldCaseBurden.value)[1])
        concentration == byShare(Where(WithMetric(entries, "concentration"),
                                       LAMBDA e : HasComparableTopFive(e.snapshot)),
                                 LAMBDA e : ConcentrationOrder(e)[1])
        persistent == StableSort(PersistentDistricts(entries),
                                 LAMBDA q, r :
                                     \/ HigherRate(q.district, r.district)
                                     \/ /\ SameRate(q.district, r.district)
                                        /\ LargerFiguresFirst(
                                              <<q.district.persistence.flaggedInLastSix, q.district.backlog>>,
                                              <<r.district.persistence.flaggedInLastSix, r.district.backlog>>))
    IN  [topOldCase |-> UpTo([i \in DOMAIN oldCases |-> StateRow(oldCases[i])], 1),
         topConcentration |-> UpTo([i \in DOMAIN concentration |-> GeographyRow(concentration[i])], 1),
         topPersistent |-> UpTo([i \in DOMAIN persistent |-> RepeatRow(persistent[i])], 1),
         withAgeBuckets |-> Len(oldCases),
         withConcentration |-> Len(WithMetric(entries, "concentration")),
         withPersistent |-> Cardinality({r.geography : r \in ToSet(PersistentDistricts(entries))})]

-----------------------------------------------------------------------------
(* The pressure index of the national home page *)

\* Each share is rounded to a tenth of a percent here; the weights are the
\* code's 0.4, 0.3, 0.2 and 0.1.
Clamp(tenths) == Max({0, Min({tenths, 1000})})
NormalizedIn(value, values) ==
    IF Max(values) <= Min(values) THEN 0 ELSE Clamp(Tenths(value - Min(values), Max(values) - Min(values)))
ComputePressure(e, entries) ==
    LET all == ToSet(entries)
        stats == e.snapshot.stats
    IN  4 * NormalizedIn(stats.pending, {x.snapshot.stats.pending : x \in all})
        + 3 * NormalizedIn(stats.medianAge, {x.snapshot.stats.medianAge : x \in all})
        + 2 * Clamp(1000 - stats.disposalRate)
        + Clamp(Percentage(e.snapshot.flagged, Len(e.snapshot.districts)))

\* The sort by name that breaks ties is that of the registry.
RankIndiaMapEntriesByPressure(entries) ==
    StableSort([i \in DOMAIN entries |-> [entry |-> entries[i], score |-> ComputePressure(entries[i], entries)]],
               LAMBDA x, y : x.score > y.score)

\* A stable sort by rising score; the rank, not the score, picks the colour.
AssignBinsByRank(scored) ==
    LET rising == StableSort(scored, LAMBDA x, y : x.score < y.score)
        bin(i) == IF Len(rising) <= 1 THEN RampBins - 1
                  ELSE (2 * (i - 1) * (RampBins - 1) + Len(rising) - 1) \div (2 * (Len(rising) - 1))
    IN  [i \in DOMAIN rising |->
            [geography |-> rising[i].entry.geography, score |-> rising[i].score, bin |-> bin(i)]]

RenderIndiaMap(entries) ==
    LET ranked == RankIndiaMapEntriesByPressure(entries)
    IN  [bins |-> AssignBinsByRank(ranked),
         callouts |-> UpTo([i \in DOMAIN ranked |-> ranked[i].entry.geography], 3)]

(* The high courts on the national home page: the highest gap first *)

DescribePileTrend(a) ==
    IF a.filed > a.cleared THEN "worsening" ELSE IF a.filed < a.cleared THEN "improving" ELSE "neutral"
DescribeClearanceTrend(a) ==
    IF a.filed <= 0 THEN "neutral" ELSE IF a.cleared < a.filed THEN "worsening" ELSE "improving"
FormatClearanceRateDisplay(a) == IF a.filed <= 0 THEN NotAvailable ELSE Shown(Tenths(a.cleared, a.filed))
CompareHighCourtPressure(a, b) ==
    LargerFiguresFirst(<<a.filed - a.cleared, -Percentage(a.cleared, a.filed), a.pending>>,
                       <<b.filed - b.cleared, -Percentage(b.cleared, b.filed), b.pending>>)

HighCourtCards(courts) ==
    LET ranked == StableSort(courts, CompareHighCourtPressure)
    IN  [i \in DOMAIN ranked |-> [pile |-> DescribePileTrend(ranked[i]),
                                  trend |-> DescribeClearanceTrend(ranked[i]),
                                  rate |-> FormatClearanceRateDisplay(ranked[i])]]

\* entries: the lower courts; courts: the monthly totals of the high courts.
NationalHome(entries, courts) ==
    LET ranked == RankIndiaMapEntriesByPressure(entries)
    IN  [pending |-> SumOf([i \in DOMAIN entries |-> entries[i].snapshot.stats.pending]),
         flagged |-> SumOf([i \in DOMAIN entries |-> entries[i].snapshot.flagged]),
         topState |-> ranked[1].entry.geography,
         topStatePace |-> FormatClearancePer100(StateActivity(ranked[1].entry.snapshot.stats)),
         highCourts |-> HighCourtCards(courts)]

=============================================================================
