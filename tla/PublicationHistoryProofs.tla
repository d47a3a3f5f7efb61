------------------------ MODULE PublicationHistoryProofs ------------------------
(***************************************************************************)
(* Proofs about PublicationHistory, for any totals, windows, instants and  *)
(* months, and about GateHistory, for any counts and any number of trend   *)
(* points.  The machines only append; what is hard is what the services    *)
(* make of the rows.  So first, what the recency list and the              *)
(* chronological list are; then each tier's reduction of its list.  For    *)
(* the gate: where the middle of the sorted counts lies, and which counts  *)
(* are near.                                                               *)
(***************************************************************************)
EXTENDS PublicationHistory, GateHistory, SortingProofs

-----------------------------------------------------------------------------
(* The rows *)

TypeInv == snapshots \in Seq(Snapshot) /\ events \in Seq(1 .. Len(snapshots))

\* Every event made a snapshot active that was published before it.
LEMMA TypeInvariant == Spec => []TypeInv
<1>1. Init => TypeInv
  BY EmptySeq DEF Init, TypeInv
<1>2. TypeInv /\ [Next]_vars => TypeInv'
  <2> SUFFICES ASSUME TypeInv, [Next]_vars PROVE TypeInv'
    OBVIOUS
  <2>1. /\ Len(snapshots) \in Nat /\ DOMAIN events = 1 .. Len(events)
        /\ \A i \in DOMAIN events : events[i] \in 1 .. Len(snapshots)
    BY LenProperties, ElementOfSeq DEF TypeInv
  <2>2. ASSUME NEW candidate \in Snapshot, Publish(candidate) PROVE TypeInv'
    <3>1. snapshots' \in Seq(Snapshot) /\ Len(snapshots') = Len(snapshots) + 1
      BY <2>2 DEF TypeInv, Publish
    <3>2. events \in Seq(1 .. Len(snapshots) + 1)
      <4>1. 1 .. Len(snapshots) \subseteq 1 .. Len(snapshots) + 1
        BY <2>1
      <4> QED
        BY <4>1, SeqMonotonic DEF TypeInv
    <3>3. Len(snapshots) + 1 \in 1 .. Len(snapshots) + 1 /\ events' = Append(events, Len(snapshots) + 1)
      BY <2>1, <2>2 DEF Publish, MakeActive
    <3>4. events' \in Seq(1 .. Len(snapshots) + 1)
      BY <3>2, <3>3
    <3> QED
      BY <3>1, <3>4 DEF TypeInv
  <2>3. ASSUME NEW s \in ToSet(events), Rollback(s) PROVE TypeInv'
    <3>1. s \in 1 .. Len(snapshots)
      BY <2>1, <2>3 DEF ToSet
    <3>2. snapshots' = snapshots /\ events' = Append(events, s)
      BY <2>3 DEF Rollback, MakeActive
    <3> QED
      BY <3>1, <3>2 DEF TypeInv
  <2>4. CASE UNCHANGED vars
    BY <2>4 DEF vars, TypeInv
  <2> QED
    BY <2>2, <2>3, <2>4 DEF Next
<1> QED
  BY <1>1, <1>2, PTL DEF Spec

LEMMA InstantsAreNumbers == Instant \in SUBSET Nat
<1>1. InstantsPerDay \in Nat \ {0} /\ Days \in Nat
  BY HistoryAssumption
<1>2. InstantsPerDay * Days - 1 \in Int
  BY <1>1
<1> QED
  BY <1>2 DEF Instant

LEMMA Calendar ==
    /\ \A a \in Nat : Day(a) \in Nat /\ Month(a) \in Nat
    /\ \A a, b \in Nat : a <= b => Day(a) <= Day(b) /\ Month(a) <= Month(b)
<1>1. InstantsPerDay \in Nat \ {0} /\ DaysPerMonth \in Nat \ {0}
  BY HistoryAssumption
<1>2. \A a \in Nat, c \in Nat \ {0} : a \div c \in Nat
  OBVIOUS
<1>3. \A a, b \in Nat, c \in Nat \ {0} : a <= b => a \div c <= b \div c
  OBVIOUS
<1>4. \A a \in Nat : Day(a) \in Nat
  BY <1>1, <1>2 DEF Day
<1>5. \A a, b \in Nat : a <= b => Day(a) <= Day(b)
  BY <1>1, <1>3 DEF Day
<1>6. \A a \in Nat : Month(a) \in Nat
  BY <1>1, <1>2, <1>4 DEF Month
<1>7. \A a, b \in Nat : a <= b => Month(a) <= Month(b)
  BY <1>1, <1>3, <1>4, <1>5 DEF Month
<1> QED
  BY <1>4, <1>5, <1>6, <1>7

LEMMA Rows ==
    ASSUME TypeInv
    PROVE  /\ Len(events) \in Nat /\ DOMAIN events = 1 .. Len(events) /\ IsFiniteSet(DOMAIN events)
           /\ Published \in SUBSET (1 .. Len(snapshots)) /\ IsFiniteSet(Published) /\ Own \notin Published
           /\ Published \in SUBSET Nat
           /\ \A e \in DOMAIN events : events[e] \in Published
           /\ \A s \in Published : At(s) \in Nat /\ At(s) \in Instant /\ Total(s) \in Totals /\ snapshots[s] \in Snapshot
<1>1. /\ Len(events) \in Nat /\ DOMAIN events = 1 .. Len(events) /\ Len(snapshots) \in Nat
      /\ \A i \in DOMAIN events : events[i] \in 1 .. Len(snapshots)
      /\ \A i \in 1 .. Len(snapshots) : snapshots[i] \in Snapshot
  BY LenProperties, ElementOfSeq DEF TypeInv
<1>2. Published \in SUBSET (1 .. Len(snapshots)) /\ \A e \in DOMAIN events : events[e] \in Published
  BY <1>1 DEF Published, ToSet
<1>3. IsFiniteSet(1 .. Len(snapshots)) /\ IsFiniteSet(DOMAIN events)
  BY <1>1, FS_Interval
<1>4. IsFiniteSet(Published)
  BY <1>2, <1>3, FS_Subset
<1>5. \A s \in 1 .. Len(snapshots) : At(s) \in Nat /\ At(s) \in Instant /\ Total(s) \in Totals
  BY <1>1, InstantsAreNumbers DEF At, Total, Snapshot
<1> QED
  BY <1>1, <1>2, <1>3, <1>4, <1>5 DEF Own

-----------------------------------------------------------------------------
(* The recency list *)

\* A loop that skips the keys it has seen keeps each key's first place.
LEMMA FirstPlace ==
    ASSUME NEW places \in SUBSET Nat, IsFiniteSet(places), NEW keys, NEW i \in places
    PROVE  \E j \in FirstPlaces(places, keys) : keys[j] = keys[i] /\ j <= i
<1> DEFINE same == {j \in places : keys[j] = keys[i]}
<1>1. same \in SUBSET Nat /\ same # {}
  OBVIOUS
<1>2. IsFiniteSet(same)
  BY FS_Subset
<1>3. PICK j : j = Min(same)
  OBVIOUS
<1>4. j \in same /\ \A h \in same : j <= h
  BY <1>1, <1>2, <1>3, Extremes
<1>5. ASSUME NEW h \in places, h < j PROVE keys[h] # keys[j]
  <2>1. h \in Nat /\ j \in Nat /\ ~(j <= h)
    BY <1>4, <1>5
  <2> QED
    BY <1>4, <2>1
<1> QED
  BY <1>4, <1>5 DEF FirstPlaces

\* Each published snapshot once, by the last event that made it active.
Recency(recent, m, last) ==
    /\ recent \in [1 .. m -> Published] /\ last \in [1 .. m -> DOMAIN events]
    /\ \A k \in 1 .. m : events[last[k]] = recent[k]
    /\ \A k \in 1 .. m : \A e \in DOMAIN events : events[e] = recent[k] => e <= last[k]
    /\ \A s \in Published : \E k \in 1 .. m : recent[k] = s
    /\ \A j, k \in 1 .. m : j < k => last[k] < last[j]

LEMMA RecencyList ==
    ASSUME TypeInv
    PROVE  \E m \in Nat : \E last : Recency(ByRecency, m, last)
<1>1. PICK n \in Nat : n = Len(events) /\ DOMAIN events = 1 .. n
  BY Rows
<1>2. PICK newestFirst : newestFirst = Reverse(events)
  OBVIOUS
<1>3. newestFirst = [i \in 1 .. n |-> events[(n - i) + 1]]
  BY <1>1, <1>2 DEF Reverse
<1>4. PICK places : places = FirstPlaces(DOMAIN newestFirst, newestFirst)
  OBVIOUS
<1>5. DOMAIN newestFirst = 1 .. n /\ places \in SUBSET (1 .. n)
  BY <1>3, <1>4 DEF FirstPlaces
<1>6. PICK m \in Nat : \E order : Keeps(Filtered(newestFirst, places), newestFirst, places, m, order)
  BY <1>5, Filters
<1>7. PICK order : Keeps(Filtered(newestFirst, places), newestFirst, places, m, order)
  BY <1>6
<1>8. PICK recent : recent = ByRecency
  OBVIOUS
<1>9. recent = [k \in 1 .. m |-> newestFirst[order[k]]]
  BY <1>2, <1>4, <1>7, <1>8 DEF ByRecency, FirstOccurrences, Keeps
<1> DEFINE last == [k \in 1 .. m |-> (n - order[k]) + 1]
<1>10. \A k \in 1 .. m : order[k] \in 1 .. n /\ order[k] \in places
  BY <1>5, <1>7 DEF Keeps
<1>11. \A k \in 1 .. m : last[k] \in 1 .. n /\ events[last[k]] = recent[k]
  BY <1>3, <1>9, <1>10
<1>12. recent \in [1 .. m -> Published]
  BY <1>1, <1>9, <1>11, Rows
<1>13. ASSUME NEW k \in 1 .. m, NEW e \in 1 .. n, events[e] = recent[k] PROVE e <= last[k]
  <2>1. (n - e) + 1 \in 1 .. n /\ newestFirst[(n - e) + 1] = events[e]
    <3>1. (n - e) + 1 \in 1 .. n /\ (n - ((n - e) + 1)) + 1 = e
      OBVIOUS
    <3> QED
      BY <1>3, <3>1
  <2>2. newestFirst[order[k]] = newestFirst[(n - e) + 1]
    BY <1>9, <1>13, <2>1
  <2>3. ~((n - e) + 1 < order[k])
    BY <1>4, <1>5, <1>10, <2>1, <2>2 DEF FirstPlaces
  <2>4. order[k] \in 1 .. n
    BY <1>10
  <2> QED
    BY <2>3, <2>4
<1>14. ASSUME NEW s \in Published PROVE \E k \in 1 .. m : recent[k] = s
  <2>1. PICK e \in 1 .. n : events[e] = s
    BY <1>1 DEF Published, ToSet
  <2>2. (n - e) + 1 \in 1 .. n /\ newestFirst[(n - e) + 1] = s
    <3>1. (n - e) + 1 \in 1 .. n /\ (n - ((n - e) + 1)) + 1 = e
      OBVIOUS
    <3> QED
      BY <1>3, <2>1, <3>1
  <2>3. PICK i \in places : newestFirst[i] = s
    <3>1. (1 .. n) \in SUBSET Nat /\ IsFiniteSet(1 .. n)
      BY FS_Interval
    <3> QED
      BY <1>4, <1>5, <2>2, <3>1, FirstPlace
  <2> QED
    BY <1>7, <1>9, <2>3 DEF Keeps
<1>15. ASSUME NEW j \in 1 .. m, NEW k \in 1 .. m, j < k PROVE last[k] < last[j]
  <2>1. order[j] < order[k] /\ order[j] \in 1 .. n /\ order[k] \in 1 .. n
    BY <1>7, <1>10, <1>15 DEF Keeps
  <2> QED
    BY <2>1
<1>16. last \in [1 .. m -> DOMAIN events]
  BY <1>1, <1>11
<1> HIDE DEF last
<1>17. Recency(recent, m, last)
  BY <1>1, <1>11, <1>12, <1>13, <1>14, <1>15, <1>16 DEF Recency
<1> QED
  BY <1>8, <1>17

\* The first entry of a group is the one of the group made active last.
LEMMA FirstIsActive ==
    ASSUME TypeInv, NEW m \in Nat, NEW recent, NEW last, Recency(recent, m, last), NEW group \in SUBSET Published,
           NEW k \in 1 .. m, recent[k] \in group, \A j \in 1 .. m : j < k => recent[j] \notin group
    PROVE  MadeActiveLast(group) = recent[k]
<1> DEFINE active == {e \in DOMAIN events : events[e] \in group}
<1>1. last[k] \in active
  BY DEF Recency
<1>2. active \in SUBSET Nat /\ IsFiniteSet(active)
  <2>1. DOMAIN events \in SUBSET Nat /\ IsFiniteSet(DOMAIN events)
    BY Rows
  <2> QED
    BY <2>1, FS_Subset
<1>3. ASSUME NEW e \in active PROVE e <= last[k]
  <2>1. PICK j \in 1 .. m : recent[j] = events[e]
    BY <1>3 DEF Recency
  <2>2. e <= last[j] /\ ~(j < k)
    BY <1>3, <2>1 DEF Recency
  <2>3. j = k \/ last[j] < last[k]
    BY <2>2 DEF Recency
  <2>4. e \in Nat /\ last[j] \in Nat /\ last[k] \in Nat
    <3>1. last[j] \in DOMAIN events /\ last[k] \in DOMAIN events /\ e \in DOMAIN events
      BY <1>3 DEF Recency
    <3>2. DOMAIN events \in SUBSET Nat
      BY Rows
    <3> QED
      BY <3>1, <3>2
  <2> QED
    BY <2>2, <2>3, <2>4
<1>4. PICK newest : newest = Max(active)
  OBVIOUS
<1>5. newest \in active /\ \A e \in active : e <= newest
  BY <1>1, <1>2, <1>4, Extremes
<1>6. newest = last[k]
  BY <1>1, <1>2, <1>3, <1>5
<1>7. MadeActiveLast(group) = events[newest]
  BY <1>4 DEF MadeActiveLast
<1> QED
  BY <1>6, <1>7 DEF Recency

-----------------------------------------------------------------------------
(* High courts: the reading carried forward *)

\* The reading carried forward is of the newest period not after the candidate's and,
\* within it, of the snapshot made active last, for any history (resolveMonthlyMetric).
LEMMA CarriesTheActiveReading == TypeInv => CarriedForwardIsActive
<1> SUFFICES ASSUME TypeInv, NEW at \in Instant
             PROVE  LET eligible == {s \in Published : At(s) <= at}
                        period == {s \in eligible : \A t \in eligible : At(t) <= At(s)}
                    IN  CarriedForward(at) = IF eligible = {} THEN NoSnapshot ELSE MadeActiveLast(period)
  BY DEF CarriedForwardIsActive
<1> DEFINE eligible == {s \in Published : At(s) <= at}
           period == {s \in eligible : \A t \in eligible : At(t) <= At(s)}
<1>1. PICK m \in Nat : \E last : Recency(ByRecency, m, last)
  BY RecencyList
<1>2. PICK last : Recency(ByRecency, m, last)
  BY <1>1
<1>3. PICK recent : recent = ByRecency
  OBVIOUS
<1>4. Recency(recent, m, last)
  BY <1>2, <1>3
<1>5. /\ DOMAIN recent = 1 .. m
      /\ \A k \in 1 .. m : recent[k] \in Published /\ At(recent[k]) \in Nat
      /\ \A s \in Published : \E k \in 1 .. m : recent[k] = s
  BY <1>4, Rows DEF Recency
<1>6. at \in Nat
  BY InstantsAreNumbers
<1> DEFINE places == Eligible(recent, at)
           dates == {At(recent[i]) : i \in places}
           newest == Max(dates)
           ofNewest == {i \in places : At(recent[i]) = newest}
<1>7. places = {i \in 1 .. m : At(recent[i]) <= at}
  BY <1>5 DEF Eligible
<1>8. CarriedForward(at) = IF places = {} THEN NoSnapshot ELSE recent[Min(ofNewest)]
  BY <1>3 DEF CarriedForward
<1> HIDE DEF places
<1>9. CASE places = {}
  <2>1. eligible = {}
    BY <1>5, <1>7, <1>9
  <2> QED
    BY <1>8, <1>9, <2>1
<1>10. CASE places # {}
  <2>1. dates \in SUBSET Nat /\ IsFiniteSet(dates) /\ dates # {}
    <3>1. dates \in SUBSET (0 .. at) /\ dates # {} /\ dates \in SUBSET Nat
      BY <1>5, <1>6, <1>7, <1>10
    <3>2. IsFiniteSet(0 .. at)
      BY <1>6, FS_Interval
    <3>3. IsFiniteSet(dates)
      BY <3>1, <3>2, FS_Subset
    <3> QED
      BY <3>1, <3>3
  <2> HIDE DEF dates
  <2>2. newest \in dates /\ \A d \in dates : d <= newest
    BY <2>1, Extremes
  <2> HIDE DEF newest
  <2>3. ofNewest \in SUBSET Nat /\ IsFiniteSet(ofNewest) /\ ofNewest # {}
    <3>1. ofNewest \in SUBSET (1 .. m) /\ ofNewest # {} /\ ofNewest \in SUBSET Nat
      BY <1>7, <2>2 DEF dates
    <3>2. IsFiniteSet(1 .. m)
      BY FS_Interval
    <3>3. IsFiniteSet(ofNewest)
      BY <3>1, <3>2, FS_Subset
    <3> QED
      BY <3>1, <3>3
  <2>4. PICK k : k = Min(ofNewest)
    OBVIOUS
  <2>5. k \in ofNewest /\ \A j \in ofNewest : k <= j
    BY <2>3, <2>4, Extremes
  <2>6. k \in 1 .. m /\ At(recent[k]) = newest /\ At(recent[k]) <= at
    BY <1>7, <2>5
  <2>7. recent[k] \in period
    <3>1. ASSUME NEW t \in eligible PROVE At(t) <= At(recent[k])
      <4>1. PICK j \in 1 .. m : recent[j] = t
        BY <1>5
      <4>2. j \in places
        BY <1>7, <4>1
      <4>3. At(t) \in dates
        BY <4>1, <4>2 DEF dates
      <4> QED
        BY <2>2, <2>6, <4>3
    <3> QED
      BY <1>5, <2>6, <3>1
  <2>8. ASSUME NEW j \in 1 .. m, j < k, recent[j] \in period PROVE FALSE
    <3>1. At(recent[j]) <= at /\ At(recent[k]) <= At(recent[j])
      BY <2>7, <2>8
    <3>2. j \in places
      BY <1>7, <3>1
    <3>3. At(recent[j]) <= newest
      BY <2>2, <3>2 DEF dates
    <3>4. At(recent[j]) = newest
      BY <1>5, <2>6, <3>1, <3>3
    <3>5. k <= j
      BY <2>5, <3>2, <3>4
    <3> QED
      BY <2>6, <2>8, <3>5
  <2>9. period \in SUBSET Published
    OBVIOUS
  <2>10. MadeActiveLast(period) = recent[k]
    <3> HIDE DEF period, ofNewest
    <3> QED
      BY <1>4, <2>6, <2>7, <2>8, <2>9, FirstIsActive
  <2>11. eligible # {}
    BY <2>7
  <2> HIDE DEF period, eligible, ofNewest
  <2>12. CarriedForward(at) = IF eligible = {} THEN NoSnapshot ELSE MadeActiveLast(period)
    BY <1>8, <1>10, <2>4, <2>10, <2>11
  <2> QED
    BY <2>12 DEF period, eligible
<1> QED
  BY <1>9, <1>10

\* So in every reachable state.
THEOREM CarriedForwardReadings == Spec => []CarriedForwardIsActive
BY TypeInvariant, CarriesTheActiveReading, PTL

-----------------------------------------------------------------------------
(* Points *)

\* A list of points, each of a date of its own.
Points == Published \cup {Own}
Dated(points, at) ==
    /\ points \in Seq(Points)
    /\ \A i, j \in 1 .. Len(points) : i # j => PointAt(points[i], at) # PointAt(points[j], at)
DatesOf(points, at) == {PointAt(points[i], at) : i \in 1 .. Len(points)}

LEMMA PointDates ==
    ASSUME TypeInv, NEW at \in Instant, NEW points \in Seq(Points)
    PROVE  /\ Len(points) \in Nat /\ DOMAIN points = 1 .. Len(points)
           /\ \A i \in 1 .. Len(points) : points[i] \in Points /\ PointAt(points[i], at) \in Nat
<1>1. Len(points) \in Nat /\ DOMAIN points = 1 .. Len(points) /\ \A i \in 1 .. Len(points) : points[i] \in Points
  BY LenProperties, ElementOfSeq
<1>2. \A s \in Points : PointAt(s, at) \in Nat
  BY Rows, InstantsAreNumbers DEF Points, PointAt
<1> QED
  BY <1>1, <1>2

\* The candidate's point joins the others unless its date has one.
LEMMA OwnPoint ==
    ASSUME TypeInv, NEW at \in Instant, NEW points \in Seq(Published), Dated(points, at)
    PROVE  /\ Dated(WithOwn(points, at), at)
           /\ DatesOf(WithOwn(points, at), at) = DatesOf(points, at) \cup {at}
           /\ \A i \in 1 .. Len(WithOwn(points, at)) :
                WithOwn(points, at)[i] # Own => \E j \in 1 .. Len(points) : WithOwn(points, at)[i] = points[j]
<1>1. /\ Len(points) \in Nat /\ DOMAIN points = 1 .. Len(points)
      /\ \A i \in 1 .. Len(points) : points[i] \in Published /\ PointAt(points[i], at) = At(points[i])
  BY LenProperties, ElementOfSeq, Rows DEF PointAt
<1>2. (\E s \in ToSet(points) : At(s) = at) <=> \E i \in 1 .. Len(points) : At(points[i]) = at
  BY <1>1 DEF ToSet
<1>3. CASE \E i \in 1 .. Len(points) : At(points[i]) = at
  <2>1. WithOwn(points, at) = points
    BY <1>2, <1>3 DEF WithOwn
  <2>2. at \in DatesOf(points, at)
    BY <1>1, <1>3 DEF DatesOf
  <2> QED
    BY <2>1, <2>2
<1>4. CASE ~ \E i \in 1 .. Len(points) : At(points[i]) = at
  <2>1. PICK more : more = Append(points, Own) /\ more = WithOwn(points, at)
    BY <1>2, <1>4 DEF WithOwn
  <2>2. points \in Seq(Points)
    BY DEF Dated
  <2>3. /\ more \in Seq(Points) /\ Len(more) = Len(points) + 1 /\ more[Len(points) + 1] = Own
        /\ \A i \in 1 .. Len(points) : more[i] = points[i]
    <3>1. Own \in Points
      BY DEF Points
    <3>2. PICK own \in Points : own = Own
      BY <3>1
    <3>3. /\ Append(points, own) \in Seq(Points) /\ Len(Append(points, own)) = Len(points) + 1
          /\ Append(points, own)[Len(points) + 1] = own
          /\ \A i \in 1 .. Len(points) : Append(points, own)[i] = points[i]
      BY <2>2
    <3> QED
      BY <2>1, <3>2, <3>3
  <2>4. PointAt(more[Len(points) + 1], at) = at
    BY <2>3 DEF PointAt
  <2>5. \A i \in 1 .. Len(points) : PointAt(more[i], at) = At(points[i]) /\ At(points[i]) # at
    BY <1>1, <1>4, <2>3
  <2>6. \A i \in 1 .. Len(points) + 1 : i \in 1 .. Len(points) \/ i = Len(points) + 1
    BY <1>1
  <2>7. Dated(more, at)
    <3> SUFFICES ASSUME NEW i \in 1 .. Len(points) + 1, NEW j \in 1 .. Len(points) + 1, i # j
                 PROVE  PointAt(more[i], at) # PointAt(more[j], at)
      BY <2>3 DEF Dated
    <3>1. CASE i \in 1 .. Len(points) /\ j \in 1 .. Len(points)
      BY <1>1, <2>5, <3>1 DEF Dated
    <3> QED
      BY <2>4, <2>5, <2>6, <3>1
  <2>8. DatesOf(more, at) = DatesOf(points, at) \cup {at}
    <3>1. \A d : d \in DatesOf(more, at) <=> d \in DatesOf(points, at) \/ d = at
      BY <1>1, <2>3, <2>4, <2>5, <2>6 DEF DatesOf
    <3> QED
      BY <3>1
  <2>9. \A i \in 1 .. Len(more) : more[i] # Own => \E j \in 1 .. Len(points) : more[i] = points[j]
    BY <2>3, <2>6
  <2> QED
    BY <2>1, <2>7, <2>8, <2>9
<1> QED
  BY <1>3, <1>4

\* Sorted, the points are the same and their dates ascend.
LEMMA SortedPoints ==
    ASSUME TypeInv, NEW at \in Instant, NEW points, Dated(points, at)
    PROVE  /\ ByDate(points, at) \in Seq(Points) /\ Len(ByDate(points, at)) = Len(points)
           /\ \A j, k \in 1 .. Len(points) : j < k => PointAt(ByDate(points, at)[j], at) < PointAt(ByDate(points, at)[k], at)
           /\ \A k \in 1 .. Len(points) : \E i \in 1 .. Len(points) : ByDate(points, at)[k] = points[i]
           /\ DatesOf(ByDate(points, at), at) = DatesOf(points, at)
<1>1. /\ Len(points) \in Nat /\ DOMAIN points = 1 .. Len(points)
      /\ \A i \in 1 .. Len(points) : points[i] \in Points /\ PointAt(points[i], at) \in Nat
  BY PointDates DEF Dated
<1> DEFINE values == [i \in DOMAIN points |-> PointAt(points[i], at)]
<1>2. \A i \in 1 .. Len(points) : values[i] = PointAt(points[i], at) /\ values[i] \in Nat
  BY <1>1
<1>3. ByDate(points, at) = [k \in DOMAIN points |-> points[Ascending(DOMAIN points, values)[k]]]
  BY DEF ByDate
<1> HIDE DEF values
<1>4. (1 .. Len(points)) \in SUBSET Nat /\ IsFiniteSet(1 .. Len(points)) /\ Cardinality(1 .. Len(points)) = Len(points)
  <2>1. PICK p \in Nat : p = Len(points)
    BY <1>1
  <2>2. IsFiniteSet(1 .. p) /\ Cardinality(1 .. p) = p
    BY FS_Interval
  <2> QED
    BY <2>1, <2>2
<1>5. PICK n \in Nat : \E order \in [1 .. n -> 1 .. Len(points)] :
         /\ n = Cardinality(1 .. Len(points)) /\ order = Ascending(1 .. Len(points), values)
         /\ \A i \in 1 .. Len(points) : \E k \in 1 .. n : order[k] = i
         /\ \A j, k \in 1 .. n : j < k =>
              values[order[j]] < values[order[k]] \/ (values[order[j]] = values[order[k]] /\ order[j] < order[k])
  BY <1>2, <1>4, Order
<1>6. PICK order \in [1 .. n -> 1 .. Len(points)] :
         /\ n = Len(points) /\ order = Ascending(DOMAIN points, values)
         /\ \A i \in 1 .. Len(points) : \E k \in 1 .. n : order[k] = i
         /\ \A j, k \in 1 .. n : j < k =>
              values[order[j]] < values[order[k]] \/ (values[order[j]] = values[order[k]] /\ order[j] < order[k])
  BY <1>1, <1>4, <1>5
<1>7. PICK sorted : sorted = ByDate(points, at)
  OBVIOUS
<1>8. sorted = [k \in 1 .. n |-> points[order[k]]]
  BY <1>1, <1>3, <1>6, <1>7
<1>9. \A k \in 1 .. n : /\ order[k] \in 1 .. n /\ sorted[k] = points[order[k]] /\ sorted[k] \in Points
                         /\ PointAt(sorted[k], at) = values[order[k]]
  BY <1>1, <1>2, <1>6, <1>8
<1>10. sorted \in Seq(Points) /\ Len(sorted) = n
  <2>1. sorted \in [1 .. n -> Points] /\ n \in Nat
    BY <1>8, <1>9
  <2> QED
    BY <2>1
<1>11. ASSUME NEW j \in 1 .. n, NEW k \in 1 .. n, j < k PROVE PointAt(sorted[j], at) < PointAt(sorted[k], at)
  <2>1. values[order[j]] < values[order[k]] \/ (values[order[j]] = values[order[k]] /\ order[j] < order[k])
    BY <1>6, <1>11
  <2>2. order[j] \in 1 .. n /\ order[k] \in 1 .. n
    BY <1>9
  <2>3. order[j] # order[k] => values[order[j]] # values[order[k]]
    <3>1. order[j] \in 1 .. Len(points) /\ order[k] \in 1 .. Len(points)
      BY <1>6
    <3>2. order[j] # order[k] => PointAt(points[order[j]], at) # PointAt(points[order[k]], at)
      BY <3>1 DEF Dated
    <3> QED
      BY <1>2, <3>1, <3>2
  <2>4. values[order[j]] < values[order[k]]
    BY <2>1, <2>2, <2>3
  <2>5. PointAt(sorted[j], at) = values[order[j]] /\ PointAt(sorted[k], at) = values[order[k]]
    BY <1>9
  <2> QED
    BY <2>4, <2>5
<1>12. DatesOf(sorted, at) = DatesOf(points, at)
  <2>1. \A k \in 1 .. n : \E i \in 1 .. n : PointAt(sorted[k], at) = PointAt(points[i], at)
    BY <1>9
  <2>2. \A i \in 1 .. n : \E k \in 1 .. n : order[k] = i
    BY <1>6
  <2>3. ASSUME NEW i \in 1 .. n PROVE \E k \in 1 .. n : PointAt(points[i], at) = PointAt(sorted[k], at)
    <3>1. PICK k \in 1 .. n : order[k] = i
      BY <2>2
    <3>2. sorted[k] = points[i]
      BY <1>9, <3>1
    <3> QED
      BY <3>2
  <2>4. n = Len(points) /\ n = Len(sorted)
    BY <1>6, <1>10
  <2> QED
    BY <2>1, <2>3, <2>4 DEF DatesOf
<1>13. \A k \in 1 .. n : \E i \in 1 .. n : sorted[k] = points[i]
  BY <1>9
<1> QED
  BY <1>6, <1>7, <1>10, <1>11, <1>12, <1>13

\* The first entry of each date, in the order of the list.
OnePerDate(list, seq, m, q, order) ==
    /\ list \in [1 .. q -> Published] /\ order \in [1 .. q -> 1 .. m]
    /\ \A k \in 1 .. q : list[k] = seq[order[k]]
    /\ \A k \in 1 .. q : \A i \in 1 .. m : At(seq[i]) = At(list[k]) => order[k] <= i
    /\ \A i \in 1 .. m : \E k \in 1 .. q : At(list[k]) = At(seq[i])
    /\ \A j, k \in 1 .. q : j < k => order[j] < order[k]

LEMMA FirstOfEachDate ==
    ASSUME TypeInv, NEW m \in Nat, NEW seq \in [1 .. m -> Published]
    PROVE  \E q \in Nat : \E order : OnePerDate(Filtered(seq, FirstOfDate(seq)), seq, m, q, order)
<1> DEFINE dates == [i \in DOMAIN seq |-> At(seq[i])]
           places == FirstOfDate(seq)
<1>1. places = FirstPlaces(1 .. m, dates)
  BY DEF FirstOfDate
<1>2. \A i \in 1 .. m : dates[i] = At(seq[i])
  OBVIOUS
<1> HIDE DEF dates, places
<1>3. places \in SUBSET (1 .. m)
  BY <1>1 DEF FirstPlaces
<1>4. PICK q \in Nat : \E order : Keeps(Filtered(seq, places), seq, places, q, order)
  BY <1>3, Filters
<1>5. PICK order : Keeps(Filtered(seq, places), seq, places, q, order)
  BY <1>4
<1>6. PICK list : list = Filtered(seq, places)
  OBVIOUS
<1>7. /\ \A k \in 1 .. q : order[k] \in places /\ order[k] \in 1 .. m /\ list[k] = seq[order[k]]
      /\ order \in [1 .. q -> 1 .. m] /\ list \in [1 .. q -> Published]
      /\ \A j, k \in 1 .. q : j < k => order[j] < order[k]
  BY <1>3, <1>5, <1>6 DEF Keeps
<1>8. ASSUME NEW k \in 1 .. q, NEW i \in 1 .. m, At(seq[i]) = At(list[k]) PROVE order[k] <= i
  <2>1. order[k] \in FirstPlaces(1 .. m, dates) /\ order[k] \in 1 .. m /\ dates[order[k]] = dates[i]
    BY <1>1, <1>2, <1>7, <1>8
  <2>2. ~(i < order[k])
    BY <2>1 DEF FirstPlaces
  <2> QED
    BY <2>1, <2>2
<1>9. ASSUME NEW i \in 1 .. m PROVE \E k \in 1 .. q : At(list[k]) = At(seq[i])
  <2>1. (1 .. m) \in SUBSET Nat /\ IsFiniteSet(1 .. m)
    BY FS_Interval
  <2>2. PICK j \in places : dates[j] = dates[i]
    BY <1>1, <2>1, FirstPlace
  <2>3. PICK k \in 1 .. q : order[k] = j
    BY <1>5, <2>2 DEF Keeps
  <2> QED
    BY <1>2, <1>3, <1>7, <2>2, <2>3
<1>10. OnePerDate(list, seq, m, q, order)
  BY <1>7, <1>8, <1>9 DEF OnePerDate
<1> QED
  BY <1>6, <1>10 DEF places

\* It is a list of points, and its dates are those of the list.
LEMMA OnePerDateIsDated ==
    ASSUME TypeInv, NEW at \in Instant, NEW m \in Nat, NEW seq \in [1 .. m -> Published], NEW q \in Nat,
           NEW list, NEW order, OnePerDate(list, seq, m, q, order)
    PROVE  /\ list \in Seq(Published) /\ Len(list) = q /\ Dated(list, at)
           /\ DatesOf(list, at) = {At(seq[i]) : i \in 1 .. m}
<1>1. list \in [1 .. q -> Published]
  BY DEF OnePerDate
<1>2. list \in Seq(Published) /\ Len(list) = q
  BY <1>1
<1>3. \A k \in 1 .. q : PointAt(list[k], at) = At(list[k])
  BY <1>1, Rows DEF PointAt
<1>4. ASSUME NEW j \in 1 .. q, NEW k \in 1 .. q, At(list[j]) = At(list[k]) PROVE j = k
  <2>1. /\ order[j] \in 1 .. m /\ list[j] = seq[order[j]]
        /\ order[k] \in 1 .. m /\ list[k] = seq[order[k]]
    BY DEF OnePerDate
  <2>2. order[k] <= order[j] /\ order[j] <= order[k]
    BY <1>4, <2>1 DEF OnePerDate
  <2>3. (j < k => order[j] < order[k]) /\ (k < j => order[k] < order[j])
    BY DEF OnePerDate
  <2>4. order[j] \in Nat /\ order[k] \in Nat
    BY <2>1
  <2> QED
    BY <2>2, <2>3, <2>4
<1>5. Dated(list, at)
  <2>1. list \in Seq(Points)
    BY <1>2, SeqMonotonic DEF Points
  <2> QED
    BY <1>2, <1>3, <1>4, <2>1 DEF Dated
<1>6. \A k \in 1 .. q : \E i \in 1 .. m : At(list[k]) = At(seq[i])
  BY DEF OnePerDate
<1>7. \A i \in 1 .. m : \E k \in 1 .. q : At(list[k]) = At(seq[i])
  BY DEF OnePerDate
<1>8. DatesOf(list, at) = {At(seq[i]) : i \in 1 .. m}
  <2>1. \A k \in 1 .. q : \E i \in 1 .. m : PointAt(list[k], at) = At(seq[i])
    BY <1>3, <1>6
  <2>2. \A i \in 1 .. m : \E k \in 1 .. q : At(seq[i]) = PointAt(list[k], at)
    BY <1>3, <1>7
  <2>3. DatesOf(list, at) = {PointAt(list[k], at) : k \in 1 .. q}
    BY <1>2 DEF DatesOf
  <2> QED
    BY <2>1, <2>2, <2>3
<1> QED
  BY <1>2, <1>5, <1>8

-----------------------------------------------------------------------------
(* High courts: the trend *)

\* The trend shows the newest dates among the published ones and the candidate's own,
\* in order, each once, and of a published date the snapshot made active last.
LEMMA ShowsTheActivePoints == TypeInv => TrendPointsAreActive
<1> SUFFICES ASSUME TypeInv, NEW at \in Instant
             PROVE  LET points == HighCourtTrend(at)
                        dates == {At(s) : s \in Published} \cup {at}
                        newest == {d \in dates : Cardinality({e \in dates : e > d}) < TrendWindow}
                    IN  /\ {PointAt(s, at) : s \in ToSet(points)} = newest
                        /\ \A i, j \in DOMAIN points : i < j => PointAt(points[i], at) < PointAt(points[j], at)
                        /\ \A s \in ToSet(points) \ {Own} : s = MadeActiveLast({t \in Published : At(t) = At(s)})
  BY DEF TrendPointsAreActive
<1>1. PICK m \in Nat : \E last : Recency(ByRecency, m, last)
  BY RecencyList
<1>2. PICK last : Recency(ByRecency, m, last)
  BY <1>1
<1>3. PICK recent : recent = ByRecency
  OBVIOUS
<1>4. Recency(recent, m, last) /\ recent \in [1 .. m -> Published]
  BY <1>2, <1>3 DEF Recency
<1>5. PICK q \in Nat : \E order : OnePerDate(Filtered(recent, FirstOfDate(recent)), recent, m, q, order)
  BY <1>4, FirstOfEachDate
<1>6. PICK kept : kept = Filtered(recent, FirstOfDate(recent))
  OBVIOUS
<1>7. PICK order : OnePerDate(kept, recent, m, q, order)
  BY <1>5, <1>6
<1>8. kept \in Seq(Published) /\ Len(kept) = q /\ Dated(kept, at) /\ DatesOf(kept, at) = {At(recent[i]) : i \in 1 .. m}
  BY <1>4, <1>7, OnePerDateIsDated
<1>9. ASSUME NEW k \in 1 .. q PROVE kept[k] = MadeActiveLast({t \in Published : At(t) = At(kept[k])})
  <2> DEFINE group == {t \in Published : At(t) = At(kept[k])}
  <2>1. order[k] \in 1 .. m /\ kept[k] = recent[order[k]] /\ kept[k] \in Published
    BY <1>7 DEF OnePerDate
  <2>2. \A j \in 1 .. m : j < order[k] => recent[j] \notin group
    <3>1. \A j \in 1 .. m : At(recent[j]) = At(kept[k]) => order[k] <= j
      BY <1>7 DEF OnePerDate
    <3>2. \A j \in 1 .. m : j < order[k] => ~(order[k] <= j)
      BY <2>1
    <3> QED
      BY <3>1, <3>2
  <2>3. group \in SUBSET Published /\ recent[order[k]] \in group
    BY <2>1
  <2> HIDE DEF group
  <2>4. MadeActiveLast(group) = recent[order[k]]
    BY <1>4, <2>1, <2>2, <2>3, FirstIsActive
  <2> QED
    BY <2>1, <2>4 DEF group
<1>10. PICK withOwn : withOwn = WithOwn(kept, at)
  OBVIOUS
<1>11. /\ Dated(withOwn, at) /\ DatesOf(withOwn, at) = DatesOf(kept, at) \cup {at}
       /\ \A i \in 1 .. Len(withOwn) : withOwn[i] # Own => \E j \in 1 .. q : withOwn[i] = kept[j]
  BY <1>8, <1>10, OwnPoint
<1>12. PICK sorted : sorted = ByDate(withOwn, at)
  OBVIOUS
<1>13. /\ sorted \in Seq(Points) /\ Len(sorted) = Len(withOwn)
       /\ \A j, k \in 1 .. Len(withOwn) : j < k => PointAt(sorted[j], at) < PointAt(sorted[k], at)
       /\ \A k \in 1 .. Len(withOwn) : \E i \in 1 .. Len(withOwn) : sorted[k] = withOwn[i]
       /\ DatesOf(sorted, at) = DatesOf(withOwn, at)
  <2>1. Dated(withOwn, at)
    BY <1>11
  <2>2. /\ ByDate(withOwn, at) \in Seq(Points) /\ Len(ByDate(withOwn, at)) = Len(withOwn)
        /\ \A j, k \in 1 .. Len(withOwn) :
             j < k => PointAt(ByDate(withOwn, at)[j], at) < PointAt(ByDate(withOwn, at)[k], at)
        /\ \A k \in 1 .. Len(withOwn) : \E i \in 1 .. Len(withOwn) : ByDate(withOwn, at)[k] = withOwn[i]
        /\ DatesOf(ByDate(withOwn, at), at) = DatesOf(withOwn, at)
    BY <2>1, SortedPoints
  <2> QED
    BY <1>12, <2>2
<1>14. PICK n \in Nat : n = Len(sorted)
  BY <1>13, LenProperties
<1> DEFINE value == [i \in 1 .. n |-> PointAt(sorted[i], at)]
<1>15. \A i \in 1 .. n : value[i] = PointAt(sorted[i], at) /\ value[i] \in Nat
  BY <1>13, <1>14, PointDates
<1>16. \A i, j \in 1 .. n : i < j => value[i] < value[j]
  BY <1>13, <1>14, <1>15
<1> DEFINE dates == {At(s) : s \in Published} \cup {at}
<1>17. {value[i] : i \in 1 .. n} = dates
  <2>1. {value[i] : i \in 1 .. n} = DatesOf(sorted, at)
    BY <1>14, <1>15 DEF DatesOf
  <2>2. {At(recent[i]) : i \in 1 .. m} = {At(s) : s \in Published}
    <3>1. \A i \in 1 .. m : recent[i] \in Published
      BY <1>4
    <3>2. \A s \in Published : \E i \in 1 .. m : recent[i] = s
      BY <1>4 DEF Recency
    <3> QED
      BY <3>1, <3>2
  <2> QED
    BY <1>8, <1>11, <1>13, <2>1, <2>2
<1> HIDE DEF value, dates
<1>18. TrendWindow \in Nat \ {0}
  BY HistoryAssumption
<1>19. PICK cut \in 0 .. n : EndsWith(Newest(sorted, TrendWindow), sorted, n, value, TrendWindow, cut)
  <2>1. \A i \in 1 .. Len(sorted) : value[i] \in Nat
    BY <1>14, <1>15
  <2>2. \A i, j \in 1 .. Len(sorted) : i < j => value[i] < value[j]
    BY <1>14, <1>16
  <2>3. sorted \in Seq(Points)
    BY <1>13
  <2>4. \E cut \in 0 .. Len(sorted) :
          EndsWith(Newest(sorted, TrendWindow), sorted, Len(sorted), value, TrendWindow, cut)
    BY <1>18, <2>1, <2>2, <2>3, NewestAreHighest
  <2> QED
    BY <1>14, <2>4
<1>20. PICK points : points = HighCourtTrend(at)
  OBVIOUS
<1>21. points = Newest(sorted, TrendWindow)
  BY <1>3, <1>6, <1>10, <1>12, <1>20 DEF HighCourtTrend
<1>22. DOMAIN points = 1 .. n - cut /\ \A i \in 1 .. n - cut : points[i] = sorted[cut + i] /\ cut + i \in 1 .. n
  <2>1. EndsWith(points, sorted, n, value, TrendWindow, cut)
    BY <1>19, <1>21
  <2> QED
    BY <2>1 DEF EndsWith
<1>23. {PointAt(s, at) : s \in ToSet(points)} = Highest(dates, TrendWindow)
  <2>1. \A i \in 1 .. n - cut : PointAt(points[i], at) = value[cut + i] /\ cut + i \in cut + 1 .. n
    BY <1>15, <1>22
  <2>2. \A k \in cut + 1 .. n : k - cut \in 1 .. n - cut /\ PointAt(points[k - cut], at) = value[k]
    BY <1>15, <1>22
  <2>3. {PointAt(s, at) : s \in ToSet(points)} = {PointAt(points[i], at) : i \in 1 .. n - cut}
    BY <1>22 DEF ToSet
  <2>4. {PointAt(points[i], at) : i \in 1 .. n - cut} = {value[k] : k \in cut + 1 .. n}
    <3>1. \A i \in 1 .. n - cut : \E k \in cut + 1 .. n : PointAt(points[i], at) = value[k]
      BY <2>1
    <3>2. \A k \in cut + 1 .. n : \E i \in 1 .. n - cut : value[k] = PointAt(points[i], at)
      BY <2>2
    <3> QED
      BY <3>1, <3>2
  <2>5. {value[k] : k \in cut + 1 .. n} = Highest(dates, TrendWindow)
    BY <1>17, <1>19 DEF EndsWith
  <2> QED
    BY <2>3, <2>4, <2>5
<1>24. \A i, j \in DOMAIN points : i < j => PointAt(points[i], at) < PointAt(points[j], at)
  <2> SUFFICES ASSUME NEW i \in 1 .. n - cut, NEW j \in 1 .. n - cut, i < j
               PROVE  PointAt(points[i], at) < PointAt(points[j], at)
    BY <1>22
  <2>1. cut + i \in 1 .. n /\ cut + j \in 1 .. n /\ cut + i < cut + j
    BY <1>22
  <2> QED
    BY <1>15, <1>16, <1>22, <2>1
<1>25. \A s \in ToSet(points) \ {Own} : s = MadeActiveLast({t \in Published : At(t) = At(s)})
  <2> SUFFICES ASSUME NEW i \in 1 .. n - cut, points[i] # Own
               PROVE  points[i] = MadeActiveLast({t \in Published : At(t) = At(points[i])})
    BY <1>22 DEF ToSet
  <2>1. PICK j \in 1 .. n : points[i] = withOwn[j]
    <3>1. points[i] = sorted[cut + i] /\ cut + i \in 1 .. Len(withOwn) /\ n = Len(withOwn)
      BY <1>13, <1>14, <1>22
    <3> QED
      BY <1>13, <3>1
  <2>2. PICK k \in 1 .. q : points[i] = kept[k]
    BY <1>11, <1>13, <1>14, <2>1
  <2> QED
    BY <1>9, <2>2
<1> QED
  BY <1>20, <1>23, <1>24, <1>25 DEF Highest, dates

\* So in every reachable state.
THEOREM TrendPoints == Spec => []TrendPointsAreActive
BY TypeInvariant, ShowsTheActivePoints, PTL

-----------------------------------------------------------------------------
(* The chronological list *)

\* Each published snapshot once, in the order of its reference date and then of publication.
InOrder(list, m) ==
    /\ list \in [1 .. m -> Published]
    /\ \A s \in Published : \E k \in 1 .. m : list[k] = s
    /\ \A j, k \in 1 .. m : j < k => HistoryOrder(list[j], list[k])

LEMMA ChronologicalList ==
    ASSUME TypeInv
    PROVE  \E m \in Nat : InOrder(Chronological, m)
<1>1. PICK h \in Nat : \E last : Recency(ByRecency, h, last)
  BY RecencyList
<1>2. PICK last : Recency(ByRecency, h, last)
  BY <1>1
<1>3. ToSet(ByRecency) = Published
  BY <1>2 DEF Recency, ToSet
<1> DEFINE values == [s \in Published |-> At(s)]
<1>4. Chronological = Ascending(Published, values)
  BY <1>3 DEF Chronological
<1>5. \A s \in Published : values[s] = At(s) /\ values[s] \in Nat
  BY Rows
<1>6. Published \in SUBSET Nat /\ IsFiniteSet(Published)
  BY Rows
<1> HIDE DEF values
<1>7. PICK m \in Nat : \E order \in [1 .. m -> Published] :
         /\ m = Cardinality(Published) /\ order = Ascending(Published, values)
         /\ \A i \in Published : \E k \in 1 .. m : order[k] = i
         /\ \A j, k \in 1 .. m : j < k =>
              values[order[j]] < values[order[k]] \/ (values[order[j]] = values[order[k]] /\ order[j] < order[k])
  BY <1>5, <1>6, Order
<1>8. PICK order \in [1 .. m -> Published] :
         /\ order = Ascending(Published, values)
         /\ \A i \in Published : \E k \in 1 .. m : order[k] = i
         /\ \A j, k \in 1 .. m : j < k =>
              values[order[j]] < values[order[k]] \/ (values[order[j]] = values[order[k]] /\ order[j] < order[k])
  BY <1>7
<1>9. \A j, k \in 1 .. m : j < k => HistoryOrder(order[j], order[k])
  BY <1>5, <1>8 DEF HistoryOrder
<1> QED
  BY <1>4, <1>8, <1>9 DEF InOrder

-----------------------------------------------------------------------------
(* Lower courts: the trend *)

\* One point for each published day up to the candidate's: the day's last in the order.
DayPoints(list, q, at) ==
    /\ list \in [1 .. q -> Published]
    /\ \A k \in 1 .. q : Day(At(list[k])) <= Day(at)
    /\ \A s \in Published : Day(At(s)) <= Day(at) => \E k \in 1 .. q : Day(At(list[k])) = Day(At(s))
    /\ \A j, k \in 1 .. q : j # k => Day(At(list[j])) # Day(At(list[k]))
    /\ \A k \in 1 .. q : \A s \in Published :
         Day(At(s)) = Day(At(list[k])) => s = list[k] \/ HistoryOrder(s, list[k])

LEMMA PointsOfDays ==
    ASSUME TypeInv, NEW at \in Instant
    PROVE  \E q \in Nat : DayPoints(PriorPoints(at), q, at)
<1>1. PICK m \in Nat : InOrder(Chronological, m)
  BY ChronologicalList
<1>2. PICK chrono : chrono = Chronological
  OBVIOUS
<1>3. InOrder(chrono, m) /\ chrono \in [1 .. m -> Published]
  BY <1>1, <1>2 DEF InOrder
<1>4. PICK walk : walk = Reverse(chrono)
  OBVIOUS
<1>5. Len(chrono) = m
  BY <1>3, LenProperties
<1>6. walk = [i \in 1 .. m |-> chrono[(m - i) + 1]]
  BY <1>4, <1>5 DEF Reverse
<1>7. /\ DOMAIN walk = 1 .. m
      /\ \A i \in 1 .. m : (m - i) + 1 \in 1 .. m /\ walk[i] = chrono[(m - i) + 1] /\ walk[i] \in Published
  BY <1>3, <1>6
<1>8. ASSUME NEW j \in 1 .. m, NEW k \in 1 .. m, j < k PROVE HistoryOrder(walk[k], walk[j])
  <2>1. (m - k) + 1 \in 1 .. m /\ (m - j) + 1 \in 1 .. m /\ (m - k) + 1 < (m - j) + 1
    BY <1>8
  <2> QED
    BY <1>3, <1>7, <2>1 DEF InOrder
<1>9. ASSUME NEW s \in Published PROVE \E i \in 1 .. m : walk[i] = s
  <2>1. PICK k \in 1 .. m : chrono[k] = s
    BY <1>3 DEF InOrder
  <2>2. (m - k) + 1 \in 1 .. m /\ (m - ((m - k) + 1)) + 1 = k
    OBVIOUS
  <2> QED
    BY <1>7, <2>1, <2>2
<1> DEFINE past == {i \in DOMAIN walk : ~IsLaterDay(walk[i], at)}
           days == [i \in past |-> Day(At(walk[i]))]
           places == FirstPlaces(past, days)
<1>10. PriorPoints(at) = Filtered(walk, places)
  BY <1>2, <1>4 DEF PriorPoints
<1>11. \A s \in Published : At(s) \in Nat /\ Day(At(s)) \in Nat
  BY Rows, Calendar
<1>12. Day(at) \in Nat
  BY InstantsAreNumbers, Calendar
<1>13. \A i : i \in past <=> i \in 1 .. m /\ Day(At(walk[i])) <= Day(at)
  BY <1>7, <1>11, <1>12 DEF IsLaterDay
<1>14. \A i \in past : days[i] = Day(At(walk[i]))
  OBVIOUS
<1>15. past \in SUBSET Nat /\ IsFiniteSet(past)
  <2>1. past \in SUBSET (1 .. m)
    BY <1>13
  <2>2. IsFiniteSet(1 .. m)
    BY FS_Interval
  <2>3. IsFiniteSet(past)
    BY <2>1, <2>2, FS_Subset
  <2> QED
    BY <2>1, <2>3
<1> HIDE DEF past, days
<1>16. places \in SUBSET (1 .. m) /\ places \in SUBSET past
  BY <1>13 DEF FirstPlaces
<1>17. \A i \in places : \A j \in past : j < i => days[j] # days[i]
  BY DEF FirstPlaces
<1>18. \A i \in past : \E j \in places : days[j] = days[i]
  BY <1>15, FirstPlace
<1> HIDE DEF places
<1>19. PICK q \in Nat : \E order : Keeps(Filtered(walk, places), walk, places, q, order)
  BY <1>16, Filters
<1>20. PICK order : Keeps(Filtered(walk, places), walk, places, q, order)
  BY <1>19
<1>21. PICK list : list = PriorPoints(at)
  OBVIOUS
<1>22. /\ \A k \in 1 .. q : order[k] \in places /\ order[k] \in past /\ order[k] \in 1 .. m /\ list[k] = walk[order[k]]
       /\ \A i \in places : \E k \in 1 .. q : order[k] = i
       /\ \A j, k \in 1 .. q : j < k => order[j] < order[k]
       /\ list = [k \in 1 .. q |-> walk[order[k]]]
  <2>1. Keeps(list, walk, places, q, order)
    BY <1>10, <1>20, <1>21
  <2>2. /\ order \in [1 .. q -> places] /\ list = [k \in 1 .. q |-> walk[order[k]]]
        /\ \A i \in places : \E k \in 1 .. q : order[k] = i
        /\ \A j, k \in 1 .. q : j < k => order[j] < order[k]
    BY <2>1 DEF Keeps
  <2>3. \A k \in 1 .. q : order[k] \in places /\ list[k] = walk[order[k]]
    BY <2>2
  <2> QED
    BY <1>16, <2>2, <2>3
<1>23. list \in [1 .. q -> Published]
  BY <1>7, <1>22
<1>24. \A k \in 1 .. q : Day(At(list[k])) <= Day(at)
  BY <1>13, <1>22
<1>25. ASSUME NEW s \in Published, Day(At(s)) <= Day(at) PROVE \E k \in 1 .. q : Day(At(list[k])) = Day(At(s))
  <2>1. PICK i \in 1 .. m : walk[i] = s
    BY <1>9
  <2>2. i \in past
    BY <1>13, <1>25, <2>1
  <2>3. PICK j \in places : days[j] = days[i]
    BY <1>18, <2>2
  <2>4. PICK k \in 1 .. q : order[k] = j
    BY <1>22
  <2> QED
    BY <1>14, <1>22, <2>1, <2>2, <2>3, <2>4
<1>26. ASSUME NEW j \in 1 .. q, NEW k \in 1 .. q, j < k PROVE Day(At(list[j])) # Day(At(list[k]))
  <2>1. order[j] < order[k]
    BY <1>22, <1>26
  <2>2. days[order[j]] # days[order[k]]
    BY <1>17, <1>22, <2>1
  <2> QED
    BY <1>14, <1>22, <2>2
<1>27. \A j, k \in 1 .. q : j # k => Day(At(list[j])) # Day(At(list[k]))
  <2> SUFFICES ASSUME NEW j \in 1 .. q, NEW k \in 1 .. q, j # k PROVE Day(At(list[j])) # Day(At(list[k]))
    OBVIOUS
  <2>1. j < k \/ k < j
    OBVIOUS
  <2> QED
    BY <1>26, <2>1
<1>28. ASSUME NEW k \in 1 .. q, NEW s \in Published, Day(At(s)) = Day(At(list[k]))
       PROVE  s = list[k] \/ HistoryOrder(s, list[k])
  <2>1. PICK i \in 1 .. m : walk[i] = s
    BY <1>9
  <2>2. i \in past /\ days[i] = days[order[k]]
    <3>1. i \in past
      BY <1>13, <1>24, <1>28, <2>1
    <3> QED
      BY <1>14, <1>22, <1>28, <2>1, <3>1
  <2>3. ~(i < order[k])
    BY <1>17, <1>22, <2>2
  <2>4. i = order[k] \/ order[k] < i
    BY <1>22, <2>3
  <2>5. order[k] < i => HistoryOrder(walk[i], walk[order[k]])
    BY <1>8, <1>22
  <2> QED
    BY <1>22, <2>1, <2>4, <2>5
<1>29. DayPoints(list, q, at)
  BY <1>23, <1>24, <1>25, <1>27, <1>28 DEF DayPoints
<1> QED
  BY <1>21, <1>29

\* The prior points of a lower-court candidate are one for each of the newest published
\* days up to its own, and a day shows its last snapshot, for any history (buildTrends).
LEMMA ShowsTheNewestDays == TypeInv => TrendsAreNewestDays
<1> SUFFICES ASSUME TypeInv, NEW at \in Instant
             PROVE  LET points == Trends(at)
                        past == {d \in DaysOf(ByRecency) : d <= Day(at)}
                        newest == {d \in past : Cardinality({e \in past : e > d}) < TrendDays}
                    IN  /\ DaysOf(points) = newest
                        /\ Len(points) = Cardinality(newest)
                        /\ \A i \in DOMAIN points :
                               /\ \A j \in 1 .. i - 1 : Day(At(points[j])) < Day(At(points[i]))
                               /\ \A s \in Published :
                                      Day(At(s)) = Day(At(points[i])) => s = points[i] \/ HistoryOrder(s, points[i])
  BY DEF TrendsAreNewestDays
<1>1. PICK q \in Nat : DayPoints(PriorPoints(at), q, at)
  BY PointsOfDays
<1>2. PICK list : list = PriorPoints(at)
  OBVIOUS
<1>3. DayPoints(list, q, at)
  BY <1>1, <1>2
<1>4. list \in [1 .. q -> Published] /\ \A k \in 1 .. q : list[k] \in Published
  BY <1>3 DEF DayPoints
<1>5. \A s \in Published : At(s) \in Nat /\ Day(At(s)) \in Nat /\ PointAt(s, at) = At(s)
  BY Rows, Calendar DEF PointAt
<1>6. Dated(list, at) /\ Len(list) = q
  <2>1. list \in Seq(Published) /\ Len(list) = q
    BY <1>4
  <2>2. list \in Seq(Points)
    BY <2>1, SeqMonotonic DEF Points
  <2>3. ASSUME NEW i \in 1 .. q, NEW j \in 1 .. q, i # j PROVE PointAt(list[i], at) # PointAt(list[j], at)
    <3>1. Day(At(list[i])) # Day(At(list[j]))
      BY <1>3, <2>3 DEF DayPoints
    <3> QED
      BY <1>4, <1>5, <3>1
  <2> QED
    BY <2>1, <2>2, <2>3 DEF Dated
<1>7. PICK sorted : sorted = ByDate(list, at)
  OBVIOUS
<1>8. /\ sorted \in Seq(Points) /\ Len(sorted) = q
      /\ \A j, k \in 1 .. q : j < k => PointAt(sorted[j], at) < PointAt(sorted[k], at)
      /\ \A k \in 1 .. q : \E i \in 1 .. q : sorted[k] = list[i]
      /\ DatesOf(sorted, at) = DatesOf(list, at)
  <2>1. /\ ByDate(list, at) \in Seq(Points) /\ Len(ByDate(list, at)) = Len(list)
        /\ \A j, k \in 1 .. Len(list) : j < k => PointAt(ByDate(list, at)[j], at) < PointAt(ByDate(list, at)[k], at)
        /\ \A k \in 1 .. Len(list) : \E i \in 1 .. Len(list) : ByDate(list, at)[k] = list[i]
        /\ DatesOf(ByDate(list, at), at) = DatesOf(list, at)
    BY <1>6, SortedPoints
  <2> QED
    BY <1>6, <1>7, <2>1
<1>9. \A k \in 1 .. q : sorted[k] \in Published
  BY <1>4, <1>8
<1>10. ASSUME NEW j \in 1 .. q, NEW k \in 1 .. q, j < k PROVE Day(At(sorted[j])) < Day(At(sorted[k]))
  <2>1. At(sorted[j]) < At(sorted[k])
    BY <1>5, <1>8, <1>9, <1>10
  <2>2. Day(At(sorted[j])) <= Day(At(sorted[k]))
    BY <1>5, <1>9, <2>1, Calendar
  <2>3. PICK g \in 1 .. q, h \in 1 .. q : sorted[j] = list[g] /\ sorted[k] = list[h]
    BY <1>8
  <2>4. g # h
    BY <1>5, <1>9, <2>1, <2>3
  <2>5. Day(At(list[g])) # Day(At(list[h]))
    BY <1>3, <2>4 DEF DayPoints
  <2> QED
    BY <1>5, <1>9, <2>2, <2>3, <2>5
<1> DEFINE value == [i \in 1 .. q |-> Day(At(sorted[i]))]
<1>11. \A i \in 1 .. q : value[i] = Day(At(sorted[i])) /\ value[i] \in Nat
  BY <1>5, <1>9
<1>12. \A i, j \in 1 .. q : i < j => value[i] < value[j]
  BY <1>10, <1>11
<1> HIDE DEF value
<1>13. PICK cut \in 0 .. q : EndsWith(Newest(sorted, TrendDays), sorted, q, value, TrendDays, cut)
  <2>1. TrendDays \in Nat \ {0}
    BY HistoryAssumption
  <2>2. \A i \in 1 .. Len(sorted) : value[i] \in Nat
    BY <1>8, <1>11
  <2>3. \A i, j \in 1 .. Len(sorted) : i < j => value[i] < value[j]
    BY <1>8, <1>12
  <2>4. sorted \in Seq(Points)
    BY <1>8
  <2>5. \E cut \in 0 .. Len(sorted) : EndsWith(Newest(sorted, TrendDays), sorted, Len(sorted), value, TrendDays, cut)
    BY <2>1, <2>2, <2>3, <2>4, NewestAreHighest
  <2> QED
    BY <1>8, <2>5
<1>14. PICK points : points = Trends(at)
  OBVIOUS
<1>15. EndsWith(points, sorted, q, value, TrendDays, cut)
  BY <1>2, <1>7, <1>13, <1>14 DEF Trends
<1>16. /\ DOMAIN points = 1 .. q - cut /\ Len(points) = q - cut
       /\ \A i \in 1 .. q - cut : points[i] = sorted[cut + i] /\ cut + i \in 1 .. q
  BY <1>15 DEF EndsWith
<1> DEFINE past == {d \in DaysOf(ByRecency) : d <= Day(at)}
<1>17. {value[i] : i \in 1 .. q} = past
  <2>1. PICK h \in Nat : \E last : Recency(ByRecency, h, last)
    BY RecencyList
  <2>2. PICK last : Recency(ByRecency, h, last)
    BY <2>1
  <2>3. ToSet(ByRecency) = Published
    BY <2>2 DEF Recency, ToSet
  <2>4. past = {d \in {Day(At(s)) : s \in Published} : d <= Day(at)}
    BY <2>3 DEF DaysOf
  <2>5. ASSUME NEW i \in 1 .. q PROVE value[i] \in past
    <3>1. PICK k \in 1 .. q : sorted[i] = list[k]
      BY <1>8
    <3>2. Day(At(list[k])) <= Day(at)
      BY <1>3 DEF DayPoints
    <3> QED
      BY <1>4, <1>11, <2>4, <3>1, <3>2
  <2>6. ASSUME NEW s \in Published, Day(At(s)) <= Day(at) PROVE \E i \in 1 .. q : value[i] = Day(At(s))
    <3>1. PICK k \in 1 .. q : Day(At(list[k])) = Day(At(s))
      BY <1>3, <2>6 DEF DayPoints
    <3>2. PointAt(list[k], at) \in DatesOf(sorted, at)
      BY <1>6, <1>8 DEF DatesOf
    <3>3. PICK i \in 1 .. q : PointAt(sorted[i], at) = PointAt(list[k], at)
      BY <1>8, <3>2 DEF DatesOf
    <3>4. At(sorted[i]) = At(list[k])
      BY <1>4, <1>5, <1>9, <3>3
    <3> QED
      BY <1>11, <3>1, <3>4
  <2>7. \A d \in past : \E i \in 1 .. q : value[i] = d
    BY <2>4, <2>6
  <2> QED
    BY <2>5, <2>7
<1> HIDE DEF past
<1>18. DaysOf(points) = Highest(past, TrendDays)
  <2>1. DaysOf(points) = {Day(At(points[i])) : i \in 1 .. q - cut}
    BY <1>16 DEF DaysOf, ToSet
  <2>2. \A i \in 1 .. q - cut : cut + i \in cut + 1 .. q /\ Day(At(points[i])) = value[cut + i]
    BY <1>11, <1>16
  <2>3. \A k \in cut + 1 .. q : k - cut \in 1 .. q - cut /\ Day(At(points[k - cut])) = value[k]
    BY <1>11, <1>16
  <2>4. {Day(At(points[i])) : i \in 1 .. q - cut} = {value[k] : k \in cut + 1 .. q}
    <3>1. \A i \in 1 .. q - cut : \E k \in cut + 1 .. q : Day(At(points[i])) = value[k]
      BY <2>2
    <3>2. \A k \in cut + 1 .. q : \E i \in 1 .. q - cut : value[k] = Day(At(points[i]))
      BY <2>3
    <3> QED
      BY <3>1, <3>2
  <2>5. {value[k] : k \in cut + 1 .. q} = Highest(past, TrendDays)
    BY <1>15, <1>17 DEF EndsWith
  <2> QED
    BY <2>1, <2>4, <2>5
<1>19. Len(points) = Cardinality(Highest(past, TrendDays))
  BY <1>15, <1>17 DEF EndsWith
<1>20. ASSUME NEW i \in DOMAIN points, NEW j \in 1 .. i - 1 PROVE Day(At(points[j])) < Day(At(points[i]))
  <2>1. i \in 1 .. q - cut /\ j \in 1 .. q - cut /\ cut + j < cut + i
    BY <1>16
  <2> QED
    BY <1>10, <1>16, <2>1
<1>21. ASSUME NEW i \in DOMAIN points, NEW s \in Published, Day(At(s)) = Day(At(points[i]))
       PROVE  s = points[i] \/ HistoryOrder(s, points[i])
  <2>1. cut + i \in 1 .. q /\ points[i] = sorted[cut + i]
    BY <1>16
  <2>2. \A h \in 1 .. q : \E k \in 1 .. q : sorted[h] = list[k]
    BY <1>8
  <2>3. PICK k \in 1 .. q : points[i] = list[k]
    BY <2>1, <2>2
  <2> QED
    BY <1>3, <1>21, <2>3 DEF DayPoints
<1> QED
  BY <1>14, <1>18, <1>19, <1>20, <1>21 DEF Highest, past

\* So in every reachable state.
THEOREM LowerCourtTrends == Spec => []TrendsAreNewestDays
BY TypeInvariant, ShowsTheNewestDays, PTL

-----------------------------------------------------------------------------
(* The lineage *)

\* The lineage has one row for each displayed date, newest first, and it is the event
\* that left its snapshot live for that date, for any history (dedupeLineageByReferenceDate).
LEMMA ShowsWhatIsLive == TypeInv => LineageShowsWhatEndedUpLive
<1> SUFFICES ASSUME TypeInv PROVE LineageShowsWhatEndedUpLive
  OBVIOUS
<1> DEFINE ofDay(day) == {e \in DOMAIN events : Day(At(events[e])) = day}
           labels == {Day(At(s)) : s \in Published}
           winners == {Max(ofDay(day)) : day \in labels}
           values == [e \in winners |-> At(events[e])]
<1>1. \A e \in DOMAIN events : /\ events[e] \in Published /\ e \in Nat
                               /\ At(events[e]) \in Nat /\ Day(At(events[e])) \in Nat
  <2>1. \A e \in DOMAIN events : events[e] \in Published /\ At(events[e]) \in Nat /\ e \in Nat
    BY Rows
  <2> QED
    BY <2>1, Calendar
<1>2. ASSUME NEW day \in labels
      PROVE  Max(ofDay(day)) \in DOMAIN events /\ Day(At(events[Max(ofDay(day))])) = day
  <2>1. PICK s \in Published : Day(At(s)) = day
    BY <1>2
  <2>2. PICK e \in DOMAIN events : events[e] = s
    BY DEF Published, ToSet
  <2>3. e \in ofDay(day) /\ ofDay(day) \in SUBSET (DOMAIN events) /\ ofDay(day) \in SUBSET Nat
    BY <1>1, <2>1, <2>2
  <2>4. IsFiniteSet(ofDay(day))
    BY <2>3, Rows, FS_Subset
  <2>5. Max(ofDay(day)) \in ofDay(day)
    <3> DEFINE group == ofDay(day)
    <3>1. group \in SUBSET Nat /\ IsFiniteSet(group) /\ group # {}
      BY <2>3, <2>4
    <3> HIDE DEF group
    <3>2. Max(group) \in group
      BY <3>1, Extremes
    <3> QED
      BY <3>2 DEF group
  <2> QED
    BY <2>5
<1>3. ASSUME NEW e \in winners
      PROVE  /\ e \in DOMAIN events /\ e \in Nat /\ Day(At(events[e])) \in labels
             /\ e = Max(ofDay(Day(At(events[e]))))
  <2>1. PICK day \in labels : e = Max(ofDay(day))
    BY <1>3
  <2>2. e \in DOMAIN events /\ Day(At(events[e])) = day
    BY <1>2, <2>1
  <2> QED
    BY <1>1, <2>1, <2>2
<1>4. winners \in SUBSET Nat /\ IsFiniteSet(winners)
  <2>1. winners \in SUBSET (DOMAIN events) /\ winners \in SUBSET Nat
    BY <1>3
  <2>2. IsFiniteSet(DOMAIN events)
    BY Rows
  <2> HIDE DEF winners
  <2>3. IsFiniteSet(winners)
    BY <2>1, <2>2, FS_Subset
  <2> QED
    BY <2>1, <2>3
<1>5. \A e \in winners : values[e] = At(events[e]) /\ values[e] \in Nat
  BY <1>1, <1>3
<1>6. \A day \in labels : \E e \in winners : Day(At(events[e])) = day
  BY <1>2
<1>7. Lineage = Reverse(Ascending(winners, values))
  BY DEF Lineage, LatestEvent, Published
<1> HIDE DEF winners, values
<1>8. PICK n \in Nat : \E order \in [1 .. n -> winners] :
         /\ n = Cardinality(winners) /\ order = Ascending(winners, values)
         /\ \A i \in winners : \E k \in 1 .. n : order[k] = i
         /\ \A j, k \in 1 .. n : j < k =>
              values[order[j]] < values[order[k]] \/ (values[order[j]] = values[order[k]] /\ order[j] < order[k])
  BY <1>4, <1>5, Order
<1>9. PICK order \in [1 .. n -> winners] :
         /\ order = Ascending(winners, values)
         /\ \A i \in winners : \E k \in 1 .. n : order[k] = i
         /\ \A j, k \in 1 .. n : j < k =>
              values[order[j]] < values[order[k]] \/ (values[order[j]] = values[order[k]] /\ order[j] < order[k])
  BY <1>8
<1>10. \A k \in 1 .. n : order[k] \in winners
  BY <1>9
<1>11. ASSUME NEW j \in 1 .. n, NEW k \in 1 .. n, j < k PROVE Day(At(events[order[j]])) < Day(At(events[order[k]]))
  <2>1. /\ At(events[order[j]]) \in Nat /\ At(events[order[k]]) \in Nat
        /\ Day(At(events[order[j]])) \in Nat /\ Day(At(events[order[k]])) \in Nat
        /\ order[j] \in Nat /\ order[k] \in Nat
    BY <1>1, <1>3, <1>10
  <2>2. At(events[order[j]]) <= At(events[order[k]]) /\ order[j] # order[k]
    <3>1. values[order[j]] < values[order[k]] \/ (values[order[j]] = values[order[k]] /\ order[j] < order[k])
      BY <1>9, <1>11
    <3>2. values[order[j]] = At(events[order[j]]) /\ values[order[k]] = At(events[order[k]])
      BY <1>5, <1>10
    <3> QED
      BY <2>1, <3>1, <3>2
  <2>3. Day(At(events[order[j]])) <= Day(At(events[order[k]]))
    BY <2>1, <2>2, Calendar
  <2>4. Day(At(events[order[j]])) # Day(At(events[order[k]]))
    BY <1>3, <1>10, <2>2
  <2> QED
    BY <2>1, <2>3, <2>4
<1>12. PICK rows : rows = Lineage
  OBVIOUS
<1>13. /\ DOMAIN rows = 1 .. n
       /\ \A i \in 1 .. n : (n - i) + 1 \in 1 .. n /\ rows[i] = order[(n - i) + 1]
  <2>1. Len(order) = n /\ rows = Reverse(order)
    BY <1>7, <1>9, <1>12, LenProperties
  <2>2. rows = [i \in 1 .. n |-> order[(n - i) + 1]]
    BY <2>1 DEF Reverse
  <2> QED
    BY <2>2
<1>14. {Day(At(events[rows[i]])) : i \in DOMAIN rows} = labels
  <2>1. \A i \in 1 .. n : Day(At(events[rows[i]])) \in labels
    BY <1>3, <1>10, <1>13
  <2>2. ASSUME NEW day \in labels PROVE \E i \in 1 .. n : Day(At(events[rows[i]])) = day
    <3>1. PICK e \in winners : Day(At(events[e])) = day
      BY <1>6
    <3>2. PICK k \in 1 .. n : order[k] = e
      BY <1>9
    <3>3. (n - k) + 1 \in 1 .. n /\ (n - ((n - k) + 1)) + 1 = k
      OBVIOUS
    <3> QED
      BY <1>13, <3>1, <3>2, <3>3
  <2> HIDE DEF labels
  <2> QED
    BY <1>13, <2>1, <2>2
<1>15. ASSUME NEW i \in DOMAIN rows, NEW j \in DOMAIN rows, i < j
       PROVE  Day(At(events[rows[i]])) > Day(At(events[rows[j]]))
  <2>1. (n - j) + 1 \in 1 .. n /\ (n - i) + 1 \in 1 .. n /\ (n - j) + 1 < (n - i) + 1
    BY <1>13, <1>15
  <2>2. Day(At(events[order[(n - j) + 1]])) < Day(At(events[order[(n - i) + 1]]))
    BY <1>11, <2>1
  <2>3. /\ Day(At(events[order[(n - j) + 1]])) \in Nat /\ Day(At(events[order[(n - i) + 1]])) \in Nat
        /\ rows[i] = order[(n - i) + 1] /\ rows[j] = order[(n - j) + 1]
    BY <1>1, <1>3, <1>10, <1>13, <2>1
  <2> QED
    BY <2>2, <2>3
<1>16. ASSUME NEW i \in DOMAIN rows
       PROVE  events[rows[i]] = MadeActiveLast({s \in Published : Day(At(s)) = Day(At(events[rows[i]]))})
  <2>1. rows[i] \in winners
    BY <1>10, <1>13
  <2>2. rows[i] = Max(ofDay(Day(At(events[rows[i]]))))
    BY <1>3, <2>1
  <2>3. PICK day : day = Day(At(events[rows[i]]))
    OBVIOUS
  <2>4. {e \in DOMAIN events : events[e] \in {s \in Published : Day(At(s)) = day}} = ofDay(day)
    BY <1>1
  <2>5. MadeActiveLast({s \in Published : Day(At(s)) = day}) = events[Max(ofDay(day))]
    BY <2>4 DEF MadeActiveLast
  <2> QED
    BY <2>2, <2>3, <2>5
<1> QED
  BY <1>12, <1>14, <1>15, <1>16 DEF LineageShowsWhatEndedUpLive

\* So in every reachable state.
THEOREM LineageRows == Spec => []LineageShowsWhatEndedUpLive
BY TypeInvariant, ShowsWhatIsLive, PTL

-----------------------------------------------------------------------------
(* Supreme Court: the finalized months *)

\* One capture for each published date, in order, and the one published last for it.
Captures(list, q) ==
    /\ list \in [1 .. q -> Published]
    /\ \A k \in 1 .. q : \A t \in Published : At(t) = At(list[k]) => t <= list[k]
    /\ \A s \in Published : \E k \in 1 .. q : At(list[k]) = At(s)
    /\ \A j, k \in 1 .. q : j < k => At(list[j]) < At(list[k])

\* A key keeps its first place and takes its last value: in the chronological list the
\* two agree on the order of the dates.
LEMMA OverwritingKeepsTheLast ==
    ASSUME TypeInv
    PROVE  \E q \in Nat : Captures(Overwritten(Chronological), q)
<1>1. PICK m \in Nat : InOrder(Chronological, m)
  BY ChronologicalList
<1>2. PICK seq : seq = Chronological
  OBVIOUS
<1>3. InOrder(seq, m) /\ seq \in [1 .. m -> Published]
  BY <1>1, <1>2 DEF InOrder
<1>4. PICK q \in Nat : \E order : OnePerDate(Filtered(seq, FirstOfDate(seq)), seq, m, q, order)
  BY <1>3, FirstOfEachDate
<1>5. PICK first : first = Filtered(seq, FirstOfDate(seq))
  OBVIOUS
<1>6. PICK order : OnePerDate(first, seq, m, q, order)
  BY <1>4, <1>5
<1>7. /\ first \in [1 .. q -> Published]
      /\ \A k \in 1 .. q : first[k] \in Published /\ order[k] \in 1 .. m /\ first[k] = seq[order[k]]
      /\ \A i \in 1 .. m : seq[i] \in Published
  BY <1>3, <1>6 DEF OnePerDate
<1> DEFINE sameDate(k) == {i \in 1 .. m : At(seq[i]) = At(first[k])}
<1>8. PICK list : list = Overwritten(seq)
  OBVIOUS
<1>9. list = [k \in 1 .. q |-> seq[Max(sameDate(k))]]
  BY <1>3, <1>5, <1>7, <1>8 DEF Overwritten
<1>10. ASSUME NEW k \in 1 .. q
       PROVE  /\ Max(sameDate(k)) \in 1 .. m /\ At(seq[Max(sameDate(k))]) = At(first[k])
              /\ \A i \in sameDate(k) : i <= Max(sameDate(k))
  <2> DEFINE group == sameDate(k)
  <2>1. group \in SUBSET (1 .. m) /\ order[k] \in group
    BY <1>7
  <2>2. IsFiniteSet(1 .. m)
    BY FS_Interval
  <2>3. group \in SUBSET Nat /\ group # {}
    BY <2>1
  <2>4. group \in SUBSET Nat /\ IsFiniteSet(group) /\ group # {}
    BY <2>1, <2>2, <2>3, FS_Subset
  <2> HIDE DEF group
  <2>5. Max(group) \in group /\ \A i \in group : i <= Max(group)
    BY <2>4, Extremes
  <2> QED
    BY <2>5 DEF group
<1>11. \A k \in 1 .. q : /\ list[k] = seq[Max(sameDate(k))] /\ list[k] \in Published
                          /\ At(list[k]) = At(first[k])
  BY <1>7, <1>9, <1>10
<1>12. \A s \in Published : s \in Nat /\ At(s) \in Nat
  BY Rows
<1>13. ASSUME NEW k \in 1 .. q, NEW t \in Published, At(t) = At(list[k]) PROVE t <= list[k]
  <2>1. PICK h \in 1 .. m : seq[h] = t
    BY <1>3 DEF InOrder
  <2>2. h \in sameDate(k)
    BY <1>11, <1>13, <2>1
  <2>3. PICK i \in 1 .. m : i = Max(sameDate(k))
    BY <1>10
  <2>4. h <= i /\ list[k] = seq[i]
    BY <1>10, <1>11, <2>2, <2>3
  <2>5. CASE h = i
    BY <1>12, <2>1, <2>4, <2>5
  <2>6. CASE h < i
    <3>1. HistoryOrder(t, list[k])
      BY <1>3, <2>1, <2>4, <2>6 DEF InOrder
    <3>2. t \in Nat /\ list[k] \in Nat /\ At(t) \in Nat
      BY <1>11, <1>12
    <3> QED
      BY <1>13, <3>1, <3>2 DEF HistoryOrder
  <2> QED
    BY <2>4, <2>5, <2>6
<1>14. ASSUME NEW s \in Published PROVE \E k \in 1 .. q : At(list[k]) = At(s)
  <2>1. PICK i \in 1 .. m : seq[i] = s
    BY <1>3 DEF InOrder
  <2>2. PICK k \in 1 .. q : At(first[k]) = At(seq[i])
    BY <1>6 DEF OnePerDate
  <2> QED
    BY <1>11, <2>1, <2>2
<1>15. ASSUME NEW j \in 1 .. q, NEW k \in 1 .. q, j < k PROVE At(list[j]) < At(list[k])
  <2>1. order[j] < order[k]
    BY <1>6, <1>15 DEF OnePerDate
  <2>2. HistoryOrder(first[j], first[k])
    BY <1>3, <1>7, <2>1 DEF InOrder
  <2>3. At(first[j]) # At(first[k])
    <3>1. At(seq[order[j]]) = At(first[k]) => order[k] <= order[j]
      BY <1>6, <1>7 DEF OnePerDate
    <3>2. ~(order[k] <= order[j])
      BY <1>7, <2>1
    <3> QED
      BY <1>7, <3>1, <3>2
  <2>4. At(first[j]) \in Nat /\ At(first[k]) \in Nat
    BY <1>7, <1>12
  <2> QED
    BY <1>11, <2>2, <2>3, <2>4 DEF HistoryOrder
<1>16. list \in [1 .. q -> Published]
  BY <1>9, <1>11
<1>17. Captures(list, q)
  BY <1>13, <1>14, <1>15, <1>16 DEF Captures
<1> QED
  BY <1>2, <1>8, <1>17

\* The conditions of the property, over a set of captures.
Grows(captures) ==
    \A c, d \in captures :
        /\ Month(c.referenceDateAt) = Month(d.referenceDateAt)
        /\ c.referenceDateAt <= d.referenceDateAt
        => c.total <= d.total
Closes(c, d, captures) ==
    /\ c.referenceDateAt < d.referenceDateAt /\ d.total < c.total
    /\ \A e \in captures : e.referenceDateAt <= c.referenceDateAt \/ e.referenceDateAt >= d.referenceDateAt
Drops(capture, q) == {i \in 1 .. q : capture[i + 1].total < capture[i].total}
Ascends(capture, q) ==
    /\ capture \in [1 .. q + 1 -> Snapshot]
    /\ \A i, j \in 1 .. q + 1 : i < j => capture[i].referenceDateAt < capture[j].referenceDateAt

LEMMA Fields == \A c \in Snapshot : c.referenceDateAt \in Nat /\ c.total \in Nat /\ Month(c.referenceDateAt) \in Nat
<1>1. \A c \in Snapshot : c.referenceDateAt \in Instant /\ c.total \in Totals
  BY DEF Snapshot
<1>2. Totals \in SUBSET Nat
  BY HistoryAssumption
<1> QED
  BY <1>1, <1>2, InstantsAreNumbers, Calendar

\* What grows within a month drops only from one month to a later one: no two drops are of
\* the same month.
LEMMA OneDropPerMonth ==
    ASSUME NEW q \in Nat, NEW capture, Ascends(capture, q), Grows({capture[i] : i \in 1 .. q + 1}),
           NEW i \in Drops(capture, q), NEW j \in Drops(capture, q), i < j
    PROVE  Month(capture[i].referenceDateAt) # Month(capture[j].referenceDateAt)
<1>1. i \in 1 .. q + 1 /\ j \in 1 .. q + 1 /\ i + 1 \in 1 .. q + 1 /\ capture[i + 1].total < capture[i].total
  BY DEF Drops
<1>2. capture[i] \in Snapshot /\ capture[j] \in Snapshot /\ capture[i + 1] \in Snapshot
  BY <1>1 DEF Ascends
<1>3. /\ capture[i].referenceDateAt \in Nat /\ capture[i].total \in Nat
      /\ capture[i + 1].referenceDateAt \in Nat /\ capture[i + 1].total \in Nat
      /\ capture[j].referenceDateAt \in Nat
      /\ Month(capture[i].referenceDateAt) \in Nat /\ Month(capture[i + 1].referenceDateAt) \in Nat
      /\ Month(capture[j].referenceDateAt) \in Nat
  BY <1>2, Fields
<1>4. capture[i].referenceDateAt < capture[i + 1].referenceDateAt
  BY <1>1 DEF Ascends
<1>5. capture[i + 1].referenceDateAt <= capture[j].referenceDateAt
  <2>1. i + 1 = j \/ i + 1 < j
    BY <1>1
  <2>2. i + 1 < j => capture[i + 1].referenceDateAt < capture[j].referenceDateAt
    BY <1>1 DEF Ascends
  <2> QED
    BY <1>3, <2>1, <2>2
<1>6. Month(capture[i].referenceDateAt) <= Month(capture[i + 1].referenceDateAt)
      /\ Month(capture[i + 1].referenceDateAt) <= Month(capture[j].referenceDateAt)
  <2>1. capture[i].referenceDateAt <= capture[i + 1].referenceDateAt
    BY <1>3, <1>4
  <2>2. \A a, b \in Nat : a <= b => Month(a) <= Month(b)
    BY Calendar
  <2> QED
    BY <1>3, <1>5, <2>1, <2>2
<1>7. Month(capture[i].referenceDateAt) # Month(capture[i + 1].referenceDateAt)
  <2>1. capture[i] \in {capture[k] : k \in 1 .. q + 1} /\ capture[i + 1] \in {capture[k] : k \in 1 .. q + 1}
    BY <1>1
  <2>2. Month(capture[i].referenceDateAt) = Month(capture[i + 1].referenceDateAt)
        /\ capture[i].referenceDateAt <= capture[i + 1].referenceDateAt
        => capture[i].total <= capture[i + 1].total
    BY <2>1 DEF Grows
  <2> QED
    BY <1>1, <1>3, <1>4, <2>2
<1> QED
  BY <1>3, <1>6, <1>7

\* A capture closes its month when the next one is lower.
LEMMA DropsClose ==
    ASSUME NEW q \in Nat, NEW capture, Ascends(capture, q), NEW i \in 1 .. q + 1, NEW j \in 1 .. q + 1
    PROVE  Closes(capture[i], capture[j], {capture[k] : k \in 1 .. q + 1}) <=> i \in Drops(capture, q) /\ j = i + 1
<1> DEFINE date == [k \in 1 .. q + 1 |-> capture[k].referenceDateAt]
<1>1. \A k \in 1 .. q + 1 : date[k] = capture[k].referenceDateAt /\ date[k] \in Nat
  BY Fields DEF Ascends
<1>2. \A h, k \in 1 .. q + 1 : h < k => date[h] < date[k]
  BY <1>1 DEF Ascends
<1> HIDE DEF date
<1>3. Closes(capture[i], capture[j], {capture[k] : k \in 1 .. q + 1})
      <=> /\ date[i] < date[j] /\ capture[j].total < capture[i].total
          /\ \A h \in 1 .. q + 1 : date[h] <= date[i] \/ date[h] >= date[j]
  BY <1>1 DEF Closes
<1>4. ASSUME date[i] < date[j], \A h \in 1 .. q + 1 : date[h] <= date[i] \/ date[h] >= date[j]
      PROVE  i \in 1 .. q /\ j = i + 1
  <2>1. i < j
    <3>1. i = j \/ i < j \/ j < i
      OBVIOUS
    <3>2. ~(j < i) /\ i # j
      <4>1. j < i => date[j] < date[i]
        BY <1>2
      <4>2. date[i] \in Nat /\ date[j] \in Nat
        BY <1>1
      <4> QED
        BY <1>4, <4>1, <4>2
    <3> QED
      BY <3>1, <3>2
  <2>2. ~(i + 1 < j)
    <3> SUFFICES ASSUME i + 1 < j PROVE FALSE
      OBVIOUS
    <3>1. i + 1 \in 1 .. q + 1 /\ i < i + 1
      OBVIOUS
    <3>2. date[i] < date[i + 1] /\ date[i + 1] < date[j]
      BY <1>2, <3>1
    <3>3. date[i] \in Nat /\ date[i + 1] \in Nat /\ date[j] \in Nat
      BY <1>1, <3>1
    <3>4. date[i + 1] <= date[i] \/ date[i + 1] >= date[j]
      BY <1>4, <3>1
    <3> QED
      BY <3>2, <3>3, <3>4
  <2> QED
    BY <2>1, <2>2
<1>5. ASSUME i \in 1 .. q, j = i + 1
      PROVE  date[i] < date[j] /\ \A h \in 1 .. q + 1 : date[h] <= date[i] \/ date[h] >= date[j]
  <2>1. date[i] < date[j]
    BY <1>2, <1>5
  <2>2. ASSUME NEW h \in 1 .. q + 1 PROVE date[h] <= date[i] \/ date[h] >= date[j]
    <3>1. h < i \/ h = i \/ h = j \/ j < h
      BY <1>5
    <3>2. (h < i => date[h] < date[i]) /\ (j < h => date[j] < date[h])
      BY <1>2
    <3>3. date[h] \in Nat /\ date[i] \in Nat /\ date[j] \in Nat
      BY <1>1
    <3> QED
      BY <3>1, <3>2, <3>3
  <2> QED
    BY <2>1, <2>2
<1> QED
  BY <1>3, <1>4, <1>5 DEF Drops

\* Whatever was corrected, replayed and rolled back: while the captures grow within a
\* month and the candidate is the newest, the months it finalizes are those that a drop
\* closes, each with its last capture (buildMonthlyFinalized).
LEMMA FinalizesTheClosedMonths == TypeInv => MonthsAreFinalizedByTheirLastCapture
<1> SUFFICES ASSUME TypeInv, NEW candidate \in Snapshot
             PROVE  LET lastVersion == {s \in Published : \A t \in Published : At(t) = At(s) => t <= s}
                        captures == {snapshots[s] : s \in lastVersion} \cup {candidate}
                    IN  /\ \A s \in Published : At(s) < candidate.referenceDateAt
                        /\ Grows(captures)
                        => {<<f.yearMonth, snapshots[f.derivedFrom]>> : f \in FinalizedMonths(candidate)}
                               = {<<Month(c.referenceDateAt), c>> :
                                     c \in {c \in captures : \E d \in captures : Closes(c, d, captures)}}
  BY DEF MonthsAreFinalizedByTheirLastCapture, Grows, Closes
<1> DEFINE lastVersion == {s \in Published : \A t \in Published : At(t) = At(s) => t <= s}
           captures == {snapshots[s] : s \in lastVersion} \cup {candidate}
<1> SUFFICES ASSUME \A s \in Published : At(s) < candidate.referenceDateAt, Grows(captures)
             PROVE  {<<f.yearMonth, snapshots[f.derivedFrom]>> : f \in FinalizedMonths(candidate)}
                        = {<<Month(c.referenceDateAt), c>> :
                              c \in {c \in captures : \E d \in captures : Closes(c, d, captures)}}
  OBVIOUS
<1>1. PICK at \in Nat : at = candidate.referenceDateAt
  BY Fields
<1>2. PICK q \in Nat : Captures(Overwritten(Chronological), q)
  BY OverwritingKeepsTheLast
<1>3. PICK list : list = Overwritten(Chronological)
  OBVIOUS
<1>4. /\ list \in [1 .. q -> Published]
      /\ \A k \in 1 .. q : list[k] \in lastVersion /\ list[k] \in Published
      /\ \A s \in Published : \E k \in 1 .. q : At(list[k]) = At(s)
      /\ \A j, k \in 1 .. q : j < k => At(list[j]) < At(list[k])
  BY <1>2, <1>3 DEF Captures
<1>5. \A s \in Published : s \in Nat /\ s # Own /\ snapshots[s] \in Snapshot /\ At(s) \in Nat
  BY Rows
<1>6. \A s \in lastVersion : \E k \in 1 .. q : list[k] = s
  <2> SUFFICES ASSUME NEW s \in lastVersion PROVE \E k \in 1 .. q : list[k] = s
    OBVIOUS
  <2>1. PICK k \in 1 .. q : At(list[k]) = At(s)
    BY <1>4
  <2>2. s <= list[k] /\ list[k] <= s /\ s \in Nat /\ list[k] \in Nat
    BY <1>4, <1>5, <2>1
  <2> QED
    BY <2>2
<1>7. PICK points : points = CaptureHistory(at)
  OBVIOUS
<1>8. points = Append(list, Own)
  <2>1. ~ \E s \in ToSet(list) : At(s) = at
    <3>1. \A s \in ToSet(list) : s \in Published
      BY <1>4 DEF ToSet
    <3>2. \A s \in Published : At(s) \in Nat /\ At(s) < at
      BY <1>1, <1>5
    <3> QED
      BY <3>1, <3>2
  <2> QED
    BY <1>3, <1>7, <2>1 DEF CaptureHistory, WithOwn
<1>9. /\ Len(points) = q + 1 /\ points[q + 1] = Own
      /\ \A i \in 1 .. q : points[i] = list[i] /\ points[i] # Own /\ points[i] \in Published
  <2>1. list \in Seq(Published) /\ Len(list) = q
    BY <1>4
  <2>2. list \in Seq(Points) /\ Own \in Points
    BY <2>1, SeqMonotonic DEF Points
  <2>3. PICK own \in Points : own = Own
    BY <2>2
  <2>4. /\ Len(Append(list, own)) = Len(list) + 1 /\ Append(list, own)[Len(list) + 1] = own
        /\ \A i \in 1 .. Len(list) : Append(list, own)[i] = list[i]
    BY <2>2
  <2> QED
    BY <1>4, <1>5, <1>8, <2>1, <2>3, <2>4
<1> DEFINE capture == [i \in 1 .. q + 1 |-> IF i = q + 1 THEN candidate ELSE snapshots[list[i]]]
<1>10. /\ capture[q + 1] = candidate
       /\ \A i \in 1 .. q : i \in 1 .. q + 1 /\ capture[i] = snapshots[list[i]] /\ capture[i].referenceDateAt = At(list[i])
       /\ \A i \in 1 .. q + 1 : i \in 1 .. q \/ i = q + 1
       /\ capture \in [1 .. q + 1 -> Snapshot]
  <2>1. \A i \in 1 .. q : i \in 1 .. q + 1 /\ i # q + 1
    OBVIOUS
  <2>2. \A i \in 1 .. q + 1 : i \in 1 .. q \/ i = q + 1
    OBVIOUS
  <2>3. q + 1 \in 1 .. q + 1
    OBVIOUS
  <2>4. capture[q + 1] = candidate /\ \A i \in 1 .. q : capture[i] = snapshots[list[i]]
    BY <2>1, <2>3
  <2>5. \A i \in 1 .. q + 1 : capture[i] \in Snapshot
    BY <1>4, <1>5, <2>2, <2>4
  <2>6. capture = [i \in 1 .. q + 1 |-> capture[i]]
    OBVIOUS
  <2> HIDE DEF capture
  <2>7. capture \in [1 .. q + 1 -> Snapshot]
    BY <2>5, <2>6
  <2> QED
    BY <2>1, <2>2, <2>4, <2>7 DEF At
<1> HIDE DEF capture
<1>11. Ascends(capture, q)
  <2> SUFFICES ASSUME NEW i \in 1 .. q + 1, NEW j \in 1 .. q + 1, i < j
               PROVE  capture[i].referenceDateAt < capture[j].referenceDateAt
    BY <1>10 DEF Ascends
  <2>1. i \in 1 .. q
    OBVIOUS
  <2>2. CASE j \in 1 .. q
    BY <1>4, <1>10, <2>1, <2>2
  <2>3. CASE j = q + 1
    <3>1. At(list[i]) < candidate.referenceDateAt
      BY <1>4, <2>1
    <3> QED
      BY <1>10, <2>1, <2>3, <3>1
  <2> QED
    BY <1>10, <2>2, <2>3
<1>12. captures = {capture[i] : i \in 1 .. q + 1}
  <2>1. ASSUME NEW s \in lastVersion PROVE \E i \in 1 .. q + 1 : snapshots[s] = capture[i]
    <3>1. PICK k \in 1 .. q : list[k] = s
      BY <1>6
    <3> QED
      BY <1>10, <3>1
  <2>2. \E i \in 1 .. q + 1 : candidate = capture[i]
    BY <1>10
  <2>3. \A i \in 1 .. q + 1 : capture[i] \in captures
    BY <1>4, <1>10
  <2>4. \A c \in captures : \E i \in 1 .. q + 1 : c = capture[i]
    BY <2>1, <2>2
  <2> HIDE DEF captures
  <2> QED
    BY <2>3, <2>4
<1> DEFINE date(i) == PointAt(points[i], candidate.referenceDateAt)
           total(i) == IF points[i] = Own THEN candidate.total ELSE Total(points[i])
           resets == {i \in 1 .. Len(points) - 1 : total(i + 1) < total(i)}
           months == [j \in resets |-> Month(date(j))]
<1>13. FinalizedMonths(candidate)
          = {[yearMonth |-> Month(date(i)), derivedFrom |-> points[i]] : i \in FirstPlaces(resets, months)}
  BY <1>1, <1>7 DEF FinalizedMonths
<1>14. \A i \in 1 .. q + 1 : date(i) = capture[i].referenceDateAt /\ total(i) = capture[i].total
  <2>1. date(q + 1) = capture[q + 1].referenceDateAt /\ total(q + 1) = capture[q + 1].total
    BY <1>9, <1>10 DEF PointAt
  <2>2. ASSUME NEW i \in 1 .. q PROVE date(i) = capture[i].referenceDateAt /\ total(i) = capture[i].total
    BY <1>9, <1>10 DEF PointAt, At, Total
  <2> QED
    BY <1>10, <2>1, <2>2
<1>15. resets = Drops(capture, q)
  <2>1. Len(points) - 1 = q
    BY <1>9
  <2>2. \A i \in 1 .. q : i \in 1 .. q + 1 /\ i + 1 \in 1 .. q + 1
    OBVIOUS
  <2>3. \A i \in 1 .. q : total(i + 1) < total(i) <=> capture[i + 1].total < capture[i].total
    BY <1>14, <2>2
  <2> HIDE DEF total
  <2> QED
    BY <2>1, <2>3 DEF Drops
<1>16. \A i \in resets : i \in 1 .. q /\ i \in 1 .. q + 1 /\ months[i] = Month(capture[i].referenceDateAt)
  <2>1. \A i \in resets : i \in 1 .. q /\ i \in 1 .. q + 1
    <3>1. \A i \in Drops(capture, q) : i \in 1 .. q /\ i \in 1 .. q + 1
      BY DEF Drops
    <3> HIDE DEF resets
    <3> QED
      BY <1>15, <3>1
  <2>2. \A i \in resets : months[i] = Month(date(i))
    OBVIOUS
  <2> QED
    BY <1>14, <2>1, <2>2
<1>17. FirstPlaces(resets, months) = resets
  <2>1. ASSUME NEW i \in resets, NEW j \in resets, j < i PROVE months[j] # months[i]
    <3>1. Grows({capture[k] : k \in 1 .. q + 1})
      BY <1>12
    <3>2. i \in Drops(capture, q) /\ j \in Drops(capture, q)
      BY <1>15
    <3>3. Month(capture[j].referenceDateAt) # Month(capture[i].referenceDateAt)
      BY <1>11, <2>1, <3>1, <3>2, OneDropPerMonth
    <3> QED
      BY <1>16, <3>3
  <2> HIDE DEF months, resets
  <2> QED
    BY <2>1 DEF FirstPlaces
<1>18. FinalizedMonths(candidate)
          = {[yearMonth |-> Month(capture[i].referenceDateAt), derivedFrom |-> points[i]] : i \in Drops(capture, q)}
  <2>1. \A i \in Drops(capture, q) : Month(date(i)) = Month(capture[i].referenceDateAt)
    BY <1>14, <1>15, <1>16
  <2> HIDE DEF date, resets, months
  <2> QED
    BY <1>13, <1>15, <1>17, <2>1
<1>19. {<<f.yearMonth, snapshots[f.derivedFrom]>> : f \in FinalizedMonths(candidate)}
          = {<<Month(capture[i].referenceDateAt), capture[i]>> : i \in Drops(capture, q)}
  <2>1. \A i \in Drops(capture, q) : snapshots[points[i]] = capture[i]
    BY <1>9, <1>10 DEF Drops
  <2> DEFINE row(i) == [yearMonth |-> Month(capture[i].referenceDateAt), derivedFrom |-> points[i]]
  <2>2. \A i \in Drops(capture, q) :
          <<row(i).yearMonth, snapshots[row(i).derivedFrom]>> = <<Month(capture[i].referenceDateAt), capture[i]>>
    BY <2>1
  <2>3. FinalizedMonths(candidate) = {row(i) : i \in Drops(capture, q)}
    BY <1>18
  <2> HIDE DEF row
  <2>4. {<<f.yearMonth, snapshots[f.derivedFrom]>> : f \in FinalizedMonths(candidate)}
           = {<<row(i).yearMonth, snapshots[row(i).derivedFrom]>> : i \in Drops(capture, q)}
    BY <2>3
  <2> QED
    BY <2>2, <2>4
<1>20. {c \in captures : \E d \in captures : Closes(c, d, captures)} = {capture[i] : i \in Drops(capture, q)}
  <2> HIDE DEF captures
  <2>1. ASSUME NEW c \in captures, NEW d \in captures, Closes(c, d, captures)
        PROVE  \E i \in Drops(capture, q) : c = capture[i]
    <3>1. PICK i \in 1 .. q + 1, j \in 1 .. q + 1 : c = capture[i] /\ d = capture[j]
      BY <1>12
    <3>2. i \in Drops(capture, q)
      BY <1>11, <1>12, <2>1, <3>1, DropsClose
    <3> QED
      BY <3>1, <3>2
  <2>2. ASSUME NEW i \in Drops(capture, q)
        PROVE  capture[i] \in captures /\ \E d \in captures : Closes(capture[i], d, captures)
    <3>1. i \in 1 .. q + 1 /\ i + 1 \in 1 .. q + 1
      BY DEF Drops
    <3>2. Closes(capture[i], capture[i + 1], captures)
      BY <1>11, <1>12, <3>1, DropsClose
    <3> QED
      BY <1>12, <3>1, <3>2
  <2> QED
    BY <2>1, <2>2
<1> HIDE DEF captures
<1>21. {<<Month(c.referenceDateAt), c>> : c \in {capture[i] : i \in Drops(capture, q)}}
          = {<<Month(capture[i].referenceDateAt), capture[i]>> : i \in Drops(capture, q)}
  OBVIOUS
<1> QED
  BY <1>19, <1>20, <1>21

\* So in every reachable state.
THEOREM FinalizedMonthsAreClosed == Spec => []MonthsAreFinalizedByTheirLastCapture
BY TypeInvariant, FinalizesTheClosedMonths, PTL

-----------------------------------------------------------------------------
(* The gate: what it sorts *)

PositiveIndexes(counts) == {i \in DOMAIN counts : counts[i] > 0}

\* The gate's order is an order: its entries are the positive counts, each once.
Lists(order, indexes, values, n) ==
    /\ order \in [1 .. n -> indexes]
    /\ \A i \in indexes : \E k \in 1 .. n : order[k] = i
    /\ \A j, k \in 1 .. n : j < k => values[order[j]] <= values[order[k]] /\ order[j] # order[k]

LEMMA GateSorts ==
    ASSUME NEW counts \in Seq(Nat)
    PROVE  \E n \in Nat : \E order :
             /\ n = Cardinality(PositiveIndexes(counts))
             /\ Lists(order, PositiveIndexes(counts), counts, n)
             /\ Positive(counts) = [k \in 1 .. n |-> counts[order[k]]]
<1>1. Len(counts) \in Nat /\ DOMAIN counts = 1 .. Len(counts) /\ \A i \in 1 .. Len(counts) : counts[i] \in Nat
  BY LenProperties, ElementOfSeq
<1>2. PICK indexes \in SUBSET Nat : indexes = PositiveIndexes(counts) /\ IsFiniteSet(indexes)
                                  /\ \A i \in indexes : counts[i] \in Nat
  <2>1. IsFiniteSet(1 .. Len(counts)) /\ PositiveIndexes(counts) \in SUBSET (1 .. Len(counts))
    BY <1>1, FS_Interval DEF PositiveIndexes
  <2>2. IsFiniteSet(PositiveIndexes(counts))
    BY <2>1, FS_Subset
  <2> QED
    BY <1>1, <2>1, <2>2
<1>3. PICK n \in Nat : \E order \in [1 .. n -> indexes] :
        /\ n = Cardinality(indexes) /\ order = Ascending(indexes, counts)
        /\ \A i \in indexes : \E k \in 1 .. n : order[k] = i
        /\ \A j, k \in 1 .. n : j < k =>
             counts[order[j]] < counts[order[k]] \/ (counts[order[j]] = counts[order[k]] /\ order[j] < order[k])
  BY <1>2, Order
<1>3a. PICK order :
        /\ order \in [1 .. n -> indexes]
        /\ n = Cardinality(indexes) /\ order = Ascending(indexes, counts)
        /\ \A i \in indexes : \E k \in 1 .. n : order[k] = i
        /\ \A j, k \in 1 .. n : j < k =>
             counts[order[j]] < counts[order[k]] \/ (counts[order[j]] = counts[order[k]] /\ order[j] < order[k])
  BY <1>3
<1>4. Positive(counts) = [k \in 1 .. n |-> counts[order[k]]]
  BY <1>2, <1>3a DEF Positive, PositiveIndexes
<1>5. ASSUME NEW j \in 1 .. n, NEW k \in 1 .. n, j < k
      PROVE  counts[order[j]] <= counts[order[k]] /\ order[j] # order[k]
  <2>1. /\ order[j] \in Nat /\ counts[order[j]] \in Nat /\ counts[order[k]] \in Nat
        /\ \/ counts[order[j]] < counts[order[k]]
           \/ counts[order[j]] = counts[order[k]] /\ order[j] < order[k]
    BY <1>2, <1>3a, <1>5
  <2> QED
    BY <2>1
<1>6. Lists(order, indexes, counts, n)
  BY <1>3a, <1>5 DEF Lists
<1> QED
  BY <1>2, <1>3a, <1>4, <1>6

\* So it is a sequence of positive counts, in order; it is empty when there is none.
LEMMA PositiveCounts ==
    ASSUME NEW counts \in Seq(Nat)
    PROVE  /\ Positive(counts) \in Seq(Nat)
           /\ \A k \in 1 .. Len(Positive(counts)) :
                \E i \in DOMAIN counts : counts[i] > 0 /\ Positive(counts)[k] = counts[i]
           /\ \A j, k \in 1 .. Len(Positive(counts)) : j < k => Positive(counts)[j] <= Positive(counts)[k]
           /\ Positive(counts) = <<>> => \A i \in DOMAIN counts : ~(counts[i] > 0)
<1>1. PICK n \in Nat : \E order :
             /\ n = Cardinality(PositiveIndexes(counts))
             /\ Lists(order, PositiveIndexes(counts), counts, n)
             /\ Positive(counts) = [k \in 1 .. n |-> counts[order[k]]]
  BY GateSorts
<1>2. Len(counts) \in Nat /\ DOMAIN counts = 1 .. Len(counts) /\ \A i \in 1 .. Len(counts) : counts[i] \in Nat
  BY LenProperties, ElementOfSeq
<1>3. PICK order : /\ Lists(order, PositiveIndexes(counts), counts, n)
                   /\ Positive(counts) = [k \in 1 .. n |-> counts[order[k]]]
  BY <1>1
<1>4. /\ \A k \in 1 .. n : order[k] \in PositiveIndexes(counts)
      /\ \A i \in PositiveIndexes(counts) : \E k \in 1 .. n : order[k] = i
      /\ \A j, k \in 1 .. n : j < k => counts[order[j]] <= counts[order[k]]
  BY <1>3 DEF Lists
<1>5. PICK sorted : sorted = Positive(counts)
  OBVIOUS
<1>6. sorted = [k \in 1 .. n |-> counts[order[k]]]
  BY <1>3, <1>5
<1>7. \A k \in 1 .. n : sorted[k] = counts[order[k]] /\ order[k] \in DOMAIN counts /\ counts[order[k]] > 0
                        /\ counts[order[k]] \in Nat
  BY <1>2, <1>4, <1>6 DEF PositiveIndexes
<1>8. sorted \in Seq(Nat) /\ Len(sorted) = n
  BY <1>6, <1>7
<1>9. ASSUME sorted = <<>>, NEW i \in DOMAIN counts, counts[i] > 0 PROVE FALSE
  <2>1. n = 0
    BY <1>8, <1>9
  <2> QED
    BY <1>4, <1>9, <2>1 DEF PositiveIndexes
<1>10. \A j, k \in 1 .. n : j < k => sorted[j] <= sorted[k]
  BY <1>4, <1>7
<1>11. \A k \in 1 .. n : \E i \in DOMAIN counts : counts[i] > 0 /\ sorted[k] = counts[i]
  BY <1>7
<1>12. sorted = <<>> => \A i \in DOMAIN counts : ~(counts[i] > 0)
  BY <1>9
<1> QED
  BY <1>5, <1>8, <1>10, <1>11, <1>12

-----------------------------------------------------------------------------
(* What is near a baseline *)

\* Within a fifth, as an inequality.
LEMMA NearIsInequality ==
    ASSUME NEW value \in Nat, NEW doubled \in Nat, NEW other \in Nat
    PROVE  /\ ~FarFromDoubled(value, doubled) <=> 10 * value <= 6 * doubled /\ 4 * doubled <= 10 * value
           /\ ~Far(value, other) <=> 5 * value <= 6 * other /\ 4 * other <= 5 * value
BY DEF FarFromDoubled, Far, Distance

\* What lies between two that agree agrees.
LEMMA Squeezed ==
    ASSUME NEW low \in Nat, NEW high \in Nat, NEW x \in Nat, NEW y \in Nat,
           low <= x, x <= y, y <= high, low < high => 5 * high <= 6 * low
    PROVE  5 * y <= 6 * x /\ 4 * x <= 5 * y
OBVIOUS

\* A count near the midpoint of two that agree is near one of them.
LEMMA NearMidpoint ==
    ASSUME NEW low \in Nat, NEW high \in Nat, low <= high, ~Far(high, low), NEW count \in Nat,
           NEW doubled \in Nat, 2 * low <= doubled, doubled <= 2 * high, ~FarFromDoubled(count, doubled)
    PROVE  ~Far(count, low) \/ ~Far(count, high)
<1>1. 10 * count <= 6 * doubled /\ 4 * doubled <= 10 * count /\ 5 * high <= 6 * low
  BY NearIsInequality
<1>2. CASE count <= low
  BY <1>1, <1>2, NearIsInequality
<1>3. CASE high <= count
  BY <1>1, <1>3, NearIsInequality
<1>4. CASE low < count /\ count < high
  BY <1>1, <1>4, NearIsInequality
<1> QED
  BY <1>2, <1>3, <1>4

-----------------------------------------------------------------------------
(* The baseline *)

\* A positive count that was published, doubled; or the sum of two that agree; or,
\* when the middle ones do not agree or there is none, the previous count.
LEMMA Baseline ==
    ASSUME NEW counts \in Seq(Nat), NEW previous \in Nat
    PROVE  \/ SelectBaseline(counts, previous) = 2 * previous
           \/ \E i, j \in DOMAIN counts :
                /\ counts[i] > 0 /\ counts[i] <= counts[j] /\ ~Far(counts[j], counts[i])
                /\ SelectBaseline(counts, previous) = counts[i] + counts[j]
<1>1. PICK sorted : sorted = Positive(counts)
  OBVIOUS
<1>2. /\ sorted \in Seq(Nat)
      /\ \A k \in 1 .. Len(sorted) : \E i \in DOMAIN counts : counts[i] > 0 /\ sorted[k] = counts[i]
      /\ \A j, k \in 1 .. Len(sorted) : j < k => sorted[j] <= sorted[k]
  BY <1>1, PositiveCounts
<1>3. PICK middle \in Nat : middle = Len(sorted) \div 2
  BY <1>2
<1>4. Len(sorted) \in Nat /\ (Len(sorted) % 2 = 1 => middle + 1 \in 1 .. Len(sorted))
      /\ (Len(sorted) % 2 # 1 /\ Len(sorted) # 0 => middle \in 1 .. Len(sorted) /\ middle + 1 \in 1 .. Len(sorted))
  BY <1>2, <1>3
<1>5. \A i \in DOMAIN counts : counts[i] \in Nat
  BY LenProperties, ElementOfSeq
<1>6. CASE sorted = <<>>
  BY <1>1, <1>6 DEF SelectBaseline
<1>7. CASE sorted # <<>> /\ Len(sorted) % 2 = 1
  <2>1. PICK i \in DOMAIN counts : counts[i] > 0 /\ sorted[middle + 1] = counts[i]
    BY <1>2, <1>4, <1>7
  <2>2. SelectBaseline(counts, previous) = 2 * counts[i]
    BY <1>1, <1>3, <1>7, <2>1 DEF SelectBaseline
  <2>3. SelectBaseline(counts, previous) = counts[i] + counts[i] /\ counts[i] <= counts[i] /\ ~Far(counts[i], counts[i])
    BY <1>5, <2>2, NearIsInequality
  <2> QED
    BY <2>1, <2>3
<1>8. CASE sorted # <<>> /\ Len(sorted) % 2 # 1
  <2>1. Len(sorted) # 0
    BY <1>2, <1>8
  <2>2. PICK i \in DOMAIN counts : counts[i] > 0 /\ sorted[middle] = counts[i]
    BY <1>2, <1>4, <1>8, <2>1
  <2>3. PICK j \in DOMAIN counts : counts[j] > 0 /\ sorted[middle + 1] = counts[j]
    BY <1>2, <1>4, <1>8, <2>1
  <2>4. counts[i] <= counts[j]
    <3>1. middle \in 1 .. Len(sorted) /\ middle + 1 \in 1 .. Len(sorted) /\ middle < middle + 1
      BY <1>3, <1>4, <1>8, <2>1
    <3>2. sorted[middle] <= sorted[middle + 1]
      BY <1>2, <3>1
    <3> QED
      BY <2>2, <2>3, <3>2
  <2>5. SelectBaseline(counts, previous) =
          IF Far(counts[j], counts[i]) THEN 2 * previous ELSE counts[i] + counts[j]
    BY <1>1, <1>3, <1>8, <2>2, <2>3 DEF SelectBaseline
  <2> QED
    BY <2>2, <2>4, <2>5
<1> QED
  BY <1>6, <1>7, <1>8

\* A complete candidate that publishes is near the baseline, if there is one.
LEMMA PublishedIsNear ==
    ASSUME NEW count \in Nat, NEW previous, NEW counts
    PROVE  Decision("complete", count, previous, counts) = "publish"
             <=> ~(SelectBaseline(counts, previous) > 0 /\ FarFromDoubled(count, SelectBaseline(counts, previous)))
<1>1. count # Missing
  BY DEF Missing
<1> QED
  BY <1>1 DEF Decision

-----------------------------------------------------------------------------
(* The history *)

CountsInv == history \in Seq(Counts)

LEMMA HistoryInvariant == GateSpec => []CountsInv
<1>1. GateInit => CountsInv
  BY EmptySeq DEF GateInit, CountsInv
<1>2. CountsInv /\ [GateNext]_history => CountsInv'
  <2> SUFFICES ASSUME CountsInv, [GateNext]_history PROVE CountsInv'
    OBVIOUS
  <2>1. CASE history' = history
    BY <2>1 DEF CountsInv
  <2>2. ASSUME NEW count \in Counts, NewDay(count) PROVE CountsInv'
    <3>1. Append(history, count) \in Seq(Counts) /\ Append(history, count) # <<>>
      BY AppendProperties, EmptySeq DEF CountsInv
    <3> QED
      BY <2>2, <3>1, HeadTailProperties DEF NewDay, CountsInv
  <2>3. ASSUME NEW count \in Counts, SameDay(count) PROVE CountsInv'
    <3>1. Len(history) \in Nat /\ \A i \in 1 .. Len(history) - 1 : history[i] \in Counts
      BY LenProperties, ElementOfSeq DEF CountsInv
    <3>2. Front(history) \in Seq(Counts)
      BY <3>1, SubSeqProperties DEF Front
    <3> QED
      BY <2>3, <3>2, AppendProperties DEF SameDay, CountsInv
  <2> QED
    BY <2>1, <2>2, <2>3 DEF GateNext, AutoPublish, PublishReviewed, Record
<1> QED
  BY <1>1, <1>2, PTL DEF GateSpec

\* Counts are numbers, the previous one too.
LEMMA HistoryOfNumbers ==
    ASSUME CountsInv
    PROVE  /\ history \in Seq(Nat) /\ Len(history) \in Nat /\ DOMAIN history = 1 .. Len(history)
           /\ \A i \in DOMAIN history : history[i] \in Nat
           /\ PreviousPending \in Nat
           /\ PreviousPending > 0 => \E i \in DOMAIN history : history[i] = PreviousPending
<1>1. history \in Seq(Nat)
  BY SeqMonotonic, GateAssumption DEF CountsInv
<1>2. Len(history) \in Nat /\ DOMAIN history = 1 .. Len(history) /\ \A i \in DOMAIN history : history[i] \in Nat
  BY <1>1, LenProperties, ElementOfSeq
<1>3. CASE history = <<>>
  BY <1>1, <1>2, <1>3 DEF PreviousPending, NoCount
<1>4. CASE history # <<>>
  <2>1. Len(history) \in DOMAIN history
    BY <1>1, <1>2, <1>4, EmptySeq
  <2> QED
    BY <1>1, <1>2, <1>4, <2>1 DEF PreviousPending, Last
<1> QED
  BY <1>3, <1>4

\* Whatever the counts, however many: what is published without review is within a
\* fifth of a count that was published, never only of a midpoint nobody published.
THEOREM UnreviewedStaysNear == GateSpec => UnreviewedIsNearHistory
<1>1. ASSUME CountsInv, NEW count \in Counts, AutoPublish(count), PreviousPending > 0
      PROVE  \E i \in DOMAIN history : history[i] > 0 /\ ~Far(count, history[i])
  <2>1. count \in Nat
    BY <1>1, GateAssumption
  <2>2. PICK baseline : baseline = SelectBaseline(history, PreviousPending)
    OBVIOUS
  <2>3. ~(baseline > 0 /\ FarFromDoubled(count, baseline))
    BY <1>1, <2>1, <2>2, PublishedIsNear DEF AutoPublish, Gate
  <2>4. CASE baseline = 2 * PreviousPending
    <3>1. PICK i \in DOMAIN history : history[i] = PreviousPending
      BY <1>1, HistoryOfNumbers
    <3>2. ~FarFromDoubled(count, 2 * history[i])
      BY <1>1, <2>3, <2>4, <3>1, HistoryOfNumbers
    <3> QED
      BY <1>1, <3>1, <3>2 DEF Far
  <2>5. ASSUME NEW i \in DOMAIN history, NEW j \in DOMAIN history,
               history[i] > 0, history[i] <= history[j], ~Far(history[j], history[i]), baseline = history[i] + history[j]
        PROVE  \E k \in DOMAIN history : history[k] > 0 /\ ~Far(count, history[k])
    <3>1. history[i] \in Nat /\ history[j] \in Nat
      BY <1>1, HistoryOfNumbers
    <3>2. baseline \in Nat /\ baseline > 0 /\ 2 * history[i] <= baseline /\ baseline <= 2 * history[j] /\ history[j] > 0
      BY <2>5, <3>1
    <3>3. ~FarFromDoubled(count, baseline)
      BY <2>3, <3>2
    <3>4. ~Far(count, history[i]) \/ ~Far(count, history[j])
      BY <2>1, <2>5, <3>1, <3>2, <3>3, NearMidpoint
    <3> QED
      BY <2>5, <3>2, <3>4
  <2> QED
    BY <1>1, <2>2, <2>4, <2>5, Baseline, HistoryOfNumbers
<1>2. CountsInv => [\A count \in Counts :
                    AutoPublish(count) /\ PreviousPending > 0
                    => \E i \in DOMAIN history : history[i] > 0 /\ ~Far(count, history[i])]_history
  BY <1>1
<1> QED
  BY <1>2, HistoryInvariant, PTL DEF UnreviewedIsNearHistory

-----------------------------------------------------------------------------
(* One bad publication *)

\* When only one count does not agree, the baseline lies between two that do: the
\* middle of three or more is never at the end.
LEMMA BaselineLiesBetweenOthers ==
    ASSUME CountsInv, Len(history) >= 3, NEW bad \in DOMAIN history, history[bad] > 0, Agree(Others(bad))
    PROVE  /\ SelectBaseline(history, PreviousPending) \in Nat
           /\ \E low, high \in Others(bad) :
                2 * low <= SelectBaseline(history, PreviousPending) /\ SelectBaseline(history, PreviousPending) <= 2 * high
<1>1. PICK n \in Nat : n = Len(history)
  BY HistoryOfNumbers
<1>2. /\ history \in Seq(Nat) /\ n >= 3 /\ DOMAIN history = 1 .. n
      /\ \A i \in 1 .. n : history[i] \in Nat
  BY <1>1, HistoryOfNumbers
<1>3. \A i \in 1 .. n : history[i] > 0 /\ (i # bad => history[i] \in Others(bad))
  BY <1>2 DEF Agree, Others
<1>4. PositiveIndexes(history) = 1 .. n /\ Cardinality(1 .. n) = n
  <2>1. PositiveIndexes(history) = 1 .. n
    BY <1>2, <1>3 DEF PositiveIndexes
  <2>2. Cardinality(1 .. n) = n - 1 + 1
    BY <1>2, FS_Interval
  <2> QED
    BY <1>2, <2>1, <2>2
<1>5. PICK order : Lists(order, 1 .. n, history, n) /\ Positive(history) = [k \in 1 .. n |-> history[order[k]]]
  BY <1>2, <1>4, GateSorts
<1>6. /\ \A k \in 1 .. n : order[k] \in 1 .. n
      /\ \A j, k \in 1 .. n : order[j] = order[k] => j = k
      /\ \A j, k \in 1 .. n : j < k => history[order[j]] <= history[order[k]]
  <2>1. /\ \A k \in 1 .. n : order[k] \in 1 .. n
        /\ \A j, k \in 1 .. n : j < k => order[j] # order[k] /\ history[order[j]] <= history[order[k]]
    BY <1>5 DEF Lists
  <2>2. ASSUME NEW j \in 1 .. n, NEW k \in 1 .. n, order[j] = order[k]
        PROVE  j = k
    <3>1. ~(j < k) /\ ~(k < j)
      BY <2>1, <2>2
    <3> QED
      BY <1>2, <3>1
  <2> QED
    BY <2>1, <2>2
<1>7. PICK sorted : sorted = Positive(history)
  OBVIOUS
<1>8. /\ sorted = [k \in 1 .. n |-> history[order[k]]]
      /\ \A k \in 1 .. n : sorted[k] = history[order[k]] /\ sorted[k] \in Nat
  BY <1>2, <1>5, <1>6, <1>7
<1>9. sorted \in Seq(Nat) /\ Len(sorted) = n /\ sorted # <<>>
  BY <1>2, <1>8
<1>10. \A j, k \in 1 .. n : j < k => sorted[j] <= sorted[k]
  BY <1>6, <1>8
<1>11. ASSUME NEW k \in 2 .. n - 1
       PROVE  /\ \E low \in Others(bad) : low <= sorted[k]
              /\ \E high \in Others(bad) : sorted[k] <= high
  <2>1. PICK j \in {1, 2} : order[j] # bad
    BY <1>2, <1>6
  <2>2. PICK l \in {n - 1, n} : order[l] # bad
    BY <1>2, <1>6
  <2>3. j \in 1 .. n /\ l \in 1 .. n /\ k \in 1 .. n /\ j <= k /\ k <= l
    BY <1>2
  <2>4. sorted[j] \in Others(bad) /\ sorted[l] \in Others(bad)
    BY <1>3, <1>6, <1>8, <2>1, <2>2, <2>3
  <2>5. sorted[j] <= sorted[k] /\ sorted[k] <= sorted[l]
    BY <1>8, <1>10, <2>3
  <2> QED
    BY <2>4, <2>5
<1>12. \A a \in Others(bad) : a \in Nat
  BY <1>2 DEF Others
<1>13. PICK middle \in Nat : middle = n \div 2
  BY <1>1
<1>14. CASE n % 2 = 1
  <2>1. middle + 1 \in 2 .. n - 1
    BY <1>2, <1>13, <1>14
  <2>2. SelectBaseline(history, PreviousPending) = 2 * sorted[middle + 1]
    BY <1>7, <1>9, <1>13, <1>14 DEF SelectBaseline
  <2>3. sorted[middle + 1] \in Nat
    BY <1>8, <2>1
  <2>4. PICK low \in Others(bad), high \in Others(bad) : low <= sorted[middle + 1] /\ sorted[middle + 1] <= high
    BY <1>11, <2>1
  <2> QED
    BY <1>12, <2>2, <2>3, <2>4
<1>15. CASE n % 2 # 1
  <2>1. middle \in 2 .. n - 1 /\ middle + 1 \in 2 .. n - 1 /\ middle < middle + 1
    BY <1>2, <1>13, <1>15
  <2>2. SelectBaseline(history, PreviousPending)
          = IF Far(sorted[middle + 1], sorted[middle]) THEN 2 * PreviousPending ELSE sorted[middle] + sorted[middle + 1]
    BY <1>7, <1>9, <1>13, <1>15 DEF SelectBaseline
  <2>3. sorted[middle] \in Nat /\ sorted[middle + 1] \in Nat /\ sorted[middle] <= sorted[middle + 1]
    BY <1>8, <1>10, <2>1
  <2>4. PICK low \in Others(bad) : low <= sorted[middle]
    BY <1>11, <2>1
  <2>5. PICK high \in Others(bad) : sorted[middle + 1] <= high
    BY <1>11, <2>1
  <2>6. low \in Nat /\ high \in Nat /\ (low < high => ~Far(high, low))
    BY <1>12 DEF Agree
  <2>7. ~Far(sorted[middle + 1], sorted[middle])
    <3>1. low < high => 5 * high <= 6 * low
      BY <2>6, NearIsInequality
    <3>2. 5 * sorted[middle + 1] <= 6 * sorted[middle] /\ 4 * sorted[middle] <= 5 * sorted[middle + 1]
      BY <2>3, <2>4, <2>5, <2>6, <3>1, Squeezed
    <3> QED
      BY <2>3, <3>2, NearIsInequality
  <2>8. SelectBaseline(history, PreviousPending) = sorted[middle] + sorted[middle + 1]
    BY <2>2, <2>7
  <2>9. high \in Nat /\ low \in Nat
    BY <1>12
  <2>10. /\ SelectBaseline(history, PreviousPending) \in Nat
         /\ 2 * low <= SelectBaseline(history, PreviousPending)
         /\ SelectBaseline(history, PreviousPending) <= 2 * high
    BY <2>3, <2>4, <2>5, <2>8, <2>9
  <2> QED
    BY <2>10
<1> QED
  BY <1>14, <1>15

\* One bad publication among three or more, whichever it is and however it came
\* about, neither holds a count between the others nor lets one far from them pass.
THEOREM OneBadPublicationIsHarmless == GateSpec => []OneBadPublicationDoesNotPoison
<1>1. ASSUME CountsInv, Len(history) >= 3, NEW bad \in DOMAIN history, history[bad] > 0, Agree(Others(bad)),
             NEW count \in Counts
      PROVE  /\ (\E a, b \in Others(bad) : a <= count /\ count <= b) => Gate("complete", count) = "publish"
             /\ Gate("complete", count) = "publish" => \E a \in Others(bad) : ~Far(count, a)
  <2>1. count \in Nat /\ \A a \in Others(bad) : a \in Nat
    BY <1>1, GateAssumption, HistoryOfNumbers DEF Others
  <2>2. PICK baseline : baseline = SelectBaseline(history, PreviousPending)
    OBVIOUS
  <2>3. PICK low \in Others(bad), high \in Others(bad) : baseline \in Nat /\ 2 * low <= baseline /\ baseline <= 2 * high
    BY <1>1, <2>2, BaselineLiesBetweenOthers
  <2>4. /\ \A a \in Others(bad) : a > 0
        /\ \A a, b \in Others(bad) : a < b => 5 * b <= 6 * a
    BY <1>1, <2>1, NearIsInequality DEF Agree
  <2>5. baseline > 0
    BY <2>1, <2>3, <2>4
  <2>6. Gate("complete", count) = "publish" <=> ~FarFromDoubled(count, baseline)
    BY <2>1, <2>2, <2>5, PublishedIsNear DEF Gate
  <2>7. ASSUME NEW a \in Others(bad), NEW b \in Others(bad), a <= count, count <= b
        PROVE  Gate("complete", count) = "publish"
    <3>1. (low < b => 5 * b <= 6 * low) /\ (a < high => 5 * high <= 6 * a)
      BY <2>4
    <3>2. a \in Nat /\ b \in Nat /\ low \in Nat /\ high \in Nat
      BY <2>1
    <3>3. 10 * count <= 6 * baseline
      BY <2>1, <2>3, <2>7, <3>1, <3>2
    <3>4. 4 * baseline <= 10 * count
      BY <2>1, <2>3, <2>7, <3>1, <3>2
    <3> QED
      BY <2>1, <2>3, <2>6, <3>3, <3>4, NearIsInequality
  <2>8. ASSUME Gate("complete", count) = "publish" PROVE \E a \in Others(bad) : ~Far(count, a)
    <3>1. low \in Nat /\ high \in Nat /\ low <= high
      BY <2>1, <2>3
    <3>2. ~Far(high, low)
      <4>1. 5 * high <= 6 * low /\ 4 * low <= 5 * high
        BY <2>4, <3>1
      <4> QED
        BY <3>1, <4>1, NearIsInequality
    <3> QED
      BY <2>1, <2>3, <2>6, <2>8, <3>1, <3>2, NearMidpoint
  <2> QED
    BY <2>7, <2>8
<1>2. CountsInv => OneBadPublicationDoesNotPoison
  <2> SUFFICES ASSUME CountsInv, Len(history) >= 3, NEW bad \in DOMAIN history, history[bad] > 0, Agree(Others(bad)),
                      NEW count \in Counts
               PROVE  /\ (\E a, b \in Others(bad) : a <= count /\ count <= b) => Gate("complete", count) = "publish"
                      /\ Gate("complete", count) = "publish" => \E a \in Others(bad) : ~Far(count, a)
    BY DEF OneBadPublicationDoesNotPoison
  <2> QED
    BY <1>1
<1> QED
  BY <1>2, HistoryInvariant, PTL

=============================================================================
