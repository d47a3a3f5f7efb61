----------------------------- MODULE SortingProofs -----------------------------
(***************************************************************************)
(* What the orders of Sorting are, for any lists and any comparator that   *)
(* is an order: every place is taken once, a filter keeps order, the last  *)
(* n of an ascending list are those with fewer than n above them.          *)
(***************************************************************************)
EXTENDS Sorting, FiniteSetsExt, SequenceTheorems, FiniteSetTheorems, TLAPS

-----------------------------------------------------------------------------
(* Lists *)

\* SubSeq of all of a list is the list.
LEMMA WholeList ==
    ASSUME NEW n \in Nat, NEW list, list = [k \in 1 .. n |-> list[k]]
    PROVE  SubSeq(list, 1, n) = list /\ Len(list) = n /\ DOMAIN list = 1 .. n
<1> DEFINE T == {list[k] : k \in 1 .. n}
<1>1. list \in [1 .. n -> T] /\ \A k \in 1 .. n : list[k] \in T
  OBVIOUS
<1> HIDE DEF T
<1>2. list \in Seq(T) /\ Len(list) = n /\ DOMAIN list = 1 .. n
  BY <1>1
<1>3. /\ SubSeq(list, 1, n) \in Seq(T)
      /\ Len(SubSeq(list, 1, n)) = IF 1 <= n THEN n - 1 + 1 ELSE 0
      /\ \A i \in 1 .. n - 1 + 1 : SubSeq(list, 1, n)[i] = list[1 + i - 1]
  <2>1. 1 \in Int /\ n \in Int /\ \A i \in 1 .. n : list[i] \in T
    BY <1>1
  <2> QED
    BY <2>1, SubSeqProperties
<1>4. PICK whole \in Seq(T) : whole = SubSeq(list, 1, n)
  BY <1>3
<1>5. Len(whole) = n /\ \A i \in 1 .. n : whole[i] = list[i]
  <2>1. /\ Len(whole) = IF 1 <= n THEN n - 1 + 1 ELSE 0
        /\ \A i \in 1 .. n - 1 + 1 : whole[i] = list[1 + i - 1]
    BY <1>3, <1>4
  <2>2. (IF 1 <= n THEN n - 1 + 1 ELSE 0) = n /\ n - 1 + 1 = n /\ \A i \in 1 .. n : 1 + i - 1 = i
    OBVIOUS
  <2> QED
    BY <2>1, <2>2
<1>6. whole = list
  BY <1>2, <1>5
<1> QED
  BY <1>2, <1>4, <1>6

Reads(list, seq, order, n) == list = [k \in 1 .. n |-> seq[order[k]]]

LEMMA EntriesInOrder ==
    ASSUME NEW n \in Nat, NEW seq, NEW places, NEW order \in [1 .. n -> places]
    PROVE  Reads(EntriesAt(seq, order), seq, order, n)
<1>1. DOMAIN order = 1 .. n /\ Len(order) = n
  <2>1. order = [k \in 1 .. n |-> order[k]]
    OBVIOUS
  <2> QED
    BY <2>1, WholeList
<1>2. PICK list : list = [k \in 1 .. n |-> seq[order[k]]]
  OBVIOUS
<1>3. list = [k \in 1 .. n |-> list[k]]
  BY <1>2
<1>4. SubSeq(list, 1, n) = list
  BY <1>3, WholeList
<1> QED
  BY <1>1, <1>2, <1>4 DEF EntriesAt, Reads

-----------------------------------------------------------------------------
(* Ranks *)

\* Every two members are ordered one way.
Orders(before, members) ==
    /\ \A x \in members : <<x, x>> \notin before
    /\ \A x, y, z \in members : <<x, y>> \in before /\ <<y, z>> \in before => <<x, z>> \in before
    /\ \A x, y \in members : x # y => <<x, y>> \in before \/ <<y, x>> \in before

\* Whatever is before a member has fewer before it.
LEMMA FewerBefore ==
    ASSUME NEW members, IsFiniteSet(members), NEW before, Orders(before, members), NEW x \in members
    PROVE  /\ Cardinality(Below(x, members, before)) \in 0 .. Cardinality(members) - 1
           /\ \A w \in members : <<w, x>> \in before =>
                Cardinality(Below(w, members, before)) < Cardinality(Below(x, members, before))
<1>1. \A w \in members : Below(w, members, before) \in SUBSET members /\ w \notin Below(w, members, before)
  BY DEF Orders, Below
<1>2. \A w \in members : IsFiniteSet(Below(w, members, before)) /\ Cardinality(Below(w, members, before)) \in Nat
  BY <1>1, FS_Subset, FS_CardinalityType
<1>3. /\ Cardinality(Below(x, members, before)) <= Cardinality(members)
      /\ Cardinality(Below(x, members, before)) # Cardinality(members)
      /\ Cardinality(members) \in Nat
  BY <1>1, FS_Subset, FS_CardinalityType
<1>4. ASSUME NEW w \in members, <<w, x>> \in before
      PROVE  Cardinality(Below(w, members, before)) < Cardinality(Below(x, members, before))
  <2>1. Below(w, members, before) \in SUBSET Below(x, members, before) /\ w \in Below(x, members, before)
    BY <1>4 DEF Orders, Below
  <2>2. /\ Cardinality(Below(w, members, before)) <= Cardinality(Below(x, members, before))
        /\ Cardinality(Below(w, members, before)) # Cardinality(Below(x, members, before))
    BY <1>1, <1>2, <2>1, FS_Subset
  <2> QED
    BY <1>2, <2>2
<1> QED
  BY <1>2, <1>3, <1>4

\* So every place of the order is taken, by one member.
LEMMA Ranks ==
    ASSUME NEW members, IsFiniteSet(members), NEW before, Orders(before, members)
    PROVE  \E n \in Nat : \E order \in [1 .. n -> members] :
             /\ n = Cardinality(members) /\ order = Ranked(members, before)
             /\ \A x \in members : \E k \in 1 .. n : order[k] = x
             /\ \A j, k \in 1 .. n : j < k => <<order[j], order[k]>> \in before
             /\ \A j, k \in 1 .. n : order[j] = order[k] => j = k
<1> DEFINE rank == [x \in members |-> Cardinality(Below(x, members, before)) + 1]
           order == [k \in 1 .. Cardinality(members) |->
                        CHOOSE x \in members : Cardinality(Below(x, members, before)) = k - 1]
<1>1. PICK n \in Nat : n = Cardinality(members)
  BY FS_CardinalityType
<1>2. \A x \in members : rank[x] \in 1 .. n /\ rank[x] = Cardinality(Below(x, members, before)) + 1
  BY <1>1, FewerBefore
<1>3. \A w, x \in members : <<w, x>> \in before => rank[w] < rank[x]
  BY <1>2, FewerBefore
<1>4. ASSUME NEW w \in members, NEW x \in members, rank[w] = rank[x] PROVE w = x
  <2>1. <<w, x>> \notin before /\ <<x, w>> \notin before
    BY <1>2, <1>3, <1>4
  <2> QED
    BY <2>1 DEF Orders
<1>5. rank \in Surjection(members, 1 .. n)
  <2>1. rank \in Injection(members, 1 .. n)
    BY <1>2, <1>4 DEF Injection, IsInjective
  <2>2. IsFiniteSet(1 .. n) /\ Cardinality(1 .. n) = n
    BY FS_Interval
  <2> QED
    BY <1>1, <2>1, <2>2, FS_Injection
<1>6. ASSUME NEW k \in 1 .. n PROVE order[k] \in members /\ rank[order[k]] = k
  <2>1. PICK x \in members : rank[x] = k
    BY <1>5 DEF Surjection
  <2>2. \A w \in members : Cardinality(Below(w, members, before)) \in Nat
    BY FewerBefore
  <2>3. Cardinality(Below(x, members, before)) = k - 1
    BY <1>2, <2>1, <2>2
  <2>4. order[k] \in members /\ Cardinality(Below(order[k], members, before)) = k - 1
    BY <1>1, <2>3
  <2> QED
    BY <1>2, <2>2, <2>4
<1>7. order = [k \in 1 .. n |-> order[k]] /\ Ranked(members, before) = SubSeq(order, 1, n)
  BY <1>1 DEF Ranked
<1> HIDE DEF rank, order
<1>8. order \in [1 .. n -> members]
  BY <1>6, <1>7
<1>9. \A x \in members : \E k \in 1 .. n : order[k] = x
  BY <1>2, <1>4, <1>6
<1>10. \A j, k \in 1 .. n : order[j] = order[k] => j = k
  BY <1>6
<1>11. ASSUME NEW j \in 1 .. n, NEW k \in 1 .. n, j < k PROVE <<order[j], order[k]>> \in before
  <2>1. /\ order[j] \in members /\ rank[order[j]] = j
        /\ order[k] \in members /\ rank[order[k]] = k
    BY <1>6
  <2>2. order[j] # order[k]
    BY <1>11, <2>1
  <2>3. <<order[k], order[j]>> \in before => k < j
    BY <1>3, <2>1
  <2>4. ~(k < j)
    BY <1>11
  <2> QED
    BY <2>1, <2>2, <2>3, <2>4 DEF Orders
<1>12. order = Ranked(members, before)
  BY <1>7, WholeList
<1> QED
  BY <1>1, <1>8, <1>9, <1>10, <1>11, <1>12

-----------------------------------------------------------------------------
(* Sorts by numbers *)

LEMMA Order ==
    ASSUME NEW indexes \in SUBSET Nat, IsFiniteSet(indexes), NEW values, \A i \in indexes : values[i] \in Nat
    PROVE  \E n \in Nat : \E order \in [1 .. n -> indexes] :
             /\ n = Cardinality(indexes) /\ order = Ascending(indexes, values)
             /\ \A i \in indexes : \E k \in 1 .. n : order[k] = i
             /\ \A j, k \in 1 .. n : j < k =>
                  values[order[j]] < values[order[k]] \/ (values[order[j]] = values[order[k]] /\ order[j] < order[k])
<1> DEFINE before == ByValue(indexes, values)
<1>1. \A i, j \in indexes : <<j, i>> \in before <=> values[j] < values[i] \/ (values[j] = values[i] /\ j < i)
  BY DEF ByValue
<1>2. \A i \in indexes : i \in Nat /\ values[i] \in Nat
  OBVIOUS
<1> HIDE DEF before
<1>3. Orders(before, indexes)
  <2>1. \A i \in indexes : <<i, i>> \notin before
    BY <1>1, <1>2
  <2>2. ASSUME NEW h \in indexes, NEW i \in indexes, NEW j \in indexes, <<h, i>> \in before, <<i, j>> \in before
        PROVE  <<h, j>> \in before
    BY <1>1, <1>2, <2>2
  <2>3. ASSUME NEW i \in indexes, NEW j \in indexes, i # j PROVE <<i, j>> \in before \/ <<j, i>> \in before
    BY <1>1, <1>2, <2>3
  <2> QED
    BY <2>1, <2>2, <2>3 DEF Orders
<1>4. PICK n \in Nat : \E order \in [1 .. n -> indexes] :
             /\ n = Cardinality(indexes) /\ order = Ranked(indexes, before)
             /\ \A i \in indexes : \E k \in 1 .. n : order[k] = i
             /\ \A j, k \in 1 .. n : j < k => <<order[j], order[k]>> \in before
  BY <1>3, Ranks
<1>5. PICK order \in [1 .. n -> indexes] :
             /\ n = Cardinality(indexes) /\ order = Ranked(indexes, before)
             /\ \A i \in indexes : \E k \in 1 .. n : order[k] = i
             /\ \A j, k \in 1 .. n : j < k => <<order[j], order[k]>> \in before
  BY <1>4
<1>6. order = Ascending(indexes, values)
  BY <1>5 DEF Ascending, before
<1>7. \A j, k \in 1 .. n : j < k =>
        values[order[j]] < values[order[k]] \/ (values[order[j]] = values[order[k]] /\ order[j] < order[k])
  BY <1>1, <1>5
<1> QED
  BY <1>5, <1>6, <1>7

LEMMA Extremes ==
    ASSUME NEW S \in SUBSET Nat, IsFiniteSet(S), S # {}
    PROVE  /\ Max(S) \in S /\ \A x \in S : x <= Max(S)
           /\ Min(S) \in S /\ \A x \in S : Min(S) <= x
<1> DEFINE values == [i \in S |-> i]
<1>1. PICK n \in Nat : \E order \in [1 .. n -> S] :
         /\ \A i \in S : \E k \in 1 .. n : order[k] = i
         /\ \A j, k \in 1 .. n : j < k =>
              values[order[j]] < values[order[k]] \/ (values[order[j]] = values[order[k]] /\ order[j] < order[k])
  <2>1. \A i \in S : values[i] \in Nat
    OBVIOUS
  <2> HIDE DEF values
  <2> QED
    BY <2>1, Order
<1>2. PICK order \in [1 .. n -> S] :
         /\ \A i \in S : \E k \in 1 .. n : order[k] = i
         /\ \A j, k \in 1 .. n : j < k => order[j] < order[k]
  BY <1>1
<1>3. 1 \in 1 .. n /\ n \in 1 .. n
  <2>1. PICK x \in S : TRUE
    OBVIOUS
  <2>2. PICK k \in 1 .. n : order[k] = x
    BY <1>2
  <2> QED
    BY <2>2
<1>4. order[1] \in S /\ \A x \in S : order[1] <= x
  <2> SUFFICES ASSUME NEW x \in S PROVE order[1] \in S /\ order[1] <= x
    BY <1>3
  <2>1. PICK k \in 1 .. n : order[k] = x
    BY <1>2
  <2>2. order[1] \in S /\ order[k] \in S
    BY <1>2, <1>3
  <2>3. k = 1 \/ order[1] < order[k]
    BY <1>2, <1>3
  <2>4. order[1] \in Nat /\ x \in Nat
    BY <2>2
  <2> QED
    BY <2>1, <2>2, <2>3, <2>4
<1>5. order[n] \in S /\ \A x \in S : x <= order[n]
  <2> SUFFICES ASSUME NEW x \in S PROVE order[n] \in S /\ x <= order[n]
    BY <1>3
  <2>1. PICK k \in 1 .. n : order[k] = x
    BY <1>2
  <2>2. order[n] \in S /\ order[k] \in S
    BY <1>2, <1>3
  <2>3. k = n \/ order[k] < order[n]
    BY <1>2, <1>3
  <2>4. order[n] \in Nat /\ x \in Nat
    BY <2>2
  <2> QED
    BY <2>1, <2>2, <2>3, <2>4
<1>6. Max(S) \in S /\ \A x \in S : x <= Max(S)
  BY <1>5 DEF Max
<1>7. Min(S) \in S /\ \A x \in S : Min(S) <= x
  BY <1>4 DEF Min
<1> QED
  BY <1>6, <1>7

\* A filter lists the places it keeps, in order.
Keeps(list, seq, places, m, order) ==
    /\ order \in [1 .. m -> places] /\ list = [k \in 1 .. m |-> seq[order[k]]] /\ m = Cardinality(places)
    /\ \A i \in places : \E k \in 1 .. m : order[k] = i
    /\ \A j, k \in 1 .. m : j < k => order[j] < order[k]

LEMMA Filters ==
    ASSUME NEW n \in Nat, NEW seq, NEW places \in SUBSET (1 .. n)
    PROVE  \E m \in Nat : \E order : Keeps(Filtered(seq, places), seq, places, m, order)
<1> DEFINE values == [i \in places |-> i]
<1>1. IsFiniteSet(places) /\ places \in SUBSET Nat
  <2>1. IsFiniteSet(1 .. n)
    BY FS_Interval
  <2>2. IsFiniteSet(places)
    BY <2>1, FS_Subset
  <2> QED
    BY <2>2
<1>2. \A i \in places : values[i] \in Nat /\ values[i] = i
  OBVIOUS
<1>3. Filtered(seq, places) = EntriesAt(seq, Ascending(places, values))
  BY DEF Filtered
<1> HIDE DEF values
<1>4. PICK m \in Nat : \E order \in [1 .. m -> places] :
         /\ m = Cardinality(places) /\ order = Ascending(places, values)
         /\ \A i \in places : \E k \in 1 .. m : order[k] = i
         /\ \A j, k \in 1 .. m : j < k =>
              values[order[j]] < values[order[k]] \/ (values[order[j]] = values[order[k]] /\ order[j] < order[k])
  BY <1>1, <1>2, Order
<1>5. PICK order \in [1 .. m -> places] :
         /\ m = Cardinality(places) /\ order = Ascending(places, values)
         /\ \A i \in places : \E k \in 1 .. m : order[k] = i
         /\ \A j, k \in 1 .. m : j < k =>
              values[order[j]] < values[order[k]] \/ (values[order[j]] = values[order[k]] /\ order[j] < order[k])
  BY <1>4
<1>6. Filtered(seq, places) = [k \in 1 .. m |-> seq[order[k]]]
  <2>1. Reads(EntriesAt(seq, order), seq, order, m)
    BY EntriesInOrder
  <2> QED
    BY <1>3, <1>5, <2>1 DEF Reads
<1>7. ASSUME NEW j \in 1 .. m, NEW k \in 1 .. m, j < k PROVE order[j] < order[k]
  <2>1. order[j] \in places /\ order[k] \in places
    BY <1>5
  <2>2. values[order[j]] < values[order[k]] \/ (values[order[j]] = values[order[k]] /\ order[j] < order[k])
    BY <1>5, <1>7
  <2> QED
    BY <1>2, <2>1, <2>2
<1> QED
  BY <1>5, <1>6, <1>7, SMTT(20) DEF Keeps

-----------------------------------------------------------------------------
(* Sorts by comparators *)

\* What precedes says of two places may leave them open, but consistently.
WeaklyOrders(precedes, places) ==
    /\ \A i \in places : <<i, i>> \notin precedes
    /\ \A h, i, j \in places : <<h, i>> \in precedes /\ <<i, j>> \in precedes => <<h, j>> \in precedes
    /\ \A h, i, j \in places : <<h, j>> \in precedes => <<h, i>> \in precedes \/ <<i, j>> \in precedes

\* The list has every entry once, none before one that precedes it.
Arranges(list, seq, precedes, n, order) ==
    /\ order \in [1 .. n -> 1 .. n] /\ list = [k \in 1 .. n |-> seq[order[k]]]
    /\ \A i \in 1 .. n : \E k \in 1 .. n : order[k] = i
    /\ \A j, k \in 1 .. n : order[j] = order[k] => j = k
    /\ \A j, k \in 1 .. n : j < k => /\ <<order[k], order[j]>> \notin precedes
                                     /\ <<order[j], order[k]>> \in precedes \/ order[j] < order[k]

LEMMA Arrangement ==
    ASSUME NEW n \in Nat, NEW seq, DOMAIN seq = 1 .. n, NEW precedes, WeaklyOrders(precedes, 1 .. n)
    PROVE  \E order : Arranges(Arranged(seq, precedes), seq, precedes, n, order)
<1> DEFINE before == Stably(1 .. n, precedes)
<1>1. \A i, j \in 1 .. n :
        <<i, j>> \in before <=> <<i, j>> \in precedes \/ (<<j, i>> \notin precedes /\ i < j)
  BY DEF Stably
<1> HIDE DEF before
<1>2. Orders(before, 1 .. n)
  <2>1. ASSUME NEW i \in 1 .. n PROVE <<i, i>> \notin before
    <3>1. <<i, i>> \notin precedes /\ ~(i < i)
      BY DEF WeaklyOrders
    <3> QED
      BY <1>1, <3>1
  <2>2. ASSUME NEW h \in 1 .. n, NEW i \in 1 .. n, NEW j \in 1 .. n, <<h, i>> \in before, <<i, j>> \in before
        PROVE  <<h, j>> \in before
    <3>1. /\ <<h, i>> \in precedes \/ (<<i, h>> \notin precedes /\ h < i)
          /\ <<i, j>> \in precedes \/ (<<j, i>> \notin precedes /\ i < j)
      BY <1>1, <2>2
    <3>2. <<j, h>> \notin precedes
      BY <3>1 DEF WeaklyOrders
    <3>3. <<h, j>> \in precedes \/ h < j
      BY <3>1 DEF WeaklyOrders
    <3> QED
      BY <1>1, <3>2, <3>3
  <2>3. ASSUME NEW i \in 1 .. n, NEW j \in 1 .. n, i # j PROVE <<i, j>> \in before \/ <<j, i>> \in before
    BY <1>1, <2>3
  <2> QED
    BY <2>1, <2>2, <2>3 DEF Orders
<1>3. IsFiniteSet(1 .. n) /\ Cardinality(1 .. n) = n
  BY FS_Interval
<1>4. PICK order \in [1 .. n -> 1 .. n] :
        /\ n = Cardinality(1 .. n) /\ order = Ranked(1 .. n, before)
        /\ \A i \in 1 .. n : \E k \in 1 .. n : order[k] = i
        /\ \A j, k \in 1 .. n : j < k => <<order[j], order[k]>> \in before
        /\ \A j, k \in 1 .. n : order[j] = order[k] => j = k
  <2> DEFINE places == 1 .. n
  <2>0. IsFiniteSet(places) /\ Orders(before, places)
    BY <1>2, <1>3
  <2> HIDE DEF places
  <2>1. \E m \in Nat : \E order \in [1 .. m -> places] :
             /\ m = Cardinality(places) /\ order = Ranked(places, before)
             /\ \A x \in places : \E k \in 1 .. m : order[k] = x
             /\ \A j, k \in 1 .. m : j < k => <<order[j], order[k]>> \in before
             /\ \A j, k \in 1 .. m : order[j] = order[k] => j = k
    BY <2>0, Ranks
  <2>2. \E order \in [1 .. n -> places] :
          /\ order = Ranked(places, before)
          /\ \A x \in places : \E k \in 1 .. n : order[k] = x
          /\ \A j, k \in 1 .. n : j < k => <<order[j], order[k]>> \in before
          /\ \A j, k \in 1 .. n : order[j] = order[k] => j = k
    <3>1. Cardinality(places) = n
      BY <1>3 DEF places
    <3> QED
      BY <2>1, <3>1
  <2> QED
    BY <1>3, <2>2 DEF places
<1>5. Arranged(seq, precedes) = [k \in 1 .. n |-> seq[order[k]]]
  <2>1. Reads(EntriesAt(seq, order), seq, order, n)
    BY EntriesInOrder
  <2> QED
    BY <1>4, <2>1 DEF Arranged, before, Reads
<1>6. ASSUME NEW j \in 1 .. n, NEW k \in 1 .. n, j < k
      PROVE  /\ <<order[k], order[j]>> \notin precedes
             /\ <<order[j], order[k]>> \in precedes \/ order[j] < order[k]
  <2>1. <<order[j], order[k]>> \in before /\ order[j] \in 1 .. n /\ order[k] \in 1 .. n
    BY <1>4, <1>6
  <2>2. \/ <<order[j], order[k]>> \in precedes
        \/ <<order[k], order[j]>> \notin precedes /\ order[j] < order[k]
    BY <1>1, <2>1
  <2> QED
    BY <2>1, <2>2 DEF WeaklyOrders
<1> QED
  BY <1>4, <1>5, <1>6 DEF Arranges

-----------------------------------------------------------------------------
(* The newest points *)

\* Those of a set of numbers with fewer than n above them.
Highest(all, n) == {d \in all : Cardinality({e \in all : e > d}) < n}

LEMMA ImageCount ==
    ASSUME NEW a \in Int, NEW n \in Int, NEW value, \A i, j \in a .. n : i # j => value[i] # value[j]
    PROVE  Cardinality({value[i] : i \in a .. n}) = IF a > n THEN 0 ELSE n - a + 1
<1> DEFINE shown == {value[i] : i \in a .. n}
           f == [i \in a .. n |-> value[i]]
<1>1. f \in Bijection(a .. n, shown)
  BY DEF Bijection, Injection, IsInjective, Surjection
<1>2. ExistsBijection(a .. n, shown)
  BY <1>1 DEF ExistsBijection
<1>3. IsFiniteSet(a .. n) /\ Cardinality(a .. n) = IF a > n THEN 0 ELSE n - a + 1
  BY FS_Interval
<1> HIDE DEF shown
<1>4. Cardinality(shown) = Cardinality(a .. n)
  BY <1>2, <1>3, FS_Bijection
<1> QED
  BY <1>3, <1>4 DEF shown

\* The list newest is what follows a cut, and those are the highest values.
EndsWith(newest, list, m, value, n, cut) ==
    /\ cut \in 0 .. m /\ DOMAIN newest = 1 .. m - cut /\ Len(newest) = m - cut
    /\ \A i \in 1 .. m - cut : newest[i] = list[cut + i]
    /\ {value[i] : i \in cut + 1 .. m} = Highest({value[i] : i \in 1 .. m}, n)
    /\ Cardinality(Highest({value[i] : i \in 1 .. m}, n)) = m - cut

\* The last n entries of a list are what follows a cut.
Follows(newest, list, m, n, T, cut) ==
    /\ cut \in 0 .. m /\ cut = IF m < n THEN 0 ELSE m - n
    /\ newest \in Seq(T) /\ Len(newest) = m - cut
    /\ \A i \in 1 .. m - cut : newest[i] = list[cut + i]

LEMMA NewestEntries ==
    ASSUME NEW T, NEW list \in Seq(T), NEW n \in Nat \ {0}
    PROVE  \E cut \in 0 .. Len(list) : Follows(Newest(list, n), list, Len(list), n, T, cut)
<1>1. PICK m \in Nat : m = Len(list)
  BY LenProperties
<1>2. PICK cut \in 0 .. m : cut = IF m < n THEN 0 ELSE m - n
  <2>1. (IF m < n THEN 0 ELSE m - n) \in 0 .. m
    OBVIOUS
  <2> QED
    BY <2>1
<1>3. Newest(list, n) = SubSeq(list, cut + 1, m)
  BY <1>1, <1>2 DEF Newest
<1>4. \A i \in cut + 1 .. m : list[i] \in T
  BY <1>1, ElementOfSeq
<1>5. /\ SubSeq(list, cut + 1, m) \in Seq(T)
      /\ Len(SubSeq(list, cut + 1, m)) = IF cut + 1 <= m THEN m - (cut + 1) + 1 ELSE 0
      /\ \A i \in 1 .. m - (cut + 1) + 1 : SubSeq(list, cut + 1, m)[i] = list[cut + 1 + i - 1]
  <2>1. cut + 1 \in Int /\ m \in Int
    OBVIOUS
  <2> QED
    BY <1>4, <2>1, SubSeqProperties
<1>6. (IF cut + 1 <= m THEN m - (cut + 1) + 1 ELSE 0) = m - cut /\ m - (cut + 1) + 1 = m - cut
  OBVIOUS
<1>7. \A i \in 1 .. m - cut : cut + 1 + i - 1 = cut + i
  OBVIOUS
<1>8. /\ Newest(list, n) \in Seq(T) /\ Len(Newest(list, n)) = m - cut
      /\ \A i \in 1 .. m - cut : Newest(list, n)[i] = list[cut + i]
  BY <1>3, <1>5, <1>6, <1>7
<1>9. Follows(Newest(list, n), list, m, n, T, cut)
  BY <1>2, <1>8 DEF Follows
<1> QED
  BY <1>1, <1>9

\* The last n entries of a list with ascending values are those of the highest values.
LEMMA NewestAreHighest ==
    ASSUME NEW T, NEW list \in Seq(T), NEW n \in Nat \ {0}, NEW value, \A i \in 1 .. Len(list) : value[i] \in Nat,
           \A i, j \in 1 .. Len(list) : i < j => value[i] < value[j]
    PROVE  \E cut \in 0 .. Len(list) : EndsWith(Newest(list, n), list, Len(list), value, n, cut)
<1>1. PICK m \in Nat : m = Len(list)
  BY LenProperties
<1>2. PICK cut \in 0 .. m :
        /\ cut = IF m < n THEN 0 ELSE m - n
        /\ Newest(list, n) \in Seq(T) /\ Len(Newest(list, n)) = m - cut
        /\ \A i \in 1 .. m - cut : Newest(list, n)[i] = list[cut + i]
  <2>1. PICK cut \in 0 .. Len(list) : Follows(Newest(list, n), list, Len(list), n, T, cut)
    BY NewestEntries
  <2> QED
    BY <1>1, <2>1 DEF Follows
<1>5. /\ Newest(list, n) \in Seq(T) /\ Len(Newest(list, n)) = m - cut
      /\ \A i \in 1 .. m - cut : Newest(list, n)[i] = list[cut + i]
  BY <1>2
<1> DEFINE all == {value[i] : i \in 1 .. m}
<1>6. \A i, j \in 1 .. m : value[i] \in Nat /\ (i < j => value[i] < value[j])
  BY <1>1
<1>7. ASSUME NEW i \in 1 .. m PROVE Cardinality({e \in all : e > value[i]}) = m - i
  <2>1. {e \in all : e > value[i]} = {value[j] : j \in i + 1 .. m}
    <3>1. ASSUME NEW j \in 1 .. m PROVE value[j] > value[i] <=> j \in i + 1 .. m
      <4>1. CASE j < i
        BY <1>6, <3>1, <4>1
      <4>2. CASE j = i
        BY <1>6, <3>1, <4>2
      <4>3. CASE i < j
        BY <1>6, <3>1, <4>3
      <4> QED
        BY <4>1, <4>2, <4>3
    <3>2. \A j \in i + 1 .. m : j \in 1 .. m
      OBVIOUS
    <3> QED
      BY <3>1, <3>2
  <2>2. \A h, j \in i + 1 .. m : h # j => value[h] # value[j]
    <3> SUFFICES ASSUME NEW h \in i + 1 .. m, NEW j \in i + 1 .. m, h # j PROVE value[h] # value[j]
      OBVIOUS
    <3>1. h \in 1 .. m /\ j \in 1 .. m /\ (h < j \/ j < h)
      OBVIOUS
    <3> QED
      BY <1>6, <3>1
  <2>3. Cardinality({value[j] : j \in i + 1 .. m}) = IF i + 1 > m THEN 0 ELSE m - (i + 1) + 1
    <3>1. i + 1 \in Int /\ m \in Int
      OBVIOUS
    <3> QED
      BY <2>2, <3>1, ImageCount
  <2>4. Cardinality({value[j] : j \in i + 1 .. m}) = m - i
    BY <2>3
  <2> QED
    BY <2>1, <2>4, Zenon
<1>8. {value[i] : i \in cut + 1 .. m} = Highest(all, n)
  <2>1. \A i \in 1 .. m : value[i] \in Highest(all, n) <=> m - i < n
    BY <1>7 DEF Highest
  <2>2. \A i \in 1 .. m : m - i < n <=> i \in cut + 1 .. m
    BY <1>2
  <2>3. \A d \in Highest(all, n) : \E i \in 1 .. m : d = value[i]
    BY DEF Highest
  <2>4. \A i \in cut + 1 .. m : i \in 1 .. m
    OBVIOUS
  <2> HIDE DEF all
  <2> QED
    BY <2>1, <2>2, <2>3, <2>4
<1>9. Cardinality({value[i] : i \in cut + 1 .. m}) = m - cut
  <2>1. \A i, j \in cut + 1 .. m : i # j => value[i] # value[j]
    <3> SUFFICES ASSUME NEW i \in cut + 1 .. m, NEW j \in cut + 1 .. m, i # j PROVE value[i] # value[j]
      OBVIOUS
    <3>1. i \in 1 .. m /\ j \in 1 .. m /\ (i < j \/ j < i)
      OBVIOUS
    <3> QED
      BY <1>6, <3>1
  <2>2. cut + 1 \in Int /\ m \in Int
    OBVIOUS
  <2>3. Cardinality({value[i] : i \in cut + 1 .. m}) = IF cut + 1 > m THEN 0 ELSE m - (cut + 1) + 1
    BY <2>1, <2>2, ImageCount
  <2> QED
    BY <2>3
<1>10. PICK newest : newest = Newest(list, n)
  OBVIOUS
<1>11. DOMAIN newest = 1 .. m - cut /\ Len(newest) = m - cut /\ \A i \in 1 .. m - cut : newest[i] = list[cut + i]
  BY <1>5, <1>10, LenProperties
<1>12. Cardinality(Highest(all, n)) = m - cut
  BY <1>8, <1>9
<1>13. EndsWith(newest, list, m, value, n, cut)
  BY <1>8, <1>11, <1>12 DEF EndsWith
<1> QED
  BY <1>1, <1>10, <1>13

-----------------------------------------------------------------------------
(* Orders made of others, and what a sort begins with *)

\* The places that one list of figures puts before the others, larger first.
ByFigure(value, places) == {p \in places \X places : value[p[1]] > value[p[2]]}

LEMMA FigureOrders ==
    ASSUME NEW places, NEW value, \A i \in places : value[i] \in Int
    PROVE  WeaklyOrders(ByFigure(value, places), places)
BY DEF WeaklyOrders, ByFigure

\* One order, and a second for those that the first leaves open.
Then(first, second, places) ==
    {p \in places \X places : p \in first \/ (p \notin first /\ <<p[2], p[1]>> \notin first /\ p \in second)}

LEMMA ThenOrders ==
    ASSUME NEW places, NEW first, WeaklyOrders(first, places), NEW second, WeaklyOrders(second, places)
    PROVE  WeaklyOrders(Then(first, second, places), places)
<1> DEFINE Before(i, j) == <<i, j>> \in first \/ (<<i, j>> \notin first /\ <<j, i>> \notin first /\ <<i, j>> \in second)
<1>1. \A i, j \in places : <<i, j>> \in Then(first, second, places) <=> Before(i, j)
  BY DEF Then
<1>2. \A i \in places : ~Before(i, i)
  BY DEF WeaklyOrders
<1>3. ASSUME NEW h \in places, NEW i \in places, NEW j \in places, Before(h, i), Before(i, j)
      PROVE  Before(h, j)
  BY <1>3, Zenon DEF WeaklyOrders
<1>4. ASSUME NEW h \in places, NEW i \in places, NEW j \in places, Before(h, j)
      PROVE  Before(h, i) \/ Before(i, j)
  BY <1>4, Zenon DEF WeaklyOrders
<1> HIDE DEF Before
<1> QED
  BY <1>1, <1>2, <1>3, <1>4, Zenon DEF WeaklyOrders

\* A list with the entries of another, of which the first is preceded by nothing.
SameEntries(list, seq, n) ==
    /\ list = [k \in 1 .. n |-> list[k]]
    /\ \A i \in 1 .. n : \E k \in 1 .. n : list[k] = seq[i]
    /\ \A k \in 1 .. n : \E i \in 1 .. n : list[k] = seq[i]
StartsWithFirst(list, seq, precedes, n) ==
    n > 0 => \E k \in 1 .. n : list[1] = seq[k] /\ \A j \in 1 .. n : <<j, k>> \notin precedes

LEMMA FirstArranged ==
    ASSUME NEW n \in Nat, NEW seq, DOMAIN seq = 1 .. n, NEW precedes, WeaklyOrders(precedes, 1 .. n)
    PROVE  /\ SameEntries(Arranged(seq, precedes), seq, n)
           /\ StartsWithFirst(Arranged(seq, precedes), seq, precedes, n)
<1>1. PICK order : Arranges(Arranged(seq, precedes), seq, precedes, n, order)
  BY Arrangement
<1>2. PICK list : list = Arranged(seq, precedes)
  OBVIOUS
<1>3. /\ order \in [1 .. n -> 1 .. n] /\ list = [k \in 1 .. n |-> seq[order[k]]]
      /\ \A i \in 1 .. n : \E k \in 1 .. n : order[k] = i
      /\ \A j, k \in 1 .. n : j < k => <<order[k], order[j]>> \notin precedes
  BY <1>1, <1>2 DEF Arranges
<1>4. \A i \in 1 .. n : <<i, i>> \notin precedes
  BY DEF WeaklyOrders
<1>5. ASSUME n > 0
      PROVE  /\ order[1] \in 1 .. n /\ list[1] = seq[order[1]]
             /\ \A j \in 1 .. n : <<j, order[1]>> \notin precedes
  <2>1. 1 \in 1 .. n
    BY <1>5
  <2>2. ASSUME NEW j \in 1 .. n PROVE <<j, order[1]>> \notin precedes
    <3>1. PICK k \in 1 .. n : order[k] = j
      BY <1>3
    <3>2. CASE k = 1
      BY <1>3, <1>4, <2>1, <3>1, <3>2
    <3>3. CASE k # 1
      <4>1. 1 < k
        BY <3>3
      <4> QED
        BY <1>3, <2>1, <3>1, <4>1
    <3> QED
      BY <3>2, <3>3
  <2> QED
    BY <1>3, <2>1, <2>2
<1>6. \A i \in 1 .. n : \E k \in 1 .. n : list[k] = seq[i]
  <2>1. ASSUME NEW i \in 1 .. n PROVE \E k \in 1 .. n : list[k] = seq[i]
    <3>1. PICK k \in 1 .. n : order[k] = i
      BY <1>3
    <3>2. list[k] = seq[i]
      BY <1>3, <3>1
    <3> QED
      BY <3>2
  <2> QED
    BY <2>1
<1>7. \A k \in 1 .. n : order[k] \in 1 .. n /\ list[k] = seq[order[k]]
  BY <1>3
<1>8. list = [k \in 1 .. n |-> list[k]]
  BY <1>3
<1> QED
  BY ONLY <1>2, <1>5, <1>6, <1>7, <1>8 DEF SameEntries, StartsWithFirst

\* What comes first of the entries of a sort that pass a test is preceded by no other that does.
KeepsFirst(list, seq, passing, precedes, n, m) ==
    /\ list = [k \in 1 .. m |-> list[k]]
    /\ m > 0 <=> \E j \in 1 .. n : seq[j] \in passing
    /\ m > 0 => \E k \in 1 .. n : /\ list[1] = seq[k] /\ seq[k] \in passing
                                  /\ \A j \in 1 .. n : seq[j] \in passing => <<j, k>> \notin precedes

LEMMA FirstFiltered ==
    ASSUME NEW n \in Nat, NEW seq, DOMAIN seq = 1 .. n, NEW precedes, WeaklyOrders(precedes, 1 .. n),
           NEW sorted, sorted = Arranged(seq, precedes), NEW passing,
           NEW places, places = {i \in 1 .. n : sorted[i] \in passing}
    PROVE  \E m \in Nat : KeepsFirst(Filtered(sorted, places), seq, passing, precedes, n, m)
<1>1. PICK order : Arranges(sorted, seq, precedes, n, order)
  BY Arrangement
<1>2. /\ order \in [1 .. n -> 1 .. n] /\ sorted = [k \in 1 .. n |-> seq[order[k]]]
      /\ \A i \in 1 .. n : \E k \in 1 .. n : order[k] = i
      /\ \A j, k \in 1 .. n : j < k => <<order[k], order[j]>> \notin precedes
  BY <1>1 DEF Arranges
<1>3. \A i \in 1 .. n : <<i, i>> \notin precedes
  BY DEF WeaklyOrders
<1>4. places \in SUBSET (1 .. n)
  OBVIOUS
<1>5. PICK m \in Nat : \E kept : Keeps(Filtered(sorted, places), sorted, places, m, kept)
  BY <1>4, Filters
<1>6. PICK kept : Keeps(Filtered(sorted, places), sorted, places, m, kept)
  BY <1>5
<1>7. PICK list : list = Filtered(sorted, places)
  OBVIOUS
<1>8. /\ kept \in [1 .. m -> places] /\ list = [k \in 1 .. m |-> sorted[kept[k]]]
      /\ \A i \in places : \E k \in 1 .. m : kept[k] = i
      /\ \A j, k \in 1 .. m : j < k => kept[j] < kept[k]
  BY <1>6, <1>7 DEF Keeps
<1>9. ASSUME m > 0
      PROVE  \E k \in 1 .. n : /\ list[1] = seq[k] /\ seq[k] \in passing
                               /\ \A j \in 1 .. n : seq[j] \in passing => <<j, k>> \notin precedes
  <2>1. 1 \in 1 .. m
    BY <1>9
  <2>2. PICK first \in places : first = kept[1]
    BY <1>8, <2>1
  <2>3. first \in 1 .. n /\ sorted[first] \in passing /\ sorted[first] = seq[order[first]] /\ order[first] \in 1 .. n
    BY <1>2, <2>2
  <2>4. list[1] = seq[order[first]]
    BY <1>8, <2>1, <2>2, <2>3
  <2>5. ASSUME NEW j \in 1 .. n, seq[j] \in passing
        PROVE  <<j, order[first]>> \notin precedes
    <3>1. PICK q \in 1 .. n : order[q] = j
      BY <1>2
    <3>2. q \in places
      BY <1>2, <2>5, <3>1
    <3>3. PICK k \in 1 .. m : kept[k] = q
      BY <1>8, <3>2
    <3>4. CASE k = 1
      BY <1>3, <2>2, <2>3, <3>1, <3>3, <3>4
    <3>5. CASE k # 1
      <4>1. first < q
        BY <1>8, <2>1, <2>2, <3>3, <3>5
      <4> QED
        BY <1>2, <2>3, <3>1, <4>1
    <3> QED
      BY <3>4, <3>5
  <2> QED
    BY <2>3, <2>4, <2>5
<1>10. ASSUME NEW j \in 1 .. n, seq[j] \in passing PROVE m > 0
  <2>1. PICK q \in 1 .. n : order[q] = j
    BY <1>2
  <2>2. q \in places
    BY <1>2, <1>10, <2>1
  <2> QED
    BY <1>8, <2>2
<1> QED
  BY <1>7, <1>8, <1>9, <1>10 DEF KeepsFirst

=============================================================================
