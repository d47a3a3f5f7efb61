-------------------------------- MODULE Sorting --------------------------------
(***************************************************************************)
(* Array.prototype.sort and filter as the services and the pages use them, *)
(* by ranks instead of by recursion: the element at a place is the one     *)
(* that has as many others before it.                                      *)
(***************************************************************************)
EXTENDS Integers, Sequences, FiniteSets

\* The members of a set in an order, given as the pairs of which the first comes
\* before the second, and the entries at places listed so.  SubSeq changes nothing:
\* it has TLC evaluate a list once, and not at every use of an entry.
Below(x, members, before) == {y \in members : <<y, x>> \in before}
Ranked(members, before) ==
    LET n == Cardinality(members)
    IN  SubSeq([k \in 1 .. n |-> CHOOSE x \in members : Cardinality(Below(x, members, before)) = k - 1], 1, n)
EntriesAt(seq, order) == SubSeq([k \in DOMAIN order |-> seq[order[k]]], 1, Len(order))

\* The sort is stable: smaller values come before, and of equal ones the earlier.
ByValue(indexes, values) ==
    {p \in indexes \X indexes :
        values[p[1]] < values[p[2]] \/ (values[p[1]] = values[p[2]] /\ p[1] < p[2])}
Ascending(indexes, values) == Ranked(indexes, ByValue(indexes, values))

\* A filter: the entries at some places, or those that pass a test.
Filtered(seq, places) == EntriesAt(seq, Ascending(places, [i \in places |-> i]))
Where(seq, Test(_)) == Filtered(seq, {i \in DOMAIN seq : Test(seq[i])})

\* slice(-n)
Newest(seq, n) == SubSeq(seq, IF Len(seq) < n THEN 1 ELSE Len(seq) - n + 1, Len(seq))

\* The sort by a comparator, of which precedes holds the pairs of places it orders;
\* those it leaves open stay as they are.
Stably(places, precedes) ==
    {p \in places \X places : p \in precedes \/ (<<p[2], p[1]>> \notin precedes /\ p[1] < p[2])}
Arranged(seq, precedes) == EntriesAt(seq, Ranked(DOMAIN seq, Stably(DOMAIN seq, precedes)))
StableSort(seq, Precedes(_, _)) ==
    Arranged(seq, {p \in (DOMAIN seq) \X (DOMAIN seq) : Precedes(seq[p[1]], seq[p[2]])})

=============================================================================
