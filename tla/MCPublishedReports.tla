-------------------------- MODULE MCPublishedReports --------------------------
(***************************************************************************)
(* PublishedReports on two geographies with two extracts each, of which    *)
(* the limits, scaled down to one district, separate a listed district     *)
(* from the others, a month that is left out from one with no filings, an  *)
(* empty court from a busy one, and a district that comes and goes.  Pages *)
(* are opened of the geography where districts come and go.                *)
(***************************************************************************)
EXTENDS PublishedReports

CONSTANTS East, West

Registry == <<East, West>>

Figures(pending, filed, cleared, ages) == [pending |-> pending, filed |-> filed, cleared |-> cleared, ages |-> ages]
Young == <<6, 2, 0, 0, 0>>
Old == <<1, 1, 1, 3, 2>>
NoAges == <<0, 0, 0, 0, 0>>
District(id, row) == [id |-> id, row |-> row]

\* Two districts; the first is larger, and both fall behind.
Growing ==
    [state |-> Figures(240, 100, 70, Young), expectedDistrictCount |-> 2, isStale |-> FALSE,
     districts |-> <<District(1, Figures(150, 60, 40, Young)), District(2, Figures(90, 40, 30, Old))>>]
\* The second is larger; the first reports no month, though the state does.
Silent ==
    [state |-> Figures(200, 50, 60, Old), expectedDistrictCount |-> 2, isStale |-> TRUE,
     districts |-> <<District(1, Figures(80, 0, 0, Old)), District(2, Figures(120, 50, 60, Young))>>]
\* One district, clearances without filings, and no month or ages for the state.
Single ==
    [state |-> Figures(100, 0, 0, NoAges), expectedDistrictCount |-> 1, isStale |-> FALSE,
     districts |-> <<District(1, Figures(100, 0, 5, NoAges))>>]
\* Nothing pending at all; the source lists an empty district first.
Empty ==
    [state |-> Figures(0, 0, 0, NoAges), expectedDistrictCount |-> 2, isStale |-> FALSE,
     districts |-> <<District(2, Figures(0, 0, 0, NoAges)), District(1, Figures(0, 10, 10, Young))>>]

Sources == (East :> {Silent, Single}) @@ (West :> {Growing, Empty})
Opened == {East}

=============================================================================
