-------------------------- MODULE ReleaseChecksProofs --------------------------
(***************************************************************************)
(* Proofs about ReleaseChecks, for any number of operators, requests and   *)
(* rows: what an operator is told is what was done, a run is released      *)
(* twice only by handlers that overlapped, and a digest is of its release. *)
(* The scripts, Cloudflare and its copies do not matter to any of it, so   *)
(* the invariant is about the tables, the requests and the digests alone.  *)
(*                                                                         *)
(* Then, what is at Cloudflare after a release and what the scripts are    *)
(* given, for any districts, batches and copies.  A purge is a list cut in *)
(* batches: after the n-th answered call nothing of the first n batches is *)
(* left, every download is in some batch, and nothing that no cache may    *)
(* keep comes back.  A state's statistics come from the site itself, and   *)
(* the router finds the state that the builder wrote.                      *)
(*                                                                         *)
(* Last, the site.  The builders write addresses, the router takes them    *)
(* apart: every page, link, purged path and target of a verification of    *)
(* what is released is answered, and no page is left without a link.       *)
(***************************************************************************)
EXTENDS ReleaseChecks, SequenceTheorems, FiniteSetTheorems, WellFoundedInduction, TLAPS

Early == {"sent", "capturing", "copying", "building", "validating", "committing", "restoring"}
Step == Early \cup {"purging", "digesting", "done"}
Releasing == {"publish", "replay", "rollback"}
Unreleased == {"pending", "completed"}
Both == {"raw", "candidate"}

RequestRow ==
    [via : {"http", "cli"}, op : Operations, scope : Scopes, target : Nat, token : BOOLEAN, step : Step,
     run : Nat, released : Nat, batch : Nat, status : Nat, after : SUBSET Nat]

TypeInv ==
    /\ runs \in Seq(RunRow) /\ publications \in Seq(PublicationRow)
    /\ requests \in Seq(RequestRow)

\* Each step belongs to certain operations; who is refused is left an "inspect".
Fits(q) ==
    /\ q.step = "capturing" => q.op = "fetch"
    /\ q.step = "copying" => q.op = "replay"
    /\ q.step = "building" => q.op \in {"fetch", "replay"} /\ q.run # None
    /\ q.step \in {"validating", "committing"} => q.op = "publish" \/ (q.op = "replay" /\ q.run # None)
    /\ q.step = "restoring" => q.op = "rollback"
    /\ q.step = "purging" => q.op \in Releasing \cup {"purge"}
    /\ q.step = "digesting" => q.op = "publish" /\ q.status = 201
    /\ q.step \notin {"digesting", "done"} => q.status = 0
    /\ q.status \in {200, 401, 404, 503} => q.op = "inspect"
    /\ q.run # None => q.op \in {"fetch", "replay"}
    /\ q.step \in {"sent", "capturing", "copying"} => q.run = None
    /\ q.op = "purge" => q.via = "cli"

\* The run a handler inserted is its own, and pending until it completes it.
OwnRun(r) ==
    /\ requests[r].run # None =>
         /\ requests[r].run \in DOMAIN runs
         /\ runs[requests[r].run].by = r
         /\ runs[requests[r].run].scope = requests[r].scope
         /\ requests[r].op = "replay" => runs[requests[r].run].replayOf = requests[r].target
         /\ requests[r].step = "building" => runs[requests[r].run].status = "pending"
    /\ requests[r].op = "fetch" /\ requests[r].status = 201 =>
         requests[r].run # None /\ runs[requests[r].run].artifacts = Both

\* What a handler looked up is in the table of its scope.
KnownTarget(r) ==
    /\ requests[r].step \in {"validating", "committing"} /\ requests[r].op = "publish" =>
         requests[r].target \in DOMAIN runs /\ runs[requests[r].target].scope = requests[r].scope
    /\ requests[r].step = "building" /\ requests[r].op = "replay" => requests[r].target \in DOMAIN runs
    /\ requests[r].step = "restoring" =>
         requests[r].target \in DOMAIN publications
         /\ publications[requests[r].target].scope = requests[r].scope

\* A publication of the run by somebody who had not been answered before "r" was sent.
Overlaps(p, r) == publications[p].by # None /\ publications[p].by \notin requests[r].after
\* Between the validation and the transaction only handlers that overlap can have released the run.
Commits(r) ==
    requests[r].step = "committing" =>
      /\ runs[Published(r)].status # "pending"
      /\ \A p \in DOMAIN publications :
           publications[p].action = "publish" /\ publications[p].run = Published(r) => Overlaps(p, r)

AfterIsDone(r) == \A s \in requests[r].after : s \in DOMAIN requests /\ requests[s].step = "done"
HasReleased(r) ==
    /\ requests[r].step \in {"purging", "digesting"} \/ requests[r].status = 201
    /\ requests[r].op \in Releasing
    => \E p \in DOMAIN publications : publications[p].by = r

RequestOk(r) ==
    /\ Fits(requests[r]) /\ OwnRun(r) /\ KnownTarget(r)
    /\ Commits(r) /\ AfterIsDone(r) /\ HasReleased(r)

RunOk(i) ==
    runs[i].by # None =>
      /\ runs[i].by \in DOMAIN requests
      /\ requests[runs[i].by].op \in {"fetch", "replay"} /\ requests[runs[i].by].step # "sent"

PublicationOk(p) ==
    /\ publications[p].run \in DOMAIN runs
    /\ publications[p].scope = runs[publications[p].run].scope
    /\ publications[p].action = "publish" => runs[publications[p].run].status \notin Unreleased
    /\ publications[p].by # None =>
         /\ publications[p].by \in DOMAIN requests
         /\ requests[publications[p].by].op \in Releasing
         /\ requests[publications[p].by].step \notin Early
         /\ requests[publications[p].by].op = "rollback" =>
              requests[publications[p].by].target \in DOMAIN publications
         /\ EffectOf(publications[p].by, p)

\* No two publications of one request, and two of one run only by handlers that overlapped.
Pair(p, q) ==
    /\ publications[p].by = publications[q].by /\ publications[p].by # None => p = q
    /\ /\ publications[p].action = "publish" /\ publications[q].action = "publish"
       /\ publications[p].run = publications[q].run /\ p < q
       => publications[q].by # None /\ Overlaps(p, publications[q].by)

DigestOk(d) ==
    /\ d.request \in DOMAIN requests
    /\ requests[d.request].step = "done" /\ requests[d.request].status = 201
    /\ \E p \in DOMAIN publications :
         /\ publications[p].by = d.request
         /\ \/ d.snapshot = publications[p].snapshot
            \/ \E later \in DOMAIN publications :
                 later > p /\ publications[later].scope = publications[p].scope
                   /\ publications[later].snapshot = d.snapshot

IInv ==
    /\ TypeInv
    /\ \A r \in DOMAIN requests : RequestOk(r)
    /\ \A i \in DOMAIN runs : RunOk(i)
    /\ \A p \in DOMAIN publications : PublicationOk(p)
    /\ \A p, q \in DOMAIN publications : Pair(p, q)
    /\ \A d \in digests : DigestOk(d)
    /\ \A d, e \in digests : d.request = e.request => d = e

-----------------------------------------------------------------------------
(* What one request may do to the rest *)

\* What EffectOf says of each operation that releases.
LEMMA EffectCases ==
    ASSUME NEW r, NEW p, requests[r].op \in Releasing
    PROVE  EffectOf(r, p) <=>
             /\ publications[p].scope = requests[r].scope
             /\ publications[p].scope = runs[publications[p].run].scope
             /\ requests[r].op = "publish" =>
                  publications[p].action = "publish" /\ publications[p].run = requests[r].target
             /\ requests[r].op = "replay" =>
                  publications[p].action = "publish" /\ runs[publications[p].run].replayOf = requests[r].target
             /\ requests[r].op = "rollback" =>
                  /\ publications[p].action = "rollback"
                  /\ publications[p].snapshot = publications[requests[r].target].snapshot
BY DEF EffectOf, Releasing

\* Tables grow by rows of request "r", and the runs of the others stay as they are.
RunsGrow(r) ==
    /\ DOMAIN runs \subseteq DOMAIN runs'
    /\ \A i \in DOMAIN runs :
         /\ runs'[i].scope = runs[i].scope /\ runs'[i].replayOf = runs[i].replayOf /\ runs'[i].by = runs[i].by
         /\ runs[i].artifacts \subseteq runs'[i].artifacts
         /\ runs[i].status # "pending" => runs'[i].status # "pending"
         /\ runs[i].status = "pending" /\ runs[i].by # r => runs'[i].status = "pending"
         /\ (\E p \in DOMAIN publications : publications[p].action = "publish" /\ publications[p].run = i)
              => runs'[i].status \notin Unreleased
PublicationsGrow(r) ==
    /\ DOMAIN publications \subseteq DOMAIN publications'
    /\ \A p \in DOMAIN publications : publications'[p] = publications[p]
    /\ \A p \in DOMAIN publications' \ DOMAIN publications : publications'[p].by = r
RequestMoves(r) ==
    /\ r \in Nat \ {0}
    /\ DOMAIN requests' = DOMAIN requests \cup {r}
    /\ \A s \in DOMAIN requests \ {r} : requests'[s] = requests[s]
    /\ r \in DOMAIN requests =>
         /\ requests[r].step # "done"
         /\ requests'[r].step # "sent" /\ requests'[r].after = requests[r].after
         /\ requests[r].step # "sent" =>
              /\ requests'[r].op = requests[r].op /\ requests'[r].scope = requests[r].scope
              /\ requests'[r].target = requests[r].target
         /\ requests[r].step \notin Early => requests'[r].step \notin Early
Moves(r) == TypeInv' /\ RunsGrow(r) /\ PublicationsGrow(r) /\ RequestMoves(r)

LEMMA OtherRequests ==
    ASSUME IInv, NEW r, Moves(r), NEW s \in DOMAIN requests, s # r
    PROVE  RequestOk(s)'
<1>1. requests'[s] = requests[s] /\ RequestOk(s) /\ s \in DOMAIN requests'
  BY DEF IInv, Moves, RequestMoves
<1>2. Fits(requests[s])'
  BY <1>1 DEF RequestOk
<1>3. OwnRun(s)'
  <2>1. ASSUME requests[s].run # None
        PROVE  /\ requests[s].run \in DOMAIN runs'
               /\ runs'[requests[s].run].by = s
               /\ runs'[requests[s].run].scope = requests[s].scope
               /\ runs'[requests[s].run].replayOf = runs[requests[s].run].replayOf
               /\ runs[requests[s].run].status = "pending" => runs'[requests[s].run].status = "pending"
               /\ runs[requests[s].run].artifacts = Both => runs'[requests[s].run].artifacts = Both
    <3>1. requests[s].run \in DOMAIN runs /\ runs[requests[s].run].by = s
      BY <1>1, <2>1 DEF RequestOk, OwnRun
    <3>2. runs'[requests[s].run].artifacts \in SUBSET Both
      <4>1. runs' \in Seq(RunRow) /\ requests[s].run \in DOMAIN runs'
        BY <3>1 DEF Moves, TypeInv, RunsGrow
      <4>2. runs'[requests[s].run] \in RunRow
        BY <4>1
      <4> QED
        BY <4>2 DEF RunRow, Both
    <3> QED
      BY <1>1, <2>1, <3>1, <3>2 DEF RequestOk, OwnRun, Moves, RunsGrow
  <2> QED
    BY <1>1, <2>1 DEF RequestOk, OwnRun
<1>4. KnownTarget(s)'
  BY <1>1 DEF RequestOk, KnownTarget, Moves, RunsGrow, PublicationsGrow
<1>5. AfterIsDone(s)' /\ r \notin requests[s].after
  BY <1>1 DEF RequestOk, AfterIsDone, Moves, RequestMoves
<1>6. Commits(s)'
  <2> SUFFICES ASSUME requests[s].step = "committing"
               PROVE  /\ runs'[Published(s)].status # "pending"
                      /\ \A p \in DOMAIN publications' :
                           publications'[p].action = "publish" /\ publications'[p].run = Published(s)
                           => Overlaps(p, s)'
    BY <1>1 DEF Commits, Published
  <2>1. Published(s) \in DOMAIN runs
    BY <1>1 DEF RequestOk, Fits, OwnRun, KnownTarget, Published
  <2>2. runs'[Published(s)].status # "pending"
    BY <1>1, <2>1 DEF RequestOk, Commits, Moves, RunsGrow
  <2>3. ASSUME NEW p \in DOMAIN publications',
               publications'[p].action = "publish", publications'[p].run = Published(s)
        PROVE  Overlaps(p, s)'
    BY <1>1, <1>5, <2>3 DEF RequestOk, Commits, Overlaps, Moves, PublicationsGrow, RequestMoves, None
  <2> QED
    BY <2>2, <2>3
<1>7. HasReleased(s)'
  BY <1>1 DEF RequestOk, HasReleased, Moves, PublicationsGrow
<1> QED
  BY <1>2, <1>3, <1>4, <1>5, <1>6, <1>7 DEF RequestOk

LEMMA OldRuns ==
    ASSUME IInv, NEW r, Moves(r), NEW i \in DOMAIN runs
    PROVE  RunOk(i)'
<1>1. RunOk(i) /\ runs'[i].by = runs[i].by
  BY DEF IInv, Moves, RunsGrow
<1> QED
  BY <1>1 DEF RunOk, Moves, RequestMoves

LEMMA OldPublications ==
    ASSUME IInv, NEW r, Moves(r), NEW p \in DOMAIN publications
    PROVE  PublicationOk(p)'
<1>1. PublicationOk(p) /\ publications'[p] = publications[p] /\ p \in DOMAIN publications'
  BY DEF IInv, Moves, PublicationsGrow
<1>2. /\ publications[p].run \in DOMAIN runs'
      /\ publications[p].scope = runs'[publications[p].run].scope
      /\ publications[p].action = "publish" => runs'[publications[p].run].status \notin Unreleased
      /\ runs'[publications[p].run].replayOf = runs[publications[p].run].replayOf
      /\ runs'[publications[p].run].scope = runs[publications[p].run].scope
  BY <1>1 DEF PublicationOk, Moves, RunsGrow
<1>3. ASSUME publications[p].by # None
      PROVE  /\ publications[p].by \in DOMAIN requests'
             /\ requests'[publications[p].by].step \notin Early
             /\ requests'[publications[p].by].op = requests[publications[p].by].op
             /\ requests'[publications[p].by].scope = requests[publications[p].by].scope
             /\ requests'[publications[p].by].target = requests[publications[p].by].target
  BY <1>1, <1>3 DEF PublicationOk, Moves, RequestMoves, Early
<1>4. ASSUME publications[p].by # None
      PROVE  /\ requests[publications[p].by].op = "rollback" =>
                  /\ requests[publications[p].by].target \in DOMAIN publications'
                  /\ publications'[requests[publications[p].by].target] = publications[requests[publications[p].by].target]
             /\ EffectOf(publications[p].by, p)
  BY <1>1, <1>4 DEF PublicationOk, Moves, PublicationsGrow
<1>5. ASSUME publications[p].by # None PROVE EffectOf(publications[p].by, p)'
  <2>1. requests[publications[p].by].op \in Releasing /\ requests'[publications[p].by].op \in Releasing
    BY <1>1, <1>3, <1>5 DEF PublicationOk
  <2>0. PICK r0 : r0 = publications[p].by
    OBVIOUS
  <2>2. EffectOf(r0, p)
    BY <1>4, <1>5, <2>0
  <2>3. /\ publications[p].scope = requests[r0].scope
        /\ requests[r0].op = "publish" => publications[p].action = "publish" /\ publications[p].run = requests[r0].target
        /\ requests[r0].op = "replay" =>
             publications[p].action = "publish" /\ runs[publications[p].run].replayOf = requests[r0].target
        /\ requests[r0].op = "rollback" =>
             publications[p].action = "rollback" /\ publications[p].snapshot = publications[requests[r0].target].snapshot
    BY <2>0, <2>1, <2>2, EffectCases
  <2>4. EffectOf(r0, p)'
    <3>1. /\ publications'[p].scope = requests'[r0].scope
          /\ publications'[p].scope = runs'[publications'[p].run].scope
          /\ requests'[r0].op = "publish" => publications'[p].action = "publish" /\ publications'[p].run = requests'[r0].target
          /\ requests'[r0].op = "replay" =>
               publications'[p].action = "publish" /\ runs'[publications'[p].run].replayOf = requests'[r0].target
          /\ requests'[r0].op = "rollback" =>
               publications'[p].action = "rollback" /\ publications'[p].snapshot = publications'[requests'[r0].target].snapshot
      BY <1>1, <1>2, <1>3, <1>4, <1>5, <2>0, <2>3
    <3>2. requests'[r0].op \in Releasing
      BY <2>0, <2>1
    <3> QED
      BY <3>1, <3>2 DEF EffectOf, Releasing
  <2> QED
    BY <1>1, <2>0, <2>4
<1>6. publications[p].by # None /\ requests'[publications[p].by].op = "rollback"
        => requests'[publications[p].by].target \in DOMAIN publications'
  BY <1>3, <1>4
<1>7. publications[p].by # None => requests'[publications[p].by].op \in Releasing
  BY <1>1, <1>3 DEF PublicationOk
<1> QED
  BY <1>1, <1>2, <1>3, <1>5, <1>6, <1>7 DEF PublicationOk

LEMMA OldPairs ==
    ASSUME IInv, NEW r, Moves(r), NEW p \in DOMAIN publications, NEW q \in DOMAIN publications
    PROVE  Pair(p, q)'
<1>1. Pair(p, q) /\ PublicationOk(q) /\ publications'[p] = publications[p] /\ publications'[q] = publications[q]
  BY DEF IInv, Moves, PublicationsGrow
<1>2. publications[q].by # None => requests'[publications[q].by].after = requests[publications[q].by].after
  BY <1>1 DEF PublicationOk, Moves, RequestMoves
<1> QED
  BY <1>1, <1>2 DEF Pair, Overlaps

LEMMA OldDigests ==
    ASSUME IInv, NEW r, Moves(r), NEW d \in digests
    PROVE  DigestOk(d)'
<1>1. DigestOk(d)
  BY DEF IInv
<1>2. d.request \in DOMAIN requests' /\ requests'[d.request] = requests[d.request]
  BY <1>1 DEF DigestOk, Moves, RequestMoves
<1>3. PICK p \in DOMAIN publications :
        /\ publications[p].by = d.request
        /\ \/ d.snapshot = publications[p].snapshot
           \/ \E later \in DOMAIN publications :
                later > p /\ publications[later].scope = publications[p].scope
                  /\ publications[later].snapshot = d.snapshot
  BY <1>1 DEF DigestOk
<1>4. /\ DOMAIN publications \subseteq DOMAIN publications'
      /\ \A x \in DOMAIN publications : publications'[x] = publications[x]
  BY DEF Moves, PublicationsGrow
<1> QED
  BY <1>1, <1>2, <1>3, <1>4 DEF DigestOk

\* What is left to show of a step: its own request, and the rows it added.
LEMMA MoveKeepsIInv ==
    ASSUME IInv, NEW r, Moves(r), RequestOk(r)',
           \A i \in DOMAIN runs' \ DOMAIN runs : RunOk(i)',
           \A p \in DOMAIN publications' \ DOMAIN publications :
             PublicationOk(p)' /\ \A q \in DOMAIN publications' : Pair(p, q)' /\ Pair(q, p)',
           \A d \in digests' \ digests : DigestOk(d)',
           \A d, e \in digests' : d.request = e.request => d = e
    PROVE  IInv'
<1>1. \A s \in DOMAIN requests' : RequestOk(s)'
  BY OtherRequests DEF Moves, RequestMoves
<1>2. \A i \in DOMAIN runs' : RunOk(i)'
  BY OldRuns
<1>3. \A p \in DOMAIN publications' : PublicationOk(p)'
  BY OldPublications
<1>4. \A p, q \in DOMAIN publications' : Pair(p, q)'
  BY OldPairs
<1>5. \A d \in digests' : DigestOk(d)'
  BY OldDigests
<1> QED
  BY <1>1, <1>2, <1>3, <1>4, <1>5 DEF IInv, Moves

-----------------------------------------------------------------------------
(* Rows and tables *)

LEMMA RequestAt ==
    ASSUME TypeInv, NEW r \in DOMAIN requests
    PROVE  requests[r] \in RequestRow /\ r \in Nat \ {0} /\ DOMAIN requests = 1..Len(requests)
BY DEF TypeInv

LEMMA RunAt ==
    ASSUME TypeInv, NEW i \in DOMAIN runs
    PROVE  runs[i] \in RunRow /\ i \in Nat \ {0}
BY DEF TypeInv

LEMMA PublicationAt ==
    ASSUME TypeInv, NEW p \in DOMAIN publications
    PROVE  publications[p] \in PublicationRow /\ p \in Nat \ {0} /\ p <= Len(publications)
BY DEF TypeInv

LEMMA SetRequest ==
    ASSUME TypeInv, NEW r \in DOMAIN requests, NEW row \in RequestRow,
           requests' = [requests EXCEPT ![r] = row]
    PROVE  /\ requests' \in Seq(RequestRow) /\ DOMAIN requests' = DOMAIN requests
           /\ requests'[r] = row
           /\ \A s \in DOMAIN requests \ {r} : requests'[s] = requests[s]
BY DEF TypeInv

LEMMA SetRun ==
    ASSUME TypeInv, NEW i \in DOMAIN runs, NEW row \in RunRow,
           runs' = [runs EXCEPT ![i] = row]
    PROVE  /\ runs' \in Seq(RunRow) /\ DOMAIN runs' = DOMAIN runs
           /\ runs'[i] = row
           /\ \A s \in DOMAIN runs \ {i} : runs'[s] = runs[s]
BY DEF TypeInv

LEMMA AddRun ==
    ASSUME TypeInv, NEW row \in RunRow, runs' = Append(runs, row)
    PROVE  /\ runs' \in Seq(RunRow) /\ DOMAIN runs' = DOMAIN runs \cup {Len(runs) + 1}
           /\ Len(runs) \in Nat /\ Len(runs) + 1 \notin DOMAIN runs
           /\ runs'[Len(runs) + 1] = row
           /\ \A i \in DOMAIN runs : runs'[i] = runs[i]
BY DEF TypeInv

LEMMA AddPublication ==
    ASSUME TypeInv, NEW row \in PublicationRow, publications' = Append(publications, row)
    PROVE  /\ publications' \in Seq(PublicationRow)
           /\ DOMAIN publications' = DOMAIN publications \cup {Len(publications) + 1}
           /\ Len(publications) \in Nat /\ Len(publications) + 1 \notin DOMAIN publications
           /\ \A p \in DOMAIN publications : p < Len(publications) + 1
           /\ publications'[Len(publications) + 1] = row
           /\ \A p \in DOMAIN publications : publications'[p] = publications[p]
BY DEF TypeInv

\* What every step of a handler is: a new row for its request.
Advances(r, row) ==
    /\ row \in RequestRow /\ requests' = [requests EXCEPT ![r] = row]
    /\ requests[r].step # "done" /\ row.step # "sent" /\ row.after = requests[r].after
    /\ requests[r].step # "sent" =>
         row.op = requests[r].op /\ row.scope = requests[r].scope /\ row.target = requests[r].target
    /\ requests[r].step \notin Early => row.step \notin Early

LEMMA AdvanceMoves ==
    ASSUME TypeInv, NEW r \in DOMAIN requests, NEW row, Advances(r, row)
    PROVE  /\ requests' \in Seq(RequestRow) /\ RequestMoves(r) /\ requests'[r] = row
           /\ DOMAIN requests' = DOMAIN requests
<1>1. /\ requests' \in Seq(RequestRow) /\ DOMAIN requests' = DOMAIN requests
      /\ requests'[r] = row
      /\ \A s \in DOMAIN requests \ {r} : requests'[s] = requests[s]
  BY SetRequest DEF Advances
<1>2. r \in Nat \ {0}
  BY RequestAt
<1>3. requests[r].step \notin Early => requests'[r].step \notin Early
  BY <1>1 DEF Advances
<1>4. RequestMoves(r)
  BY <1>1, <1>2, <1>3 DEF Advances, RequestMoves
<1> QED
  BY <1>1, <1>4

\* Nobody that is being served before its release was given a publication.
LEMMA NotYetReleased ==
    ASSUME IInv, NEW r \in DOMAIN requests, requests[r].step \in Early, NEW p \in DOMAIN publications
    PROVE  publications[p].by # r
<1>1. PublicationOk(p) /\ r # None
  BY RequestAt DEF IInv, None
<1> QED
  BY <1>1 DEF PublicationOk

\* Others waited for can be looked up as before: nobody who is done moves again.
LEMMA AfterStays ==
    ASSUME IInv, NEW r \in DOMAIN requests, RequestMoves(r)
    PROVE  AfterIsDone(r)'
BY DEF IInv, RequestOk, AfterIsDone, RequestMoves

-----------------------------------------------------------------------------
(* Steps that change nothing but their request *)

LEMMA Quiet ==
    ASSUME IInv, NEW r \in DOMAIN requests, NEW row, Advances(r, row),
           UNCHANGED <<runs, publications, digests>>,
           Fits(row), OwnRun(r)', KnownTarget(r)', Commits(r)', HasReleased(r)'
    PROVE  IInv'
<1>1. /\ requests' \in Seq(RequestRow) /\ RequestMoves(r) /\ requests'[r] = row
  BY AdvanceMoves DEF IInv
<1>2. Moves(r)
  <2>1. RunsGrow(r)
    BY DEF RunsGrow, IInv, PublicationOk
  <2> QED
    BY <1>1, <2>1 DEF Moves, IInv, TypeInv, PublicationsGrow
<1>3. RequestOk(r)'
  BY <1>1, AfterStays DEF RequestOk
<1> QED
  BY <1>2, <1>3, MoveKeepsIInv DEF IInv

LEMMA AnsweredStep ==
    ASSUME IInv, NEW r \in DOMAIN requests, requests[r].step = "sent",
           NEW status \in Nat, status # 201, requests' = Answered(r, status),
           UNCHANGED <<runs, publications, digests>>
    PROVE  IInv'
<1> DEFINE row == Refusal(status, requests[r].after)
<1>1. requests[r] \in RequestRow
  BY RequestAt DEF IInv
<1>2. row \in RequestRow
  BY <1>1, RoutesAssumption DEF RequestRow, Refusal, Operations, Scopes, Step, None
<1>3. Advances(r, row)
  BY <1>1, <1>2 DEF Advances, Answered, Refusal, Early
<1>4. requests'[r] = row
  BY <1>3, AdvanceMoves DEF IInv
<1>5. Fits(row)
  BY DEF Fits, Refusal, None
<1>6. OwnRun(r)' /\ KnownTarget(r)' /\ Commits(r)' /\ HasReleased(r)'
  BY <1>4 DEF OwnRun, KnownTarget, Commits, HasReleased, Refusal, None, Releasing
<1> QED
  BY <1>3, <1>5, <1>6, Quiet

LEMMA BeginStep ==
    ASSUME IInv, NEW r \in DOMAIN requests, requests[r].step = "sent",
           requests[r].op \in {"fetch", "publish", "replay", "rollback"}, NEW scope \in Scopes,
           requests[r].op = "publish" => requests[r].target \in DOMAIN runs /\ runs[requests[r].target].scope = scope,
           requests[r].op = "rollback" =>
             requests[r].target \in DOMAIN publications /\ publications[requests[r].target].scope = scope,
           Begin(r, scope), UNCHANGED <<runs, publications, digests>>
    PROVE  IInv'
<1> DEFINE row == [requests[r] EXCEPT !.scope = scope, !.step = FirstStep[requests[r].op]]
<1>1. requests[r] \in RequestRow
  BY RequestAt DEF IInv
<1>2. /\ requests[r].op = "fetch" => row.step = "capturing"
      /\ requests[r].op = "publish" => row.step = "validating"
      /\ requests[r].op = "replay" => row.step = "copying"
      /\ requests[r].op = "rollback" => row.step = "restoring"
  BY <1>1 DEF FirstStep, RequestRow
<1>3. /\ row.op = requests[r].op /\ row.target = requests[r].target /\ row.run = requests[r].run
      /\ row.status = requests[r].status /\ row.after = requests[r].after /\ row.scope = scope
  BY <1>1 DEF RequestRow
<1>4. row \in RequestRow
  <2>1. row.step \in Step
    BY <1>2 DEF Step, Early
  <2>2. row = [requests[r] EXCEPT !.scope = scope, !.step = row.step]
    BY <1>1 DEF RequestRow
  <2> QED
    BY <1>1, <2>1, <2>2 DEF RequestRow
<1>5. Advances(r, row)
  <2>1. requests' = [requests EXCEPT ![r] = row]
    BY <1>1 DEF Begin, RequestRow
  <2> QED
    BY <1>2, <1>3, <1>4, <2>1 DEF Advances, Early
<1>6. requests'[r] = row
  BY <1>5, AdvanceMoves DEF IInv
<1>7. row.run = None /\ row.status = 0
  BY <1>3 DEF IInv, RequestOk, Fits
<1> HIDE DEF row
<1>8. Fits(row)
  BY <1>2, <1>3, <1>7 DEF Fits
<1>9. OwnRun(r)' /\ KnownTarget(r)' /\ Commits(r)' /\ HasReleased(r)'
  BY <1>2, <1>3, <1>6, <1>7 DEF OwnRun, KnownTarget, Commits, HasReleased
<1> QED
  BY <1>5, <1>8, <1>9, Quiet

LEMMA DispatchStep ==
    ASSUME IInv, NEW r \in DOMAIN requests, requests[r].step = "sent", requests[r].op # "purge",
           NEW scopes \in SUBSET Scopes, Dispatch(r, scopes), UnchangedButRequests
    PROVE  IInv'
<1>1. requests[r] \in RequestRow
  BY RequestAt DEF IInv
<1>2. UNCHANGED <<runs, publications, digests>>
  BY DEF UnchangedButRequests, serviceVars
<1>3. CASE \E status \in {200, 401, 404, 503} : requests' = Answered(r, status)
  BY <1>2, <1>3, AnsweredStep
<1>4. CASE ~\E status \in {200, 401, 404, 503} : requests' = Answered(r, status)
  <2>1. Turned(r) \in {0, 401, 503}
    BY DEF Turned
  <2>2. requests[r].op \notin Reads /\ \E scope \in ScopesOf(r, scopes) : Begin(r, scope)
    BY <1>4, <2>1 DEF Dispatch
  <2>3. requests[r].op \in {"fetch", "publish", "replay", "rollback"}
    BY <1>1, <2>2 DEF RequestRow, Operations, Reads
  <2>4. PICK scope \in ScopesOf(r, scopes) : Begin(r, scope)
    BY <2>2
  <2>5. /\ scope \in Scopes
        /\ requests[r].op = "rollback" => requests[r].target \in PublicationsOf(scope)
        /\ requests[r].op = "publish" => InspectRun(scope, requests[r].target) # {}
    BY <1>1, <2>3, <2>4 DEF ScopesOf, RequestRow
  <2>6. /\ requests[r].op = "publish" =>
             requests[r].target \in DOMAIN runs /\ runs[requests[r].target].scope = scope
        /\ requests[r].op = "rollback" =>
             requests[r].target \in DOMAIN publications /\ publications[requests[r].target].scope = scope
    BY <2>5 DEF InspectRun, PublicationsOf
  <2> QED
    BY <1>2, <2>3, <2>4, <2>5, <2>6, BeginStep
<1> QED
  BY <1>3, <1>4

LEMMA HttpDispatchStep ==
    ASSUME IInv, NEW r \in DOMAIN requests, LowerDispatch(r) \/ HighCourtDispatch(r) \/ SupremeCourtDispatch(r)
    PROVE  IInv'
<1>1. requests[r].step = "sent" /\ requests[r].op # "purge"
  BY DEF LowerDispatch, HighCourtDispatch, SupremeCourtDispatch, At, IInv, RequestOk, Fits
<1>2. /\ LowerDispatch(r) => Dispatch(r, LowerScopes) /\ UnchangedButRequests
      /\ HighCourtDispatch(r) => Dispatch(r, {requests[r].scope}) /\ UnchangedButRequests
      /\ SupremeCourtDispatch(r) => Dispatch(r, {SupremeCourt}) /\ UnchangedButRequests
  BY DEF LowerDispatch, HighCourtDispatch, SupremeCourtDispatch
<1>3. LowerScopes \in SUBSET Scopes /\ {requests[r].scope} \in SUBSET Scopes /\ {SupremeCourt} \in SUBSET Scopes
  BY RequestAt DEF Scopes, RequestRow, IInv
<1> QED
  BY <1>1, <1>2, <1>3, DispatchStep

\* A command line's purge, and a purge call that was answered.
LEMMA PurgingStep ==
    ASSUME IInv, NEW r \in DOMAIN requests, NEW batch \in Nat,
           requests[r].step = "purging" \/ (requests[r].step = "sent" /\ requests[r].op = "purge"),
           requests' = [requests EXCEPT ![r].step = "purging", ![r].batch = batch],
           UNCHANGED <<runs, publications, digests>>
    PROVE  IInv'
<1> DEFINE row == [requests[r] EXCEPT !.step = "purging", !.batch = batch]
<1>1. requests[r] \in RequestRow /\ RequestOk(r)
  BY RequestAt DEF IInv
<1>2. /\ row.op = requests[r].op /\ row.target = requests[r].target /\ row.run = requests[r].run
      /\ row.status = requests[r].status /\ row.after = requests[r].after /\ row.scope = requests[r].scope
      /\ row.via = requests[r].via /\ row.step = "purging"
  BY <1>1 DEF RequestRow
<1>3. row \in RequestRow
  BY <1>1 DEF RequestRow, Step
<1>4. Advances(r, row)
  <2>1. requests' = [requests EXCEPT ![r] = row]
    BY <1>1 DEF RequestRow
  <2> QED
    BY <1>2, <1>3, <2>1 DEF Advances, Early
<1>5. requests'[r] = row
  BY <1>4, AdvanceMoves DEF IInv
<1> HIDE DEF row
<1>6. Fits(row)
  BY <1>1, <1>2 DEF RequestOk, Fits
<1>7. OwnRun(r)' /\ KnownTarget(r)' /\ Commits(r)' /\ HasReleased(r)'
  BY <1>1, <1>2, <1>5 DEF RequestOk, Fits, OwnRun, KnownTarget, Commits, HasReleased, Releasing, Early
<1> QED
  BY <1>4, <1>6, <1>7, Quiet

LEMMA CliDispatchStep ==
    ASSUME IInv, NEW r \in DOMAIN requests, CliDispatch(r)
    PROVE  IInv'
<1>1. requests[r] \in RequestRow
  BY RequestAt DEF IInv
<1>2. UNCHANGED <<runs, publications, digests>> /\ requests[r].step = "sent"
  BY DEF CliDispatch, UnchangedButRequests, serviceVars, At
<1>3. CASE \E status \in {200, 500} : requests' = Answered(r, status)
  BY <1>2, <1>3, AnsweredStep
<1>4. CASE requests[r].op = "purge" /\ requests' = [requests EXCEPT ![r].step = "purging", ![r].batch = 1]
  BY <1>2, <1>4, PurgingStep
<1>5. CASE /\ requests[r].op \notin Reads \cup {"purge"}
           /\ ScopesOf(r, {requests[r].scope}) # {} /\ Begin(r, requests[r].scope)
  <2>1. requests[r].op \in {"fetch", "publish", "replay", "rollback"} /\ requests[r].scope \in Scopes
    BY <1>1, <1>5 DEF RequestRow, Operations, Reads
  <2>2. /\ requests[r].op = "rollback" => requests[r].target \in PublicationsOf(requests[r].scope)
        /\ requests[r].op = "publish" => InspectRun(requests[r].scope, requests[r].target) # {}
    BY <1>5, <2>1 DEF ScopesOf
  <2>3. /\ requests[r].op = "publish" =>
             requests[r].target \in DOMAIN runs /\ runs[requests[r].target].scope = requests[r].scope
        /\ requests[r].op = "rollback" =>
             requests[r].target \in DOMAIN publications
             /\ publications[requests[r].target].scope = requests[r].scope
    BY <2>2 DEF InspectRun, PublicationsOf
  <2> QED
    BY <1>2, <1>5, <2>1, <2>3, BeginStep
<1> QED
  BY <1>3, <1>4, <1>5 DEF CliDispatch

LEMMA ValidateStep ==
    ASSUME IInv, NEW r \in DOMAIN requests, Validate(r)
    PROVE  IInv'
<1> DEFINE row == [requests[r] EXCEPT !.step = "committing"]
<1>1. requests[r] \in RequestRow /\ RequestOk(r)
  BY RequestAt DEF IInv
<1>2. /\ row.op = requests[r].op /\ row.target = requests[r].target /\ row.run = requests[r].run
      /\ row.status = requests[r].status /\ row.after = requests[r].after /\ row.scope = requests[r].scope
      /\ row.via = requests[r].via /\ row.step = "committing"
  BY <1>1 DEF RequestRow
<1>3. row \in RequestRow
  BY <1>1 DEF RequestRow, Step, Early
<1>4. requests[r].step = "validating" /\ UNCHANGED <<runs, publications, digests>>
  BY DEF Validate, At, UnchangedByServices, serviceVars
<1>5. Advances(r, row)
  <2>1. requests' = [requests EXCEPT ![r] = row]
    BY <1>1 DEF RequestRow, Validate, Goes
  <2> QED
    BY <1>2, <1>3, <1>4, <2>1 DEF Advances, Early
<1>6. requests'[r] = row
  BY <1>5, AdvanceMoves DEF IInv
<1>7. Published(r)' = Published(r)
  BY <1>2, <1>6 DEF Published
<1>8. runs[Published(r)].status = "completed"
  BY DEF Validate, PublishableRun
<1>9. \A p \in DOMAIN publications : publications[p].action = "publish" => publications[p].run # Published(r)
  BY <1>8 DEF IInv, PublicationOk, Unreleased
<1> HIDE DEF row
<1>10. Commits(r)'
  BY <1>4, <1>7, <1>8, <1>9 DEF Commits
<1>11. Fits(row)
  BY <1>1, <1>2, <1>4 DEF RequestOk, Fits
<1>12. OwnRun(r)' /\ KnownTarget(r)' /\ HasReleased(r)'
  BY <1>1, <1>2, <1>4, <1>6 DEF RequestOk, Fits, OwnRun, KnownTarget, HasReleased
<1> QED
  BY <1>4, <1>5, <1>10, <1>11, <1>12, Quiet

-----------------------------------------------------------------------------
(* Answers *)

\* A handler that gives up, with what it knows.
ClosedRow(r, status) == [requests[r] EXCEPT !.step = "done", !.status = status, !.batch = 0]
LEMMA ClosedAdvances ==
    ASSUME IInv, NEW r \in DOMAIN requests, requests[r].step # "done", NEW status \in Nat,
           requests' = Closed(r, status)
    PROVE  /\ Advances(r, ClosedRow(r, status))
           /\ requests' \in Seq(RequestRow) /\ RequestMoves(r) /\ DOMAIN requests' = DOMAIN requests
           /\ requests'[r].op = requests[r].op /\ requests'[r].target = requests[r].target
           /\ requests'[r].run = requests[r].run /\ requests'[r].scope = requests[r].scope
           /\ requests'[r].via = requests[r].via /\ requests'[r].after = requests[r].after
           /\ requests'[r].step = "done" /\ requests'[r].status = status
<1> DEFINE row == ClosedRow(r, status)
<1>1. requests[r] \in RequestRow
  BY RequestAt DEF IInv
<1>2. /\ row.op = requests[r].op /\ row.target = requests[r].target /\ row.run = requests[r].run
      /\ row.after = requests[r].after /\ row.scope = requests[r].scope
      /\ row.via = requests[r].via /\ row.step = "done" /\ row.status = status
  BY <1>1 DEF RequestRow, ClosedRow
<1>3. row \in RequestRow
  BY <1>1 DEF RequestRow, Step, ClosedRow
<1>4. Advances(r, row)
  <2>1. requests' = [requests EXCEPT ![r] = row]
    BY <1>1 DEF RequestRow, Closed, ClosedRow
  <2> QED
    BY <1>2, <1>3, <2>1 DEF Advances, Early
<1>5. requests' \in Seq(RequestRow) /\ RequestMoves(r) /\ requests'[r] = row /\ DOMAIN requests' = DOMAIN requests
  BY <1>4, AdvanceMoves DEF IInv
<1> QED
  BY <1>2, <1>4, <1>5

LEMMA RequestFails ==
    ASSUME IInv, NEW r \in DOMAIN requests, requests[r].step # "done", requests[r].status = 0,
           requests' = Closed(r, 500), UNCHANGED <<runs, publications, digests>>
    PROVE  IInv'
<1>1. RequestOk(r)
  BY DEF IInv
<1>2. /\ Advances(r, ClosedRow(r, 500))
      /\ requests'[r] = ClosedRow(r, 500)
  BY ClosedAdvances, AdvanceMoves DEF IInv
<1>3. Fits(requests[r])'
  BY <1>1, ClosedAdvances DEF RequestOk, Fits
<1>4. OwnRun(r)' /\ KnownTarget(r)' /\ Commits(r)' /\ HasReleased(r)'
  BY <1>1, ClosedAdvances DEF RequestOk, OwnRun, KnownTarget, Commits, HasReleased
<1> QED
  BY <1>2, <1>3, <1>4, Quiet

\* The catch of a handler that has inserted a run marks it failed.
LEMMA RunFails ==
    ASSUME IInv, NEW r \in DOMAIN requests, requests[r].step # "done", requests[r].status = 0,
           requests[r].run # None, NEW stored \in SUBSET Both,
           requests' = Closed(r, 500), FailRun(requests[r].run, stored), UNCHANGED digests
    PROVE  IInv'
<1>1. RequestOk(r)
  BY DEF IInv
<1> DEFINE i == requests[r].run
<1> DEFINE row == [runs[i] EXCEPT !.status = "failed", !.artifacts = runs[i].artifacts \cup stored]
<1>2. i \in DOMAIN runs /\ runs[i].by = r /\ runs[i] \in RunRow
  BY <1>1, RunAt DEF RequestOk, OwnRun, IInv
<1>3. row \in RunRow
  BY <1>2 DEF RunRow, Both, Statuses
<1>4. runs' = [runs EXCEPT ![i] = row] /\ UNCHANGED publications
  BY <1>2 DEF FailRun, RunRow
<1>5. /\ runs' \in Seq(RunRow) /\ DOMAIN runs' = DOMAIN runs
      /\ runs'[i] = row /\ \A j \in DOMAIN runs \ {i} : runs'[j] = runs[j]
  BY <1>2, <1>3, <1>4, SetRun DEF IInv
<1>6. /\ runs'[i].scope = runs[i].scope /\ runs'[i].replayOf = runs[i].replayOf /\ runs'[i].by = r
      /\ runs'[i].status = "failed" /\ runs[i].artifacts \subseteq runs'[i].artifacts
  BY <1>2, <1>5 DEF RunRow
<1> HIDE DEF row
<1>7. RunsGrow(r)
  BY <1>2, <1>5, <1>6 DEF RunsGrow, IInv, PublicationOk, Unreleased
<1>8. Moves(r)
  BY <1>4, <1>5, <1>7, ClosedAdvances DEF Moves, IInv, TypeInv, PublicationsGrow
<1>9. Fits(requests[r])'
  BY <1>1, ClosedAdvances DEF RequestOk, Fits
<1>10. OwnRun(r)' /\ KnownTarget(r)' /\ Commits(r)' /\ HasReleased(r)'
  BY <1>1, <1>2, <1>5, <1>6, ClosedAdvances DEF RequestOk, OwnRun, KnownTarget, Commits, HasReleased
<1>11. RequestOk(r)'
  BY <1>8, <1>9, <1>10, AfterStays DEF RequestOk, Moves
<1> QED
  BY <1>4, <1>5, <1>8, <1>11, MoveKeepsIInv DEF IInv

LEMMA StepFailsStep ==
    ASSUME IInv, NEW r \in DOMAIN requests, StepFails(r)
    PROVE  IInv'
<1>1. /\ requests[r].step # "done" /\ requests[r].status = 0
      /\ requests' = Closed(r, 500) /\ UNCHANGED digests
  BY DEF StepFails, UnchangedByServices, IInv, RequestOk, Fits
<1>2. CASE requests[r].run = None
  BY <1>1, <1>2, RequestFails DEF StepFails, serviceVars
<1>3. CASE requests[r].run # None
  <2>1. PICK stored \in {{}, {"raw"}, {"raw", "candidate"}} : FailRun(requests[r].run, stored)
    BY <1>3 DEF StepFails
  <2>2. stored \in SUBSET Both
    BY DEF Both
  <2> QED
    BY <1>1, <1>3, <2>1, <2>2, RunFails
<1> QED
  BY <1>2, <1>3

\* The answer of a handler whose work is done; "released" is noted by the ones that do not purge.
Mails(r) == requests[r].via = "http" /\ requests[r].op = "publish"
            /\ requests[r].scope \in LowerScopes /\ NewsletterConfigured
LastStep(r) == IF Mails(r) THEN "digesting" ELSE "done"
RespondRow(r, snapshot) ==
    [requests[r] EXCEPT !.status = 201, !.batch = 0, !.step = LastStep(r), !.released = snapshot]
PurgingRow(r, snapshot) == [requests[r] EXCEPT !.released = snapshot, !.step = "purging", !.batch = 1]

\* Either way the request keeps what it asked for, and has released.
Answers(r, row) ==
    /\ row.op = requests[r].op /\ row.target = requests[r].target /\ row.run = requests[r].run
    /\ row.after = requests[r].after /\ row.scope = requests[r].scope /\ row.via = requests[r].via
    /\ \/ row.step = "purging" /\ row.status = requests[r].status
       \/ row.step = "done" /\ row.status = 201
       \/ row.step = "digesting" /\ row.status = 201 /\ row.op = "publish"
LEMMA AnswerRows ==
    ASSUME TypeInv, NEW r \in DOMAIN requests, NEW snapshot \in Nat
    PROVE  /\ RespondRow(r, snapshot) \in RequestRow /\ Answers(r, RespondRow(r, snapshot))
           /\ PurgingRow(r, snapshot) \in RequestRow /\ Answers(r, PurgingRow(r, snapshot))
           /\ Respond(r) = [requests EXCEPT ![r] = RespondRow(r, requests[r].released)]
           /\ [Respond(r) EXCEPT ![r].released = snapshot] = [requests EXCEPT ![r] = RespondRow(r, snapshot)]
           /\ [requests EXCEPT ![r].released = snapshot, ![r].step = "purging", ![r].batch = 1]
                = [requests EXCEPT ![r] = PurgingRow(r, snapshot)]
<1>1. requests[r] \in RequestRow
  BY RequestAt
<1>2. LastStep(r) \in {"digesting", "done"} /\ (LastStep(r) = "digesting" => requests[r].op = "publish")
  BY DEF LastStep, Mails
<1>3. RespondRow(r, snapshot) \in RequestRow /\ PurgingRow(r, snapshot) \in RequestRow
  <2>1. PICK next \in Step : next = LastStep(r)
    BY <1>2 DEF Step
  <2>2. [requests[r] EXCEPT !.status = 201, !.batch = 0, !.step = next, !.released = snapshot] \in RequestRow
    <3>1. PICK q \in RequestRow : q = requests[r]
      BY <1>1
    <3>2. [q EXCEPT !.status = 201] \in RequestRow
      BY DEF RequestRow
    <3>3. PICK created \in RequestRow : created = [q EXCEPT !.status = 201]
      BY <3>2
    <3>4. [created EXCEPT !.batch = 0] \in RequestRow
      BY DEF RequestRow
    <3>5. PICK answered \in RequestRow : answered = [created EXCEPT !.batch = 0]
      BY <3>4
    <3>6. [answered EXCEPT !.step = next, !.released = snapshot] \in RequestRow
      BY <2>1 DEF RequestRow
    <3> QED
      BY <3>1, <3>3, <3>5, <3>6
  <2>3. PurgingRow(r, snapshot) \in RequestRow
    BY <1>1 DEF RequestRow, PurgingRow, Step
  <2> QED
    BY <2>1, <2>2, <2>3 DEF RespondRow
<1>4. Answers(r, RespondRow(r, snapshot)) /\ Answers(r, PurgingRow(r, snapshot))
  BY <1>1, <1>2 DEF RequestRow, RespondRow, PurgingRow, Answers
<1> DEFINE answer == [requests[r] EXCEPT !.status = 201, !.batch = 0, !.step = LastStep(r)]
<1>5. /\ Respond(r) = [requests EXCEPT ![r] = RespondRow(r, requests[r].released)]
      /\ [Respond(r) EXCEPT ![r].released = snapshot] = [requests EXCEPT ![r] = RespondRow(r, snapshot)]
  <2>1. Respond(r) = [requests EXCEPT ![r].status = 201, ![r].batch = 0, ![r].step = LastStep(r)]
    BY DEF Respond, LastStep, Mails
  <2>2. [requests EXCEPT ![r].status = 201, ![r].batch = 0, ![r].step = LastStep(r)] = [requests EXCEPT ![r] = answer]
    BY <1>1, ZenonT(60) DEF RequestRow, TypeInv
  <2>3. answer = RespondRow(r, requests[r].released)
    BY <1>1, ZenonT(60) DEF RequestRow, RespondRow
  <2>4. [answer EXCEPT !.released = snapshot] = RespondRow(r, snapshot)
    BY <1>1 DEF RequestRow, RespondRow
  <2> HIDE DEF answer
  <2>5. [[requests EXCEPT ![r] = answer] EXCEPT ![r].released = snapshot]
           = [requests EXCEPT ![r] = [answer EXCEPT !.released = snapshot]]
    BY DEF TypeInv
  <2>6. Respond(r) = [requests EXCEPT ![r] = answer]
    BY <2>1, <2>2
  <2>7. [Respond(r) EXCEPT ![r].released = snapshot] = [[requests EXCEPT ![r] = answer] EXCEPT ![r].released = snapshot]
    BY <2>6, Zenon
  <2> QED
    BY <2>3, <2>4, <2>5, <2>6, <2>7, Zenon
<1>6. [requests EXCEPT ![r].released = snapshot, ![r].step = "purging", ![r].batch = 1]
                = [requests EXCEPT ![r] = PurgingRow(r, snapshot)]
  BY <1>1 DEF RequestRow, PurgingRow, TypeInv
<1> QED
  BY <1>3, <1>4, <1>5, <1>6

LEMMA ReleasedRow ==
    ASSUME TypeInv, NEW r \in DOMAIN requests, NEW snapshot \in Nat, Released(r, snapshot)
    PROVE  \E row \in RequestRow : requests' = [requests EXCEPT ![r] = row] /\ Answers(r, row)
BY AnswerRows DEF Released

LEMMA PurgeBatchStep ==
    ASSUME IInv, NEW r \in DOMAIN requests, PurgeBatch(r)
    PROVE  IInv'
<1>1. requests[r] \in RequestRow /\ RequestOk(r) /\ requests[r].step = "purging" /\ requests[r].status = 0
  BY RequestAt DEF IInv, PurgeBatch, At, RequestOk, Fits
<1>2. UNCHANGED digests
  BY DEF PurgeBatch
<1>3. CASE requests' = Closed(r, 500) /\ requests[r].run # None /\ FailRun(requests[r].run, {})
  BY <1>1, <1>2, <1>3, RunFails
<1>4. CASE requests' = Closed(r, 500) /\ UNCHANGED serviceVars
  BY <1>1, <1>2, <1>4, RequestFails DEF serviceVars
<1>5. CASE requests' = Respond(r) /\ UNCHANGED serviceVars
  <2>1. requests[r].released \in Nat
    BY <1>1 DEF RequestRow
  <2>2. PICK row \in RequestRow : requests' = [requests EXCEPT ![r] = row] /\ Answers(r, row)
    BY <1>5, <2>1, AnswerRows DEF IInv
  <2>3. Advances(r, row)
    BY <1>1, <2>2 DEF Advances, Answers, Early
  <2>4. requests'[r] = row
    BY <2>3, AdvanceMoves DEF IInv
  <2>5. Fits(row)
    BY <1>1, <2>2 DEF RequestOk, Fits, Answers
  <2>6. OwnRun(r)' /\ KnownTarget(r)' /\ Commits(r)' /\ HasReleased(r)'
    BY <1>1, <1>5, <2>2, <2>4
    DEF RequestOk, Fits, OwnRun, KnownTarget, Commits, HasReleased, Answers, Releasing, serviceVars
  <2> QED
    BY <1>2, <1>5, <2>3, <2>5, <2>6, Quiet DEF serviceVars
<1>6. CASE requests' = [requests EXCEPT ![r].batch = @ + 1] /\ UNCHANGED serviceVars
  <2>1. requests[r].batch + 1 \in Nat
    BY <1>1 DEF RequestRow
  <2>2. requests' = [requests EXCEPT ![r].step = "purging", ![r].batch = requests[r].batch + 1]
    BY <1>1, <1>6 DEF RequestRow, IInv, TypeInv
  <2> QED
    BY <1>1, <1>2, <1>6, <2>1, <2>2, PurgingStep DEF serviceVars
<1> QED
  BY <1>3, <1>4, <1>5, <1>6 DEF PurgeBatch

-----------------------------------------------------------------------------
(* Runs: inserted and completed *)

\* "row": the request that knows its run, or gives up after the run was inserted.
LEMMA InsertRunStep ==
    ASSUME IInv, NEW r \in DOMAIN requests, requests[r].step \in {"capturing", "copying"},
           NEW replayOf \in Nat, requests[r].op = "replay" => replayOf = requests[r].target,
           requests[r].op = "replay" => requests[r].target \in DOMAIN runs,
           InsertRun(Run(requests[r].scope, replayOf, r)), UNCHANGED digests,
           \/ requests' = Closed(r, 500)
           \/ requests' = [requests EXCEPT ![r].step = "building", ![r].run = Len(runs) + 1]
    PROVE  IInv'
<1> DEFINE new == Run(requests[r].scope, replayOf, r)
<1>0. PICK n \in Nat : n = Len(runs) + 1
  BY DEF IInv, TypeInv
<1> DEFINE building == [requests[r] EXCEPT !.step = "building", !.run = n]
<1>1. /\ requests[r] \in RequestRow /\ RequestOk(r) /\ r \in Nat \ {0}
      /\ requests[r].status = 0 /\ requests[r].run = None /\ requests[r].op \in {"fetch", "replay"}
  BY RequestAt DEF IInv, RequestOk, Fits
<1>2. new \in RunRow /\ new.scope = requests[r].scope /\ new.replayOf = replayOf /\ new.by = r /\ new.status = "pending"
  BY <1>1 DEF Run, RunRow, RequestRow, Statuses, Qualities
<1>3. /\ runs' = Append(runs, new) /\ UNCHANGED publications
  BY DEF InsertRun
<1> HIDE DEF new
<1>4. /\ runs' \in Seq(RunRow) /\ DOMAIN runs' = DOMAIN runs \cup {n}
      /\ n # None /\ n \notin DOMAIN runs
      /\ runs'[n] = new
      /\ \A i \in DOMAIN runs : runs'[i] = runs[i]
  BY <1>0, <1>2, <1>3, AddRun DEF IInv, None
<1>5. PICK row \in {ClosedRow(r, 500), building} :
        Advances(r, row) /\ requests' = [requests EXCEPT ![r] = row]
  <2>1. CASE requests' = Closed(r, 500)
    BY <1>1, <2>1, ClosedAdvances DEF Advances
  <2>2. CASE requests' = [requests EXCEPT ![r].step = "building", ![r].run = Len(runs) + 1]
    <3>1. building \in RequestRow
      BY <1>1 DEF RequestRow, Step, Early
    <3>2. /\ building.op = requests[r].op /\ building.scope = requests[r].scope /\ building.step = "building"
          /\ building.target = requests[r].target /\ building.after = requests[r].after
      BY <1>1 DEF RequestRow
    <3>3. requests' = [requests EXCEPT ![r] = building]
      BY <1>0, <1>1, <2>2 DEF RequestRow, IInv, TypeInv
    <3> QED
      BY <3>1, <3>2, <3>3 DEF Advances, Early
  <2> QED
    BY <2>1, <2>2
<1>6. /\ requests' \in Seq(RequestRow) /\ RequestMoves(r) /\ requests'[r] = row
      /\ DOMAIN requests' = DOMAIN requests
  BY <1>5, AdvanceMoves DEF IInv
<1>7. /\ row.op = requests[r].op /\ row.target = requests[r].target /\ row.scope = requests[r].scope
      /\ row.via = requests[r].via
      /\ \/ row.step = "done" /\ row.run = None /\ row.status = 500
         \/ row.step = "building" /\ row.run = n /\ row.status = 0
  <2>1. CASE row = ClosedRow(r, 500)
    BY <1>1, <2>1 DEF RequestRow, ClosedRow
  <2>2. CASE row = building
    BY <1>1, <2>2 DEF RequestRow
  <2> QED
    BY <1>5, <2>1, <2>2
<1> HIDE DEF building
<1>8. Moves(r)
  <2>1. RunsGrow(r)
    BY <1>4 DEF RunsGrow, IInv, PublicationOk
  <2> QED
    BY <1>3, <1>4, <1>6, <2>1 DEF Moves, IInv, TypeInv, PublicationsGrow
<1>9. Fits(row)
  BY <1>1, <1>4, <1>7 DEF RequestOk, Fits
<1>10. OwnRun(r)' /\ KnownTarget(r)' /\ Commits(r)' /\ HasReleased(r)'
  BY <1>2, <1>4, <1>6, <1>7 DEF OwnRun, KnownTarget, Commits, HasReleased
<1>11. RequestOk(r)'
  BY <1>6, <1>9, <1>10, AfterStays DEF RequestOk
<1>12. RunOk(n)'
  BY <1>1, <1>2, <1>4, <1>6, <1>7 DEF RunOk
<1> QED
  BY <1>3, <1>4, <1>8, <1>11, <1>12, MoveKeepsIInv DEF IInv

LEMMA CaptureStep ==
    ASSUME IInv, NEW r \in DOMAIN requests, Capture(r)
    PROVE  IInv'
<1>1. requests[r].step = "capturing" /\ requests[r].op = "fetch" /\ UNCHANGED digests
  BY DEF Capture, At, UnchangedByServices, IInv, RequestOk, Fits
<1>2. None \in Nat
  BY DEF None
<1> QED
  BY <1>1, <1>2, InsertRunStep DEF Capture

LEMMA CopyRawCaptureStep ==
    ASSUME IInv, NEW r \in DOMAIN requests, CopyRawCapture(r)
    PROVE  IInv'
<1>1. /\ requests[r].step = "copying" /\ requests[r].status = 0
      /\ requests[r].target \in Nat /\ UNCHANGED digests
  BY RequestAt DEF CopyRawCapture, At, UnchangedByServices, IInv, RequestOk, Fits, RequestRow
<1>2. requests[r].target \in DOMAIN runs
  BY DEF CopyRawCapture, InspectRun
<1>3. CASE requests' = Closed(r, 500) /\ UNCHANGED serviceVars
  BY <1>1, <1>3, RequestFails DEF serviceVars
<1>4. CASE /\ InsertRun(Run(requests[r].scope, requests[r].target, r))
           /\ \/ requests' = Closed(r, 500)
              \/ requests' = [requests EXCEPT ![r].step = "building", ![r].run = Len(runs) + 1]
  BY <1>1, <1>2, <1>4, InsertRunStep
<1> QED
  BY <1>3, <1>4 DEF CopyRawCapture

LEMMA BuildCandidateStep ==
    ASSUME IInv, NEW r \in DOMAIN requests, BuildCandidate(r)
    PROVE  IInv'
<1> DEFINE i == requests[r].run
<1>1. /\ requests[r] \in RequestRow /\ RequestOk(r) /\ requests[r].status = 0
      /\ requests[r].step = "building" /\ requests[r].op \in {"fetch", "replay"} /\ i # None
  BY RequestAt DEF IInv, RequestOk, Fits, BuildCandidate, At
<1>2. /\ i \in DOMAIN runs /\ runs[i] \in RunRow /\ runs[i].by = r /\ runs[i].status = "pending"
      /\ runs[i].scope = requests[r].scope
      /\ requests[r].op = "replay" => runs[i].replayOf = requests[r].target
  BY <1>1, RunAt DEF RequestOk, OwnRun, IInv
<1>3. PICK quality \in Qualities, districts \in SUBSET District :
        /\ CompleteRun(i, quality, districts)
        /\ requests' = IF requests[r].op = "fetch" THEN Closed(r, 201) ELSE Goes(r, "validating")
  <2>1. requests[r].op = "replay" => runs[requests[r].target].districts \in SUBSET District
    <3>1. requests[r].op = "replay" => requests[r].target \in DOMAIN runs
      BY <1>1 DEF RequestOk, KnownTarget
    <3> QED
      BY <3>1, RunAt DEF RunRow, IInv
  <2>2. Captures \subseteq SUBSET District
    BY DEF District
  <2> QED
    BY <2>1, <2>2 DEF BuildCandidate
<1> DEFINE row == [runs[i] EXCEPT !.status = "completed", !.quality = quality, !.artifacts = Both, !.districts = districts]
<1>4. row \in RunRow
  BY <1>2 DEF RunRow, Both, Statuses
<1>5. runs' = [runs EXCEPT ![i] = row] /\ UNCHANGED <<publications, digests>>
  BY <1>2, <1>3 DEF CompleteRun, RunRow, Both, BuildCandidate, UnchangedByServices
<1>6. /\ runs' \in Seq(RunRow) /\ DOMAIN runs' = DOMAIN runs
      /\ runs'[i] = row /\ \A j \in DOMAIN runs \ {i} : runs'[j] = runs[j]
  BY <1>2, <1>4, <1>5, SetRun DEF IInv
<1>7. /\ runs'[i].scope = runs[i].scope /\ runs'[i].replayOf = runs[i].replayOf /\ runs'[i].by = r
      /\ runs'[i].status = "completed" /\ runs'[i].artifacts = Both
  BY <1>2, <1>6 DEF RunRow
<1> HIDE DEF row
<1>8. RunsGrow(r)
  <2>1. runs[i].artifacts \subseteq Both
    BY <1>2 DEF RunRow, Both
  <2>2. \A p \in DOMAIN publications : publications[p].action = "publish" => publications[p].run # i
    BY <1>2 DEF IInv, PublicationOk, Unreleased
  <2> QED
    BY <1>2, <1>6, <1>7, <2>1, <2>2 DEF RunsGrow, IInv, PublicationOk, Unreleased
<1> DEFINE going == [requests[r] EXCEPT !.step = "validating"]
<1>9. PICK answer : Advances(r, answer) /\ answer \in {ClosedRow(r, 201), going}
                    /\ (requests[r].op = "fetch" <=> answer = ClosedRow(r, 201))
  <2>1. CASE requests[r].op = "fetch"
    <3>1. Advances(r, ClosedRow(r, 201))
      BY <1>1, <1>3, <2>1, ClosedAdvances
    <3> QED
      BY <2>1, <3>1
  <2>2. CASE requests[r].op = "replay"
    <3>1. going \in RequestRow
      BY <1>1 DEF RequestRow, Step, Early
    <3>2. requests' = [requests EXCEPT ![r] = going]
      BY <1>1, <1>3, <2>2 DEF RequestRow, Goes
    <3>3. /\ going.op = requests[r].op /\ going.scope = requests[r].scope /\ going.step = "validating"
          /\ going.target = requests[r].target /\ going.after = requests[r].after
      BY <1>1 DEF RequestRow
    <3>4. Advances(r, going)
      BY <1>1, <3>1, <3>2, <3>3 DEF Advances, Early
    <3>5. going # ClosedRow(r, 201)
      <4>1. ClosedRow(r, 201).step = "done"
        BY <1>1 DEF ClosedRow, RequestRow
      <4> QED
        BY <3>3, <4>1
    <3> QED
      BY <2>2, <3>4, <3>5
  <2> QED
    BY <1>1, <2>1, <2>2
<1>10. /\ requests' \in Seq(RequestRow) /\ RequestMoves(r) /\ requests'[r] = answer
  BY <1>9, AdvanceMoves DEF IInv
<1>11. /\ answer.op = requests[r].op /\ answer.target = requests[r].target /\ answer.scope = requests[r].scope
       /\ answer.via = requests[r].via /\ answer.run = i
       /\ \/ answer.step = "done" /\ answer.op = "fetch" /\ answer.status = 201
          \/ answer.step = "validating" /\ answer.op = "replay" /\ answer.status = 0
  <2>1. CASE answer = ClosedRow(r, 201) /\ requests[r].op = "fetch"
    BY <1>1, <2>1 DEF RequestRow, ClosedRow
  <2>2. CASE answer = going /\ requests[r].op = "replay"
    BY <1>1, <2>2 DEF RequestRow
  <2> QED
    BY <1>1, <1>9, <2>1, <2>2
<1> HIDE DEF going
<1>12. Moves(r)
  BY <1>5, <1>6, <1>8, <1>10 DEF Moves, IInv, TypeInv, PublicationsGrow
<1>13. Fits(answer)
  BY <1>1, <1>11 DEF RequestOk, Fits
<1>14. OwnRun(r)' /\ KnownTarget(r)' /\ Commits(r)' /\ HasReleased(r)'
  BY <1>1, <1>2, <1>6, <1>7, <1>10, <1>11 DEF OwnRun, KnownTarget, Commits, HasReleased, Releasing
<1>15. RequestOk(r)'
  BY <1>10, <1>13, <1>14, AfterStays DEF RequestOk
<1> QED
  BY <1>5, <1>6, <1>12, <1>15, MoveKeepsIInv DEF IInv

-----------------------------------------------------------------------------
(* Releases *)

\* A transaction: "run" is released (again) with "snapshot".
LEMMA ReleaseStep ==
    ASSUME IInv, NEW r \in DOMAIN requests, requests[r].step \in {"committing", "restoring"},
           requests[r].op \in Releasing,
           NEW run \in DOMAIN runs, runs[run].scope = requests[r].scope,
           NEW snapshot \in Nat, NEW action \in {"publish", "rollback"},
           publications' = Append(publications, [scope |-> requests[r].scope, action |-> action, run |-> run,
                                                 snapshot |-> snapshot, by |-> r]),
           runs' \in Seq(RunRow), DOMAIN runs' = DOMAIN runs, RunsGrow(r), UNCHANGED digests,
           action = "publish" =>
             /\ runs'[run].status \notin Unreleased
             /\ \A p \in DOMAIN publications :
                  publications[p].action = "publish" /\ publications[p].run = run => Overlaps(p, r),
           requests[r].op = "publish" => action = "publish" /\ run = requests[r].target,
           requests[r].op = "replay" => action = "publish" /\ runs[run].replayOf = requests[r].target,
           requests[r].op = "rollback" =>
             /\ action = "rollback" /\ requests[r].target \in DOMAIN publications
             /\ snapshot = publications[requests[r].target].snapshot,
           NEW shown \in Nat, Released(r, shown)
    PROVE  IInv'
<1> DEFINE new == [scope |-> requests[r].scope, action |-> action, run |-> run, snapshot |-> snapshot, by |-> r]
<1>1. requests[r] \in RequestRow /\ RequestOk(r) /\ r \in Nat \ {0} /\ run \in Nat
  BY RequestAt, RunAt DEF IInv
<1>2. new \in PublicationRow
  BY <1>1 DEF PublicationRow, RequestRow
<1>3. PICK n \in Nat : n = Len(publications) + 1
  BY DEF IInv, TypeInv
<1>4. /\ publications' \in Seq(PublicationRow) /\ DOMAIN publications' = DOMAIN publications \cup {n}
      /\ n \notin DOMAIN publications /\ publications'[n] = new
      /\ \A p \in DOMAIN publications : p < n /\ publications'[p] = publications[p]
  BY <1>2, <1>3, AddPublication DEF IInv
<1>5. /\ publications'[n].scope = requests[r].scope /\ publications'[n].action = action
      /\ publications'[n].run = run /\ publications'[n].snapshot = snapshot /\ publications'[n].by = r
  BY <1>4
<1> HIDE DEF new
<1>6. PICK row \in RequestRow : requests' = [requests EXCEPT ![r] = row] /\ Answers(r, row)
  BY ReleasedRow DEF IInv
<1>7. Advances(r, row)
  BY <1>1, <1>6 DEF Advances, Answers, Early
<1>8. requests'[r] = row /\ RequestMoves(r) /\ requests' \in Seq(RequestRow)
  BY <1>7, AdvanceMoves DEF IInv
<1>9. Moves(r)
  BY <1>4, <1>5, <1>8 DEF Moves, IInv, TypeInv, PublicationsGrow
<1>10. RequestOk(r)'
  <2>1. Fits(row)
    <3>1. /\ row.step \in {"purging", "done", "digesting"}
          /\ row.step = "digesting" => row.op = "publish" /\ row.status = 201
          /\ row.step = "purging" => row.status = requests[r].status
          /\ row.status \in {requests[r].status, 201}
      BY <1>6 DEF Answers
    <3>2. Fits(requests[r]) /\ row.op = requests[r].op /\ row.run = requests[r].run /\ row.via = requests[r].via
          /\ requests[r].op \in Releasing /\ requests[r].step \notin {"digesting", "done"}
      BY <1>1, <1>6 DEF RequestOk, Answers
    <3> QED
      BY <3>1, <3>2 DEF Fits, Releasing
  <2>2. OwnRun(r)'
    BY <1>1, <1>6, <1>8 DEF RequestOk, OwnRun, Answers, RunsGrow, Releasing
  <2>3. KnownTarget(r)' /\ Commits(r)'
    BY <1>6, <1>8 DEF KnownTarget, Commits, Answers
  <2>4. HasReleased(r)'
    BY <1>4, <1>5 DEF HasReleased
  <2> QED
    BY <1>8, <2>1, <2>2, <2>3, <2>4, AfterStays DEF RequestOk
<1>11. PublicationOk(n)'
  <2>1. /\ row.op = requests[r].op /\ row.scope = requests[r].scope /\ row.target = requests[r].target
        /\ row.step \notin Early
    BY <1>6 DEF Answers, Early
  <2>2. runs'[run].scope = runs[run].scope /\ runs'[run].replayOf = runs[run].replayOf
    BY DEF RunsGrow
  <2>3. EffectOf(r, n)'
    <3>1. /\ publications'[n].scope = requests'[r].scope
          /\ publications'[n].scope = runs'[publications'[n].run].scope
          /\ requests'[r].op = "publish" => publications'[n].action = "publish" /\ publications'[n].run = requests'[r].target
          /\ requests'[r].op = "replay" =>
               publications'[n].action = "publish" /\ runs'[publications'[n].run].replayOf = requests'[r].target
          /\ requests'[r].op = "rollback" =>
               publications'[n].action = "rollback" /\ publications'[n].snapshot = publications'[requests'[r].target].snapshot
      BY <1>4, <1>5, <1>8, <2>1, <2>2
    <3>2. requests'[r].op \in Releasing
      BY <1>8, <2>1
    <3> QED
      BY <3>1, <3>2 DEF EffectOf, Releasing
  <2>4. requests'[r].op = "rollback" => requests'[r].target \in DOMAIN publications'
    BY <1>4, <1>8, <2>1
  <2>5. r \in DOMAIN requests' /\ requests'[r].op \in Releasing /\ requests'[r].step \notin Early
    BY <1>8, <2>1 DEF RequestMoves
  <2> QED
    BY <1>5, <2>2, <2>3, <2>4, <2>5 DEF PublicationOk
<1>12. \A q \in DOMAIN publications' : Pair(n, q)' /\ Pair(q, n)'
  <2>1. requests'[r].after = requests[r].after
    BY <1>6, <1>8 DEF Answers
  <2>2. ASSUME NEW q \in DOMAIN publications PROVE Pair(n, q)' /\ Pair(q, n)'
    <3>1. publications[q].by # r /\ q < n /\ publications'[q] = publications[q] /\ q \in Nat
      BY <1>1, <1>4, NotYetReleased, PublicationAt DEF IInv, Early
    <3>2. ~(n < q) /\ r # None
      BY <1>1, <3>1 DEF None
    <3>3. Pair(n, q)'
      BY <1>5, <3>1, <3>2 DEF Pair
    <3>4. Pair(q, n)'
      BY <1>5, <2>1, <3>1, <3>2 DEF Pair, Overlaps
    <3> QED
      BY <3>3, <3>4
  <2>3. Pair(n, n)'
    BY <1>3 DEF Pair
  <2> QED
    BY <1>4, <2>2, <2>3
<1> QED
  BY <1>4, <1>9, <1>10, <1>11, <1>12, MoveKeepsIInv DEF IInv

LEMMA CommitStep ==
    ASSUME IInv, NEW r \in DOMAIN requests, Commit(r)
    PROVE  IInv'
<1> DEFINE run == Published(r)
<1>1. /\ requests[r].step = "committing" /\ RequestOk(r) /\ UNCHANGED digests
      /\ requests[r].op = "publish" \/ (requests[r].op = "replay" /\ requests[r].run # None)
      /\ Len(publications) + 1 \in Nat
  BY SMTT(20) DEF Commit, At, UnchangedByServices, IInv, RequestOk, Fits, TypeInv
<1>2. /\ run \in DOMAIN runs /\ runs[run].scope = requests[r].scope
      /\ requests[r].op = "publish" => run = requests[r].target
      /\ requests[r].op = "replay" => runs[run].replayOf = requests[r].target
  BY <1>1 DEF RequestOk, OwnRun, KnownTarget, Published
<1>3. runs[run] \in RunRow
  BY <1>2, RunAt DEF IInv
<1>4. PICK status \in {"replayed", "published"} : runs' = [runs EXCEPT ![run].status = status]
  BY DEF Commit, PublishTransaction
<1> DEFINE row == [runs[run] EXCEPT !.status = status]
<1>5. row \in RunRow /\ runs' = [runs EXCEPT ![run] = row]
  BY <1>3, <1>4 DEF RunRow, Statuses
<1>6. /\ runs' \in Seq(RunRow) /\ DOMAIN runs' = DOMAIN runs
      /\ runs'[run] = row /\ \A j \in DOMAIN runs \ {run} : runs'[j] = runs[j]
  BY <1>2, <1>5, SetRun DEF IInv
<1>7. /\ runs'[run].scope = runs[run].scope /\ runs'[run].replayOf = runs[run].replayOf
      /\ runs'[run].by = runs[run].by /\ runs'[run].artifacts = runs[run].artifacts
      /\ runs'[run].status \in {"replayed", "published"}
  BY <1>3, <1>6 DEF RunRow
<1>8. /\ runs[run].status # "pending"
      /\ \A p \in DOMAIN publications :
           publications[p].action = "publish" /\ publications[p].run = run => Overlaps(p, r)
  BY <1>1 DEF RequestOk, Commits
<1>9. publications' = Append(publications, [scope |-> requests[r].scope, action |-> "publish", run |-> run,
                                             snapshot |-> Len(publications) + 1, by |-> r])
  BY DEF Commit, PublishTransaction
<1>10. Released(r, Len(publications) + 1)
  BY DEF Commit
<1> HIDE DEF run, row
<1>11. RunsGrow(r)
  BY <1>2, <1>6, <1>7, <1>8 DEF RunsGrow, IInv, PublicationOk, Unreleased
<1>12. requests[r].op \in Releasing
  BY <1>1 DEF Releasing
<1>13. runs'[run].status \notin Unreleased
  BY <1>7 DEF Unreleased
<1> QED
  BY <1>1, <1>2, <1>6, <1>8, <1>9, <1>10, <1>11, <1>12, <1>13, ReleaseStep

LEMMA RestoreStep ==
    ASSUME IInv, NEW r \in DOMAIN requests, Restore(r)
    PROVE  IInv'
<1> DEFINE target == requests[r].target
<1>1. /\ requests[r].step = "restoring" /\ RequestOk(r) /\ UNCHANGED <<runs, digests>>
      /\ requests[r].op = "rollback"
  BY DEF Restore, At, UnchangedByServices, InsertRollback, IInv, RequestOk, Fits
<1>2. /\ target \in DOMAIN publications /\ publications[target].scope = requests[r].scope
      /\ PublicationOk(target) /\ publications[target] \in PublicationRow
  BY <1>1, PublicationAt DEF RequestOk, KnownTarget, IInv
<1>3. /\ publications[target].run \in DOMAIN runs
      /\ runs[publications[target].run].scope = requests[r].scope
      /\ publications[target].snapshot \in Nat
  BY <1>2 DEF PublicationOk, PublicationRow
<1>4. RunsGrow(r) /\ runs' \in Seq(RunRow) /\ DOMAIN runs' = DOMAIN runs
  BY <1>1 DEF RunsGrow, IInv, TypeInv, PublicationOk
<1>5. /\ publications' = Append(publications, [scope |-> requests[r].scope, action |-> "rollback",
             run |-> publications[target].run, snapshot |-> publications[target].snapshot, by |-> r])
      /\ Released(r, publications[target].snapshot)
  BY DEF Restore, InsertRollback
<1>6. requests[r].op \in Releasing
  BY <1>1 DEF Releasing
<1> QED
  BY <1>1, <1>2, <1>3, <1>4, <1>5, <1>6, ReleaseStep

-----------------------------------------------------------------------------
(* Digests *)

LEMMA NewestIsMember ==
    ASSUME NEW rows \in SUBSET Nat, rows # {}, NEW n \in Nat, \A q \in rows : q <= n
    PROVE  NewestOf(rows) \in rows /\ \A q \in rows : q <= NewestOf(rows)
<1> DEFINE left == {n - q : q \in rows}
<1>1. left \subseteq Nat /\ left # {}
  <2>1. \A q \in rows : q \in Nat /\ n - q \in Nat
    OBVIOUS
  <2>2. PICK q \in rows : n - q \in left
    OBVIOUS
  <2> QED
    BY <2>1, <2>2
<1>2. PICK m \in left : \A k \in left : ~(<<k, m>> \in OpToRel(<, Nat))
  BY <1>1, NatLessThanWellFounded, WFMin, Zenon
<1>3. \A k \in left : ~(k < m)
  BY <1>1, <1>2 DEF OpToRel
<1>4. PICK p \in rows : m = n - p
  OBVIOUS
<1>5. \A q \in rows : q <= p
  <2> SUFFICES ASSUME NEW q \in rows PROVE q <= p
    OBVIOUS
  <2>1. ~(n - q < m)
    BY <1>3
  <2> QED
    BY <1>4, <2>1
<1> QED
  BY <1>5 DEF NewestOf

LEMMA StartDigestStep ==
    ASSUME IInv, NEW r \in DOMAIN requests, StartDigest(r)
    PROVE  IInv'
<1> DEFINE row == [requests[r] EXCEPT !.step = "done"]
<1> DEFINE scope == requests[r].scope
<1>1. /\ requests[r] \in RequestRow /\ RequestOk(r) /\ r \in Nat \ {0}
      /\ requests[r].step = "digesting" /\ requests[r].status = 201 /\ requests[r].op = "publish"
  BY RequestAt DEF IInv, RequestOk, Fits, StartDigest, At
<1>2. /\ row.op = requests[r].op /\ row.target = requests[r].target /\ row.run = requests[r].run
      /\ row.status = 201 /\ row.after = requests[r].after /\ row.scope = requests[r].scope
      /\ row.via = requests[r].via /\ row.step = "done" /\ row \in RequestRow
  BY <1>1 DEF RequestRow, Step
<1>3. UNCHANGED <<runs, publications>>
  BY DEF StartDigest, serviceVars
<1>4. Advances(r, row)
  <2>1. requests' = [requests EXCEPT ![r] = row]
    BY <1>1 DEF RequestRow, StartDigest, Goes
  <2> QED
    BY <1>1, <1>2, <2>1 DEF Advances, Early
<1>5. requests'[r] = row /\ requests' \in Seq(RequestRow) /\ RequestMoves(r)
  BY <1>4, AdvanceMoves DEF IInv
<1>6. Moves(r)
  <2>1. RunsGrow(r)
    BY <1>3 DEF RunsGrow, IInv, PublicationOk
  <2> QED
    BY <1>3, <1>5, <2>1 DEF Moves, IInv, TypeInv, PublicationsGrow
<1> HIDE DEF row
<1>7. RequestOk(r)'
  <2>1. Fits(row)
    BY <1>1, <1>2 DEF RequestOk, Fits
  <2>2. OwnRun(r)' /\ KnownTarget(r)' /\ Commits(r)' /\ HasReleased(r)'
    BY <1>1, <1>2, <1>3, <1>5 DEF RequestOk, OwnRun, KnownTarget, Commits, HasReleased
  <2> QED
    BY <1>5, <2>1, <2>2, AfterStays DEF RequestOk
<1>8. PICK p \in DOMAIN publications : publications[p].by = r
  BY <1>1 DEF RequestOk, HasReleased, Releasing
<1>9. publications[p].scope = scope
  <2>1. PublicationOk(p) /\ r # None
    BY <1>1 DEF IInv, None
  <2>2. EffectOf(r, p)
    BY <1>8, <2>1 DEF PublicationOk
  <2> QED
    BY <2>2 DEF EffectOf
<1>10. PICK last \in DOMAIN publications :
         publications[last].scope = scope /\ p <= last /\ GetPublishedSnapshot(scope) = publications[last].snapshot
  <2>1. PublicationsOf(scope) \in SUBSET Nat /\ p \in PublicationsOf(scope)
        /\ Len(publications) \in Nat /\ \A q \in PublicationsOf(scope) : q <= Len(publications)
    BY <1>9, PublicationAt DEF PublicationsOf, IInv, TypeInv
  <2>2. /\ LatestPublication(scope) \in PublicationsOf(scope) /\ p <= LatestPublication(scope)
    BY <2>1, NewestIsMember DEF LatestPublication
  <2> QED
    BY <2>1, <2>2 DEF GetPublishedSnapshot, PublicationsOf
<1> DEFINE new == [request |-> r, snapshot |-> GetPublishedSnapshot(scope)]
<1>11. digests' = digests \cup {new}
  BY DEF StartDigest, DigestSource
<1>12. PICK d : d = new
  OBVIOUS
<1>13. DigestOk(d)'
  <2>1. d.request = r /\ d.snapshot = publications[last].snapshot
    BY <1>10, <1>12
  <2>2. r \in DOMAIN requests' /\ requests'[r].step = "done" /\ requests'[r].status = 201
    BY <1>2, <1>5 DEF RequestMoves
  <2>3. p \in Nat /\ last \in Nat
    BY PublicationAt DEF IInv
  <2>4. last = p \/ last > p
    BY <1>10, <2>3
  <2>5. \/ d.snapshot = publications[p].snapshot
        \/ \E later \in DOMAIN publications :
             later > p /\ publications[later].scope = publications[p].scope /\ publications[later].snapshot = d.snapshot
    BY <1>9, <1>10, <2>1, <2>4
  <2> QED
    BY <1>3, <1>8, <2>1, <2>2, <2>5 DEF DigestOk
<1>14. \A e \in digests : e.request # r
  BY <1>1 DEF IInv, DigestOk
<1>15. \A e, f \in digests' : e.request = f.request => e = f
  <2>1. new.request = r
    OBVIOUS
  <2> HIDE DEF new
  <2> QED
    BY <1>11, <1>14, <2>1 DEF IInv
<1>16. \A e \in digests' \ digests : DigestOk(e)'
  BY <1>11, <1>12, <1>13
<1> QED
  BY <1>3, <1>6, <1>7, <1>15, <1>16, MoveKeepsIInv

-----------------------------------------------------------------------------
(* The world around the handlers *)

LEMMA SendStep ==
    ASSUME IInv, NEW command \in Commands, Send(command)
    PROVE  IInv'
<1> DEFINE new == Request(command, Finished)
<1>1. PICK n \in Nat \ {0} : n = Len(requests) + 1
  BY DEF IInv, TypeInv
<1>2. /\ new \in RequestRow
      /\ new.step = "sent" /\ new.run = None /\ new.status = 0 /\ new.after = Finished
      /\ new.op = command.op /\ new.via = command.via
  <2>1. command \in Command
    BY CommandsAssumption
  <2>2. Finished \in SUBSET Nat
    BY DEF Finished, IInv, TypeInv
  <2> QED
    BY <2>1, <2>2 DEF Request, RequestRow, Command, Step, Early, None
<1>3. requests' = Append(requests, new) /\ UNCHANGED <<runs, publications, digests>>
  BY DEF Send, UnchangedButRequests, serviceVars
<1> HIDE DEF new
<1>4. /\ requests' \in Seq(RequestRow) /\ DOMAIN requests' = DOMAIN requests \cup {n}
      /\ n \notin DOMAIN requests /\ requests'[n] = new
      /\ \A s \in DOMAIN requests : requests'[s] = requests[s]
  BY <1>1, <1>2, <1>3 DEF IInv, TypeInv
<1>5. Moves(n)
  <2>1. RunsGrow(n)
    BY <1>3 DEF RunsGrow, IInv, PublicationOk
  <2>2. RequestMoves(n)
    BY <1>4 DEF RequestMoves
  <2> QED
    BY <1>3, <1>4, <2>1, <2>2 DEF Moves, IInv, TypeInv, PublicationsGrow
<1>6. RequestOk(n)'
  <2>1. new.op = "purge" => new.via = "cli"
    BY <1>2, CommandsAssumption
  <2>2. Fits(new)
    BY <1>2, <2>1 DEF Fits
  <2>3. OwnRun(n)' /\ KnownTarget(n)' /\ Commits(n)' /\ HasReleased(n)'
    BY <1>2, <1>4 DEF OwnRun, KnownTarget, Commits, HasReleased
  <2>4. AfterIsDone(n)'
    BY <1>2, <1>4 DEF AfterIsDone, Finished
  <2> QED
    BY <1>4, <2>2, <2>3, <2>4 DEF RequestOk
<1> QED
  BY <1>3, <1>5, <1>6, MoveKeepsIInv DEF IInv

LEMMA RestartStep ==
    ASSUME IInv, Restart
    PROVE  IInv'
<1>0. UNCHANGED <<runs, publications, digests>>
  BY DEF Restart, serviceVars
<1>1. /\ UNCHANGED <<runs, publications, digests>>
      /\ requests' = [r \in DOMAIN requests |->
            IF requests[r].via = "http" /\ requests[r].step # "done" THEN [requests[r] EXCEPT !.step = "done", !.batch = 0]
            ELSE requests[r]]
  BY DEF Restart, serviceVars
<1>2. \A r \in DOMAIN requests :
        /\ requests'[r] \in RequestRow
        /\ requests'[r].op = requests[r].op /\ requests'[r].scope = requests[r].scope
        /\ requests'[r].via = requests[r].via /\ requests'[r].target = requests[r].target
        /\ requests'[r].run = requests[r].run /\ requests'[r].status = requests[r].status
        /\ requests'[r].after = requests[r].after
        /\ requests'[r].step = requests[r].step \/ requests'[r].step = "done"
  <2> SUFFICES ASSUME NEW r \in DOMAIN requests
               PROVE  /\ requests'[r] \in RequestRow
                      /\ requests'[r].op = requests[r].op /\ requests'[r].scope = requests[r].scope
                      /\ requests'[r].via = requests[r].via /\ requests'[r].target = requests[r].target
                      /\ requests'[r].run = requests[r].run /\ requests'[r].status = requests[r].status
                      /\ requests'[r].after = requests[r].after
                      /\ requests'[r].step = requests[r].step \/ requests'[r].step = "done"
    OBVIOUS
  <2>1. requests[r] \in RequestRow
    BY RequestAt DEF IInv
  <2>2. CASE requests'[r] = requests[r]
    BY <2>1, <2>2
  <2>3. CASE requests'[r] = [requests[r] EXCEPT !.step = "done", !.batch = 0]
    <3> DEFINE row == [requests[r] EXCEPT !.step = "done", !.batch = 0]
    <3>1. /\ row \in RequestRow
          /\ row.op = requests[r].op /\ row.scope = requests[r].scope /\ row.via = requests[r].via
          /\ row.target = requests[r].target /\ row.run = requests[r].run /\ row.status = requests[r].status
          /\ row.after = requests[r].after /\ row.step = "done"
      BY <2>1 DEF RequestRow, Step
    <3> QED
      BY <2>3, <3>1
  <2> QED
    BY <1>1, <2>2, <2>3
<1>3. DOMAIN requests' = DOMAIN requests /\ requests' \in Seq(RequestRow)
  <2>1. DOMAIN requests = 1..Len(requests) /\ Len(requests) \in Nat
    BY DEF IInv, TypeInv
  <2>2. DOMAIN requests' = DOMAIN requests
    BY <1>1
  <2>3. requests' \in [1..Len(requests) -> RequestRow]
    BY <1>1, <1>2, <2>1
  <2> QED
    BY <2>1, <2>2, <2>3
<1>4. TypeInv'
  BY <1>0, <1>3 DEF IInv, TypeInv
<1>5. \A r \in DOMAIN requests' : RequestOk(r)'
  <2> SUFFICES ASSUME NEW r \in DOMAIN requests PROVE RequestOk(r)'
    BY <1>3
  <2>1. RequestOk(r)
    BY DEF IInv
  <2>2. Fits(requests[r])'
    BY <1>2, <2>1 DEF RequestOk, Fits
  <2>3. OwnRun(r)' /\ KnownTarget(r)'
    BY <1>0, <1>2, <2>1 DEF RequestOk, OwnRun, KnownTarget
  <2>4. Commits(r)'
    BY <1>0, <1>2, <2>1 DEF RequestOk, Commits, Overlaps, Published
  <2>5. AfterIsDone(r)' /\ HasReleased(r)'
    BY <1>0, <1>2, <1>3, <2>1 DEF RequestOk, AfterIsDone, HasReleased
  <2> QED
    BY <2>2, <2>3, <2>4, <2>5 DEF RequestOk
<1>6. \A i \in DOMAIN runs' : RunOk(i)'
  BY <1>0, <1>2, <1>3 DEF IInv, RunOk
<1>7. \A p \in DOMAIN publications' : PublicationOk(p)'
  <2> SUFFICES ASSUME NEW p \in DOMAIN publications PROVE PublicationOk(p)'
    BY <1>0
  <2>1. PublicationOk(p)
    BY DEF IInv
  <2>2. ASSUME publications[p].by # None PROVE EffectOf(publications[p].by, p)'
    BY <1>0, <1>2, <2>1, <2>2 DEF PublicationOk, EffectOf
  <2> QED
    BY <1>0, <1>2, <1>3, <2>1, <2>2 DEF PublicationOk, Early
<1>8. \A p, q \in DOMAIN publications' : Pair(p, q)'
  <2> SUFFICES ASSUME NEW p \in DOMAIN publications, NEW q \in DOMAIN publications PROVE Pair(p, q)'
    BY <1>0
  <2>1. Pair(p, q) /\ PublicationOk(q)
    BY DEF IInv
  <2> QED
    BY <1>0, <1>2, <2>1 DEF Pair, Overlaps, PublicationOk
<1>9. \A d \in digests' : DigestOk(d)'
  BY <1>0, <1>2, <1>3 DEF IInv, DigestOk
<1> QED
  BY <1>0, <1>4, <1>5, <1>6, <1>7, <1>8, <1>9 DEF IInv

\* Cloudflare and the scripts write none of the tables.
LEMMA FrameStep ==
    ASSUME IInv, UNCHANGED <<runs, publications, requests, digests>>
    PROVE  IInv'
BY DEF IInv, TypeInv, RequestOk, OwnRun, KnownTarget, Commits, Overlaps, Published, AfterIsDone, HasReleased,
       RunOk, PublicationOk, EffectOf, Pair, DigestOk

-----------------------------------------------------------------------------
(* The invariant *)

LEMMA InitIInv == Init => IInv
<1> SUFFICES ASSUME Init PROVE IInv
  OBVIOUS
<1>1. PICK b \in Beginnings : runs = b.runs /\ publications = b.publications
  BY DEF Init
<1>2. requests = <<>> /\ digests = {}
  BY DEF Init
<1>3. TypeInv
  BY <1>1, <1>2, BeginningsAssumption DEF TypeInv
<1>4. \A i \in DOMAIN runs : RunOk(i)
  BY <1>1, BeginningsAssumption DEF RunOk
<1>5. \A p \in DOMAIN publications : PublicationOk(p) /\ publications[p].by = None
  BY <1>1, BeginningsAssumption DEF PublicationOk, Unreleased
<1>6. \A p, q \in DOMAIN publications : Pair(p, q)
  <2> SUFFICES ASSUME NEW p \in DOMAIN publications, NEW q \in DOMAIN publications PROVE Pair(p, q)
    OBVIOUS
  <2>1. publications[p].action = "publish" /\ publications[q].action = "publish"
        /\ publications[p].run = publications[q].run => p = q
    BY <1>1, BeginningsAssumption
  <2>2. p \in Nat /\ q \in Nat
    BY <1>3, PublicationAt
  <2> QED
    BY <1>5, <2>1, <2>2 DEF Pair
<1> QED
  BY <1>2, <1>3, <1>4, <1>5, <1>6 DEF IInv

LEMMA HandlerStep == ASSUME IInv, Handler PROVE IInv'
<1>1. PICK r \in DOMAIN requests :
         \/ LowerDispatch(r) \/ HighCourtDispatch(r) \/ SupremeCourtDispatch(r) \/ CliDispatch(r)
         \/ Capture(r) \/ CopyRawCapture(r) \/ BuildCandidate(r) \/ Validate(r) \/ Commit(r) \/ Restore(r)
         \/ StepFails(r) \/ PurgeBatch(r) \/ StartDigest(r)
  BY DEF Handler
<1> QED
  BY <1>1, HttpDispatchStep, CliDispatchStep, CaptureStep, CopyRawCaptureStep, BuildCandidateStep, ValidateStep,
     CommitStep, RestoreStep, StepFailsStep, PurgeBatchStep, StartDigestStep

LEMMA NextIInv == IInv /\ [Next]_vars => IInv'
<1> SUFFICES ASSUME IInv, [Next]_vars PROVE IInv'
  OBVIOUS
<1>1. CASE Operator
  BY <1>1, SendStep DEF Operator
<1>2. CASE Handler
  BY <1>2, HandlerStep
<1>3. CASE Surroundings
  <2>1. CASE Restart
    BY <2>1, RestartStep
  <2>2. CASE FillArrives \/ PurgeSpreads \/ \E path \in FillPaths : FillRead(path)
    BY <2>2, FrameStep DEF FillArrives, FillRead, PurgeSpreads, serviceVars
  <2> QED
    BY <1>3, <2>1, <2>2 DEF Surroundings
<1>4. CASE Script
  <2>1. UNCHANGED <<serviceVars, apiVars>>
    BY <1>4 DEF Script, Verify, Prepublish, Postpublish, StartCheck, Assess, Fetch
  <2> QED
    BY <2>1, FrameStep DEF serviceVars, apiVars
<1>5. CASE UNCHANGED vars
  BY <1>5, FrameStep DEF vars
<1> QED
  BY <1>1, <1>2, <1>3, <1>4, <1>5 DEF Next

(* What requests, runs, publications and digests say of each other is always so: a    *)
(* row is its request's, a request past its release has one, and a run that is about *)
(* to be released was last released, if at all, by somebody still being served.      *)
THEOREM InductiveInvariant == Spec => []IInv
BY InitIInv, NextIInv, PTL DEF Spec

-----------------------------------------------------------------------------
(* What it says *)

LEMMA IInvTells == IInv => OperatorIsToldTheTruth
<1> SUFFICES ASSUME IInv PROVE OperatorIsToldTheTruth
  OBVIOUS
<1>1. ASSUME NEW r \in DOMAIN requests
      PROVE  /\ requests[r].status \in {200, 401, 404, 503} => PublishedBy(r) = {} /\ RunsBy(r) = {}
             /\ Cardinality(PublishedBy(r)) <= 1
             /\ \A p \in PublishedBy(r) : EffectOf(r, p)
             /\ requests[r].status = 201 /\ requests[r].op \in Releasing => PublishedBy(r) # {}
             /\ requests[r].status = 201 /\ requests[r].op = "fetch" =>
                  \E i \in RunsBy(r) : runs[i].scope = requests[r].scope /\ runs[i].artifacts = {"raw", "candidate"}
  <2>1. RequestOk(r) /\ r # None
    BY <1>1, RequestAt DEF IInv, None
  <2>2. \A p \in PublishedBy(r) : requests[r].op \in Releasing /\ EffectOf(r, p)
    BY <2>1 DEF PublishedBy, IInv, PublicationOk
  <2>3. \A i \in RunsBy(r) : requests[r].op \in {"fetch", "replay"}
    BY <2>1 DEF RunsBy, IInv, RunOk
  <2>4. requests[r].status \in {200, 401, 404, 503} => PublishedBy(r) = {} /\ RunsBy(r) = {}
    BY <2>1, <2>2, <2>3 DEF RequestOk, Fits, Releasing
  <2>5. Cardinality(PublishedBy(r)) <= 1
    <3>1. \A p, q \in PublishedBy(r) : p = q
      BY <2>1 DEF PublishedBy, IInv, Pair
    <3>2. CASE PublishedBy(r) = {}
      BY <3>2, FS_EmptySet
    <3>3. CASE PublishedBy(r) # {}
      <4>1. PICK p : PublishedBy(r) = {p}
        BY <3>1, <3>3
      <4> QED
        BY <4>1, FS_Singleton
    <3> QED
      BY <3>2, <3>3
  <2>6. requests[r].status = 201 /\ requests[r].op \in Releasing => PublishedBy(r) # {}
    BY <2>1 DEF RequestOk, HasReleased, PublishedBy
  <2>7. ASSUME requests[r].status = 201, requests[r].op = "fetch"
        PROVE  requests[r].run \in RunsBy(r) /\ runs[requests[r].run].scope = requests[r].scope
               /\ runs[requests[r].run].artifacts = Both
    BY <2>1, <2>7 DEF RequestOk, OwnRun, RunsBy
  <2> QED
    BY <2>2, <2>4, <2>5, <2>6, <2>7 DEF Both
<1>2. ASSUME NEW p \in DOMAIN publications, NEW q \in DOMAIN publications,
             publications[p].action = "publish", publications[q].action = "publish",
             publications[p].run = publications[q].run, p < q
      PROVE  /\ publications[q].by # None /\ publications[p].by # None
             /\ publications[p].by \notin requests[publications[q].by].after
  BY <1>2 DEF IInv, Pair, Overlaps
<1> QED
  BY <1>1, <1>2 DEF OperatorIsToldTheTruth, Releasing

LEMMA IInvMails == IInv => DigestIsOfTheRelease
<1> SUFFICES ASSUME IInv PROVE DigestIsOfTheRelease
  OBVIOUS
<1>1. ASSUME NEW d \in digests
      PROVE  /\ requests[d.request].status = 201
             /\ \E p \in PublishedBy(d.request) :
                  \/ d.snapshot = publications[p].snapshot
                  \/ \E later \in DOMAIN publications :
                       later > p /\ publications[later].scope = publications[p].scope
                         /\ publications[later].snapshot = d.snapshot
  BY DEF IInv, DigestOk, PublishedBy
<1> QED
  BY <1>1 DEF DigestIsOfTheRelease, IInv

(* Whatever operators send, in whatever order their requests are served, whatever    *)
(* step fails and whenever the server restarts: a refusal has changed nothing, a     *)
(* success is the one publication or capture asked for, and a run is released twice  *)
(* only by requests that were being served at the same time.                         *)
THEOREM OperatorsAreToldTheTruth == Spec => []OperatorIsToldTheTruth
BY InductiveInvariant, IInvTells, PTL

(* However many releases and rollbacks of other operators land between a publication *)
(* and its mail, the mail shows the publication or one released in the state after   *)
(* it, and no publication is mailed twice by its route.                              *)
THEOREM DigestsAreOfTheirRelease == Spec => []DigestIsOfTheRelease
BY InductiveInvariant, IInvMails, PTL

-----------------------------------------------------------------------------
(* The public site: batches *)

LEMMA Division ==
    ASSUME NEW a \in Nat, NEW b \in Nat \ {0}
    PROVE  /\ a \div b \in Nat /\ (a \div b) * b <= a
           /\ (a + b) \div b = a \div b + 1
OBVIOUS

LEMMA DivisionGrows ==
    ASSUME NEW a \in Nat, NEW c \in Nat, a <= c, NEW b \in Nat \ {0}
    PROVE  a \div b <= c \div b
OBVIOUS

LEMMA EveryPathHasABatch ==
    ASSUME NEW length \in Nat, NEW j \in 1..length, NEW size \in Nat \ {0}
    PROVE  \E n \in 1..((length + size - 1) \div size) : (j - 1) \div size = n - 1
<1>1. PICK k \in Nat : k = j - 1
  OBVIOUS
<1>2. PICK m \in Nat : m = length - 1
  OBVIOUS
<1>3. k <= m /\ length + size - 1 = m + size
  BY <1>1, <1>2
<1>4. (length + size - 1) \div size = m \div size + 1 /\ m \div size \in Nat
  BY <1>3, Division
<1>5. k \div size <= m \div size /\ k \div size \in Nat
  BY <1>3, Division, DivisionGrows
<1>6. k \div size + 1 \in 1..((length + size - 1) \div size)
  BY <1>4, <1>5
<1>7. (j - 1) \div size = (k \div size + 1) - 1
  BY <1>1, <1>5
<1> QED
  BY <1>6, <1>7

-----------------------------------------------------------------------------
(* Addresses *)

\* What a segment of a path can be.
Word == {"states", "data", "districts.csv", "evidence", "state.json", "api", "districts", "csv", "json",
         "movers", "methodology", "compare"}
Segment == Word \cup {SlugOf[s] : s \in Scopes} \cup District

LEMMA BaseIsPath ==
    ASSUME NEW scope \in LowerScopes
    PROVE  /\ HtmlBase(scope) \in Seq(Segment)
           /\ Len(HtmlBase(scope)) \in {0, 2}
           /\ Len(HtmlBase(scope)) = 2 => HtmlBase(scope)[1] = "states"
<1>1. "states" \in Segment /\ SlugOf[scope] \in Segment
  BY DEF Segment, Word, Scopes
<1>2. <<"states", SlugOf[scope]>> \in Seq(Segment)
  BY <1>1
<1> QED
  BY <1>2 DEF HtmlBase

LEMMA UnderData ==
    ASSUME NEW scope \in LowerScopes, NEW rest \in Seq(Segment), rest # <<>>
    PROVE  /\ HtmlBase(scope) \o rest \in Seq(Segment)
           /\ rest[1] = "data" => NoStore(HtmlBase(scope) \o rest)
           /\ rest[1] = "api" => ~NoStore(HtmlBase(scope) \o rest)
<1>1. PICK path : path = HtmlBase(scope) \o rest
  OBVIOUS
<1>2. /\ path \in Seq(Segment) /\ Len(path) = Len(HtmlBase(scope)) + Len(rest)
      /\ Len(rest) \in Nat \ {0}
      /\ \A i \in 1..Len(path) : path[i] = IF i <= Len(HtmlBase(scope)) THEN HtmlBase(scope)[i] ELSE rest[i - Len(HtmlBase(scope))]
  BY <1>1, BaseIsPath, ConcatProperties, EmptySeq
<1>3. path # <<>>
  BY <1>2, BaseIsPath
<1>4. CASE Len(HtmlBase(scope)) = 2
  <2>1. path[1] = "states" /\ path[3] = rest[1] /\ Len(path) >= 3
    BY <1>2, <1>4, BaseIsPath
  <2>2. SubSeq(path, 3, Len(path))[1] = path[3] /\ SubSeq(path, 3, Len(path)) # <<>>
    <3>1. \A i \in 3..Len(path) : path[i] \in Segment
      BY <1>2, <2>1, ElementOfSeq
    <3>2. PICK tail : tail = SubSeq(path, 3, Len(path))
      OBVIOUS
    <3>3. PICK length \in Nat : length = Len(path) /\ length >= 3
      BY <1>2, <2>1
    <3>4. /\ tail \in Seq(Segment) /\ Len(tail) = length - 2
          /\ \A i \in 1..(length - 3 + 1) : tail[i] = path[3 + i - 1]
      BY <3>1, <3>2, <3>3, SubSeqProperties
    <3>5. tail # <<>>
      BY <3>3, <3>4, EmptySeq
    <3>6. tail[1] = path[3]
      <4>1. PICK one \in Nat : one = 1
        OBVIOUS
      <4>2. tail[one] = path[3 + one - 1]
        BY <3>3, <3>4, <4>1
      <4> QED
        BY <4>1, <4>2
    <3> QED
      BY <3>2, <3>5, <3>6
  <2> QED
    BY <1>1, <1>2, <1>3, <2>1, <2>2 DEF NoStore
<1>5. CASE Len(HtmlBase(scope)) = 0
  <2>1. path[1] = rest[1]
    BY <1>2, <1>5
  <2> QED
    BY <1>1, <1>2, <1>3, <2>1 DEF NoStore
<1> QED
  BY <1>4, <1>5, BaseIsPath

LEMMA DownloadsAreUnderData ==
    ASSUME NEW scope \in LowerScopes
    PROVE  /\ NoStore(BuildPublicStateRoutes(scope).data) /\ NoStore(BuildPublicStateRoutes(scope).districtsCsv)
           /\ NoStore(BuildPublicStateRoutes(scope).stateEvidencePack)
           /\ \A d \in District : NoStore(DistrictCsvRoute(scope, d)) /\ NoStore(DistrictEvidenceRoute(scope, d))
           /\ ~NoStore(BuildPublicStateRoutes(scope).api) /\ ~NoStore(BuildPublicStateRoutes(scope).stats)
<1>1. /\ <<"data">> \in Seq(Segment) /\ <<"data", "districts.csv">> \in Seq(Segment)
      /\ <<"data", "evidence", "state.json">> \in Seq(Segment) /\ <<"api">> \in Seq(Segment)
      /\ \A d \in District : /\ <<"data", "districts", d, "csv">> \in Seq(Segment)
                            /\ <<"data", "evidence", "districts", d, "json">> \in Seq(Segment)
  <2>1. /\ "data" \in Segment /\ "districts.csv" \in Segment /\ "evidence" \in Segment /\ "state.json" \in Segment
        /\ "api" \in Segment /\ "districts" \in Segment /\ "csv" \in Segment /\ "json" \in Segment
        /\ District \subseteq Segment
    BY DEF Segment, Word
  <2> QED
    BY <2>1
<1>2. /\ NoStore(BuildPublicStateRoutes(scope).data) /\ NoStore(BuildPublicStateRoutes(scope).districtsCsv)
      /\ NoStore(BuildPublicStateRoutes(scope).stateEvidencePack)
  BY <1>1, UnderData DEF BuildPublicStateRoutes
<1>3. \A d \in District : NoStore(DistrictCsvRoute(scope, d)) /\ NoStore(DistrictEvidenceRoute(scope, d))
  BY <1>1, UnderData DEF DistrictCsvRoute, DistrictEvidenceRoute
<1>4. ~NoStore(BuildPublicStateRoutes(scope).api)
  <2>1. ~NoStore(<<"states", "himachal", "api">>)
    BY DEF NoStore
  <2> QED
    BY <1>1, <2>1, UnderData DEF BuildPublicStateRoutes
<1>5. ~NoStore(BuildPublicStateRoutes(scope).stats)
  BY DEF BuildPublicStateRoutes, ApiBase, NoStore
<1> QED
  BY <1>2, <1>3, <1>4, <1>5

-----------------------------------------------------------------------------
(* What the router makes of the addresses that the builders write *)

\* What follows the first m segments of a path.
LEMMA SegmentsAfter ==
    ASSUME NEW S, NEW path \in Seq(S), NEW rest \in Seq(S), NEW m \in Nat, NEW n \in Nat,
           Len(path) = n, Len(rest) = n - m, m <= n, \A i \in 1..(n - m) : rest[i] = path[m + i]
    PROVE  SubSeq(path, m + 1, n) = rest
<1>1. PICK tail : tail = SubSeq(path, m + 1, n)
  OBVIOUS
<1>2. \A i \in (m + 1)..n : path[i] \in S
  BY ElementOfSeq
<1>3. /\ tail \in Seq(S)
      /\ Len(tail) = IF m + 1 <= n THEN n - (m + 1) + 1 ELSE 0
      /\ \A i \in 1..(n - (m + 1) + 1) : tail[i] = path[(m + 1) + i - 1]
  BY <1>1, <1>2, SubSeqProperties
<1>4. Len(tail) = n - m
  BY <1>3
<1>5. \A i \in 1..(n - m) : tail[i] = rest[i]
  <2> SUFFICES ASSUME NEW i \in 1..(n - m) PROVE tail[i] = rest[i]
    OBVIOUS
  <2>1. i \in 1..(n - (m + 1) + 1) /\ (m + 1) + i - 1 = m + i
    OBVIOUS
  <2>2. tail[i] = path[(m + 1) + i - 1]
    BY <1>3, <2>1
  <2> QED
    BY <2>1, <2>2
<1> QED
  BY <1>1, <1>3, <1>4, <1>5, SeqEqual

\* The geography a slug names.
Names(slug, scope) == slug = SlugOf[scope] \/ (slug = "himachal" /\ scope = DefaultState)
LEMMA SlugsAreResolved ==
    ASSUME NEW scope \in LowerScopes, NEW slug, Names(slug, scope)
    PROVE  ResolvePublicState(slug) # {} /\ Only(ResolvePublicState(slug)) = scope
<1>1. ResolvePublicState(slug) = {scope}
  BY RoutesAssumption DEF ResolvePublicState, Scopes, Names
<1> QED
  BY <1>1 DEF Only

LEMMA UnderStatesIsRouted ==
    ASSUME NEW scope \in LowerScopes, NEW S, NEW path \in Seq(S), NEW rest \in Seq(S),
           NEW n \in Nat, Len(path) = n, n >= 2, Len(rest) = n - 2,
           path[1] = "states", Names(path[2], scope), \A i \in 1..(n - 2) : rest[i] = path[2 + i]
    PROVE  Router(path) = UnderStates(scope, rest)
<1>1. SubSeq(path, 3, n) = rest
  BY SegmentsAfter
<1>2. path # <<>>
  BY EmptySeq
<1>3. Router(path) = UnderStates(Only(ResolvePublicState(path[2])), SubSeq(path, 3, Len(path)))
  BY <1>2, SlugsAreResolved DEF Router
<1> QED
  BY <1>1, <1>3, SlugsAreResolved

Heads == {"districts", "movers", "data", "methodology", "api", "compare"}
LEMMA StatePagesAreRouted ==
    ASSUME NEW scope \in LowerScopes, NEW rest \in Seq(Segment), rest # <<>>, rest[1] \in Heads
    PROVE  Router(HtmlBase(scope) \o rest) = StatePages(scope, rest)
<1>1. PICK path : path = HtmlBase(scope) \o rest
  OBVIOUS
<1>2. PICK n \in Nat : n = Len(rest) /\ n >= 1
  BY EmptySeq, LenProperties
<1>3. CASE scope = DefaultState
  <2>1. path = rest
    BY <1>1, <1>3, ConcatEmptySeq DEF HtmlBase
  <2>2. rest # <<"high-courts">>
    BY DEF Heads
  <2> QED
    BY <1>1, <1>3, <2>1, <2>2, ZenonT(60) DEF Router, Heads
<1>4. CASE scope # DefaultState
  <2>1. PICK base : base = <<"states", SlugOf[scope]>> /\ base = HtmlBase(scope)
    BY <1>4 DEF HtmlBase
  <2>2. base \in Seq(Segment) /\ Len(base) = 2 /\ base[1] = "states" /\ base[2] = SlugOf[scope]
    <3>1. HtmlBase(scope) \in Seq(Segment)
      BY BaseIsPath
    <3>2. Len(base) = 2 /\ base[1] = "states" /\ base[2] = SlugOf[scope]
      BY <2>1
    <3> QED
      BY <2>1, <3>1, <3>2
  <2>3. /\ path \in Seq(Segment) /\ Len(path) = n + 2
        /\ \A i \in 1..(n + 2) : path[i] = IF i <= 2 THEN base[i] ELSE rest[i - 2]
    <3>1. Len(base) + Len(rest) = n + 2
      BY <1>2, <2>2
    <3>2. /\ path \in Seq(Segment) /\ Len(path) = Len(base) + Len(rest)
          /\ \A i \in 1..(Len(base) + Len(rest)) : path[i] = IF i <= Len(base) THEN base[i] ELSE rest[i - Len(base)]
      <4>1. path = base \o rest
        BY <1>1, <2>1
      <4> QED
        BY <2>2, <4>1, ConcatProperties
    <3> QED
      BY <2>2, <3>1, <3>2
  <2>4. path[1] = "states" /\ path[2] = SlugOf[scope]
    BY <1>2, <2>2, <2>3
  <2>5. \A i \in 1..n : rest[i] = path[2 + i]
    BY <1>2, <2>3
  <2>6. Router(path) = UnderStates(scope, rest)
    <3>1. PICK m \in Nat : m = n + 2 /\ m >= 2 /\ m - 2 = n
      OBVIOUS
    <3> QED
      BY <1>2, <2>3, <2>4, <2>5, <3>1, UnderStatesIsRouted DEF Names
  <2>7. rest # <<"feed.xml">>
    BY DEF Heads
  <2> QED
    BY <1>1, <2>6, <2>7 DEF UnderStates
<1> QED
  BY <1>3, <1>4

LEMMA PathsOfStates ==
    /\ <<"districts">> \in Seq(Segment) /\ <<"movers">> \in Seq(Segment) /\ <<"data">> \in Seq(Segment)
    /\ <<"methodology">> \in Seq(Segment) /\ <<"api">> \in Seq(Segment)
    /\ <<"data", "districts.csv">> \in Seq(Segment) /\ <<"data", "evidence", "state.json">> \in Seq(Segment)
    /\ \A d \in District :
         /\ <<"districts", d>> \in Seq(Segment) /\ <<"data", "districts", d, "csv">> \in Seq(Segment)
         /\ <<"data", "evidence", "districts", d, "json">> \in Seq(Segment)
         /\ \A e \in District : <<"compare", d, e>> \in Seq(Segment)
<1>1. /\ "districts" \in Segment /\ "movers" \in Segment /\ "data" \in Segment /\ "methodology" \in Segment
      /\ "api" \in Segment /\ "districts.csv" \in Segment /\ "evidence" \in Segment /\ "state.json" \in Segment
      /\ "csv" \in Segment /\ "json" \in Segment /\ "compare" \in Segment /\ District \subseteq Segment
  BY DEF Segment, Word
<1> QED
  BY <1>1

\* A download that is answered shows the geography's active snapshot.
ShowsTheActive(scope, path) ==
    Router(path).status = 200 =>
      GetPublishedSnapshot(scope) # None /\ Router(path).snapshot = GetPublishedSnapshot(scope)
LEMMA AnswersShowTheActive ==
    ASSUME NEW scope, NEW missing \in {404, 503}, NEW districts, NEW path,
           Router(path) \in {OfSnapshot(scope, missing), OfDistricts(scope, districts, missing)}
    PROVE  ShowsTheActive(scope, path)
BY DEF ShowsTheActive, OfSnapshot, OfDistricts, Refused, Shows

LEMMA DownloadsShowTheActive ==
    ASSUME NEW scope \in LowerScopes
    PROVE  /\ ShowsTheActive(scope, BuildPublicStateRoutes(scope).data)
           /\ ShowsTheActive(scope, BuildPublicStateRoutes(scope).districtsCsv)
           /\ ShowsTheActive(scope, BuildPublicStateRoutes(scope).stateEvidencePack)
           /\ \A d \in District : /\ ShowsTheActive(scope, DistrictCsvRoute(scope, d))
                                  /\ ShowsTheActive(scope, DistrictEvidenceRoute(scope, d))
<1>1. PICK data, csv, pack :
        /\ data = BuildPublicStateRoutes(scope).data /\ csv = BuildPublicStateRoutes(scope).districtsCsv
        /\ pack = BuildPublicStateRoutes(scope).stateEvidencePack
  OBVIOUS
<1>2. /\ Router(data) = StatePages(scope, <<"data">>)
      /\ Router(csv) = StatePages(scope, <<"data", "districts.csv">>)
      /\ Router(pack) = StatePages(scope, <<"data", "evidence", "state.json">>)
  BY <1>1, PathsOfStates, StatePagesAreRouted DEF Heads, BuildPublicStateRoutes
<1>3. StatePages(scope, <<"data">>) = OfSnapshot(scope, 503)
  BY DEF StatePages, DataPage
<1>4. StatePages(scope, <<"data", "districts.csv">>) = OfSnapshot(scope, 404)
  BY DEF StatePages, Downloads
<1>5. StatePages(scope, <<"data", "evidence", "state.json">>) = OfSnapshot(scope, 404)
  BY DEF StatePages, Downloads
<1>6. ASSUME NEW d \in District
      PROVE  /\ ShowsTheActive(scope, DistrictCsvRoute(scope, d))
             /\ ShowsTheActive(scope, DistrictEvidenceRoute(scope, d))
  <2>1. Router(DistrictCsvRoute(scope, d)) = StatePages(scope, <<"data", "districts", d, "csv">>)
    <3>1. PICK rest : rest = <<"data", "districts", d, "csv">>
      OBVIOUS
    <3>2. rest \in Seq(Segment) /\ rest # <<>> /\ rest[1] \in Heads
      BY <3>1, PathsOfStates DEF Heads
    <3> QED
      BY <3>1, <3>2, StatePagesAreRouted DEF DistrictCsvRoute
  <2>2. Router(DistrictEvidenceRoute(scope, d)) = StatePages(scope, <<"data", "evidence", "districts", d, "json">>)
    <3>1. PICK rest : rest = <<"data", "evidence", "districts", d, "json">>
      OBVIOUS
    <3>2. rest \in Seq(Segment) /\ rest # <<>> /\ rest[1] \in Heads
      BY <3>1, PathsOfStates DEF Heads
    <3> QED
      BY <3>1, <3>2, StatePagesAreRouted DEF DistrictEvidenceRoute
  <2>3. StatePages(scope, <<"data", "districts", d, "csv">>) = Downloads(scope, <<"data", "districts", d, "csv">>)
    BY DEF StatePages
  <2>4. Downloads(scope, <<"data", "districts", d, "csv">>) = OfDistricts(scope, {d}, 404)
    BY DEF Downloads
  <2>5. StatePages(scope, <<"data", "evidence", "districts", d, "json">>)
          = Downloads(scope, <<"data", "evidence", "districts", d, "json">>)
    BY DEF StatePages
  <2>6. Downloads(scope, <<"data", "evidence", "districts", d, "json">>) = OfDistricts(scope, {d}, 404)
    BY DEF Downloads
  <2> QED
    BY <2>1, <2>2, <2>3, <2>4, <2>5, <2>6, AnswersShowTheActive
<1>7. ShowsTheActive(scope, data) /\ ShowsTheActive(scope, csv) /\ ShowsTheActive(scope, pack)
  BY <1>2, <1>3, <1>4, <1>5, AnswersShowTheActive
<1> QED
  BY <1>1, <1>6, <1>7

\* What no cache may keep, and what it would keep if it did.
IsDownload(scope, path) == NoStore(path) /\ ShowsTheActive(scope, path)

-----------------------------------------------------------------------------
(* The list that a release of a state purges *)

\* The districts shown, in some order; and the list that is made of them.
Listed(shown) == CHOOSE list \in [1..Cardinality(shown) -> shown] : \A d \in shown : \E i \in DOMAIN list : list[i] = d
DistrictEntry(scope, districts, i) ==
    LET district == districts[(i + 1) \div 2]
    IN  IF i % 2 = 1 THEN DistrictCsvRoute(scope, district) ELSE DistrictEvidenceRoute(scope, district)
ListFor(scope, shown) ==
    <<BuildPublicStateRoutes(scope).data, BuildPublicStateRoutes(scope).districtsCsv,
      BuildPublicStateRoutes(scope).stateEvidencePack>>
    \o [i \in 1..(2 * Len(Listed(shown))) |-> DistrictEntry(scope, Listed(shown), i)]

LEMMA DistrictsAreListed ==
    ASSUME NEW shown, IsFiniteSet(shown)
    PROVE  /\ Listed(shown) \in Seq(shown)
           /\ \A d \in shown : \E i \in 1..Len(Listed(shown)) : Listed(shown)[i] = d
<1>1. Cardinality(shown) \in Nat
  BY FS_CardinalityType
<1>2. PICK list \in [1..Cardinality(shown) -> shown] : \A d \in shown : \E i \in DOMAIN list : list[i] = d
  BY FS_CardinalityType DEF ExistsBijection, Bijection, Surjection
<1>3. /\ Listed(shown) \in [1..Cardinality(shown) -> shown]
      /\ \A d \in shown : \E i \in DOMAIN Listed(shown) : Listed(shown)[i] = d
  BY <1>2 DEF Listed
<1> QED
  BY <1>1, <1>3

LEMMA ListOfState ==
    ASSUME NEW scope \in LowerScopes, NEW shown \in SUBSET District
    PROVE  LET list == ListFor(scope, shown)
           IN  /\ Len(list) \in Nat /\ DOMAIN list = 1..Len(list)
               /\ \A i \in DOMAIN list : IsDownload(scope, list[i])
               /\ {BuildPublicStateRoutes(scope).data, BuildPublicStateRoutes(scope).districtsCsv,
                   BuildPublicStateRoutes(scope).stateEvidencePack} \subseteq {list[i] : i \in DOMAIN list}
               /\ \A d \in shown : {DistrictCsvRoute(scope, d), DistrictEvidenceRoute(scope, d)} \subseteq {list[i] : i \in DOMAIN list}
<1>1. PICK districts : districts = Listed(shown)
  OBVIOUS
<1>2. districts \in Seq(shown) /\ \A d \in shown : \E i \in 1..Len(districts) : districts[i] = d
  BY <1>1, DistrictsAreListed, DistrictsAssumption, FS_Subset
<1>3. PICK n \in Nat : n = 2 * Len(districts)
  BY <1>2
<1>4. PICK rest : rest = [i \in 1..n |-> DistrictEntry(scope, districts, i)]
  OBVIOUS
<1>5. \A k \in 1..n : (k + 1) \div 2 \in 1..Len(districts)
  BY <1>2, <1>3
<1>6. \A k \in 1..n : IsDownload(scope, rest[k])
  <2> SUFFICES ASSUME NEW k \in 1..n PROVE IsDownload(scope, rest[k])
    OBVIOUS
  <2>1. districts[(k + 1) \div 2] \in District
    BY <1>2, <1>5
  <2> QED
    BY <1>4, <2>1, DownloadsAreUnderData, DownloadsShowTheActive DEF DistrictEntry, IsDownload
<1>7. \A k \in 1..Len(districts) :
        /\ 2 * k - 1 \in 1..n /\ 2 * k \in 1..n
        /\ rest[2 * k - 1] = DistrictCsvRoute(scope, districts[k]) /\ rest[2 * k] = DistrictEvidenceRoute(scope, districts[k])
  <2> SUFFICES ASSUME NEW k \in 1..Len(districts)
               PROVE  /\ 2 * k - 1 \in 1..n /\ 2 * k \in 1..n
                      /\ rest[2 * k - 1] = DistrictCsvRoute(scope, districts[k])
                      /\ rest[2 * k] = DistrictEvidenceRoute(scope, districts[k])
    OBVIOUS
  <2>1. k \in Nat /\ 2 * k - 1 \in 1..n /\ 2 * k \in 1..n
    BY <1>2, <1>3
  <2>2. (2 * k - 1) % 2 = 1 /\ (2 * k - 1 + 1) \div 2 = k
    BY <2>1
  <2>3. (2 * k) % 2 = 0 /\ (2 * k + 1) \div 2 = k
    BY <2>1
  <2> QED
    BY <1>4, <2>1, <2>2, <2>3 DEF DistrictEntry
<1>8. PICK first : first = <<BuildPublicStateRoutes(scope).data, BuildPublicStateRoutes(scope).districtsCsv,
                             BuildPublicStateRoutes(scope).stateEvidencePack>>
  OBVIOUS
<1>9. PICK Path : first \in Seq(Path) /\ rest \in Seq(Path)
  <2>1. first \in Seq({first[1], first[2], first[3]} \cup {rest[k] : k \in 1..n})
    BY <1>8
  <2>2. rest \in [1..n -> {first[1], first[2], first[3]} \cup {rest[k] : k \in 1..n}]
    BY <1>4
  <2> QED
    BY <2>1, <2>2
<1>10. PICK list : list = first \o rest
  OBVIOUS
<1>11. Len(first) = 3 /\ Len(rest) = n
  BY <1>3, <1>4, <1>8
<1>12. /\ Len(list) = 3 + n /\ DOMAIN list = 1..Len(list)
       /\ \A i \in 1..(3 + n) : list[i] = IF i <= 3 THEN first[i] ELSE rest[i - 3]
  <2>1. Len(list) = Len(first) + Len(rest) /\ list \in Seq(Path)
    BY <1>9, <1>10, ConcatProperties
  <2>2. \A i \in 1..(Len(first) + Len(rest)) : list[i] = IF i <= Len(first) THEN first[i] ELSE rest[i - Len(first)]
    BY <1>9, <1>10, ConcatProperties
  <2>3. DOMAIN list = 1..Len(list)
    BY <2>1, LenProperties
  <2> QED
    BY <1>11, <2>1, <2>2, <2>3
<1>13. \A k \in 1..n : 3 + k \in DOMAIN list /\ list[3 + k] = rest[k]
  BY <1>12
<1>14. \A i \in DOMAIN list : IsDownload(scope, list[i])
  <2> SUFFICES ASSUME NEW i \in 1..(3 + n) PROVE IsDownload(scope, list[i])
    BY <1>12
  <2>1. CASE i <= 3
    BY <1>8, <1>12, <2>1, DownloadsAreUnderData, DownloadsShowTheActive DEF IsDownload
  <2>2. CASE i > 3
    BY <1>6, <1>12, <2>2
  <2> QED
    BY <2>1, <2>2
<1>15. list = ListFor(scope, shown)
  BY <1>1, <1>3, <1>4, <1>8, <1>10 DEF ListFor
<1>16. {first[1], first[2], first[3]} \subseteq {list[i] : i \in DOMAIN list}
  <2>1. 1 \in DOMAIN list /\ 2 \in DOMAIN list /\ 3 \in DOMAIN list
    BY <1>12
  <2>2. list[1] = first[1] /\ list[2] = first[2] /\ list[3] = first[3]
    BY <1>12
  <2> QED
    BY <2>1, <2>2
<1>17. \A d \in shown : {DistrictCsvRoute(scope, d), DistrictEvidenceRoute(scope, d)} \subseteq {list[i] : i \in DOMAIN list}
  <2> SUFFICES ASSUME NEW d \in shown
               PROVE  {DistrictCsvRoute(scope, d), DistrictEvidenceRoute(scope, d)} \subseteq {list[i] : i \in DOMAIN list}
    OBVIOUS
  <2>1. PICK k \in 1..Len(districts) : districts[k] = d
    BY <1>2
  <2> QED
    BY <1>7, <1>13, <2>1
<1>18. /\ Len(list) \in Nat
       /\ first[1] = BuildPublicStateRoutes(scope).data /\ first[2] = BuildPublicStateRoutes(scope).districtsCsv
       /\ first[3] = BuildPublicStateRoutes(scope).stateEvidencePack
  BY <1>8, <1>12
<1> QED
  BY <1>12, <1>14, <1>15, <1>16, <1>17, <1>18

LEMMA ListIsPurged ==
    ASSUME NEW scope \in LowerScopes, NEW snapshot
    PROVE  PurgeList(scope, snapshot) = ListFor(scope, DistrictsIn(snapshot))
BY TiersAssumption DEF PurgeList, ListFor, Listed, DistrictEntry

\* The n-th call, and how many there are.
BatchFor(scope, shown, n) ==
    {ListFor(scope, shown)[i] : i \in {j \in DOMAIN ListFor(scope, shown) : (j - 1) \div BatchSize = n - 1}}
BatchesFor(scope, shown) == (Len(ListFor(scope, shown)) + BatchSize - 1) \div BatchSize

LEMMA BatchIsPurged ==
    ASSUME NEW scope \in LowerScopes, NEW snapshot, CloudflareConfigured
    PROVE  /\ \A n : BatchOf(scope, snapshot, n) = BatchFor(scope, DistrictsIn(snapshot), n)
           /\ Batches(scope, snapshot) = BatchesFor(scope, DistrictsIn(snapshot))
BY ListIsPurged DEF BatchOf, Batches, BatchFor, BatchesFor

\* What is purged are downloads, and all of it is in some call.
LEMMA BatchesCover ==
    ASSUME NEW scope \in LowerScopes, NEW shown \in SUBSET District
    PROVE  /\ \A n : \A path \in BatchFor(scope, shown, n) : IsDownload(scope, path)
           /\ \A i \in DOMAIN ListFor(scope, shown) :
                \E n \in 1..BatchesFor(scope, shown) : ListFor(scope, shown)[i] \in BatchFor(scope, shown, n)
<1>1. PICK list : list = ListFor(scope, shown)
  OBVIOUS
<1>2. /\ Len(list) \in Nat /\ DOMAIN list = 1..Len(list)
      /\ \A i \in DOMAIN list : IsDownload(scope, list[i])
  BY <1>1, ListOfState
<1>3. \A i \in DOMAIN list : \E n \in 1..BatchesFor(scope, shown) : (i - 1) \div BatchSize = n - 1
  <2>1. PICK length \in Nat : length = Len(list)
    BY <1>2
  <2>2. PICK size \in Nat \ {0} : size = BatchSize
    BY BatchAssumption
  <2>3. \A i \in 1..length : \E n \in 1..((length + size - 1) \div size) : (i - 1) \div size = n - 1
    BY EveryPathHasABatch
  <2>4. BatchesFor(scope, shown) = (length + size - 1) \div size
    BY <1>1, <2>1, <2>2 DEF BatchesFor
  <2> QED
    BY <1>2, <2>1, <2>2, <2>3, <2>4
<1> QED
  BY <1>1, <1>2, <1>3 DEF BatchFor

LEMMA DownloadsAreListed ==
    ASSUME NEW scope \in LowerScopes, NEW snapshot, DistrictsIn(snapshot) \in SUBSET District,
           NEW path \in DownloadsOf(scope, snapshot)
    PROVE  \E i \in DOMAIN ListFor(scope, DistrictsIn(snapshot)) : path = ListFor(scope, DistrictsIn(snapshot))[i]
<1>1. PICK shown \in SUBSET District : shown = DistrictsIn(snapshot)
  OBVIOUS
<1>2. PICK list : list = ListFor(scope, shown)
  OBVIOUS
<1>3. /\ {BuildPublicStateRoutes(scope).data, BuildPublicStateRoutes(scope).districtsCsv,
          BuildPublicStateRoutes(scope).stateEvidencePack} \subseteq {list[i] : i \in DOMAIN list}
      /\ \A d \in shown : {DistrictCsvRoute(scope, d), DistrictEvidenceRoute(scope, d)} \subseteq {list[i] : i \in DOMAIN list}
  BY <1>2, ListOfState
<1>4. \/ path \in {BuildPublicStateRoutes(scope).data, BuildPublicStateRoutes(scope).districtsCsv,
                   BuildPublicStateRoutes(scope).stateEvidencePack}
      \/ \E d \in shown : path \in {DistrictCsvRoute(scope, d), DistrictEvidenceRoute(scope, d)}
  BY <1>1, DownloadsAreUnderData DEF DownloadsOf, DataPageLinks
<1> QED
  BY <1>1, <1>2, <1>3, <1>4

-----------------------------------------------------------------------------
(* The invariant *)

\* What is shown never changes: a publication's run has been completed, or has failed
\* after its release, and its snapshot is one that was inserted.
SettledInv ==
    \A p \in DOMAIN publications :
      publications[p].snapshot \in DOMAIN publications /\ runs[publications[p].run].status # "pending"

\* Every copy of the n-th call's paths is one that the release has an excuse for.
Cleared(r, shown, n) ==
    \A copy \in edge \cup fill : copy.path \in BatchFor(requests[r].scope, shown, n) => Excused(r, copy)
OwnRelease(r) == \E p \in PublishedBy(r) : publications[p].scope = requests[r].scope
Fresh(r) ==
    /\ requests[r].step \in Early => requests[r].released = None
    /\ requests[r].released # None => requests[r].released \in DOMAIN publications /\ OwnRelease(r)
    /\ CloudflareConfigured /\ requests[r].released # None /\ requests[r].scope \in LowerScopes =>
         LET shown == DistrictsIn(requests[r].released)
         IN  /\ requests[r].step = "purging" => \A n \in 1..(requests[r].batch - 1) : Cleared(r, shown, n)
             /\ requests[r].status = 201 => \A n \in 1..BatchesFor(requests[r].scope, shown) : Cleared(r, shown, n)
\* On its way are answers that Cloudflare keeps.
FillOk(copy) ==
    /\ DOMAIN copy = {"path", "snapshot", "noStore", "overtaken"} /\ copy.overtaken \in BOOLEAN
    /\ Keeps(copy.path)
CopyInv ==
    /\ SettledInv
    /\ \A copy \in fill : FillOk(copy)
    /\ \A r \in DOMAIN requests : Fresh(r)

\* What every step leaves of the tables and of Cloudflare's copies: a copy was there
\* before, overtaken since or not, or it is what the site answers now.
TablesKept ==
    /\ DOMAIN publications \subseteq DOMAIN publications'
    /\ \A p \in DOMAIN publications : publications'[p] = publications[p]
    /\ \A i \in DOMAIN runs : runs[i].status # "pending" =>
         runs'[i].districts = runs[i].districts /\ runs'[i].status # "pending"
Descends(copy, old) == copy.path = old.path /\ copy.snapshot = old.snapshot /\ (old.overtaken => copy.overtaken)
NewAnswer(copy) == Keeps(copy.path) /\ Router(copy.path).status = 200 /\ copy.snapshot = Router(copy.path).snapshot
CopiesKept ==
    \A copy \in edge' \cup fill' : NewAnswer(copy) \/ \E old \in edge \cup fill : Descends(copy, old)

LEMMA CopiesStay == ASSUME UNCHANGED <<edge, fill>> PROVE CopiesKept
BY DEF CopiesKept, Descends

LEMMA ShownIsKept ==
    ASSUME IInv, SettledInv, TablesKept, NEW p \in DOMAIN publications
    PROVE  /\ DistrictsIn(p)' = DistrictsIn(p) /\ DistrictsIn(p) \in SUBSET District
           /\ p \in DOMAIN publications'
<1>1. /\ publications'[p] = publications[p] /\ publications[p].run \in DOMAIN runs
      /\ runs[publications[p].run].status # "pending" /\ p \in DOMAIN publications'
  BY DEF IInv, PublicationOk, SettledInv, TablesKept
<1>2. runs[publications[p].run] \in RunRow
  BY <1>1, RunAt DEF IInv
<1>3. runs'[publications[p].run].districts = runs[publications[p].run].districts
  BY <1>1 DEF TablesKept
<1> QED
  BY <1>1, <1>2, <1>3 DEF DistrictsIn, RunRow

\* A release stays its request's own, and its excuses stay good.
LEMMA OwnReleaseStays ==
    ASSUME TablesKept, NEW r, requests'[r].scope = requests[r].scope, OwnRelease(r)
    PROVE  OwnRelease(r)'
BY DEF TablesKept, OwnRelease, PublishedBy

LEMMA ExcusedStays ==
    ASSUME TablesKept, NEW r, requests'[r].scope = requests[r].scope,
           NEW copy, NEW old, Descends(copy, old), Excused(r, old)
    PROVE  Excused(r, copy)'
<1>1. ReleasedSince(r, old.snapshot) => ReleasedSince(r, old.snapshot)'
  BY DEF ReleasedSince, PublishedBy, TablesKept
<1> QED
  BY <1>1 DEF Excused, Descends

\* What the site answers after a release is of that release or of a later one.
LEMMA NewAnswersAreExcused ==
    ASSUME IInv, NEW r \in DOMAIN requests, OwnRelease(r), NEW scope \in LowerScopes, scope = requests[r].scope,
           NEW copy, NewAnswer(copy), IsDownload(scope, copy.path)
    PROVE  Excused(r, copy)
<1>1. PICK n \in Nat : n = Len(publications) /\ DOMAIN publications = 1..n
  BY DEF IInv, TypeInv
<1>2. PICK p \in PublishedBy(r) : publications[p].scope = scope
  BY DEF OwnRelease
<1>3. PublicationsOf(scope) \in SUBSET Nat /\ \A q \in PublicationsOf(scope) : q <= n
  BY <1>1 DEF PublicationsOf
<1>4. p \in PublicationsOf(scope) /\ p \in DOMAIN publications
  BY <1>2 DEF PublicationsOf, PublishedBy
<1>5. PICK later : later = LatestPublication(scope)
  OBVIOUS
<1>6. later \in PublicationsOf(scope) /\ p <= later
  BY <1>1, <1>3, <1>4, <1>5, NewestIsMember DEF LatestPublication
<1>7. GetPublishedSnapshot(scope) = publications[later].snapshot
  BY <1>4, <1>5 DEF GetPublishedSnapshot
<1>8. copy.snapshot = publications[later].snapshot
  BY <1>7 DEF NewAnswer, IsDownload, ShowsTheActive
<1>9. later \in DOMAIN publications /\ publications[later].scope = scope /\ later \in Nat /\ p \in Nat
  BY <1>1, <1>4, <1>6 DEF PublicationsOf
<1>10. later >= p
  BY <1>6, <1>9
<1>11. ReleasedSince(r, copy.snapshot)
  BY <1>2, <1>8, <1>9, <1>10 DEF ReleasedSince
<1>12. copy.path \in KeptAnyway
  BY DEF NewAnswer, Keeps, IsDownload
<1> QED
  BY <1>11, <1>12 DEF Excused

LEMMA ClearedStays ==
    ASSUME IInv, TablesKept, CopiesKept, NEW r \in DOMAIN requests, OwnRelease(r),
           NEW scope \in LowerScopes, scope = requests[r].scope, requests'[r].scope = scope,
           NEW shown \in SUBSET District, NEW n, Cleared(r, shown, n)
    PROVE  Cleared(r, shown, n)'
<1> SUFFICES ASSUME NEW copy \in edge' \cup fill', copy.path \in BatchFor(scope, shown, n)
             PROVE  Excused(r, copy)'
  BY DEF Cleared
<1>1. IsDownload(scope, copy.path)
  BY BatchesCover
<1>2. CASE NewAnswer(copy)
  <2>1. Excused(r, copy)
    BY <1>1, <1>2, NewAnswersAreExcused
  <2>2. Descends(copy, copy)
    BY DEF Descends
  <2> QED
    BY <2>1, <2>2, ExcusedStays
<1>3. ASSUME NEW old \in edge \cup fill, Descends(copy, old) PROVE Excused(r, copy)'
  <2>1. old.path \in BatchFor(scope, shown, n)
    BY <1>3 DEF Descends
  <2>2. Excused(r, old)
    BY <2>1 DEF Cleared
  <2> QED
    BY <1>3, <2>2, ExcusedStays
<1> QED
  BY <1>2, <1>3 DEF CopiesKept

\* A request that does not purge, and is not answered, leaves what it knew of Cloudflare true.
LEMMA FreshStays ==
    ASSUME IInv, CopyInv, TablesKept, CopiesKept, NEW r \in DOMAIN requests,
           requests'[r].released = requests[r].released, requests'[r].scope = requests[r].scope,
           requests'[r].step \in Early => requests[r].step \in Early,
           requests'[r].step = "purging" => requests[r].step = "purging" /\ requests'[r].batch = requests[r].batch,
           requests'[r].status = 201 => requests[r].status = 201
    PROVE  Fresh(r)'
<1>1. Fresh(r) /\ SettledInv
  BY DEF CopyInv
<1>2. CASE requests[r].released = None
  BY <1>1, <1>2 DEF Fresh
<1>3. CASE requests[r].released # None
  <2>1. PICK p \in DOMAIN publications : p = requests[r].released
    BY <1>1, <1>3 DEF Fresh
  <2>2. PICK shown \in SUBSET District : shown = DistrictsIn(p) /\ shown = DistrictsIn(p)' /\ p \in DOMAIN publications'
    BY <1>1, ShownIsKept
  <2>3. PICK scope : scope = requests[r].scope
    OBVIOUS
  <2>4. OwnRelease(r) /\ OwnRelease(r)'
    BY <1>1, <1>3, OwnReleaseStays DEF Fresh
  <2>5. ASSUME scope \in LowerScopes, NEW n, Cleared(r, shown, n) PROVE Cleared(r, shown, n)'
    BY <2>3, <2>4, <2>5, ClearedStays
  <2>6. ASSUME CloudflareConfigured, scope \in LowerScopes
        PROVE  /\ requests'[r].step = "purging" => \A n \in 1..(requests'[r].batch - 1) : Cleared(r, shown, n)'
               /\ requests'[r].status = 201 => \A n \in 1..BatchesFor(scope, shown) : Cleared(r, shown, n)'
    BY <1>1, <1>3, <2>1, <2>2, <2>3, <2>5, <2>6 DEF Fresh
  <2> QED
    BY <1>1, <1>3, <2>1, <2>2, <2>3, <2>4, <2>6 DEF Fresh
<1> QED
  BY <1>2, <1>3

-----------------------------------------------------------------------------
(* The steps *)

\* What a handler does before its release: others are left alone, and it knows of none.
LEMMA EarlyFresh ==
    ASSUME IInv, CopyInv, TablesKept, SettledInv', UNCHANGED <<edge, fill>>, NEW r,
           DOMAIN requests' = DOMAIN requests \cup {r}, requests'[r].released = None,
           \A s \in DOMAIN requests \ {r} : requests'[s] = requests[s]
    PROVE  CopyInv'
<1>1. \A s \in DOMAIN requests \ {r} : Fresh(s)'
  BY FreshStays, CopiesStay
<1>2. Fresh(r)'
  BY DEF Fresh
<1> QED
  BY <1>1, <1>2 DEF CopyInv

LEMMA SamePublications ==
    ASSUME IInv, SettledInv, UNCHANGED publications,
           \A i \in DOMAIN runs : runs[i].status # "pending" =>
             runs'[i].districts = runs[i].districts /\ runs'[i].status # "pending"
    PROVE  TablesKept /\ SettledInv'
<1>1. \A p \in DOMAIN publications : publications[p].run \in DOMAIN runs
  BY DEF IInv, PublicationOk
<1> QED
  BY <1>1 DEF SettledInv, TablesKept

LEMMA SendFresh ==
    ASSUME IInv, CopyInv, NEW command \in Commands, Send(command)
    PROVE  CopyInv'
<1>1. UNCHANGED <<runs, publications, edge, fill>> /\ requests' = Append(requests, Request(command, Finished))
  BY DEF Send, UnchangedButRequests, serviceVars
<1>2. Request(command, Finished).released = None
  BY DEF Request
<1>3. /\ DOMAIN requests' = DOMAIN requests \cup {Len(requests) + 1}
      /\ requests'[Len(requests) + 1] = Request(command, Finished)
      /\ \A s \in DOMAIN requests : requests'[s] = requests[s]
  BY <1>1 DEF IInv, TypeInv
<1>4. TablesKept /\ SettledInv'
  BY <1>1, SamePublications DEF CopyInv
<1> QED
  BY <1>1, <1>2, <1>3, <1>4, EarlyFresh

LEMMA DispatchFresh ==
    ASSUME IInv, CopyInv, NEW r \in DOMAIN requests,
           LowerDispatch(r) \/ HighCourtDispatch(r) \/ SupremeCourtDispatch(r) \/ CliDispatch(r)
    PROVE  CopyInv'
<1>1. requests[r].released = None /\ requests[r] \in RequestRow /\ UNCHANGED <<runs, publications, edge, fill>>
  BY RequestAt DEF CopyInv, Fresh, IInv, LowerDispatch, HighCourtDispatch, SupremeCourtDispatch, CliDispatch, At, Early,
     UnchangedButRequests, serviceVars
<1>2. \/ \E status \in {0, 200, 401, 404, 500, 503} : requests' = Answered(r, status)
      \/ \E scope \in Scopes : Begin(r, scope)
      \/ requests' = [requests EXCEPT ![r].step = "purging", ![r].batch = 1]
  <2>1. \A scopes : ScopesOf(r, scopes) \subseteq scopes \cup {requests[r].scope}
    BY DEF ScopesOf
  <2>2. ASSUME NEW scopes \in SUBSET Scopes, Dispatch(r, scopes)
        PROVE  \/ \E status \in {0, 200, 401, 404, 500, 503} : requests' = Answered(r, status)
               \/ \E scope \in Scopes : Begin(r, scope)
    BY <1>1, <2>1, <2>2 DEF Dispatch, Turned, RequestRow
  <2>3. LowerScopes \in SUBSET Scopes /\ {requests[r].scope} \in SUBSET Scopes /\ {SupremeCourt} \in SUBSET Scopes
    BY <1>1 DEF Scopes, RequestRow
  <2> QED
    BY <2>2, <2>3 DEF LowerDispatch, HighCourtDispatch, SupremeCourtDispatch, CliDispatch
<1>3. /\ DOMAIN requests' = DOMAIN requests /\ requests'[r].released = None
      /\ \A s \in DOMAIN requests \ {r} : requests'[s] = requests[s]
  <2>1. requests \in Seq(RequestRow)
    BY DEF IInv, TypeInv
  <2>2. CASE \E status \in {0, 200, 401, 404, 500, 503} : requests' = Answered(r, status)
    BY <2>1, <2>2 DEF Answered, Refusal
  <2>3. CASE \E scope \in Scopes : Begin(r, scope)
    BY <1>1, <2>1, <2>3 DEF Begin, RequestRow
  <2>4. CASE requests' = [requests EXCEPT ![r].step = "purging", ![r].batch = 1]
    BY <1>1, <2>1, <2>4 DEF RequestRow
  <2> QED
    BY <1>2, <2>2, <2>3, <2>4
<1>4. TablesKept /\ SettledInv'
  BY <1>1, SamePublications DEF CopyInv
<1> QED
  BY <1>1, <1>3, <1>4, EarlyFresh

\* The steps before a release: a run is inserted, completed or failed.
LEMMA RunsKept ==
    ASSUME IInv, SettledInv, UNCHANGED publications,
           \/ UNCHANGED runs
           \/ \E row : InsertRun(row)
           \/ \E i \in DOMAIN runs : \E quality, districts : runs[i].status = "pending" /\ CompleteRun(i, quality, districts)
           \/ \E i \in DOMAIN runs : \E artifacts : FailRun(i, artifacts)
    PROVE  TablesKept /\ SettledInv'
<1>1. runs \in Seq(RunRow)
  BY DEF IInv, TypeInv
<1>2. ASSUME NEW i \in DOMAIN runs, runs[i].status # "pending"
      PROVE  runs'[i].districts = runs[i].districts /\ runs'[i].status # "pending"
  <2>1. runs[i] \in RunRow
    BY RunAt DEF IInv
  <2>2. ASSUME NEW row, InsertRun(row) PROVE runs'[i] = runs[i]
    BY <1>1, <2>2 DEF InsertRun
  <2>3. ASSUME NEW k \in DOMAIN runs, NEW quality, NEW districts, runs[k].status = "pending", CompleteRun(k, quality, districts)
        PROVE  runs'[i] = runs[i]
    BY <1>1, <1>2, <2>3 DEF CompleteRun
  <2>4. ASSUME NEW k \in DOMAIN runs, NEW artifacts, FailRun(k, artifacts)
        PROVE  runs'[i].districts = runs[i].districts /\ runs'[i].status # "pending"
    <3>1. CASE i = k
      BY <1>1, <2>1, <2>4, <3>1 DEF FailRun, RunRow
    <3>2. CASE i # k
      BY <1>1, <1>2, <2>4, <3>2 DEF FailRun
    <3> QED
      BY <3>1, <3>2
  <2> QED
    BY <1>2, <2>2, <2>3, <2>4
<1> QED
  BY <1>2, SamePublications

LEMMA CaptureFresh ==
    ASSUME IInv, CopyInv, NEW r \in DOMAIN requests, Capture(r) \/ CopyRawCapture(r)
    PROVE  CopyInv'
<1>1. /\ requests[r].released = None /\ requests[r] \in RequestRow /\ UNCHANGED <<edge, fill>>
      /\ requests \in Seq(RequestRow)
  BY RequestAt DEF CopyInv, Fresh, IInv, TypeInv, Capture, CopyRawCapture, At, Early, UnchangedByServices
<1>2. UNCHANGED publications /\ (UNCHANGED runs \/ \E row : InsertRun(row))
  BY DEF Capture, CopyRawCapture, InsertRun, serviceVars
<1>3. \/ requests' = Closed(r, 500)
      \/ requests' = [requests EXCEPT ![r].step = "building", ![r].run = Len(runs) + 1]
  BY DEF Capture, CopyRawCapture
<1>4. /\ DOMAIN requests' = DOMAIN requests /\ requests'[r].released = None
      /\ \A s \in DOMAIN requests \ {r} : requests'[s] = requests[s]
  BY <1>1, <1>3, SMTT(20) DEF Closed, RequestRow
<1>5. TablesKept /\ SettledInv'
  BY <1>2, RunsKept DEF CopyInv
<1> QED
  BY <1>1, <1>4, <1>5, EarlyFresh

LEMMA BuildCandidateFresh ==
    ASSUME IInv, CopyInv, NEW r \in DOMAIN requests, BuildCandidate(r) \/ Validate(r)
    PROVE  CopyInv'
<1>1. /\ requests[r].released = None /\ requests[r] \in RequestRow /\ UNCHANGED <<edge, fill>>
      /\ requests \in Seq(RequestRow)
  BY RequestAt DEF CopyInv, Fresh, IInv, TypeInv, BuildCandidate, Validate, At, Early, UnchangedByServices
<1>2. ASSUME BuildCandidate(r)
      PROVE  requests[r].run \in DOMAIN runs /\ runs[requests[r].run].status = "pending"
             /\ \E quality, districts : CompleteRun(requests[r].run, quality, districts)
  BY <1>2 DEF BuildCandidate, At, IInv, RequestOk, Fits, OwnRun
<1>3. /\ UNCHANGED publications
      /\ UNCHANGED runs \/ \E i \in DOMAIN runs : \E quality, districts : runs[i].status = "pending" /\ CompleteRun(i, quality, districts)
  <2>1. UNCHANGED publications
    BY DEF BuildCandidate, Validate, CompleteRun, serviceVars
  <2>2. CASE BuildCandidate(r)
    BY <1>2, <2>1, <2>2
  <2>3. CASE Validate(r)
    BY <2>3 DEF Validate, serviceVars
  <2> QED
    BY <2>1, <2>2, <2>3
<1>4. requests' = Closed(r, 201) \/ requests' = Goes(r, "validating") \/ requests' = Goes(r, "committing")
  BY DEF BuildCandidate, Validate
<1>5. /\ DOMAIN requests' = DOMAIN requests /\ requests'[r].released = None
      /\ \A s \in DOMAIN requests \ {r} : requests'[s] = requests[s]
  BY <1>1, <1>4, SMTT(20) DEF Closed, Goes, RequestRow
<1>6. TablesKept /\ SettledInv'
  BY <1>3, RunsKept DEF CopyInv
<1> QED
  BY <1>1, <1>5, <1>6, EarlyFresh

LEMMA StepFailsFresh ==
    ASSUME IInv, CopyInv, NEW r \in DOMAIN requests, StepFails(r)
    PROVE  CopyInv'
<1>1. /\ requests[r].released = None /\ requests[r] \in RequestRow /\ UNCHANGED <<edge, fill>>
      /\ requests \in Seq(RequestRow)
  BY RequestAt DEF CopyInv, Fresh, IInv, TypeInv, StepFails, Early, UnchangedByServices
<1>2. requests[r].run # None => requests[r].run \in DOMAIN runs
  BY DEF IInv, RequestOk, OwnRun
<1>3. UNCHANGED publications /\ (UNCHANGED runs \/ \E i \in DOMAIN runs : \E artifacts : FailRun(i, artifacts))
  BY <1>2 DEF StepFails, FailRun, serviceVars
<1>4. /\ DOMAIN requests' = DOMAIN requests /\ requests'[r].released = None
      /\ \A s \in DOMAIN requests \ {r} : requests'[s] = requests[s]
  BY <1>1, SMTT(20) DEF StepFails, Closed, RequestRow
<1>5. TablesKept /\ SettledInv'
  BY <1>3, RunsKept DEF CopyInv
<1> QED
  BY <1>1, <1>4, <1>5, EarlyFresh

\* A release: the purge begins, or there is nothing to purge.
LEMMA ReleasedFresh ==
    ASSUME IInv, CopyInv, TablesKept, SettledInv', UNCHANGED <<edge, fill>>, NEW r \in DOMAIN requests,
           requests[r].step \in {"committing", "restoring"}, NEW snapshot \in DOMAIN publications', Released(r, snapshot),
           NEW p \in DOMAIN publications', publications'[p].by = r, publications'[p].scope = requests[r].scope
    PROVE  CopyInv'
<1>1. requests[r] \in RequestRow /\ requests[r].status = 0 /\ requests \in Seq(RequestRow)
  BY RequestAt DEF IInv, TypeInv, RequestOk, Fits
<1>2. /\ DOMAIN requests' = DOMAIN requests /\ \A s \in DOMAIN requests \ {r} : requests'[s] = requests[s]
      /\ requests'[r].released = snapshot /\ requests'[r].step \notin Early
      /\ requests'[r].scope = requests[r].scope
      /\ CloudflareConfigured => requests'[r].status = 0 /\ requests'[r].batch = 1
  <2>1. CASE CloudflareConfigured
    BY <1>1, <2>1 DEF Released, RequestRow, Early
  <2>2. CASE ~CloudflareConfigured
    BY <1>1, <2>2 DEF Released, Respond, RequestRow, Early
  <2> QED
    BY <2>1, <2>2
<1>3. Fresh(r)'
  <2>1. OwnRelease(r)'
    BY <1>2 DEF OwnRelease, PublishedBy
  <2> QED
    BY <1>2, <2>1 DEF Fresh
<1>4. \A s \in DOMAIN requests \ {r} : Fresh(s)'
  BY <1>2, FreshStays, CopiesStay
<1> QED
  BY <1>2, <1>3, <1>4 DEF CopyInv

LEMMA CommitFresh ==
    ASSUME IInv, CopyInv, NEW r \in DOMAIN requests, Commit(r)
    PROVE  CopyInv'
<1>1. /\ requests[r] \in RequestRow /\ requests[r].step = "committing" /\ UNCHANGED <<edge, fill>>
      /\ Published(r) \in DOMAIN runs /\ runs[Published(r)].status # "pending"
      /\ runs \in Seq(RunRow) /\ publications \in Seq(PublicationRow)
  BY RequestAt DEF IInv, TypeInv, RequestOk, Fits, OwnRun, KnownTarget, Commits, Published, Commit, At, UnchangedByServices
<1>2. PICK row : /\ publications' = Append(publications, row)
                 /\ row.run = Published(r) /\ row.snapshot = Len(publications) + 1
                 /\ row.by = r /\ row.scope = requests[r].scope
  BY DEF Commit, PublishTransaction
<1>3. PICK ended \in {"replayed", "published"} : runs' = [runs EXCEPT ![Published(r)].status = ended]
  BY DEF Commit, PublishTransaction
<1>4. /\ DOMAIN publications' = DOMAIN publications \cup {Len(publications) + 1}
      /\ publications'[Len(publications) + 1] = row /\ Len(publications) + 1 \notin DOMAIN publications
      /\ \A p \in DOMAIN publications : publications'[p] = publications[p]
  BY <1>1, <1>2
<1>5. \A i \in DOMAIN runs :
        /\ runs'[i].districts = runs[i].districts
        /\ runs[i].status # "pending" => runs'[i].status # "pending"
  <2> SUFFICES ASSUME NEW i \in DOMAIN runs
               PROVE  /\ runs'[i].districts = runs[i].districts
                      /\ runs[i].status # "pending" => runs'[i].status # "pending"
    OBVIOUS
  <2>1. runs[i] \in RunRow
    BY RunAt DEF IInv
  <2>2. CASE i = Published(r)
    BY <1>1, <1>3, <2>1, <2>2 DEF RunRow
  <2>3. CASE i # Published(r)
    BY <1>1, <1>3, <2>3
  <2> QED
    BY <2>2, <2>3
<1>6. TablesKept
  BY <1>4, <1>5 DEF TablesKept
<1>7. SettledInv'
  <2>1. \A p \in DOMAIN publications : publications[p].run \in DOMAIN runs
    BY DEF IInv, PublicationOk
  <2>2. \A p \in DOMAIN publications : publications'[p].snapshot \in DOMAIN publications' /\ runs'[publications'[p].run].status # "pending"
    BY <1>1, <1>4, <1>5, <2>1 DEF CopyInv, SettledInv
  <2>3. row.snapshot \in DOMAIN publications' /\ runs'[row.run].status # "pending"
    BY <1>1, <1>2, <1>4, <1>5
  <2> QED
    BY <1>4, <2>2, <2>3 DEF SettledInv
<1> QED
  BY <1>1, <1>2, <1>4, <1>6, <1>7, ReleasedFresh DEF Commit

LEMMA RestoreFresh ==
    ASSUME IInv, CopyInv, NEW r \in DOMAIN requests, Restore(r)
    PROVE  CopyInv'
<1>1. /\ requests[r] \in RequestRow /\ requests[r].step = "restoring" /\ UNCHANGED <<edge, fill, runs>>
      /\ requests[r].target \in DOMAIN publications /\ publications \in Seq(PublicationRow)
  BY RequestAt DEF IInv, TypeInv, RequestOk, KnownTarget, Restore, At, UnchangedByServices, InsertRollback
<1>2. PICK row : /\ publications' = Append(publications, row)
                 /\ row.run = publications[requests[r].target].run
                 /\ row.snapshot = publications[requests[r].target].snapshot
                 /\ row.by = r /\ row.scope = requests[r].scope
  BY DEF Restore, InsertRollback
<1>3. /\ DOMAIN publications' = DOMAIN publications \cup {Len(publications) + 1}
      /\ publications'[Len(publications) + 1] = row /\ Len(publications) + 1 \notin DOMAIN publications
      /\ \A p \in DOMAIN publications : publications'[p] = publications[p]
  BY <1>1, <1>2
<1>4. TablesKept
  BY <1>1, <1>3 DEF TablesKept
<1>5. /\ \A p \in DOMAIN publications :
           publications[p].snapshot \in DOMAIN publications /\ runs[publications[p].run].status # "pending"
      /\ runs' = runs
  BY <1>1 DEF CopyInv, SettledInv
<1>6. publications[requests[r].target].snapshot \in DOMAIN publications'
  BY <1>1, <1>3, <1>5
<1>7. SettledInv'
  <2> SUFFICES ASSUME NEW p \in DOMAIN publications'
               PROVE  publications'[p].snapshot \in DOMAIN publications' /\ runs[publications'[p].run].status # "pending"
    BY <1>5 DEF SettledInv
  <2>1. CASE p \in DOMAIN publications
    BY <1>3, <1>5, <2>1
  <2>2. CASE p = Len(publications) + 1
    BY <1>1, <1>2, <1>3, <1>5, <1>6, <2>2, SMTT(20)
  <2> QED
    BY <1>3, <2>1, <2>2
<1> QED
  BY <1>1, <1>2, <1>3, <1>4, <1>6, <1>7, ReleasedFresh DEF Restore

\* One call: its batch is cleared if it was carried out, and after the last one all are.
LEMMA PurgeBatchFresh ==
    ASSUME IInv, CopyInv, NEW r \in DOMAIN requests, PurgeBatch(r)
    PROVE  CopyInv'
<1>1. /\ requests[r] \in RequestRow /\ requests[r].step = "purging" /\ requests[r].status = 0
      /\ requests \in Seq(RequestRow) /\ UNCHANGED publications /\ Fresh(r)
  <2>1. requests[r].step = "purging" /\ UNCHANGED publications
    BY DEF PurgeBatch, At, FailRun, serviceVars
  <2> QED
    BY <2>1, RequestAt DEF IInv, TypeInv, RequestOk, Fits, CopyInv
<1>2. requests[r].run # None => requests[r].run \in DOMAIN runs
  BY DEF IInv, RequestOk, OwnRun
<1>3. TablesKept /\ SettledInv'
  <2>1. UNCHANGED runs \/ \E i \in DOMAIN runs : \E artifacts : FailRun(i, artifacts)
    BY <1>2 DEF PurgeBatch, serviceVars
  <2> QED
    BY <1>1, <2>1, RunsKept DEF CopyInv
<1>4. PICK q : q = requests[r]
  OBVIOUS
<1> DEFINE batch == BatchOf(q.scope, q.released, q.batch)
           Carried == /\ edge' = {copy \in edge : copy.path \notin batch}
                      /\ fill' = {[copy EXCEPT !.overtaken = @ \/ copy.path \in batch] : copy \in fill}
<1>5. /\ Carried \/ UNCHANGED <<edge, fill>>
      /\ \/ requests' = Closed(r, 500)
         \/ /\ Carried
            /\ \/ requests' = Respond(r) /\ q.batch = Batches(q.scope, q.released)
               \/ requests' = [requests EXCEPT ![r].batch = @ + 1]
  <2>1. edge \ {copy \in edge : copy.path \in batch} = {copy \in edge : copy.path \notin batch}
    OBVIOUS
  <2> QED
    BY <1>4, <2>1 DEF PurgeBatch
<1>6. /\ CopiesKept /\ \A copy \in fill' : FillOk(copy)
      /\ Carried => \A copy \in edge' \cup fill' : copy.path \in batch => copy \in fill' /\ copy.overtaken
  <2>1. ASSUME Carried, NEW copy \in fill'
        PROVE  /\ FillOk(copy)
               /\ copy.path \in batch => copy.overtaken
               /\ \E old \in fill : Descends(copy, old)
    <3>1. PICK old \in fill : copy = [old EXCEPT !.overtaken = @ \/ old.path \in batch]
      BY <2>1
    <3>2. FillOk(old)
      BY DEF CopyInv
    <3>3. /\ DOMAIN copy = DOMAIN old /\ copy.path = old.path /\ copy.snapshot = old.snapshot
          /\ copy.overtaken = (old.overtaken \/ old.path \in batch)
      BY <3>1, <3>2 DEF FillOk
    <3> QED
      BY <3>2, <3>3 DEF FillOk, Descends
  <2>2. Carried => \A copy \in edge' : copy \in edge /\ copy.path \notin batch
    OBVIOUS
  <2> HIDE DEF Carried, batch
  <2>3. CASE UNCHANGED <<edge, fill>>
    <3>1. CopiesKept
      BY <2>3, CopiesStay
    <3>2. \A copy \in fill' : FillOk(copy)
      BY <2>3 DEF CopyInv
    <3> QED
      BY <2>1, <2>2, <3>1, <3>2
  <2>4. CASE Carried
    <3>1. \A copy \in edge' : Descends(copy, copy) /\ copy \in edge
      BY <2>2, <2>4 DEF Descends
    <3>2. CopiesKept
      BY <2>1, <2>4, <3>1 DEF CopiesKept
    <3> QED
      BY <2>1, <2>2, <2>4, <3>2
  <2> QED
    BY <1>5, <2>3, <2>4
<1> HIDE DEF Carried, batch
<1>7. /\ DOMAIN requests' = DOMAIN requests /\ \A s \in DOMAIN requests \ {r} : requests'[s] = requests[s]
      /\ requests'[r].released = q.released /\ requests'[r].scope = q.scope /\ requests'[r].step \notin Early
      /\ \/ requests'[r].step = "done" /\ requests'[r].status = 500
         \/ /\ requests'[r].step # "purging" /\ q.batch = Batches(q.scope, q.released)
            /\ Carried
         \/ /\ requests'[r].status = 0 /\ requests'[r].batch = q.batch + 1
            /\ Carried
  <2>1. CASE requests' = Closed(r, 500)
    <3>1. requests' = [requests EXCEPT ![r].step = "done", ![r].status = 500, ![r].batch = 0]
      BY <2>1 DEF Closed
    <3>2. /\ DOMAIN requests' = DOMAIN requests /\ \A s \in DOMAIN requests \ {r} : requests'[s] = requests[s]
          /\ requests'[r].released = q.released /\ requests'[r].scope = q.scope
          /\ requests'[r].step = "done" /\ requests'[r].status = 500
      <4>1. requests'[r] = [requests[r] EXCEPT !.step = "done", !.status = 500, !.batch = 0]
        BY <1>1, <3>1
      <4>2. DOMAIN requests' = DOMAIN requests /\ \A s \in DOMAIN requests \ {r} : requests'[s] = requests[s]
        BY <1>1, <3>1
      <4> QED
        BY <1>1, <1>4, <4>1, <4>2 DEF RequestRow
    <3> QED
      BY <3>2 DEF Early
  <2>2. CASE ~(requests' = Closed(r, 500)) /\ requests' = Respond(r)
    <3>1. PICK last \in {"digesting", "done"} : requests' = [requests EXCEPT ![r].status = 201, ![r].batch = 0, ![r].step = last]
      BY <2>2, ZenonT(60) DEF Respond
    <3>2. /\ DOMAIN requests' = DOMAIN requests /\ \A s \in DOMAIN requests \ {r} : requests'[s] = requests[s]
          /\ requests'[r].released = q.released /\ requests'[r].scope = q.scope /\ requests'[r].step = last
      <4>1. requests'[r] = [requests[r] EXCEPT !.status = 201, !.batch = 0, !.step = last]
        BY <1>1, <3>1
      <4>2. DOMAIN requests' = DOMAIN requests /\ \A s \in DOMAIN requests \ {r} : requests'[s] = requests[s]
        BY <1>1, <3>1
      <4> QED
        BY <1>1, <1>4, <4>1, <4>2 DEF RequestRow
    <3>3. ~(requests' = [requests EXCEPT ![r].batch = @ + 1])
      <4> SUFFICES ASSUME requests' = [requests EXCEPT ![r].batch = @ + 1] PROVE FALSE
        OBVIOUS
      <4>1. requests'[r].step = "purging"
        BY <1>1 DEF RequestRow
      <4> QED
        BY <3>2, <4>1
    <3> QED
      BY <1>5, <2>2, <3>2, <3>3 DEF Early
  <2>3. CASE ~(requests' = Closed(r, 500)) /\ requests' = [requests EXCEPT ![r].batch = @ + 1]
    <3>1. /\ DOMAIN requests' = DOMAIN requests /\ \A s \in DOMAIN requests \ {r} : requests'[s] = requests[s]
          /\ requests'[r].released = q.released /\ requests'[r].scope = q.scope /\ requests'[r].step = "purging"
          /\ requests'[r].status = 0 /\ requests'[r].batch = q.batch + 1
      BY <1>1, <1>4, <2>3, ZenonT(60) DEF RequestRow
    <3> QED
      BY <1>5, <2>3, <3>1 DEF Early
  <2> QED
    BY <1>5, <2>1, <2>2, <2>3
<1>8. CASE requests'[r].step = "done" /\ requests'[r].status = 500
  <2>1. Fresh(r)'
    BY <1>1, <1>3, <1>4, <1>6, <1>7, <1>8, FreshStays DEF Early
  <2>2. \A s \in DOMAIN requests \ {r} : Fresh(s)'
    BY <1>3, <1>6, <1>7, FreshStays
  <2> QED
    BY <1>3, <1>6, <1>7, <2>1, <2>2 DEF CopyInv
<1>9. CASE /\ Carried
           /\ \/ requests'[r].step # "purging" /\ q.batch = Batches(q.scope, q.released)
              \/ requests'[r].status = 0 /\ requests'[r].batch = q.batch + 1
  <2>1. q.released # None => q.released \in DOMAIN publications' /\ OwnRelease(r) /\ OwnRelease(r)'
    BY <1>1, <1>3, <1>4, <1>7, OwnReleaseStays DEF Fresh, TablesKept
  <2>2. ASSUME q.released = None \/ ~CloudflareConfigured \/ q.scope \notin LowerScopes
        PROVE  Fresh(r)'
    BY <1>7, <2>1, <2>2 DEF Fresh
  <2>3. ASSUME q.released # None, CloudflareConfigured, q.scope \in LowerScopes
        PROVE  Fresh(r)'
    <3>1. PICK p \in DOMAIN publications : p = q.released
      BY <1>1, <1>4, <2>3 DEF Fresh
    <3>2. PICK shown \in SUBSET District : shown = DistrictsIn(p) /\ shown = DistrictsIn(p)' /\ p \in DOMAIN publications'
      BY <1>3, ShownIsKept DEF CopyInv
    <3>3. PICK n \in Nat : n = q.batch
      BY <1>1, <1>4 DEF RequestRow
    <3>4. PICK scope \in LowerScopes : scope = q.scope /\ scope = requests[r].scope /\ scope = requests'[r].scope
      BY <1>4, <1>7, <2>3
    <3>5. /\ batch = BatchFor(scope, shown, n)
          /\ Batches(q.scope, q.released) = BatchesFor(scope, shown)
      <4>1. /\ BatchOf(scope, p, n) = BatchFor(scope, DistrictsIn(p), n)
            /\ Batches(scope, p) = BatchesFor(scope, DistrictsIn(p))
        BY <2>3, BatchIsPurged
      <4>2. BatchOf(scope, p, n) = BatchFor(scope, shown, n) /\ Batches(scope, p) = BatchesFor(scope, shown)
        BY <3>2, <4>1
      <4> QED
        BY <3>1, <3>3, <3>4, <4>2 DEF batch
    <3>6. \A k \in 1..(n - 1) : Cleared(r, shown, k)
      BY <1>1, <1>4, <2>3, <3>1, <3>2, <3>3 DEF Fresh
    <3>7. Cleared(r, shown, n)'
      <4> SUFFICES ASSUME NEW copy \in edge' \cup fill', copy.path \in batch PROVE Excused(r, copy)'
        BY <3>4, <3>5 DEF Cleared
      <4>1. copy.overtaken /\ Keeps(copy.path)
        BY <1>6, <1>9 DEF FillOk
      <4>2. copy.path \in KeptAnyway
        BY <3>5, <4>1, BatchesCover DEF IsDownload, Keeps
      <4> QED
        BY <4>1, <4>2 DEF Excused
    <3>8. \A k \in 1..n : Cleared(r, shown, k)'
      <4> SUFFICES ASSUME NEW k \in 1..n PROVE Cleared(r, shown, k)'
        OBVIOUS
      <4>1. CASE k = n
        BY <3>7, <4>1
      <4>2. CASE k # n
        <5>1. Cleared(r, shown, k)
          BY <3>6, <4>2
        <5> QED
          BY <1>3, <1>6, <2>1, <2>3, <3>4, <5>1, ClearedStays
      <4> QED
        BY <4>1, <4>2
    <3>9. CASE requests'[r].step # "purging" /\ q.batch = Batches(q.scope, q.released)
      <4>1. n = BatchesFor(scope, shown)
        BY <3>3, <3>5, <3>9
      <4> QED
        BY <1>7, <2>1, <2>3, <3>1, <3>2, <3>4, <3>8, <3>9, <4>1 DEF Fresh
    <3>10. CASE requests'[r].status = 0 /\ requests'[r].batch = q.batch + 1
      <4>1. requests'[r].batch - 1 = n /\ requests'[r].status # 201
        BY <3>3, <3>10
      <4> QED
        BY <1>7, <2>1, <2>3, <3>1, <3>2, <3>4, <3>8, <4>1 DEF Fresh
    <3> QED
      BY <1>9, <3>9, <3>10
  <2>4. Fresh(r)'
    BY <2>2, <2>3
  <2>5. \A s \in DOMAIN requests \ {r} : Fresh(s)'
    BY <1>3, <1>6, <1>7, FreshStays
  <2> QED
    BY <1>3, <1>6, <1>7, <2>4, <2>5 DEF CopyInv
<1> QED
  BY <1>7, <1>8, <1>9

\* Steps of the others, and of the caches.
LEMMA SameTables ==
    ASSUME IInv, CopyInv, UNCHANGED <<runs, publications>>
    PROVE  TablesKept /\ SettledInv'
BY SamePublications DEF CopyInv

LEMMA StartDigestFresh ==
    ASSUME IInv, CopyInv, NEW r \in DOMAIN requests, StartDigest(r)
    PROVE  CopyInv'
<1>1. /\ requests[r] \in RequestRow /\ requests[r].step = "digesting" /\ requests \in Seq(RequestRow)
      /\ UNCHANGED <<runs, publications, edge, fill>>
  BY RequestAt DEF IInv, TypeInv, StartDigest, At, serviceVars
<1>2. /\ DOMAIN requests' = DOMAIN requests /\ \A s \in DOMAIN requests \ {r} : requests'[s] = requests[s]
      /\ requests'[r].released = requests[r].released /\ requests'[r].scope = requests[r].scope
      /\ requests'[r].step = "done" /\ requests'[r].status = requests[r].status
  BY <1>1 DEF StartDigest, Goes, RequestRow
<1>3. \A s \in DOMAIN requests : Fresh(s)'
  BY <1>1, <1>2, SameTables, FreshStays, CopiesStay DEF Early
<1> QED
  BY <1>1, <1>2, <1>3, SameTables DEF CopyInv

LEMMA RestartFresh ==
    ASSUME IInv, CopyInv, Restart
    PROVE  CopyInv'
<1>1. UNCHANGED <<runs, publications, edge, fill>>
  BY DEF Restart, serviceVars
<1>2. /\ DOMAIN requests' = DOMAIN requests
      /\ \A r \in DOMAIN requests :
            requests'[r] \in {requests[r], [requests[r] EXCEPT !.step = "done", !.batch = 0]}
  BY DEF Restart
<1>3. ASSUME NEW r \in DOMAIN requests PROVE Fresh(r)'
  <2>1. requests[r] \in RequestRow
    BY RequestAt DEF IInv
  <2>2. CASE requests'[r] = requests[r]
    BY <1>1, <2>2, SameTables, FreshStays, CopiesStay
  <2>3. CASE requests'[r] = [requests[r] EXCEPT !.step = "done", !.batch = 0]
    <3>1. /\ requests'[r].released = requests[r].released /\ requests'[r].scope = requests[r].scope
          /\ requests'[r].step = "done" /\ requests'[r].status = requests[r].status
      BY <2>1, <2>3 DEF RequestRow
    <3> QED
      BY <1>1, <3>1, SameTables, FreshStays, CopiesStay DEF Early
  <2> QED
    BY <1>2, <2>2, <2>3
<1> QED
  BY <1>1, <1>2, <1>3, SameTables DEF CopyInv

LEMMA CacheFresh ==
    ASSUME IInv, CopyInv, FillArrives \/ \E path \in FillPaths : FillRead(path)
    PROVE  CopyInv'
<1>1. UNCHANGED <<runs, publications, requests>>
  BY DEF FillArrives, FillRead, serviceVars
<1>2. CopiesKept /\ \A copy \in fill' : FillOk(copy)
  <2>1. CASE FillArrives
    BY <2>1 DEF FillArrives, CopiesKept, Descends
  <2>2. ASSUME NEW path \in FillPaths, FillRead(path)
        PROVE  CopiesKept /\ \A copy \in fill' : FillOk(copy)
    <3>1. UNCHANGED edge /\ fill' = {Answer(path)} /\ Keeps(path) /\ Router(path).status = 200
      BY <2>2 DEF FillRead
    <3>2. FillOk(Answer(path)) /\ NewAnswer(Answer(path))
      BY <3>1 DEF FillOk, NewAnswer, Answer
    <3> QED
      BY <3>1, <3>2 DEF CopiesKept, Descends
  <2> QED
    BY <2>1, <2>2
<1>3. \A s \in DOMAIN requests : Fresh(s)'
  BY <1>1, <1>2, SameTables, FreshStays
<1> QED
  BY <1>1, <1>2, <1>3, SameTables DEF CopyInv

LEMMA FrameFresh ==
    ASSUME CopyInv, UNCHANGED <<runs, publications, requests, edge, fill>>
    PROVE  CopyInv'
BY DEF CopyInv, SettledInv, Fresh, Cleared, OwnRelease, Excused, ReleasedSince, PublishedBy, DistrictsIn

LEMMA InitCopyInv == Init => CopyInv
<1> SUFFICES ASSUME Init PROVE CopyInv
  OBVIOUS
<1>1. PICK b \in Beginnings : runs = b.runs /\ publications = b.publications
  BY DEF Init
<1>2. SettledInv
  <2> SUFFICES ASSUME NEW p \in DOMAIN publications
               PROVE  publications[p].snapshot \in DOMAIN publications /\ runs[publications[p].run].status # "pending"
    BY DEF SettledInv
  <2>1. PICK s \in DOMAIN publications :
          s = publications[p].snapshot /\ publications[s].action = "publish" /\ publications[s].run = publications[p].run
    BY <1>1, BeginningsAssumption
  <2>2. runs[publications[s].run].status \notin {"pending", "completed"}
    BY <1>1, <2>1, BeginningsAssumption
  <2> QED
    BY <2>1, <2>2
<1> QED
  BY <1>2 DEF Init, CopyInv

LEMMA NextCopyInv == IInv /\ CopyInv /\ [Next]_vars => CopyInv'
<1> SUFFICES ASSUME IInv, CopyInv, [Next]_vars PROVE CopyInv'
  OBVIOUS
<1>1. CASE Operator
  BY <1>1, SendFresh DEF Operator
<1>2. CASE Handler
  <2>1. PICK r \in DOMAIN requests :
           \/ LowerDispatch(r) \/ HighCourtDispatch(r) \/ SupremeCourtDispatch(r) \/ CliDispatch(r)
           \/ Capture(r) \/ CopyRawCapture(r) \/ BuildCandidate(r) \/ Validate(r) \/ Commit(r) \/ Restore(r)
           \/ StepFails(r) \/ PurgeBatch(r) \/ StartDigest(r)
    BY <1>2 DEF Handler
  <2> QED
    BY <2>1, DispatchFresh, CaptureFresh, BuildCandidateFresh, CommitFresh, RestoreFresh, StepFailsFresh,
       PurgeBatchFresh, StartDigestFresh
<1>3. CASE Surroundings
  <2>1. CASE PurgeSpreads
    BY <2>1, FrameFresh DEF PurgeSpreads, serviceVars
  <2> QED
    BY <1>3, <2>1, RestartFresh, CacheFresh DEF Surroundings
<1>4. CASE Script
  <2>1. UNCHANGED <<serviceVars, apiVars>>
    BY <1>4 DEF Script, Verify, Prepublish, Postpublish, StartCheck, Assess, Fetch
  <2> QED
    BY <2>1, FrameFresh DEF serviceVars, apiVars
<1>5. CASE UNCHANGED vars
  BY <1>5, FrameFresh DEF vars, serviceVars, apiVars
<1> QED
  BY <1>1, <1>2, <1>3, <1>4, <1>5 DEF Next

(* What is at Cloudflare after each call of a purge: of the paths of the calls before *)
(* it, only copies that it keeps in spite of no-store, and these are of the release,  *)
(* of a later one, or of an answer that the purge overtook; and on its way there is   *)
(* only what it keeps.                                                                *)
THEOREM CopiesInvariant == Spec => []CopyInv
BY InitIInv, NextIInv, InitCopyInv, NextCopyInv, PTL DEF Spec

LEMMA CopyInvIsFresh ==
    ASSUME IInv, CopyInv
    PROVE  DownloadsAreFresh
<1> SUFFICES ASSUME NEW r \in DOMAIN requests, CloudflareConfigured, requests[r].status = 201,
                    requests[r].released # None, requests[r].scope \in LowerScopes,
                    NEW copy \in edge \cup fill, copy.path \in DownloadsOf(requests[r].scope, requests[r].released)
             PROVE  Excused(r, copy)
  BY DEF DownloadsAreFresh
<1>1. Fresh(r) /\ SettledInv
  BY DEF CopyInv
<1>2. PICK p \in DOMAIN publications : p = requests[r].released
  BY <1>1 DEF Fresh
<1>3. PICK shown \in SUBSET District : shown = DistrictsIn(p)
  <2>1. publications[p].run \in DOMAIN runs
    BY DEF IInv, PublicationOk
  <2>2. runs[publications[p].run] \in RunRow
    BY <2>1, RunAt DEF IInv
  <2> QED
    BY <2>2 DEF RunRow, DistrictsIn
<1>4. PICK scope \in LowerScopes : scope = requests[r].scope
  OBVIOUS
<1>5. PICK i \in DOMAIN ListFor(scope, shown) : copy.path = ListFor(scope, shown)[i]
  BY <1>2, <1>3, <1>4, DownloadsAreListed
<1>6. PICK n \in 1..BatchesFor(scope, shown) : copy.path \in BatchFor(scope, shown, n)
  BY <1>5, BatchesCover
<1>7. Cleared(r, shown, n)
  BY <1>1, <1>2, <1>3, <1>4 DEF Fresh
<1> QED
  BY <1>4, <1>6, <1>7 DEF Cleared

(* However large a state, however many calls its purge takes, whoever else releases,  *)
(* crashes or reads meanwhile: once the operator is told 201, Cloudflare keeps no     *)
(* copy of a download of the release, and none comes back; and where it keeps copies  *)
(* in spite of no-store, only of this release, of a later one, or of an answer that a *)
(* purge overtook.  (What a purge has removed may be served until it has spread.)     *)
THEOREM ReleasedDownloadsAreFresh == Spec => []DownloadsAreFresh
BY InductiveInvariant, CopiesInvariant, CopyInvIsFresh, PTL

-----------------------------------------------------------------------------
(* What the router makes of the other addresses that the builders write *)

\* What follows the first segments of a path.
LEMMA LastSegment ==
    /\ \A a, b : SubSeq(<<a, b>>, 2, 2) = <<b>>
    /\ \A a, b, c : SubSeq(<<a, b, c>>, 3, 3) = <<c>> /\ SubSeq(<<a, b, c>>, 2, 3) = <<b, c>>
    /\ \A a, b, c, d : SubSeq(<<a, b, c, d>>, 4, 4) = <<d>> /\ SubSeq(<<a, b, c, d>>, 2, 4) = <<b, c, d>>
<1>1. PICK one \in Nat, two \in Nat, three \in Nat, four \in Nat : one = 1 /\ two = 2 /\ three = 3 /\ four = 4
  OBVIOUS
<1>2. ASSUME NEW a, NEW b PROVE SubSeq(<<a, b>>, one + 1, two) = <<b>>
  <2>1. PICK path, rest, S : path = <<a, b>> /\ rest = <<b>> /\ S = {a, b}
    OBVIOUS
  <2>2. /\ path \in Seq(S) /\ rest \in Seq(S) /\ Len(path) = two /\ Len(rest) = two - one
        /\ one <= two /\ \A i \in 1..(two - one) : rest[i] = path[one + i]
    BY <1>1, <2>1
  <2>3. SubSeq(path, one + 1, two) = rest
    BY <2>2, SegmentsAfter
  <2> QED
    BY <2>1, <2>3
<1>3. ASSUME NEW a, NEW b, NEW c PROVE SubSeq(<<a, b, c>>, two + 1, three) = <<c>>
  <2>1. PICK path, rest, S : path = <<a, b, c>> /\ rest = <<c>> /\ S = {a, b, c}
    OBVIOUS
  <2>2. /\ path \in Seq(S) /\ rest \in Seq(S) /\ Len(path) = three /\ Len(rest) = three - two
        /\ two <= three /\ \A i \in 1..(three - two) : rest[i] = path[two + i]
    BY <1>1, <2>1
  <2>3. SubSeq(path, two + 1, three) = rest
    BY <2>2, SegmentsAfter
  <2> QED
    BY <2>1, <2>3
<1>4. ASSUME NEW a, NEW b, NEW c PROVE SubSeq(<<a, b, c>>, one + 1, three) = <<b, c>>
  <2>1. PICK path, rest, S : path = <<a, b, c>> /\ rest = <<b, c>> /\ S = {a, b, c}
    OBVIOUS
  <2>2. /\ path \in Seq(S) /\ rest \in Seq(S) /\ Len(path) = three /\ Len(rest) = three - one
        /\ one <= three /\ \A i \in 1..(three - one) : rest[i] = path[one + i]
    BY <1>1, <2>1
  <2>3. SubSeq(path, one + 1, three) = rest
    BY <2>2, SegmentsAfter
  <2> QED
    BY <2>1, <2>3
<1>5. ASSUME NEW a, NEW b, NEW c, NEW d PROVE SubSeq(<<a, b, c, d>>, three + 1, four) = <<d>>
  <2>1. PICK path, rest, S : path = <<a, b, c, d>> /\ rest = <<d>> /\ S = {a, b, c, d}
    OBVIOUS
  <2>2. /\ path \in Seq(S) /\ rest \in Seq(S) /\ Len(path) = four /\ Len(rest) = four - three
        /\ three <= four /\ \A i \in 1..(four - three) : rest[i] = path[three + i]
    BY <1>1, <2>1
  <2>3. SubSeq(path, three + 1, four) = rest
    BY <2>2, SegmentsAfter
  <2> QED
    BY <2>1, <2>3
<1>6. ASSUME NEW a, NEW b, NEW c, NEW d PROVE SubSeq(<<a, b, c, d>>, one + 1, four) = <<b, c, d>>
  <2>1. PICK path, rest, S : path = <<a, b, c, d>> /\ rest = <<b, c, d>> /\ S = {a, b, c, d}
    OBVIOUS
  <2>2. /\ path \in Seq(S) /\ rest \in Seq(S) /\ Len(path) = four /\ Len(rest) = four - one
        /\ one <= four /\ \A i \in 1..(four - one) : rest[i] = path[one + i]
    BY <1>1, <2>1
  <2>3. SubSeq(path, one + 1, four) = rest
    BY <2>2, SegmentsAfter
  <2> QED
    BY <2>1, <2>3
<1>7. one + 1 = 2 /\ two + 1 = 3 /\ three + 1 = 4
  BY <1>1
<1> QED
  BY <1>1, <1>2, <1>3, <1>4, <1>5, <1>6, <1>7

\* The two ways a geography's own data is addressed.
LEMMA DataIsRouted ==
    ASSUME NEW scope \in LowerScopes, NEW what \in {"stats", "districts", "trends"}
    PROVE  Router(ApiBase(scope, what)) = OfSnapshot(scope, 404)
<1>1. CASE scope = DefaultState /\ what = "stats"
  <2>1. ApiBase(scope, what) = <<"v1", "stats", "himachal">>
    BY <1>1 DEF ApiBase
  <2>2. PICK path : path = <<"v1", "stats", "himachal">>
    OBVIOUS
  <2>3. path # <<>> /\ path # <<"high-courts">> /\ Len(path) = 3 /\ path[1] = "v1" /\ path[2] = "stats"
    BY <2>2
  <2>4. SubSeq(path, 2, 3) = <<"stats", "himachal">>
    BY <2>2, LastSegment
  <2>5. Router(path) = DefaultData(SubSeq(path, 2, 3))
    BY <2>3 DEF Router
  <2> QED
    BY <1>1, <2>1, <2>2, <2>4, <2>5 DEF DefaultData
<1>2. CASE scope = DefaultState /\ what # "stats"
  <2>1. ApiBase(scope, what) = <<"v1", what>>
    BY <1>2 DEF ApiBase
  <2>2. PICK path : path = <<"v1", what>>
    OBVIOUS
  <2>3. path # <<>> /\ path # <<"high-courts">> /\ Len(path) = 2 /\ path[1] = "v1" /\ path[2] = what
    BY <2>2
  <2>4. SubSeq(path, 2, 2) = <<what>>
    BY <2>2, LastSegment
  <2>5. Router(path) = DefaultData(SubSeq(path, 2, 2))
    BY <2>3 DEF Router
  <2> QED
    BY <1>2, <2>1, <2>2, <2>4, <2>5 DEF DefaultData
<1>3. CASE scope # DefaultState
  <2>1. PICK slug : slug = SlugOf[scope] /\ Names(slug, scope)
    BY DEF Names
  <2>2. ApiBase(scope, what) = <<"v1", "states", slug, what>>
    BY <1>3, <2>1 DEF ApiBase
  <2>3. PICK path : path = <<"v1", "states", slug, what>>
    OBVIOUS
  <2>4. path # <<>> /\ Len(path) = 4 /\ path[1] = "v1" /\ path[2] = "states" /\ path[3] = slug
    BY <2>3
  <2>5. SubSeq(path, 4, 4) = <<what>>
    BY <2>3, LastSegment
  <2>6. Router(path) = StateData(scope, SubSeq(path, 4, 4))
    BY <2>1, <2>4, SlugsAreResolved DEF Router
  <2> QED
    BY <2>2, <2>3, <2>5, <2>6 DEF StateData
<1> QED
  BY <1>1, <1>2, <1>3

Opens(path) == Router(path).status = 200
LEMMA OpensWhatIsShown == ASSUME NEW path, NEW snapshot, Router(path) = Shows(snapshot) PROVE Opens(path)
BY DEF Opens, Shows

LEMMA StateHomeIsRouted ==
    ASSUME NEW scope \in LowerScopes, NEW slug, Names(slug, scope)
    PROVE  /\ Router(<<"states", slug>>) = OfSnapshot(scope, 503)
           /\ Router(<<"states", slug, "feed.xml">>) = Shows(GetPublishedSnapshot(scope))
           /\ Router(<<"states", slug, "api">>) = Shows(None)
<1>1. PICK S : S = {"states", slug, "feed.xml", "api"}
  OBVIOUS
<1>2. PICK two \in Nat, three \in Nat : two = 2 /\ three = 3
  OBVIOUS
<1>3. Router(<<"states", slug>>) = UnderStates(scope, <<>>)
  <2>1. PICK path, rest : path = <<"states", slug>> /\ rest = <<>>
    OBVIOUS
  <2>2. /\ path \in Seq(S) /\ rest \in Seq(S) /\ Len(path) = two /\ two >= 2 /\ Len(rest) = two - 2
        /\ path[1] = "states" /\ path[2] = slug /\ \A i \in 1..(two - 2) : rest[i] = path[2 + i]
    BY <1>1, <1>2, <2>1
  <2>3. Router(path) = UnderStates(scope, rest)
    BY <2>2, UnderStatesIsRouted
  <2> QED
    BY <2>1, <2>3
<1>4. ASSUME NEW last \in {"feed.xml", "api"} PROVE Router(<<"states", slug, last>>) = UnderStates(scope, <<last>>)
  <2>1. PICK path, rest : path = <<"states", slug, last>> /\ rest = <<last>>
    OBVIOUS
  <2>2. /\ path \in Seq(S) /\ rest \in Seq(S) /\ Len(path) = three /\ three >= 2 /\ Len(rest) = three - 2
        /\ path[1] = "states" /\ path[2] = slug /\ \A i \in 1..(three - 2) : rest[i] = path[2 + i]
    BY <1>1, <1>2, <1>4, <2>1
  <2>3. Router(path) = UnderStates(scope, rest)
    BY <2>2, UnderStatesIsRouted
  <2> QED
    BY <2>1, <2>3
<1>5. UnderStates(scope, <<>>) = OfSnapshot(scope, 503)
  BY DEF UnderStates
<1>6. UnderStates(scope, <<"feed.xml">>) = Shows(GetPublishedSnapshot(scope))
  BY DEF UnderStates
<1>7. UnderStates(scope, <<"api">>) = Shows(None)
  BY DEF UnderStates, StatePages, ReferencePages
<1> QED
  BY <1>3, <1>4, <1>5, <1>6, <1>7

\* Every address of a state with a release, in all its forms.
LEMMA StateRoutesOpen ==
    ASSUME NEW scope \in LowerScopes, NEW active, active = GetPublishedSnapshot(scope), active # None
    PROVE  LET routes == BuildPublicStateRoutes(scope)
           IN  /\ Router(routes.home) = Shows(active) /\ Router(routes.data) = Shows(active)
               /\ Router(routes.districtsCsv) = Shows(active) /\ Router(routes.stats) = Shows(active)
               /\ Router(routes.districtsApi) = Shows(active) /\ Router(routes.trends) = Shows(active)
               /\ \A path \in RoutesIn(routes) : Opens(path)
<1>1. /\ OfSnapshot(scope, 404) = Shows(active) /\ OfSnapshot(scope, 503) = Shows(active)
  BY DEF OfSnapshot
<1>2. PICK routes : routes = BuildPublicStateRoutes(scope)
  OBVIOUS
<1>3. /\ routes.home = StateHome(scope) /\ routes.districts = HtmlBase(scope) \o <<"districts">>
      /\ routes.movers = HtmlBase(scope) \o <<"movers">> /\ routes.data = HtmlBase(scope) \o <<"data">>
      /\ routes.stateEvidencePack = HtmlBase(scope) \o <<"data", "evidence", "state.json">>
      /\ routes.districtsCsv = HtmlBase(scope) \o <<"data", "districts.csv">>
      /\ routes.methodology = HtmlBase(scope) \o <<"methodology">>
      /\ routes.api = IF scope = DefaultState THEN <<"states", "himachal", "api">> ELSE HtmlBase(scope) \o <<"api">>
      /\ routes.stats = ApiBase(scope, "stats") /\ routes.districtsApi = ApiBase(scope, "districts")
      /\ routes.trends = ApiBase(scope, "trends")
      /\ DOMAIN routes = {"home", "districts", "movers", "data", "stateEvidencePack", "districtsCsv", "methodology",
                          "api", "stats", "districtsApi", "trends"}
  BY <1>2 DEF BuildPublicStateRoutes
<1>4. Router(routes.home) = Shows(active)
  <2>1. PICK slug : Names(slug, scope) /\ StateHome(scope) = <<"states", slug>>
    <3>1. CASE scope = DefaultState
      <4>1. Names("himachal", scope) /\ StateHome(scope) = <<"states", "himachal">>
        BY <3>1 DEF Names, StateHome
      <4> QED
        BY <4>1
    <3>2. CASE scope # DefaultState
      <4>1. Names(SlugOf[scope], scope) /\ StateHome(scope) = <<"states", SlugOf[scope]>>
        BY <3>2 DEF Names, StateHome
      <4> QED
        BY <4>1
    <3> QED
      BY <3>1, <3>2
  <2>2. Router(<<"states", slug>>) = OfSnapshot(scope, 503)
    BY <2>1, StateHomeIsRouted, ZenonT(60)
  <2> QED
    BY <1>1, <1>3, <2>1, <2>2
<1>5. /\ Router(routes.districts) = StatePages(scope, <<"districts">>)
      /\ Router(routes.movers) = StatePages(scope, <<"movers">>)
      /\ Router(routes.data) = StatePages(scope, <<"data">>)
      /\ Router(routes.stateEvidencePack) = StatePages(scope, <<"data", "evidence", "state.json">>)
      /\ Router(routes.districtsCsv) = StatePages(scope, <<"data", "districts.csv">>)
      /\ Router(routes.methodology) = StatePages(scope, <<"methodology">>)
      /\ scope # DefaultState => Router(routes.api) = StatePages(scope, <<"api">>)
  BY <1>3, PathsOfStates, StatePagesAreRouted DEF Heads
<1>6. StatePages(scope, <<"districts">>) = Shows(active)
  BY <1>1 DEF StatePages, DistrictPages
<1>7. StatePages(scope, <<"movers">>) = Shows(active)
  BY DEF StatePages, Movers
<1>8. StatePages(scope, <<"data">>) = Shows(active)
  BY <1>1 DEF StatePages, DataPage
<1>9. StatePages(scope, <<"data", "evidence", "state.json">>) = Shows(active)
  BY <1>1 DEF StatePages, Downloads
<1>10. StatePages(scope, <<"data", "districts.csv">>) = Shows(active)
  BY <1>1 DEF StatePages, Downloads
<1>11. StatePages(scope, <<"methodology">>) = Shows(active)
  BY DEF StatePages, ReferencePages
<1>12. StatePages(scope, <<"api">>) = Shows(None)
  BY DEF StatePages, ReferencePages
<1>13. Router(routes.api) = Shows(None)
  <2>1. CASE scope = DefaultState
    <3>1. Names("himachal", scope) /\ routes.api = <<"states", "himachal", "api">>
      BY <1>3, <2>1 DEF Names
    <3>2. Router(<<"states", "himachal", "api">>) = Shows(None)
      BY <3>1, StateHomeIsRouted, ZenonT(60)
    <3> QED
      BY <3>1, <3>2
  <2>2. CASE scope # DefaultState
    BY <1>5, <1>12, <2>2
  <2> QED
    BY <2>1, <2>2
<1>14. Router(routes.stats) = Shows(active) /\ Router(routes.districtsApi) = Shows(active) /\ Router(routes.trends) = Shows(active)
  BY <1>1, <1>3, DataIsRouted
<1>15. \A path \in RoutesIn(routes) : Opens(path)
  <2>1. /\ Opens(routes.home) /\ Opens(routes.districts) /\ Opens(routes.movers) /\ Opens(routes.data)
        /\ Opens(routes.stateEvidencePack) /\ Opens(routes.districtsCsv) /\ Opens(routes.methodology)
        /\ Opens(routes.api) /\ Opens(routes.stats) /\ Opens(routes.districtsApi) /\ Opens(routes.trends)
    BY <1>4, <1>5, <1>6, <1>7, <1>8, <1>9, <1>10, <1>11, <1>13, <1>14, OpensWhatIsShown
  <2> QED
    BY <1>3, <2>1 DEF RoutesIn
<1> QED
  BY <1>2, <1>4, <1>5, <1>8, <1>10, <1>14, <1>15

\* The pages, downloads and widgets of the districts a release shows.
LEMMA DistrictRoutesOpen ==
    ASSUME NEW scope \in LowerScopes, NEW active, active = GetPublishedSnapshot(scope), active # None,
           DistrictsIn(active) \in SUBSET District, NEW d \in DistrictsIn(active)
    PROVE  /\ Opens(DistrictRoute(scope, d)) /\ Opens(DistrictCsvRoute(scope, d))
           /\ Opens(DistrictEvidenceRoute(scope, d))
           /\ \A e \in DistrictsIn(active) : Opens(CompareRoute(scope, d, e))
           /\ Opens(<<"states", SlugOf[scope], "embed", "district", d>>)
<1>1. d \in District
  OBVIOUS
<1>2. \A missing : OfDistricts(scope, {d}, missing) = Shows(active)
  BY DEF OfDistricts
<1>3. Opens(DistrictRoute(scope, d))
  <2>1. Router(DistrictRoute(scope, d)) = StatePages(scope, <<"districts", d>>)
    <3>1. PICK rest : rest = <<"districts", d>>
      OBVIOUS
    <3>2. rest \in Seq(Segment) /\ rest # <<>> /\ rest[1] \in Heads
      BY <1>1, <3>1, PathsOfStates DEF Heads
    <3> QED
      BY <3>1, <3>2, StatePagesAreRouted DEF DistrictRoute
  <2>2. StatePages(scope, <<"districts", d>>) = Shows(active)
    BY <1>2 DEF StatePages, DistrictPages
  <2> QED
    BY <2>1, <2>2, OpensWhatIsShown
<1>4. Opens(DistrictCsvRoute(scope, d))
  <2>1. Router(DistrictCsvRoute(scope, d)) = StatePages(scope, <<"data", "districts", d, "csv">>)
    <3>1. PICK rest : rest = <<"data", "districts", d, "csv">>
      OBVIOUS
    <3>2. rest \in Seq(Segment) /\ rest # <<>> /\ rest[1] \in Heads
      BY <1>1, <3>1, PathsOfStates DEF Heads
    <3> QED
      BY <3>1, <3>2, StatePagesAreRouted DEF DistrictCsvRoute
  <2>2. StatePages(scope, <<"data", "districts", d, "csv">>) = Downloads(scope, <<"data", "districts", d, "csv">>)
    BY DEF StatePages
  <2>3. Downloads(scope, <<"data", "districts", d, "csv">>) = Shows(active)
    BY <1>2 DEF Downloads
  <2> QED
    BY <2>1, <2>2, <2>3, OpensWhatIsShown
<1>5. Opens(DistrictEvidenceRoute(scope, d))
  <2>1. Router(DistrictEvidenceRoute(scope, d)) = StatePages(scope, <<"data", "evidence", "districts", d, "json">>)
    <3>1. PICK rest : rest = <<"data", "evidence", "districts", d, "json">>
      OBVIOUS
    <3>2. rest \in Seq(Segment) /\ rest # <<>> /\ rest[1] \in Heads
      BY <1>1, <3>1, PathsOfStates DEF Heads
    <3> QED
      BY <3>1, <3>2, StatePagesAreRouted DEF DistrictEvidenceRoute
  <2>2. StatePages(scope, <<"data", "evidence", "districts", d, "json">>)
          = Downloads(scope, <<"data", "evidence", "districts", d, "json">>)
    BY DEF StatePages
  <2>3. Downloads(scope, <<"data", "evidence", "districts", d, "json">>) = Shows(active)
    BY <1>2 DEF Downloads
  <2> QED
    BY <2>1, <2>2, <2>3, OpensWhatIsShown
<1>6. ASSUME NEW e \in DistrictsIn(active) PROVE Opens(CompareRoute(scope, d, e))
  <2>1. Router(CompareRoute(scope, d, e)) = StatePages(scope, <<"compare", d, e>>)
    <3>1. PICK rest : rest = <<"compare", d, e>>
      OBVIOUS
    <3>2. rest \in Seq(Segment) /\ rest # <<>> /\ rest[1] \in Heads
      BY <1>1, <1>6, <3>1, PathsOfStates DEF Heads
    <3> QED
      BY <3>1, <3>2, StatePagesAreRouted DEF CompareRoute
  <2>2. StatePages(scope, <<"compare", d, e>>) = Compare(scope, <<"compare", d, e>>)
    BY DEF StatePages
  <2>3. Compare(scope, <<"compare", d, e>>) = OfDistricts(scope, {d, e}, 503)
    BY DEF Compare
  <2>4. OfDistricts(scope, {d, e}, 503) = Shows(active)
    BY <1>6 DEF OfDistricts
  <2> QED
    BY <2>1, <2>2, <2>3, <2>4, OpensWhatIsShown
<1>7. Opens(<<"states", SlugOf[scope], "embed", "district", d>>)
  <2>1. PICK slug : slug = SlugOf[scope] /\ Names(slug, scope)
    BY DEF Names
  <2>2. PICK path, rest, S : /\ path = <<"states", slug, "embed", "district", d>> /\ rest = <<"embed", "district", d>>
                             /\ S = {"states", slug, "embed", "district", d}
    OBVIOUS
  <2>3. PICK five \in Nat : five = 5
    OBVIOUS
  <2>4. /\ path \in Seq(S) /\ rest \in Seq(S) /\ Len(path) = five /\ five >= 2 /\ Len(rest) = five - 2
        /\ path[1] = "states" /\ path[2] = slug /\ \A i \in 1..(five - 2) : rest[i] = path[2 + i]
    BY <2>2, <2>3
  <2>5. Router(path) = UnderStates(scope, rest)
    BY <2>1, <2>4, UnderStatesIsRouted
  <2>6. UnderStates(scope, rest) = StatePages(scope, rest)
    BY <2>2 DEF UnderStates
  <2>7. StatePages(scope, rest) = DistrictEmbeds(scope, rest)
    BY <2>2 DEF StatePages
  <2>8. DistrictEmbeds(scope, rest) = Shows(active)
    BY <1>2, <2>2 DEF DistrictEmbeds
  <2> QED
    BY <2>1, <2>2, <2>5, <2>6, <2>7, <2>8, OpensWhatIsShown
<1> QED
  BY <1>3, <1>4, <1>5, <1>6, <1>7

\* What other sites address of a state, its share card, and its line on the map.
LEMMA StateExtrasOpen ==
    ASSUME NEW scope \in LowerScopes, NEW active, active = GetPublishedSnapshot(scope), active # None
    PROVE  /\ Opens(<<"states", SlugOf[scope]>>) /\ Opens(<<"states", SlugOf[scope], "feed.xml">>)
           /\ Opens(<<"embed", "state", SlugOf[scope]>>) /\ Opens(<<"og", "state", SlugOf[scope], "png">>)
<1>1. PICK slug : slug = SlugOf[scope] /\ Names(slug, scope)
  BY DEF Names
<1>2. /\ OfSnapshot(scope, 404) = Shows(active) /\ OfSnapshot(scope, 503) = Shows(active)
  BY DEF OfSnapshot
<1>3. Opens(<<"states", slug>>) /\ Opens(<<"states", slug, "feed.xml">>)
  <2>1. Router(<<"states", slug>>) = OfSnapshot(scope, 503) /\ Router(<<"states", slug, "feed.xml">>) = Shows(active)
    BY <1>1, StateHomeIsRouted, ZenonT(60)
  <2> QED
    BY <1>2, <2>1, OpensWhatIsShown
<1>4. Opens(<<"embed", "state", slug>>)
  <2>1. PICK path : path = <<"embed", "state", slug>>
    OBVIOUS
  <2>2. path # <<>> /\ Len(path) = 3 /\ path[1] = "embed" /\ path[2] = "state" /\ path[3] = slug
    BY <2>1
  <2>3. Router(path) = StateEmbed(scope)
    BY <1>1, <2>2, SlugsAreResolved DEF Router
  <2> QED
    BY <1>2, <2>1, <2>3, OpensWhatIsShown DEF StateEmbed
<1>5. Opens(<<"og", "state", slug, "png">>)
  <2>1. PICK path : path = <<"og", "state", slug, "png">>
    OBVIOUS
  <2>2. path # <<>> /\ Len(path) = 4 /\ path[1] = "og"
    BY <2>1
  <2>3. PICK rest : rest = <<"state", slug, "png">>
    OBVIOUS
  <2>9. SubSeq(path, 2, 4) = rest
    <3>1. SubSeq(<<"og", "state", slug, "png">>, 2, 4) = <<"state", slug, "png">>
      BY LastSegment
    <3> QED
      BY <2>1, <2>3, <3>1
  <2>4. Router(path) = ShareCards(rest)
    <3>1. Router(path) = ShareCards(SubSeq(path, 2, 4))
      BY <2>2 DEF Router
    <3> QED
      BY <2>9, <3>1
  <2>5. ResolveCard(rest[2], LowerScopes) = {scope}
    BY <1>1, <2>3, RoutesAssumption DEF ResolveCard, Scopes
  <2>6. Only(ResolveCard(rest[2], LowerScopes)) = scope /\ ResolveCard(rest[2], LowerScopes) # {}
    BY <2>5 DEF Only
  <2>7. rest # <<"national", "png">> /\ rest # <<"home", "png">> /\ rest # <<"supreme-court", "png">> /\ rest[1] = "state"
    BY <2>3
  <2>8. ShareCards(rest) = OfSnapshot(scope, 404)
    BY <2>6, <2>7 DEF ShareCards
  <2> QED
    BY <1>2, <2>1, <2>4, <2>8, OpensWhatIsShown
<1> QED
  BY <1>1, <1>3, <1>4, <1>5

\* Two short paths, one after the other.
LEMMA Joined ==
    /\ \A a, b : <<a>> \o <<b>> = <<a, b>>
    /\ \A a, b, c : <<a, b>> \o <<c>> = <<a, b, c>> /\ <<a>> \o <<b, c>> = <<a, b, c>>
    /\ \A a, b, c, d : <<a, b, c>> \o <<d>> = <<a, b, c, d>>
<1>1. ASSUME NEW a, NEW b PROVE <<a>> \o <<b>> = <<a, b>>
  <2>1. PICK s, t, u, S : s = <<a>> /\ t = <<b>> /\ u = <<a, b>> /\ S = {a, b}
    OBVIOUS
  <2>2. s \in Seq(S) /\ t \in Seq(S) /\ u \in Seq(S) /\ Len(s) = 1 /\ Len(t) = 1 /\ Len(u) = 2
    BY <2>1
  <2>3. /\ s \o t \in Seq(S) /\ Len(s \o t) = 2
        /\ \A i \in 1..2 : (s \o t)[i] = IF i <= 1 THEN s[i] ELSE t[i - 1]
    <3>1. /\ s \o t \in Seq(S) /\ Len(s \o t) = Len(s) + Len(t)
          /\ \A i \in 1..(Len(s) + Len(t)) : (s \o t)[i] = IF i <= Len(s) THEN s[i] ELSE t[i - Len(s)]
      BY <2>2, ConcatProperties
    <3> QED
      BY <2>2, <3>1
  <2>4. \A i \in 1..2 : u[i] = IF i <= 1 THEN s[i] ELSE t[i - 1]
    BY <2>1
  <2>5. PICK joined : joined = s \o t
    OBVIOUS
  <2>6. joined = u
    <3>1. joined \in Seq(S) /\ Len(joined) = Len(u) /\ \A i \in 1..Len(joined) : joined[i] = u[i]
      BY <2>2, <2>3, <2>4, <2>5
    <3> QED
      BY <2>2, <3>1, SeqEqual
  <2> QED
    BY <2>1, <2>5, <2>6
<1>2. ASSUME NEW a, NEW b, NEW c PROVE <<a, b>> \o <<c>> = <<a, b, c>>
  <2>1. PICK s, t, u, S : s = <<a, b>> /\ t = <<c>> /\ u = <<a, b, c>> /\ S = {a, b, c}
    OBVIOUS
  <2>2. s \in Seq(S) /\ t \in Seq(S) /\ u \in Seq(S) /\ Len(s) = 2 /\ Len(t) = 1 /\ Len(u) = 3
    BY <2>1
  <2>3. /\ s \o t \in Seq(S) /\ Len(s \o t) = 3
        /\ \A i \in 1..3 : (s \o t)[i] = IF i <= 2 THEN s[i] ELSE t[i - 2]
    <3>1. /\ s \o t \in Seq(S) /\ Len(s \o t) = Len(s) + Len(t)
          /\ \A i \in 1..(Len(s) + Len(t)) : (s \o t)[i] = IF i <= Len(s) THEN s[i] ELSE t[i - Len(s)]
      BY <2>2, ConcatProperties
    <3> QED
      BY <2>2, <3>1
  <2>4. \A i \in 1..3 : u[i] = IF i <= 2 THEN s[i] ELSE t[i - 2]
    BY <2>1
  <2>5. PICK joined : joined = s \o t
    OBVIOUS
  <2>6. joined = u
    <3>1. joined \in Seq(S) /\ Len(joined) = Len(u) /\ \A i \in 1..Len(joined) : joined[i] = u[i]
      BY <2>2, <2>3, <2>4, <2>5
    <3> QED
      BY <2>2, <3>1, SeqEqual
  <2> QED
    BY <2>1, <2>5, <2>6
<1>3. ASSUME NEW a, NEW b, NEW c PROVE <<a>> \o <<b, c>> = <<a, b, c>>
  <2>1. PICK s, t, u, S : s = <<a>> /\ t = <<b, c>> /\ u = <<a, b, c>> /\ S = {a, b, c}
    OBVIOUS
  <2>2. s \in Seq(S) /\ t \in Seq(S) /\ u \in Seq(S) /\ Len(s) = 1 /\ Len(t) = 2 /\ Len(u) = 3
    BY <2>1
  <2>3. /\ s \o t \in Seq(S) /\ Len(s \o t) = 3
        /\ \A i \in 1..3 : (s \o t)[i] = IF i <= 1 THEN s[i] ELSE t[i - 1]
    <3>1. /\ s \o t \in Seq(S) /\ Len(s \o t) = Len(s) + Len(t)
          /\ \A i \in 1..(Len(s) + Len(t)) : (s \o t)[i] = IF i <= Len(s) THEN s[i] ELSE t[i - Len(s)]
      BY <2>2, ConcatProperties
    <3> QED
      BY <2>2, <3>1
  <2>4. \A i \in 1..3 : u[i] = IF i <= 1 THEN s[i] ELSE t[i - 1]
    BY <2>1
  <2>5. PICK joined : joined = s \o t
    OBVIOUS
  <2>6. joined = u
    <3>1. joined \in Seq(S) /\ Len(joined) = Len(u) /\ \A i \in 1..Len(joined) : joined[i] = u[i]
      BY <2>2, <2>3, <2>4, <2>5
    <3> QED
      BY <2>2, <3>1, SeqEqual
  <2> QED
    BY <2>1, <2>5, <2>6
<1>4. ASSUME NEW a, NEW b, NEW c, NEW d PROVE <<a, b, c>> \o <<d>> = <<a, b, c, d>>
  <2>1. PICK s, t, u, S : s = <<a, b, c>> /\ t = <<d>> /\ u = <<a, b, c, d>> /\ S = {a, b, c, d}
    OBVIOUS
  <2>2. s \in Seq(S) /\ t \in Seq(S) /\ u \in Seq(S) /\ Len(s) = 3 /\ Len(t) = 1 /\ Len(u) = 4
    BY <2>1
  <2>3. /\ s \o t \in Seq(S) /\ Len(s \o t) = 4
        /\ \A i \in 1..4 : (s \o t)[i] = IF i <= 3 THEN s[i] ELSE t[i - 3]
    <3>1. /\ s \o t \in Seq(S) /\ Len(s \o t) = Len(s) + Len(t)
          /\ \A i \in 1..(Len(s) + Len(t)) : (s \o t)[i] = IF i <= Len(s) THEN s[i] ELSE t[i - Len(s)]
      BY <2>2, ConcatProperties
    <3> QED
      BY <2>2, <3>1
  <2>4. \A i \in 1..4 : u[i] = IF i <= 3 THEN s[i] ELSE t[i - 3]
    BY <2>1
  <2>5. PICK joined : joined = s \o t
    OBVIOUS
  <2>6. joined = u
    <3>1. joined \in Seq(S) /\ Len(joined) = Len(u) /\ \A i \in 1..Len(joined) : joined[i] = u[i]
      BY <2>2, <2>3, <2>4, <2>5
    <3> QED
      BY <2>2, <3>1, SeqEqual
  <2> QED
    BY <2>1, <2>5, <2>6
<1> QED
  BY <1>1, <1>2, <1>3, <1>4

\* The addresses of a high court with a release.
LEMMA HighCourtRoutesOpen ==
    ASSUME NEW court \in HighCourts, NEW active, active = GetPublishedSnapshot(court), active # None
    PROVE  LET routes == BuildPublicHighCourtRoutes(court)
           IN  /\ Router(routes.data) = Shows(active) /\ Router(routes.stats) = Shows(active)
               /\ Router(routes.trends) = Shows(active)
               /\ \A path \in RoutesIn(routes) : Opens(path)
<1>1. PICK slug : slug = SlugOf[court]
  OBVIOUS
<1>2. PICK routes : routes = BuildPublicHighCourtRoutes(court)
  OBVIOUS
<1>3. ResolveHighCourt(slug) # {} /\ Only(ResolveHighCourt(slug)) = court
  <2>1. ResolveHighCourt(slug) = {court}
    BY <1>1, RoutesAssumption DEF ResolveHighCourt, Scopes
  <2> QED
    BY <2>1 DEF Only
<1>4. OfSnapshot(court, 404) = Shows(active) /\ OfSnapshot(court, 503) = Shows(active)
  BY DEF OfSnapshot
<1>5. /\ routes.index = <<"high-courts">> /\ routes.home = <<"high-courts", slug>>
      /\ routes.methodology = <<"high-courts", slug>> \o <<"methodology">> /\ routes.api = <<"high-courts", slug>> \o <<"api">>
      /\ routes.data = <<"high-courts", slug>> \o <<"data">>
      /\ routes.stats = (<<"v1">> \o <<"high-courts", slug>>) \o <<"stats">>
      /\ routes.trends = (<<"v1">> \o <<"high-courts", slug>>) \o <<"trends">>
      /\ DOMAIN routes = {"index", "home", "methodology", "api", "data", "stats", "trends"}
  BY <1>1, <1>2 DEF BuildPublicHighCourtRoutes
<1>6. /\ routes.methodology = <<"high-courts", slug, "methodology">> /\ routes.api = <<"high-courts", slug, "api">>
      /\ routes.data = <<"high-courts", slug, "data">>
      /\ routes.stats = <<"v1", "high-courts", slug, "stats">> /\ routes.trends = <<"v1", "high-courts", slug, "trends">>
  <2>1. <<"v1">> \o <<"high-courts", slug>> = <<"v1", "high-courts", slug>>
    BY Joined
  <2>2. \A last : <<"high-courts", slug>> \o <<last>> = <<"high-courts", slug, last>>
    BY Joined
  <2>3. \A last : <<"v1", "high-courts", slug>> \o <<last>> = <<"v1", "high-courts", slug, last>>
    BY Joined, ZenonT(60)
  <2> QED
    BY <1>5, <2>1, <2>2, <2>3
<1>7. Opens(<<"high-courts">>)
  <2>1. court \in ListAvailableHighCourts({})
    BY DEF ListAvailableHighCourts
  <2>2. PICK path : path = <<"high-courts">>
    OBVIOUS
  <2>3. path # <<>> /\ Len(path) = 1 /\ path[1] = "high-courts"
    BY <2>2
  <2>4. Router(path) = HighCourtIndex
    BY <2>2, <2>3 DEF Router
  <2> QED
    BY <2>1, <2>2, <2>4, OpensWhatIsShown DEF HighCourtIndex
<1>8. Router(<<"high-courts", slug>>) = Shows(active)
  <2>1. PICK path : path = <<"high-courts", slug>>
    OBVIOUS
  <2>2. path # <<>> /\ Len(path) = 2 /\ path[1] = "high-courts" /\ path[2] = slug /\ path # <<"high-courts">>
    BY <2>1
  <2>3. SubSeq(path, 3, 2) = <<>>
    BY SubSeqEmpty
  <2>4. Router(path) = CourtPages(court, SubSeq(path, 3, 2))
    BY <1>3, <2>2 DEF Router
  <2> QED
    BY <1>4, <2>1, <2>3, <2>4 DEF CourtPages
<1>9. ASSUME NEW last \in {"methodology", "api", "data"} PROVE Router(<<"high-courts", slug, last>>) = CourtPages(court, <<last>>)
  <2>1. PICK path : path = <<"high-courts", slug, last>>
    OBVIOUS
  <2>2. path # <<>> /\ Len(path) = 3 /\ path[1] = "high-courts" /\ path[2] = slug /\ path # <<"high-courts">>
    BY <2>1
  <2>3. SubSeq(path, 3, 3) = <<last>>
    BY <2>1, LastSegment
  <2>4. Router(path) = CourtPages(court, SubSeq(path, 3, 3))
    BY <1>3, <2>2 DEF Router
  <2> QED
    BY <2>1, <2>3, <2>4
<1>10. /\ CourtPages(court, <<"data">>) = Shows(active) /\ CourtPages(court, <<"methodology">>) = Shows(active)
       /\ CourtPages(court, <<"api">>) = Shows(None)
  BY <1>4 DEF CourtPages
<1>11. ASSUME NEW last \in {"stats", "trends"} PROVE Router(<<"v1", "high-courts", slug, last>>) = Shows(active)
  <2>1. PICK path : path = <<"v1", "high-courts", slug, last>>
    OBVIOUS
  <2>2. path # <<>> /\ Len(path) = 4 /\ path[1] = "v1" /\ path[2] = "high-courts" /\ path[3] = slug
    BY <2>1
  <2>3. SubSeq(path, 4, 4) = <<last>>
    BY <2>1, LastSegment
  <2>4. Router(path) = HighCourtData(court, SubSeq(path, 4, 4))
    BY <1>3, <2>2 DEF Router
  <2>5. HighCourtData(court, <<last>>) = Shows(active)
    BY <1>4 DEF HighCourtData
  <2> QED
    BY <2>1, <2>3, <2>4, <2>5
<1>12. /\ Router(routes.home) = Shows(active) /\ Router(routes.data) = Shows(active)
       /\ Router(routes.methodology) = Shows(active) /\ Router(routes.api) = Shows(None)
       /\ Router(routes.stats) = Shows(active) /\ Router(routes.trends) = Shows(active)
  BY <1>5, <1>6, <1>8, <1>9, <1>10, <1>11
<1>13. \A path \in RoutesIn(routes) : Opens(path)
  <2>1. /\ Opens(routes.index) /\ Opens(routes.home) /\ Opens(routes.data) /\ Opens(routes.methodology)
        /\ Opens(routes.api) /\ Opens(routes.stats) /\ Opens(routes.trends)
    BY <1>5, <1>7, <1>12, OpensWhatIsShown
  <2> QED
    BY <1>5, <2>1 DEF RoutesIn
<1> QED
  BY <1>2, <1>12, <1>13

\* The addresses of the Supreme Court, when it has a release.
LEMMA SupremeCourtRoutesOpen ==
    ASSUME NEW active, active = GetPublishedSnapshot(SupremeCourt), active # None
    PROVE  LET routes == BuildPublicSupremeCourtRoutes
           IN  /\ Router(routes.data) = Shows(active) /\ Router(routes.stats) = Shows(active)
               /\ Router(routes.trends) = Shows(active)
               /\ \A path \in RoutesIn(routes) : Opens(path)
<1>1. PICK routes : routes = BuildPublicSupremeCourtRoutes
  OBVIOUS
<1>2. OfSnapshot(SupremeCourt, 404) = Shows(active) /\ OfSnapshot(SupremeCourt, 503) = Shows(active)
  BY DEF OfSnapshot
<1>3. /\ routes.home = <<"supreme-court">>
      /\ routes.methodology = <<"supreme-court">> \o <<"methodology">> /\ routes.api = <<"supreme-court">> \o <<"api">>
      /\ routes.data = <<"supreme-court">> \o <<"data">>
      /\ routes.stats = (<<"v1">> \o <<"supreme-court">>) \o <<"stats">>
      /\ routes.trends = (<<"v1">> \o <<"supreme-court">>) \o <<"trends">>
      /\ DOMAIN routes = {"home", "methodology", "api", "data", "stats", "trends"}
  BY <1>1 DEF BuildPublicSupremeCourtRoutes
<1>4. /\ routes.methodology = <<"supreme-court", "methodology">> /\ routes.api = <<"supreme-court", "api">>
      /\ routes.data = <<"supreme-court", "data">>
      /\ routes.stats = <<"v1", "supreme-court", "stats">> /\ routes.trends = <<"v1", "supreme-court", "trends">>
  <2>1. <<"v1">> \o <<"supreme-court">> = <<"v1", "supreme-court">>
    BY Joined
  <2>2. \A last : <<"supreme-court">> \o <<last>> = <<"supreme-court", last>>
    BY Joined
  <2>3. \A last : <<"v1", "supreme-court">> \o <<last>> = <<"v1", "supreme-court", last>>
    BY Joined
  <2> QED
    BY <1>3, <2>1, <2>2, <2>3
<1>5. Router(<<"supreme-court">>) = Shows(active)
  <2>1. PICK path : path = <<"supreme-court">>
    OBVIOUS
  <2>2. path # <<>> /\ Len(path) = 1 /\ path[1] = "supreme-court" /\ path # <<"high-courts">>
    BY <2>1
  <2>3. SubSeq(path, 2, 1) = <<>>
    BY SubSeqEmpty
  <2>4. Router(path) = CourtPages(SupremeCourt, SubSeq(path, 2, 1))
    BY <2>2 DEF Router
  <2> QED
    BY <1>2, <2>1, <2>3, <2>4 DEF CourtPages
<1>6. ASSUME NEW last \in {"methodology", "api", "data"}
      PROVE  Router(<<"supreme-court", last>>) = CourtPages(SupremeCourt, <<last>>)
  <2>1. PICK path : path = <<"supreme-court", last>>
    OBVIOUS
  <2>2. path # <<>> /\ Len(path) = 2 /\ path[1] = "supreme-court" /\ path # <<"high-courts">>
    BY <2>1
  <2>3. SubSeq(path, 2, 2) = <<last>>
    BY <2>1, LastSegment
  <2>4. Router(path) = CourtPages(SupremeCourt, SubSeq(path, 2, 2))
    BY <2>2 DEF Router
  <2> QED
    BY <2>1, <2>3, <2>4
<1>7. /\ CourtPages(SupremeCourt, <<"data">>) = Shows(active) /\ CourtPages(SupremeCourt, <<"methodology">>) = Shows(active)
      /\ CourtPages(SupremeCourt, <<"api">>) = Shows(None)
  BY <1>2 DEF CourtPages
<1>8. ASSUME NEW last \in {"stats", "trends"} PROVE Router(<<"v1", "supreme-court", last>>) = Shows(active)
  <2>1. PICK path : path = <<"v1", "supreme-court", last>>
    OBVIOUS
  <2>2. path # <<>> /\ Len(path) = 3 /\ path[1] = "v1" /\ path[2] = "supreme-court" /\ path # <<"high-courts">>
    BY <2>1
  <2>3. SubSeq(path, 3, 3) = <<last>>
    BY <2>1, LastSegment
  <2>4. Router(path) = SupremeCourtData(SubSeq(path, 3, 3))
    BY <2>2 DEF Router
  <2>5. SupremeCourtData(<<last>>) = Shows(active)
    BY <1>2 DEF SupremeCourtData
  <2> QED
    BY <2>1, <2>3, <2>4, <2>5
<1>9. /\ Router(routes.home) = Shows(active) /\ Router(routes.data) = Shows(active)
      /\ Router(routes.methodology) = Shows(active) /\ Router(routes.api) = Shows(None)
      /\ Router(routes.stats) = Shows(active) /\ Router(routes.trends) = Shows(active)
  BY <1>3, <1>4, <1>5, <1>6, <1>7, <1>8
<1>10. \A path \in RoutesIn(routes) : Opens(path)
  <2>1. /\ Opens(routes.home) /\ Opens(routes.data) /\ Opens(routes.methodology)
        /\ Opens(routes.api) /\ Opens(routes.stats) /\ Opens(routes.trends)
    BY <1>9, OpensWhatIsShown
  <2> QED
    BY <1>3, <2>1 DEF RoutesIn
<1> QED
  BY <1>1, <1>9, <1>10

\* The pages of the whole country, and those that name no geography.
FixedPaths ==
    {Root, <<"learn">>, <<"press">>, <<"watch">>, <<"og", "national", "png">>} \cup DefaultNav \cup Watchrooms
LEMMA FixedPathsOpen ==
    ASSUME GetPublishedSnapshot(DefaultState) # None
    PROVE  \A path \in FixedPaths : Opens(path)
<1>1. PICK active : active = GetPublishedSnapshot(DefaultState) /\ active # None
  OBVIOUS
<1>2. DefaultState \in ListAvailablePublicProfiles({})
  BY RoutesAssumption DEF ListAvailablePublicProfiles
<1>3. Opens(Root)
  <2>1. Router(Root) = OfSnapshot(DefaultState, 503)
    BY DEF Root, Router
  <2>2. Router(Root) = Shows(active)
    BY <1>1, <2>1 DEF OfSnapshot
  <2> QED
    BY <2>2, OpensWhatIsShown
<1>4. Opens(<<"learn">>) /\ Opens(<<"press">>)
  <2>1. ASSUME NEW head \in {"learn", "press"} PROVE Router(<<head>>) = Shows(None)
    <3>1. PICK path : path = <<head>>
      OBVIOUS
    <3>2. path # <<>> /\ Len(path) = 1 /\ path[1] = head /\ path # <<"high-courts">>
      BY <2>1, <3>1
    <3> QED
      BY <3>1, <3>2 DEF Router
  <2> QED
    BY <2>1, OpensWhatIsShown
<1>5. \A path \in {<<"watch">>} \cup Watchrooms : Opens(path)
  <2> SUFFICES ASSUME NEW path \in {<<"watch">>} \cup Watchrooms PROVE Opens(path)
    OBVIOUS
  <2>1. path # <<>> /\ Len(path) \in {1, 2} /\ path[1] = "watch" /\ path # <<"high-courts">>
    BY DEF Watchrooms
  <2>2. Router(path) = WatchroomPages
    BY <2>1 DEF Router
  <2> QED
    BY <1>2, <2>2, OpensWhatIsShown DEF WatchroomPages
<1>6. Opens(<<"og", "national", "png">>)
  <2>1. PICK path : path = <<"og", "national", "png">>
    OBVIOUS
  <2>2. path # <<>> /\ Len(path) = 3 /\ path[1] = "og" /\ path # <<"high-courts">>
    BY <2>1
  <2>3. PICK rest : rest = <<"national", "png">>
    OBVIOUS
  <2>4. SubSeq(path, 2, 3) = rest
    <3>1. SubSeq(<<"og", "national", "png">>, 2, 3) = <<"national", "png">>
      BY LastSegment
    <3> QED
      BY <2>1, <2>3, <3>1
  <2>5. Router(path) = ShareCards(rest)
    <3>1. Router(path) = ShareCards(SubSeq(path, 2, 3))
      BY <2>2 DEF Router
    <3> QED
      BY <2>4, <3>1
  <2>6. rest # <<"home", "png">> /\ rest # <<"supreme-court", "png">> /\ rest[1] = "national"
    BY <2>3
  <2>7. ShareCards(rest) = NationalCard
    BY <2>3, <2>6 DEF ShareCards
  <2>8. NationalCard = Shows(GetPublishedSnapshot(SupremeCourt)) \/ NationalCard = Shows(None)
    BY <1>2 DEF NationalCard, OfSnapshot
  <2> QED
    BY <2>1, <2>5, <2>7, <2>8, OpensWhatIsShown
<1>7. \A path \in DefaultNav \ {<<"learn">>} : Opens(path)
  <2>1. ASSUME NEW head \in {"districts", "data", "methodology", "api"}
        PROVE  Router(<<head>>) = StatePages(DefaultState, <<head>>)
    <3>1. PICK rest : rest = <<head>>
      OBVIOUS
    <3>2. rest \in Seq(Segment) /\ rest # <<>> /\ rest[1] \in Heads
      BY <2>1, <3>1, PathsOfStates DEF Heads
    <3>3. Router(HtmlBase(DefaultState) \o rest) = StatePages(DefaultState, rest)
      BY <3>2, RoutesAssumption, StatePagesAreRouted
    <3>4. HtmlBase(DefaultState) \o rest = rest
      BY <3>2, ConcatEmptySeq DEF HtmlBase
    <3> QED
      BY <3>1, <3>3, <3>4
  <2>2. OfSnapshot(DefaultState, 503) = Shows(active)
    BY <1>1 DEF OfSnapshot
  <2>3. StatePages(DefaultState, <<"districts">>) = Shows(active)
    BY <2>2 DEF StatePages, DistrictPages
  <2>4. StatePages(DefaultState, <<"data">>) = Shows(active)
    BY <2>2 DEF StatePages, DataPage
  <2>5. StatePages(DefaultState, <<"methodology">>) = Shows(active)
    BY <1>1 DEF StatePages, ReferencePages
  <2>6. StatePages(DefaultState, <<"api">>) = Shows(None)
    BY DEF StatePages, ReferencePages
  <2>7. /\ Opens(<<"districts">>) /\ Opens(<<"data">>) /\ Opens(<<"methodology">>) /\ Opens(<<"api">>)
    BY <2>1, <2>3, <2>4, <2>5, <2>6, OpensWhatIsShown
  <2> QED
    BY <2>7 DEF DefaultNav
<1> QED
  BY <1>3, <1>4, <1>5, <1>6, <1>7 DEF FixedPaths

-----------------------------------------------------------------------------
(* The pages of the site, and where their links lead *)

\* Where a link may lead, and what a page is.
Fine(path) == Opens(path) \/ path \in LinksToNothingReleased
PageIsFine(page) == Opens(page.path) /\ \A link \in page.links : Fine(link)
\* What is released, and shows districts that there are.
Current ==
    /\ Snapshot(DefaultState) # None
    /\ \A s \in LowerScopes : Snapshot(s) # None => Shown(s) \in SUBSET District

LEMMA PagesAreFine ==
    ASSUME NEW path, NEW links, Opens(path), \A link \in links : Fine(link)
    PROVE  PageIsFine(Page(path, links))
BY DEF PageIsFine, Page

LEMMA ReleasedStates ==
    ASSUME NEW s
    PROVE  s \in ListAvailablePublicProfiles({}) <=> s \in LowerScopes /\ Snapshot(s) # None
BY DEF ListAvailablePublicProfiles, Snapshot

LEMMA ReleasedCourts ==
    ASSUME NEW c
    PROVE  c \in ListAvailableHighCourts({}) <=> c \in HighCourts /\ Snapshot(c) # None
BY DEF ListAvailableHighCourts, Snapshot

\* The addresses of a state, one by one.
LEMMA StateLinksOpen ==
    ASSUME Current, NEW s \in ListAvailablePublicProfiles({})
    PROVE  LET routes == BuildPublicStateRoutes(s)
           IN  /\ \A path \in RoutesIn(routes) : Opens(path)
               /\ Opens(routes.home) /\ Opens(routes.districts) /\ Opens(routes.movers) /\ Opens(routes.data)
               /\ Opens(routes.stateEvidencePack) /\ Opens(routes.districtsCsv) /\ Opens(routes.methodology)
               /\ Opens(routes.api) /\ Opens(routes.stats) /\ Opens(routes.districtsApi) /\ Opens(routes.trends)
               /\ Opens(StateHome(s)) /\ \A path \in StateNav(s) : Opens(path)
<1>1. PICK routes : routes = BuildPublicStateRoutes(s)
  OBVIOUS
<1>2. s \in LowerScopes /\ GetPublishedSnapshot(s) # None
  BY ReleasedStates DEF Snapshot
<1>3. \A path \in RoutesIn(routes) : Opens(path)
  BY <1>1, <1>2, StateRoutesOpen
<1>4. DOMAIN routes = {"home", "districts", "movers", "data", "stateEvidencePack", "districtsCsv", "methodology",
                       "api", "stats", "districtsApi", "trends"}
  BY <1>1 DEF BuildPublicStateRoutes
<1>5. \A name \in DOMAIN routes : Opens(routes[name])
  BY <1>3 DEF RoutesIn
<1>6. /\ Opens(routes.home) /\ Opens(routes.districts) /\ Opens(routes.movers) /\ Opens(routes.data)
      /\ Opens(routes.stateEvidencePack) /\ Opens(routes.districtsCsv) /\ Opens(routes.methodology)
      /\ Opens(routes.api) /\ Opens(routes.stats) /\ Opens(routes.districtsApi) /\ Opens(routes.trends)
  BY <1>4, <1>5
<1>7. routes.home = StateHome(s)
  BY <1>1 DEF BuildPublicStateRoutes
<1>8. \A path \in StateNav(s) : Opens(path)
  BY <1>1, <1>6 DEF StateNav
<1> QED
  BY <1>1, <1>3, <1>6, <1>7, <1>8

LEMMA ShellsOpen ==
    ASSUME Current, NEW s \in ListAvailablePublicProfiles({})
    PROVE  \A path \in StateShell(s) : Opens(path)
<1>1. ListAvailablePublicProfiles({s}) = ListAvailablePublicProfiles({})
  BY DEF ListAvailablePublicProfiles
<1>2. \A t \in ListAvailablePublicProfiles({s}) : Opens(StateHome(t))
  BY <1>1, StateLinksOpen
<1>3. Opens(Root) /\ Opens(<<"learn">>) /\ Opens(<<"press">>)
  BY FixedPathsOpen DEF Current, Snapshot, FixedPaths
<1> QED
  BY <1>2, <1>3, StateLinksOpen DEF StateShell, Shell

LEMMA DistrictLinksOpen ==
    ASSUME Current, NEW s \in ListAvailablePublicProfiles({})
    PROVE  /\ \A d \in Shown(s) : /\ \A path \in EvidenceOf(s, d) : Opens(path)
                                 /\ Opens(DistrictRoute(s, d)) /\ Opens(DistrictEvidenceRoute(s, d))
                                 /\ Opens(<<"states", SlugOf[s], "embed", "district", d>>)
           /\ \A path \in Comparisons(s) : Opens(path)
<1>1. PICK active : active = GetPublishedSnapshot(s)
  OBVIOUS
<1>2. s \in LowerScopes /\ active # None
  BY <1>1, ReleasedStates DEF Snapshot
<1>3. Shown(s) = DistrictsIn(active) /\ DistrictsIn(active) \in SUBSET District
  BY <1>1, <1>2 DEF Current, Shown, Snapshot
<1>4. \A d \in Shown(s) :
        /\ Opens(DistrictRoute(s, d)) /\ Opens(DistrictCsvRoute(s, d)) /\ Opens(DistrictEvidenceRoute(s, d))
        /\ Opens(<<"states", SlugOf[s], "embed", "district", d>>)
        /\ \A e \in Shown(s) : Opens(CompareRoute(s, d, e))
  BY <1>1, <1>2, <1>3, DistrictRoutesOpen
<1>5. \A d \in Shown(s) : \A path \in EvidenceOf(s, d) : Opens(path)
  BY <1>4 DEF EvidenceOf
<1>6. \A path \in Comparisons(s) : Opens(path)
  <2> SUFFICES ASSUME NEW path \in Comparisons(s) PROVE Opens(path)
    OBVIOUS
  <2>1. PICK pair \in Shown(s) \X Shown(s) : path = CompareRoute(s, pair[1], pair[2])
    BY DEF Comparisons
  <2>2. pair[1] \in Shown(s) /\ pair[2] \in Shown(s)
    OBVIOUS
  <2> QED
    BY <1>4, <2>1, <2>2
<1> QED
  BY <1>4, <1>5, <1>6

\* Every page of a state with a release is answered, and so is every address on it.
LEMMA StatePagesAreFine ==
    ASSUME Current, NEW s \in ListAvailablePublicProfiles({})
    PROVE  \A page \in PagesOfState(s) : PageIsFine(page)
<1>1. PICK routes : routes = BuildPublicStateRoutes(s)
  OBVIOUS
<1>2. /\ \A path \in RoutesIn(routes) : Opens(path)
      /\ Opens(routes.home) /\ Opens(routes.districts) /\ Opens(routes.movers) /\ Opens(routes.data)
      /\ Opens(routes.stateEvidencePack) /\ Opens(routes.districtsCsv) /\ Opens(routes.methodology)
      /\ Opens(routes.api) /\ Opens(routes.stats) /\ Opens(routes.districtsApi) /\ Opens(routes.trends)
      /\ Opens(StateHome(s))
  BY <1>1, StateLinksOpen
<1>3. \A path \in StateShell(s) : Opens(path)
  BY ShellsOpen
<1>4. /\ \A d \in Shown(s) : /\ \A path \in EvidenceOf(s, d) : Opens(path)
                             /\ Opens(DistrictRoute(s, d)) /\ Opens(DistrictEvidenceRoute(s, d))
                             /\ Opens(<<"states", SlugOf[s], "embed", "district", d>>)
      /\ \A path \in Comparisons(s) : Opens(path)
  BY DistrictLinksOpen
<1>5. /\ Opens(<<"states", SlugOf[s]>>) /\ Opens(<<"states", SlugOf[s], "feed.xml">>)
      /\ Opens(<<"embed", "state", SlugOf[s]>>) /\ Opens(<<"og", "state", SlugOf[s], "png">>)
  BY ReleasedStates, StateExtrasOpen DEF Snapshot
<1>6. PageIsFine(StateHomePage(s))
  <2>1. \A link \in StateShell(s) \cup {routes.movers, <<"og", "state", SlugOf[s], "png">>}
                    \cup {DistrictRoute(s, d) : d \in Shown(s)} : Fine(link)
    BY <1>2, <1>3, <1>4, <1>5 DEF Fine
  <2> QED
    BY <1>1, <1>2, <2>1, PagesAreFine DEF StateHomePage
<1>7. PageIsFine(DistrictsPage(s))
  <2>1. \A link \in StateShell(s) \cup {routes.movers, routes.districtsCsv} \cup Comparisons(s)
                    \cup {DistrictRoute(s, d) : d \in Shown(s)} : Fine(link)
    BY <1>2, <1>3, <1>4 DEF Fine
  <2> QED
    BY <1>1, <1>2, <2>1, PagesAreFine DEF DistrictsPage
<1>8. PageIsFine(MoversPage(s))
  <2>1. \A link \in StateShell(s) \cup Comparisons(s) \cup {routes.movers, routes.stateEvidencePack, routes.data}
                    \cup UNION {EvidenceOf(s, d) : d \in Shown(s)} : Fine(link)
    BY <1>2, <1>3, <1>4 DEF Fine
  <2> QED
    BY <1>1, <1>2, <2>1, PagesAreFine DEF MoversPage
<1>9. PageIsFine(StatePack(s))
  <2>1. \A link \in (RoutesIn(routes) \cup Comparisons(s)) \cup UNION {EvidenceOf(s, d) : d \in Shown(s)} : Fine(link)
    BY <1>2, <1>4 DEF Fine
  <2> QED
    BY <1>1, <1>2, <2>1, PagesAreFine DEF StatePack
<1>10. /\ PageIsFine(Page(routes.data, StateShell(s) \cup DataPageLinks(s)))
       /\ PageIsFine(Page(routes.api, StateShell(s) \cup ApiPageLinks(s)))
       /\ PageIsFine(Page(routes.methodology, StateShell(s)))
  <2>1. \A link \in StateShell(s) \cup DataPageLinks(s) : Fine(link)
    BY <1>1, <1>2, <1>3 DEF Fine, DataPageLinks
  <2>2. \A link \in StateShell(s) \cup ApiPageLinks(s) : Fine(link)
    BY <1>1, <1>2, <1>3 DEF Fine, ApiPageLinks
  <2>3. \A link \in StateShell(s) : Fine(link)
    BY <1>3 DEF Fine
  <2> QED
    BY <1>2, <2>1, <2>2, <2>3, PagesAreFine
<1>11. ASSUME NEW d \in Shown(s) PROVE PageIsFine(DistrictPage(s, d))
  <2>1. \A link \in StateShell(s) \cup EvidenceOf(s, d)
                    \cup {routes.movers, routes.stateEvidencePack, routes.districtsCsv} : Fine(link)
    BY <1>2, <1>3, <1>4, <1>11 DEF Fine
  <2> QED
    BY <1>1, <1>4, <1>11, <2>1, PagesAreFine DEF DistrictPage
<1>12. ASSUME NEW d \in Shown(s) PROVE PageIsFine(DistrictPack(s, d))
  <2>1. \A link \in EvidenceOf(s, d) \cup (RoutesIn(routes) \ {routes.home, routes.districts, routes.movers}) : Fine(link)
    BY <1>2, <1>4, <1>12 DEF Fine
  <2> QED
    BY <1>1, <1>4, <1>12, <2>1, PagesAreFine DEF DistrictPack
<1>13. PageIsFine(Feed(s)) /\ PageIsFine(StateEmbedLinks(s))
  <2>1. (\A link \in {<<"states", SlugOf[s]>>} : Fine(link)) /\ \A link \in {StateHome(s)} : Fine(link)
    BY <1>2, <1>5 DEF Fine
  <2> QED
    BY <1>5, <2>1, PagesAreFine DEF Feed, StateEmbedLinks
<1>14. ASSUME NEW d \in Shown(s) PROVE PageIsFine(DistrictEmbedLinks(s, d))
  <2>1. \A link \in {DistrictRoute(s, d)} : Fine(link)
    BY <1>4, <1>14 DEF Fine
  <2> QED
    BY <1>4, <1>14, <2>1, PagesAreFine DEF DistrictEmbedLinks
<1>15. ASSUME NEW page \in ComparePages(s) PROVE PageIsFine(page)
  <2>1. PICK path \in Comparisons(s) :
           page = Page(path, StateShell(s) \cup {path, routes.movers, routes.stateEvidencePack}
                               \cup UNION {EvidenceOf(s, d) : d \in Shown(s)})
    BY <1>1, <1>15 DEF ComparePages
  <2>2. \A link \in StateShell(s) \cup {path, routes.movers, routes.stateEvidencePack}
                    \cup UNION {EvidenceOf(s, d) : d \in Shown(s)} : Fine(link)
    BY <1>2, <1>3, <1>4 DEF Fine
  <2> QED
    BY <1>4, <2>1, <2>2, PagesAreFine
<1> QED
  BY <1>1, <1>6, <1>7, <1>8, <1>9, <1>10, <1>11, <1>12, <1>13, <1>14, <1>15 DEF PagesOfState, ForOtherSites

LEMMA HighCourtPagesAreFine ==
    ASSUME Current, NEW c \in ListAvailableHighCourts({})
    PROVE  /\ \A path \in HighCourtShell(c) : Opens(path)
           /\ Opens(BuildPublicHighCourtRoutes(c).home)
           /\ \A page \in PagesOfHighCourt(c) : PageIsFine(page)
<1>1. \A t \in ListAvailableHighCourts({}) :
        LET routes == BuildPublicHighCourtRoutes(t)
        IN  /\ Opens(routes.index) /\ Opens(routes.home) /\ Opens(routes.methodology) /\ Opens(routes.api)
            /\ Opens(routes.data) /\ Opens(routes.stats) /\ Opens(routes.trends)
  <2> SUFFICES ASSUME NEW t \in ListAvailableHighCourts({})
               PROVE  LET routes == BuildPublicHighCourtRoutes(t)
                      IN  /\ Opens(routes.index) /\ Opens(routes.home) /\ Opens(routes.methodology) /\ Opens(routes.api)
                          /\ Opens(routes.data) /\ Opens(routes.stats) /\ Opens(routes.trends)
    OBVIOUS
  <2>1. PICK routes : routes = BuildPublicHighCourtRoutes(t)
    OBVIOUS
  <2>2. \A path \in RoutesIn(routes) : Opens(path)
    BY <2>1, ReleasedCourts, HighCourtRoutesOpen DEF Snapshot
  <2>3. DOMAIN routes = {"index", "home", "methodology", "api", "data", "stats", "trends"}
    BY <2>1 DEF BuildPublicHighCourtRoutes
  <2> QED
    BY <2>1, <2>2, <2>3 DEF RoutesIn
<1>2. ListAvailableHighCourts({c}) = ListAvailableHighCourts({})
  BY DEF ListAvailableHighCourts
<1>3. Opens(Root) /\ Opens(<<"learn">>) /\ Opens(<<"press">>)
  BY FixedPathsOpen DEF Current, Snapshot, FixedPaths
<1>4. \A path \in HighCourtShell(c) : Opens(path)
  BY <1>1, <1>2, <1>3 DEF HighCourtShell, Shell
<1>5. PICK routes : routes = BuildPublicHighCourtRoutes(c)
  OBVIOUS
<1>6. /\ \A link \in HighCourtShell(c) \cup {routes.index} : Fine(link)
      /\ \A link \in HighCourtShell(c) : Fine(link)
      /\ \A link \in HighCourtShell(c) \cup {routes.stats, routes.trends} : Fine(link)
  BY <1>1, <1>4, <1>5 DEF Fine
<1>7. /\ PageIsFine(Page(routes.home, HighCourtShell(c) \cup {routes.index}))
      /\ PageIsFine(Page(routes.methodology, HighCourtShell(c)))
      /\ PageIsFine(Page(routes.data, HighCourtShell(c) \cup {routes.stats, routes.trends}))
      /\ PageIsFine(Page(routes.api, HighCourtShell(c) \cup {routes.stats, routes.trends}))
  BY <1>1, <1>5, <1>6, PagesAreFine
<1>8. \A page \in PagesOfHighCourt(c) : PageIsFine(page)
  BY <1>5, <1>7 DEF PagesOfHighCourt
<1> QED
  BY <1>1, <1>4, <1>8

\* A link to the Supreme Court or to the courts' index leads there, or to a tier without a release.
LEMMA TierLinksAreFine ==
    /\ \A path \in RoutesIn(BuildPublicSupremeCourtRoutes) : Fine(path)
    /\ Fine(<<"supreme-court">>) /\ Fine(<<"supreme-court", "api">>) /\ Fine(<<"high-courts">>)
    /\ LET routes == BuildPublicSupremeCourtRoutes
       IN  Fine(routes.home) /\ Fine(routes.methodology) /\ Fine(routes.data) /\ Fine(routes.api)
<1>1. \A path \in RoutesIn(BuildPublicSupremeCourtRoutes) : Fine(path)
  <2>1. CASE Snapshot(SupremeCourt) = None
    BY <2>1 DEF Fine, LinksToNothingReleased
  <2>2. CASE Snapshot(SupremeCourt) # None
    BY <2>2, SupremeCourtRoutesOpen DEF Fine, Snapshot
  <2> QED
    BY <2>1, <2>2
<1>2. Fine(<<"high-courts">>)
  <2>1. CASE ListAvailableHighCourts({}) = {}
    BY <2>1 DEF Fine, LinksToNothingReleased
  <2>2. CASE ListAvailableHighCourts({}) # {}
    <3>1. PICK c : c \in ListAvailableHighCourts({})
      BY <2>2
    <3>2. PICK routes : routes = BuildPublicHighCourtRoutes(c)
      OBVIOUS
    <3>3. \A path \in RoutesIn(routes) : Opens(path)
      BY <3>1, <3>2, ReleasedCourts, HighCourtRoutesOpen DEF Snapshot
    <3>4. routes.index = <<"high-courts">> /\ "index" \in DOMAIN routes
      BY <3>2 DEF BuildPublicHighCourtRoutes
    <3> QED
      BY <3>3, <3>4 DEF RoutesIn, Fine
  <2> QED
    BY <2>1, <2>2
<1>3. PICK routes : routes = BuildPublicSupremeCourtRoutes
  OBVIOUS
<1>4. /\ DOMAIN routes = {"home", "methodology", "api", "data", "stats", "trends"}
      /\ routes.home = <<"supreme-court">> /\ routes.api = <<"supreme-court">> \o <<"api">>
  BY <1>3 DEF BuildPublicSupremeCourtRoutes
<1>5. <<"supreme-court">> \o <<"api">> = <<"supreme-court", "api">>
  BY Joined
<1>6. Fine(routes.home) /\ Fine(routes.methodology) /\ Fine(routes.data) /\ Fine(routes.api)
  BY <1>1, <1>3, <1>4 DEF RoutesIn
<1> QED
  BY <1>1, <1>2, <1>3, <1>4, <1>5, <1>6

LEMMA SupremeCourtPagesAreFine ==
    ASSUME Current, Snapshot(SupremeCourt) # None
    PROVE  \A page \in PagesOfSupremeCourt : PageIsFine(page)
<1>1. PICK routes : routes = BuildPublicSupremeCourtRoutes
  OBVIOUS
<1>2. DOMAIN routes = {"home", "methodology", "api", "data", "stats", "trends"}
  BY <1>1 DEF BuildPublicSupremeCourtRoutes
<1>3. \A path \in RoutesIn(routes) : Opens(path)
  BY <1>1, SupremeCourtRoutesOpen DEF Snapshot
<1>4. /\ Opens(routes.home) /\ Opens(routes.methodology) /\ Opens(routes.data) /\ Opens(routes.api)
      /\ Opens(routes.stats) /\ Opens(routes.trends)
  BY <1>2, <1>3 DEF RoutesIn
<1>5. Opens(Root) /\ Opens(<<"learn">>) /\ Opens(<<"press">>)
  BY FixedPathsOpen DEF Current, Snapshot, FixedPaths
<1>6. \A path \in SupremeCourtShell : Opens(path)
  BY <1>1, <1>4, <1>5 DEF SupremeCourtShell, Shell
<1>7. /\ \A link \in SupremeCourtShell \cup {<<"high-courts">>} : Fine(link)
      /\ \A link \in SupremeCourtShell : Fine(link)
      /\ \A link \in SupremeCourtShell \cup {routes.stats, routes.trends} : Fine(link)
  BY <1>4, <1>6, TierLinksAreFine DEF Fine
<1>8. /\ PageIsFine(Page(routes.home, SupremeCourtShell \cup {<<"high-courts">>}))
      /\ PageIsFine(Page(routes.methodology, SupremeCourtShell))
      /\ PageIsFine(Page(routes.data, SupremeCourtShell \cup {routes.stats, routes.trends}))
      /\ PageIsFine(Page(routes.api, SupremeCourtShell \cup {routes.stats, routes.trends}))
  BY <1>4, <1>7, PagesAreFine
<1> QED
  BY <1>1, <1>8 DEF PagesOfSupremeCourt

\* The pages of the whole country that are served.
LEMMA NationalPagesAreFine ==
    ASSUME Current
    PROVE  \A page \in NationalPages : PageIsFine(page)
<1>1. \A path \in FixedPaths : Opens(path) /\ Fine(path)
  BY FixedPathsOpen DEF Current, Snapshot, Fine
<1>2. /\ {Root, <<"learn">>, <<"press">>, <<"watch">>, <<"og", "national", "png">>} \subseteq FixedPaths
      /\ {<<"districts">>, <<"data">>, <<"methodology">>, <<"api">>} \subseteq FixedPaths
      /\ Watchrooms \subseteq FixedPaths /\ Root = <<>>
  BY DEF FixedPaths, DefaultNav, Root
<1>3. \A nav : (\A link \in nav : Fine(link)) => \A link \in Shell(nav) : Fine(link)
  BY <1>1, <1>2 DEF Shell
<1>4. \A s \in ListAvailablePublicProfiles({}) :
        /\ Fine(StateHome(s)) /\ Fine(BuildPublicStateRoutes(s).home) /\ Fine(BuildPublicStateRoutes(s).stateEvidencePack)
        /\ Fine(<<"states", SlugOf[s]>>)
        /\ \A d \in Shown(s) : Fine(DistrictRoute(s, d)) /\ Fine(DistrictEvidenceRoute(s, d))
  <2> SUFFICES ASSUME NEW s \in ListAvailablePublicProfiles({})
               PROVE  /\ Fine(StateHome(s)) /\ Fine(BuildPublicStateRoutes(s).home)
                      /\ Fine(BuildPublicStateRoutes(s).stateEvidencePack)
                      /\ Fine(<<"states", SlugOf[s]>>)
                      /\ \A d \in Shown(s) : Fine(DistrictRoute(s, d)) /\ Fine(DistrictEvidenceRoute(s, d))
    OBVIOUS
  <2>1. /\ Opens(StateHome(s)) /\ Opens(BuildPublicStateRoutes(s).home)
        /\ Opens(BuildPublicStateRoutes(s).stateEvidencePack)
    BY StateLinksOpen
  <2>2. \A d \in Shown(s) : Opens(DistrictRoute(s, d)) /\ Opens(DistrictEvidenceRoute(s, d))
    BY DistrictLinksOpen
  <2>3. Opens(<<"states", SlugOf[s]>>)
    <3>1. s \in LowerScopes /\ GetPublishedSnapshot(s) # None
      BY ReleasedStates DEF Snapshot
    <3> QED
      BY <3>1, StateExtrasOpen
  <2> QED
    BY <2>1, <2>2, <2>3 DEF Fine
<1>5. \A c \in ListAvailableHighCourts({}) :
        Fine(BuildPublicHighCourtRoutes(c).home) /\ \A link \in HighCourtShell(c) : Fine(link)
  BY HighCourtPagesAreFine DEF Fine
<1>6. PageIsFine(NationalApi)
  <2>1. \A link \in {<<"supreme-court">>, <<"high-courts">>, <<"api">>, <<"supreme-court", "api">>} : Fine(link)
    BY <1>1, <1>2, TierLinksAreFine
  <2>2. \A link \in Shell({<<"supreme-court">>, <<"high-courts">>, <<"api">>, <<"supreme-court", "api">>}) : Fine(link)
    BY <1>3, <2>1
  <2> QED
    BY <1>1, <1>2, <2>2, PagesAreFine DEF NationalApi
<1>7. PageIsFine(LearnPage)
  <2>1. \A link \in {<<"supreme-court">>, <<"high-courts">>, <<"districts">>} : Fine(link)
    BY <1>1, <1>2, TierLinksAreFine
  <2>2. \A link \in Shell({<<"supreme-court">>, <<"high-courts">>, <<"districts">>}) : Fine(link)
    BY <1>3, <2>1
  <2> QED
    BY <1>1, <1>2, <2>2, PagesAreFine DEF LearnPage
<1>8. PageIsFine(PressPage)
  <2>1. \A link \in {<<"high-courts">>, <<"api">>} : Fine(link)
    BY <1>1, <1>2, TierLinksAreFine
  <2>2. \A link \in Shell({<<"high-courts">>, <<"api">>}) : Fine(link)
    BY <1>3, <2>1
  <2> QED
    BY <1>1, <1>2, <2>2, PagesAreFine DEF PressPage
<1>9. PageIsFine(NationalHome)
  <2>1. \A link \in {<<"supreme-court">>, <<"high-courts">>} : Fine(link)
    BY TierLinksAreFine
  <2>2. \A link \in Shell({<<"supreme-court">>, <<"high-courts">>}) : Fine(link)
    BY <1>3, <2>1
  <2>3. PICK supreme : supreme = BuildPublicSupremeCourtRoutes
    OBVIOUS
  <2>4. \A link \in {supreme.home, supreme.methodology, supreme.data, supreme.api} : Fine(link)
    BY <2>3, TierLinksAreFine
  <2>5. \A link \in MapLinks : Fine(link)
    BY <1>4 DEF MapLinks
  <2>6. \A link \in {<<"watch">>, <<"api">>, <<"og", "national", "png">>} : Fine(link)
    BY <1>1, <1>2
  <2>7. \A link \in Shell({<<"supreme-court">>, <<"high-courts">>}) \cup MapLinks
                    \cup {StateHome(s) : s \in ListAvailablePublicProfiles({})}
                    \cup {BuildPublicHighCourtRoutes(c).home : c \in ListAvailableHighCourts({})}
                    \cup {supreme.home, supreme.methodology, supreme.data, supreme.api}
                    \cup {<<"watch">>, <<"api">>, <<"og", "national", "png">>} : Fine(link)
    BY <1>4, <1>5, <2>2, <2>4, <2>5, <2>6
  <2> QED
    BY <1>1, <1>2, <2>3, <2>7, PagesAreFine DEF NationalHome
<1>10. ASSUME ListAvailableHighCourts({}) # {} PROVE PageIsFine(HighCourtsIndexPage)
  <2>1. Opens(<<"high-courts">>)
    <3>1. PICK c : c \in ListAvailableHighCourts({})
      BY <1>10
    <3>2. PICK routes : routes = BuildPublicHighCourtRoutes(c)
      OBVIOUS
    <3>3. \A path \in RoutesIn(routes) : Opens(path)
      BY <3>1, <3>2, ReleasedCourts, HighCourtRoutesOpen DEF Snapshot
    <3>4. routes.index = <<"high-courts">> /\ "index" \in DOMAIN routes
      BY <3>2 DEF BuildPublicHighCourtRoutes
    <3> QED
      BY <3>3, <3>4 DEF RoutesIn
  <2>2. \A link \in Shell({}) : Fine(link)
    BY <1>3
  <2>3. \A link \in Shell({}) \cup UNION {HighCourtShell(c) : c \in ListAvailableHighCourts({})} : Fine(link)
    BY <1>5, <2>2
  <2> QED
    BY <2>1, <2>3, PagesAreFine DEF HighCourtsIndexPage
<1>11. \A link \in WatchNav \cup Watchrooms : Fine(link)
  <2>1. \A link \in DefaultNav \cup {<<"watch">>} : Fine(link)
    BY <1>1, <1>2 DEF DefaultNav
  <2> QED
    BY <1>1, <1>2, <1>3, <2>1 DEF WatchNav
<1>12. PageIsFine(WatchIndexPage)
  BY <1>1, <1>2, <1>11, PagesAreFine DEF WatchIndexPage
<1>13. ASSUME NEW room \in Watchrooms PROVE PageIsFine(WatchroomPage(room))
  <2>1. PICK released : released = ListAvailablePublicProfiles({})
    OBVIOUS
  <2>2. \A link \in {BuildPublicStateRoutes(s).home : s \in released} \cup {BuildPublicStateRoutes(s).stateEvidencePack : s \in released} :
          Fine(link)
    BY <1>4, <2>1
  <2>3. ASSUME NEW s \in released,
               NEW link \in {DistrictRoute(s, d) : d \in Shown(s)} \cup {DistrictEvidenceRoute(s, d) : d \in Shown(s)}
        PROVE  Fine(link)
    BY <1>4, <2>1, <2>3
  <2>4. \A link \in WatchNav \cup Watchrooms
             \cup {BuildPublicStateRoutes(s).home : s \in released} \cup {BuildPublicStateRoutes(s).stateEvidencePack : s \in released}
             \cup UNION {{DistrictRoute(s, d) : d \in Shown(s)} \cup {DistrictEvidenceRoute(s, d) : d \in Shown(s)} : s \in released} :
          Fine(link)
    BY <1>11, <2>2, <2>3
  <2>5. Opens(room)
    BY <1>1, <1>2, <1>13
  <2> QED
    BY <2>1, <2>4, <2>5, PagesAreFine DEF WatchroomPage
<1> QED
  BY <1>6, <1>7, <1>8, <1>9, <1>10, <1>12, <1>13 DEF NationalPages

\* The parts of the sitemap that depend on what is released.
LEMMA SitemapLists ==
    /\ \A s \in LowerScopes : StateHome(s) \in Sitemap /\ \A path \in StateNav(s) : path \in Sitemap
    /\ \A s \in ListAvailablePublicProfiles({}) : \A d \in Shown(s) : DistrictRoute(s, d) \in Sitemap
    /\ \A c \in HighCourts : BuildPublicHighCourtRoutes(c).home \in Sitemap
<1> DEFINE ofStates == UNION {StateNav(s) \cup {StateHome(s)} : s \in LowerScopes}
           ofDistricts == UNION {{DistrictRoute(s, d) : d \in Shown(s)} : s \in ListAvailablePublicProfiles({})}
           ofCourts == {BuildPublicHighCourtRoutes(c).home : c \in HighCourts}
<1>4. \E fixed : Sitemap = fixed \cup Watchrooms \cup ofStates \cup ofDistricts \cup ofCourts
  BY Zenon DEF Sitemap
<1>5. \A s \in LowerScopes : StateHome(s) \in ofStates /\ \A path \in StateNav(s) : path \in ofStates
  OBVIOUS
<1>6. \A s \in ListAvailablePublicProfiles({}) : \A d \in Shown(s) : DistrictRoute(s, d) \in ofDistricts
  OBVIOUS
<1>7. \A c \in HighCourts : BuildPublicHighCourtRoutes(c).home \in ofCourts
  OBVIOUS
<1> HIDE DEF ofStates, ofDistricts, ofCourts
<1> QED
  BY <1>4, <1>5, <1>6, <1>7

\* A reader gets from the front page or the map of the site to all of a state's pages.
LEMMA StatePagesAreLinked ==
    ASSUME NEW s \in ListAvailablePublicProfiles({}), NEW page \in PagesOfState(s) \ ForOtherSites(s)
    PROVE  page.path \in Sitemap \/ \E p \in PagesOfState(s) : page.path \in p.links
<1>1. PICK routes : routes = BuildPublicStateRoutes(s)
  OBVIOUS
<1>2. PICK links : links = UNION {p.links : p \in PagesOfState(s)}
  OBVIOUS
<1>3. s \in LowerScopes
  BY ReleasedStates
<1>4. \A path, list : Page(path, list).path = path /\ Page(path, list).links = list
  BY DEF Page
<1>5. /\ \A path \in StateNav(s) \cup {StateHome(s)} : path \in Sitemap
      /\ \A d \in Shown(s) : DistrictRoute(s, d) \in Sitemap
  BY <1>3, SitemapLists
<1>6. /\ routes.home = StateHome(s) /\ routes.districts \in StateNav(s) /\ routes.data \in StateNav(s)
      /\ routes.methodology \in StateNav(s) /\ routes.api \in StateNav(s)
  BY <1>1 DEF StateNav, BuildPublicStateRoutes
<1>7. MoversPage(s) \in PagesOfState(s) /\ DistrictsPage(s) \in PagesOfState(s)
  BY DEF PagesOfState
<1>8. routes.movers \in links /\ routes.stateEvidencePack \in links /\ Comparisons(s) \subseteq links
  <2>1. routes.movers \in MoversPage(s).links /\ routes.stateEvidencePack \in MoversPage(s).links
        /\ Comparisons(s) \subseteq MoversPage(s).links
    BY <1>1, <1>4 DEF MoversPage
  <2> QED
    BY <1>2, <1>7, <2>1
<1>9. \A d \in Shown(s) : DistrictEvidenceRoute(s, d) \in links
  <2> SUFFICES ASSUME NEW d \in Shown(s) PROVE DistrictEvidenceRoute(s, d) \in links
    OBVIOUS
  <2>1. DistrictPage(s, d) \in PagesOfState(s)
    BY DEF PagesOfState
  <2>2. DistrictEvidenceRoute(s, d) \in EvidenceOf(s, d)
    BY DEF EvidenceOf
  <2>3. EvidenceOf(s, d) \subseteq DistrictPage(s, d).links
    BY <1>4 DEF DistrictPage
  <2> QED
    BY <1>2, <2>1, <2>2, <2>3
<1>10. \/ page \in {StateHomePage(s), DistrictsPage(s), MoversPage(s), StatePack(s)}
       \/ \E list : page \in {Page(routes.data, list), Page(routes.api, list), Page(routes.methodology, list)}
       \/ \E d \in Shown(s) : page \in {DistrictPage(s, d), DistrictPack(s, d)}
       \/ page \in ComparePages(s)
  BY <1>1 DEF PagesOfState
<1>11. ASSUME page \in {StateHomePage(s), DistrictsPage(s), MoversPage(s), StatePack(s)} PROVE page.path \in links \cup Sitemap
  <2>1. page.path \in {routes.home, routes.districts, routes.movers, routes.stateEvidencePack}
    BY <1>1, <1>4, <1>11 DEF StateHomePage, DistrictsPage, MoversPage, StatePack
  <2> QED
    BY <1>5, <1>6, <1>8, <2>1
<1>12. ASSUME \E list : page \in {Page(routes.data, list), Page(routes.api, list), Page(routes.methodology, list)} PROVE page.path \in links \cup Sitemap
  <2>1. page.path \in {routes.data, routes.api, routes.methodology}
    BY <1>4, <1>12
  <2> QED
    BY <1>5, <1>6, <2>1
<1>13. ASSUME \E d \in Shown(s) : page \in {DistrictPage(s, d), DistrictPack(s, d)} PROVE page.path \in links \cup Sitemap
  <2>1. PICK d \in Shown(s) : page \in {DistrictPage(s, d), DistrictPack(s, d)}
    BY <1>13
  <2>2. page.path \in {DistrictRoute(s, d), DistrictEvidenceRoute(s, d)}
    BY <1>4, <2>1 DEF DistrictPage, DistrictPack
  <2> QED
    BY <1>5, <1>9, <2>1, <2>2
<1>14. ASSUME page \in ComparePages(s) PROVE page.path \in links \cup Sitemap
  <2>1. PICK path \in Comparisons(s) : \E list : page = Page(path, list)
    BY <1>14 DEF ComparePages
  <2> QED
    BY <1>4, <1>8, <2>1
<1>15. page.path \in links \cup Sitemap
  BY <1>10, <1>11, <1>12, <1>13, <1>14
<1> QED
  BY <1>2, <1>15

LEMMA SiteIsFine == Current => SiteHolds
<1> SUFFICES ASSUME Current PROVE SiteHolds
  OBVIOUS
<1>1. PICK pages : pages = SitePages
  OBVIOUS
<1>2. PICK links : links = UNION {page.links : page \in pages}
  OBVIOUS
<1>3. PICK entries : entries = NationalHome.links \cup (IF <<"high-courts">> \in LinksToNothingReleased THEN {} ELSE HighCourtsIndexPage.links)
  OBVIOUS
<1>4. PICK released : released = ListAvailablePublicProfiles({})
  OBVIOUS
<1>5. PICK homes : homes = {StateHome(s) : s \in released} \cup {BuildPublicHighCourtRoutes(c).home : c \in ListAvailableHighCourts({})}
  OBVIOUS
<1>6. PICK own : own = UNION {PagesOfState(s) \ ForOtherSites(s) : s \in released}
  OBVIOUS
<1>7. \A page \in pages : PageIsFine(page)
  <2> SUFFICES ASSUME NEW page \in pages PROVE PageIsFine(page)
    OBVIOUS
  <2>1. CASE page \in NationalPages
    BY <2>1, NationalPagesAreFine
  <2>2. CASE \E s \in ListAvailablePublicProfiles({}) : page \in PagesOfState(s)
    BY <2>2, StatePagesAreFine
  <2>3. CASE \E c \in ListAvailableHighCourts({}) : page \in PagesOfHighCourt(c)
    BY <2>3, HighCourtPagesAreFine
  <2>4. CASE Snapshot(SupremeCourt) # None /\ page \in PagesOfSupremeCourt
    BY <2>4, SupremeCourtPagesAreFine
  <2> QED
    <3>1. page \in SitePages
      BY <1>1
    <3> DEFINE ofStates == UNION {PagesOfState(s) : s \in ListAvailablePublicProfiles({})}
               ofCourts == UNION {PagesOfHighCourt(c) : c \in ListAvailableHighCourts({})}
    <3>2. /\ page \in ofStates => \E s \in ListAvailablePublicProfiles({}) : page \in PagesOfState(s)
          /\ page \in ofCourts => \E c \in ListAvailableHighCourts({}) : page \in PagesOfHighCourt(c)
      OBVIOUS
    <3>3. SitePages = NationalPages \cup ofStates \cup ofCourts
                        \cup IF Snapshot(SupremeCourt) = None THEN {} ELSE PagesOfSupremeCourt
      BY Zenon DEF SitePages
    <3> HIDE DEF ofStates, ofCourts
    <3>4. page \in NationalPages \/ page \in ofStates \/ page \in ofCourts
          \/ (Snapshot(SupremeCourt) # None /\ page \in PagesOfSupremeCourt)
      BY <3>1, <3>3
    <3> QED
      BY <2>1, <2>2, <2>3, <2>4, <3>2, <3>4
<1>8. \A page \in pages : Router(page.path).status = 200
  BY <1>7 DEF PageIsFine, Opens
<1>9. \A link \in links \ LinksToNothingReleased : Router(link).status = 200
  BY <1>2, <1>7 DEF PageIsFine, Fine, Opens
<1>10. homes \subseteq entries \cap Sitemap
  <2>1. homes \subseteq NationalHome.links
    BY <1>4, <1>5 DEF NationalHome, Page
  <2>2. homes \subseteq Sitemap
    <3>1. \A s \in released : StateHome(s) \in Sitemap
      BY <1>4, ReleasedStates, SitemapLists
    <3>2. \A c \in ListAvailableHighCourts({}) : BuildPublicHighCourtRoutes(c).home \in Sitemap
      BY ReleasedCourts, SitemapLists
    <3> QED
      BY <1>5, <3>1, <3>2
  <2> QED
    BY <1>3, <2>1, <2>2
<1>11. {page.path : page \in own} \subseteq links \cup Sitemap
  <2> SUFFICES ASSUME NEW page \in own PROVE page.path \in links \cup Sitemap
    OBVIOUS
  <2>1. PICK s \in released : page \in PagesOfState(s) \ ForOtherSites(s)
    BY <1>6
  <2>2. page.path \in Sitemap \/ \E p \in PagesOfState(s) : page.path \in p.links
    BY <1>4, <2>1, StatePagesAreLinked
  <2>3. PagesOfState(s) \subseteq pages
    <3>1. PICK ofStates : ofStates = UNION {PagesOfState(t) : t \in ListAvailablePublicProfiles({})}
      OBVIOUS
    <3>2. \E others, last : SitePages = NationalPages \cup ofStates \cup others \cup last
      BY <3>1, Zenon DEF SitePages
    <3>3. PagesOfState(s) \subseteq ofStates
      BY <1>4, <2>1, <3>1
    <3> QED
      BY <1>1, <3>2, <3>3
  <2> QED
    BY <1>2, <2>2, <2>3
<1> QED
  BY <1>1, <1>2, <1>3, <1>4, <1>5, <1>6, <1>8, <1>9, <1>10, <1>11 DEF SiteHolds

-----------------------------------------------------------------------------
(* What the scripts are given *)

LEMMA StatisticsAreRouted ==
    ASSUME NEW scope \in LowerScopes
    PROVE  Router(BuildPublicStateRoutes(scope).stats) = OfSnapshot(scope, 404)
<1>1. BuildPublicStateRoutes(scope).stats = ApiBase(scope, "stats")
  BY DEF BuildPublicStateRoutes
<1> QED
  BY <1>1, DataIsRouted

\* A check as a row: what it was answered is a function, whatever its values.
CheckRow(Given) ==
    [kind : {"verify", "postpublish"}, scope : CheckedScopes, target : Nat, since : Nat, seen : Given,
     retried : BOOLEAN, verdict : {"open", "passed", "failed"}]

\* The snapshot is the one released, or of a later release of the state.
GivenBy(snapshot, check) ==
    \/ snapshot = publications[check.target].snapshot
    \/ \E later \in DOMAIN publications :
         later > check.since /\ publications[later].scope = check.scope /\ publications[later].snapshot = snapshot

\* The publication was the state's last when the script began.
OfActive(check) ==
    /\ check.scope \in LowerScopes
    /\ check.target \in DOMAIN publications /\ publications[check.target].scope = check.scope
    /\ \A p \in DOMAIN publications :
         p <= check.since /\ publications[p].scope = check.scope => p <= check.target

CheckOk(check) ==
    /\ DOMAIN check.seen = DOMAIN TargetPaths(check.scope)
    /\ check.since \in Nat /\ check.since <= Len(publications)
    /\ check.verdict = "passed" =>
         \A name \in DOMAIN check.seen \ {"data"} : check.seen[name] = check.seen["stats"]
    /\ check.kind = "postpublish" =>
         /\ OfActive(check)
         /\ check.seen["stats"] # Unread => GivenBy(check.seen["stats"], check)

EvidenceOk(e) ==
    /\ e.check \in DOMAIN checks
    /\ checks[e.check].verdict # "open" /\ checks[e.check].kind = "postpublish"
    /\ e.publication = checks[e.check].target
    /\ e.snapshot = checks[e.check].seen["stats"] /\ e.snapshot # Unread

Uncopied ==
    \A scope \in LowerScopes : \A copy \in edge \cup leaving \cup fill : copy.path # BuildPublicStateRoutes(scope).stats
ScriptInv ==
    /\ Uncopied
    /\ \E Given : checks \in Seq(CheckRow(Given))
    /\ \A c \in DOMAIN checks : CheckOk(checks[c])
    /\ \A e \in evidence : EvidenceOk(e)

LEMMA NamesOfTarget ==
    ASSUME NEW scope
    PROVE  /\ DOMAIN TargetPaths(scope) \subseteq {"stats", "districts", "trends", "data", "csv"}
           /\ "stats" \in DOMAIN TargetPaths(scope)
           /\ scope \in LowerScopes => TargetPaths(scope)["stats"] = BuildPublicStateRoutes(scope).stats
BY TiersAssumption DEF TargetPaths

\* The tables only grow, whatever is done.
LEMMA PublicationsAreKept ==
    ASSUME IInv, CopyInv, [Next]_vars
    PROVE  /\ DOMAIN publications \subseteq DOMAIN publications'
           /\ \A p \in DOMAIN publications : publications'[p] = publications[p]
           /\ \A p \in DOMAIN publications' \ DOMAIN publications : p > Len(publications)
<1>1. publications \in Seq(PublicationRow) /\ DOMAIN publications = 1..Len(publications) /\ Len(publications) \in Nat
  BY DEF IInv, TypeInv
<1>2. \/ UNCHANGED publications
      \/ \E row : publications' = Append(publications, row)
  <2>1. CASE Operator
    BY <2>1 DEF Operator, Send, UnchangedButRequests, serviceVars
  <2>2. CASE Handler
    <3>1. PICK r \in DOMAIN requests :
             \/ LowerDispatch(r) \/ HighCourtDispatch(r) \/ SupremeCourtDispatch(r) \/ CliDispatch(r)
             \/ Capture(r) \/ CopyRawCapture(r) \/ BuildCandidate(r) \/ Validate(r) \/ Commit(r) \/ Restore(r)
             \/ StepFails(r) \/ PurgeBatch(r) \/ StartDigest(r)
      BY <2>2 DEF Handler
    <3>2. CASE LowerDispatch(r) \/ HighCourtDispatch(r) \/ SupremeCourtDispatch(r) \/ CliDispatch(r)
      BY <3>2 DEF LowerDispatch, HighCourtDispatch, SupremeCourtDispatch, CliDispatch, UnchangedButRequests, serviceVars
    <3>3. CASE Capture(r) \/ CopyRawCapture(r)
      BY <3>3 DEF Capture, CopyRawCapture, InsertRun, serviceVars
    <3>4. CASE BuildCandidate(r) \/ Validate(r) \/ StepFails(r)
      BY <3>4 DEF BuildCandidate, CompleteRun, Validate, StepFails, FailRun, serviceVars
    <3>5. CASE Commit(r) \/ Restore(r)
      BY <3>5 DEF Commit, PublishTransaction, Restore, InsertRollback
    <3>6. CASE PurgeBatch(r) \/ StartDigest(r)
      BY <3>6 DEF PurgeBatch, FailRun, StartDigest, serviceVars
    <3> QED
      BY <3>1, <3>2, <3>3, <3>4, <3>5, <3>6
  <2>3. CASE Surroundings
    BY <2>3 DEF Surroundings, Restart, FillArrives, FillRead, PurgeSpreads, serviceVars
  <2>4. CASE Script
    BY <2>4 DEF Script, Verify, Prepublish, Postpublish, StartCheck, Assess, Fetch, serviceVars
  <2>5. CASE UNCHANGED vars
    BY <2>5 DEF vars
  <2> QED
    BY <2>1, <2>2, <2>3, <2>4, <2>5 DEF Next
<1>3. CASE UNCHANGED publications
  BY <1>3
<1>4. CASE \E row : publications' = Append(publications, row)
  <2>1. PICK row : publications' = Append(publications, row)
    BY <1>4
  <2>2. PICK n \in Nat : n = Len(publications)
    BY <1>1
  <2>3. /\ DOMAIN publications' = 1..(n + 1)
        /\ \A p \in 1..n : publications'[p] = publications[p]
    BY <1>1, <2>1, <2>2
  <2> QED
    BY <1>1, <2>2, <2>3
<1> QED
  BY <1>2, <1>3, <1>4

\* Checks that no script moves stay as true as they were.
LEMMA CheckStays ==
    ASSUME IInv, CopyInv, [Next]_vars, NEW check, CheckOk(check)
    PROVE  CheckOk(check)'
<1>1. /\ DOMAIN publications \subseteq DOMAIN publications'
      /\ \A p \in DOMAIN publications : publications'[p] = publications[p]
      /\ \A p \in DOMAIN publications' \ DOMAIN publications : p > Len(publications)
  BY PublicationsAreKept
<1>2. ASSUME OfActive(check) PROVE OfActive(check)'
  <2> SUFFICES ASSUME NEW p \in DOMAIN publications', p <= check.since, publications'[p].scope = check.scope
               PROVE  p <= check.target
    BY <1>1, <1>2 DEF OfActive
  <2>1. p \in Nat /\ Len(publications) \in Nat
    BY NextIInv DEF IInv, TypeInv
  <2>2. p \in DOMAIN publications
    BY <1>1, <2>1 DEF CheckOk
  <2> QED
    BY <1>1, <1>2, <2>2 DEF OfActive
<1>3. ASSUME OfActive(check), NEW snapshot, GivenBy(snapshot, check) PROVE GivenBy(snapshot, check)'
  BY <1>1, <1>3 DEF GivenBy, OfActive
<1>4. Len(publications) <= Len(publications')
  <2>1. /\ Len(publications) \in Nat /\ DOMAIN publications = 1..Len(publications)
        /\ Len(publications') \in Nat /\ DOMAIN publications' = 1..Len(publications')
    BY NextIInv DEF IInv, TypeInv
  <2> QED
    BY <1>1, <2>1
<1>5. check.since <= Len(publications')
  <2>1. Len(publications) \in Nat /\ Len(publications') \in Nat
    BY NextIInv DEF IInv, TypeInv
  <2> QED
    BY <1>4, <2>1 DEF CheckOk
<1> QED
  BY <1>2, <1>3, <1>5 DEF CheckOk

\* Only what FillPaths names is ever copied to Cloudflare.
LEMMA StillUncopied ==
    ASSUME CopyInv, Uncopied, [Next]_vars
    PROVE  Uncopied'
<1>1. \A copy \in edge' \cup leaving' \cup fill' :
         copy.path \in FillPaths \/ \E old \in edge \cup leaving \cup fill : copy.path = old.path
  <2>1. CASE UNCHANGED <<edge, leaving, fill>>
    BY <2>1
  <2>2. CASE Operator
    BY <2>1, <2>2 DEF Operator, Send, UnchangedButRequests
  <2>3. CASE Handler
    <3>1. PICK r \in DOMAIN requests :
             \/ LowerDispatch(r) \/ HighCourtDispatch(r) \/ SupremeCourtDispatch(r) \/ CliDispatch(r)
             \/ Capture(r) \/ CopyRawCapture(r) \/ BuildCandidate(r) \/ Validate(r) \/ Commit(r) \/ Restore(r)
             \/ StepFails(r) \/ PurgeBatch(r) \/ StartDigest(r)
      BY <2>3 DEF Handler
    <3>2. UNCHANGED <<edge, leaving, fill>> \/ PurgeBatch(r)
      BY <3>1 DEF LowerDispatch, HighCourtDispatch, SupremeCourtDispatch, CliDispatch, UnchangedButRequests, Capture,
         CopyRawCapture, BuildCandidate, Validate, StepFails, Commit, Restore, UnchangedByServices, StartDigest
    <3>3. CASE PurgeBatch(r)
      <4>1. PICK batch : \/ UNCHANGED <<edge, leaving, fill>>
                         \/ /\ edge' \subseteq edge /\ leaving' \subseteq leaving \cup edge
                            /\ fill' = {[copy EXCEPT !.overtaken = @ \/ copy.path \in batch] : copy \in fill}
        BY <3>3 DEF PurgeBatch
      <4>2. ASSUME NEW copy \in fill PROVE [copy EXCEPT !.overtaken = @ \/ copy.path \in batch].path = copy.path
        BY DEF CopyInv, FillOk
      <4>3. CASE ~(UNCHANGED <<edge, leaving, fill>>)
        <5>1. /\ edge' \subseteq edge /\ leaving' \subseteq leaving \cup edge
              /\ \A copy \in fill' : \E old \in fill : copy.path = old.path
          BY <4>1, <4>2, <4>3
        <5> QED
          BY <5>1
      <4> QED
        BY <2>1, <4>3
    <3> QED
      BY <2>1, <3>2, <3>3
  <2>4. CASE Surroundings
    <3>1. CASE \E path \in FillPaths : FillRead(path)
      <4>1. PICK path \in FillPaths : FillRead(path)
        BY <3>1
      <4>2. edge' = edge /\ leaving' = leaving /\ fill' = {Answer(path)}
        BY <4>1 DEF FillRead
      <4>3. Answer(path).path = path
        BY DEF Answer
      <4> QED
        BY <4>2, <4>3
    <3>2. CASE Restart \/ FillArrives \/ PurgeSpreads
      BY <3>2 DEF Restart, FillArrives, PurgeSpreads
    <3> QED
      BY <2>4, <3>1, <3>2 DEF Surroundings
  <2>5. CASE Script
    BY <2>1, <2>5 DEF Script, Verify, Prepublish, Postpublish, StartCheck, Assess, Fetch, apiVars
  <2>6. CASE UNCHANGED vars
    BY <2>1, <2>6 DEF vars
  <2> QED
    BY <2>2, <2>3, <2>4, <2>5, <2>6 DEF Next
<1> QED
  BY <1>1, UncopiedAssumption DEF Uncopied

LEMMA NoScript ==
    ASSUME IInv, CopyInv, ScriptInv, [Next]_vars, UNCHANGED <<checks, evidence>>
    PROVE  ScriptInv'
<1>1. \A c \in DOMAIN checks : CheckOk(checks[c])'
  <2> SUFFICES ASSUME NEW c \in DOMAIN checks PROVE CheckOk(checks[c])'
    OBVIOUS
  <2>1. PICK check : check = checks[c]
    OBVIOUS
  <2>2. CheckOk(check)'
    BY <2>1, CheckStays DEF ScriptInv
  <2> QED
    BY <2>1, <2>2
<1>2. \A e \in evidence' : EvidenceOk(e)'
  BY DEF ScriptInv, EvidenceOk
<1> QED
  BY <1>1, <1>2, StillUncopied DEF ScriptInv

\* A script begins: nothing has been read, and the publication is the state's last.
LEMMA StartCheckStep ==
    ASSUME IInv, CopyInv, ScriptInv, [Next]_vars, NEW scope \in CheckedScopes, NEW kind, NEW target, StartCheck(kind, scope, target),
           \/ kind = "verify" /\ target = None
           \/ kind = "postpublish" /\ scope \in LowerScopes /\ target \in PublicationsOf(scope) /\ IsActive(scope, target)
    PROVE  ScriptInv'
<1> DEFINE new == [kind |-> kind, scope |-> scope, target |-> target, since |-> Len(publications),
                   seen |-> [name \in DOMAIN TargetPaths(scope) |-> Unread], retried |-> FALSE, verdict |-> "open"]
<1>1. checks' = Append(checks, new) /\ UNCHANGED <<publications, evidence>>
  BY DEF StartCheck, serviceVars
<1>2. publications \in Seq(PublicationRow) /\ Len(publications) \in Nat /\ DOMAIN publications = 1..Len(publications)
  BY DEF IInv, TypeInv
<1>3. kind \in {"verify", "postpublish"} /\ target \in Nat
  BY <1>2 DEF None, PublicationsOf
<1>4. kind = "postpublish" => OfActive(new)
  <2> SUFFICES ASSUME kind = "postpublish" PROVE OfActive(new)
    OBVIOUS
  <2>1. target \in PublicationsOf(scope) /\ target = NewestOf(PublicationsOf(scope)) /\ scope \in LowerScopes
    BY DEF IsActive, LatestPublication
  <2>2. PublicationsOf(scope) \in SUBSET Nat /\ \A p \in PublicationsOf(scope) : p <= Len(publications)
    BY <1>2 DEF PublicationsOf
  <2>3. \A p \in PublicationsOf(scope) : p <= target
    BY <1>2, <2>1, <2>2, NewestIsMember
  <2> QED
    BY <2>1, <2>3 DEF OfActive, PublicationsOf
<1>5. /\ new.kind = kind /\ new.scope = scope /\ new.since = Len(publications) /\ new.verdict = "open"
      /\ DOMAIN new.seen = DOMAIN TargetPaths(scope) /\ new.seen["stats"] = Unread
  BY NamesOfTarget
<1>6. PICK Given : checks \in Seq(CheckRow(Given))
  BY DEF ScriptInv
<1>7. checks' \in Seq(CheckRow(Given \cup {new.seen}))
  <2>1. CheckRow(Given) \subseteq CheckRow(Given \cup {new.seen})
    BY DEF CheckRow
  <2>2. new \in CheckRow(Given \cup {new.seen})
    BY <1>2, <1>3 DEF CheckRow
  <2> HIDE DEF new
  <2>3. checks \in Seq(CheckRow(Given \cup {new.seen}))
    BY <1>6, <2>1, SeqMonotonic
  <2> QED
    BY <1>1, <2>2, <2>3
<1> HIDE DEF new
<1>8. /\ DOMAIN checks' = DOMAIN checks \cup {Len(checks) + 1} /\ checks'[Len(checks) + 1] = new
      /\ \A c \in DOMAIN checks : checks'[c] = checks[c]
  BY <1>1, <1>6
<1>9. CheckOk(new)
  BY <1>2, <1>4, <1>5 DEF CheckOk
<1>10. \A c \in DOMAIN checks' : CheckOk(checks[c])'
  <2> SUFFICES ASSUME NEW c \in DOMAIN checks' PROVE CheckOk(checks[c])'
    OBVIOUS
  <2>1. PICK check : check = checks'[c]
    OBVIOUS
  <2>2. CheckOk(check)
    BY <1>8, <1>9, <2>1 DEF ScriptInv
  <2>3. CheckOk(check)'
    BY <2>2, CheckStays
  <2> QED
    BY <2>1, <2>3
<1>11. \A e \in evidence' : EvidenceOk(e)'
  BY <1>1, <1>8 DEF ScriptInv, EvidenceOk
<1> QED
  BY <1>7, <1>10, <1>11, StillUncopied DEF ScriptInv

\* What is left to show of a script's step: the row of its own check, and its evidence.
LEMMA MoveCheck ==
    ASSUME IInv, CopyInv, ScriptInv, [Next]_vars, UNCHANGED publications, NEW c \in DOMAIN checks, checks[c].verdict = "open",
           NEW Given, NEW row \in CheckRow(Given), checks' = [checks EXCEPT ![c] = row], CheckOk(row),
           \A e \in evidence' : e \in evidence
              \/ /\ e.check = c /\ row.verdict # "open" /\ row.kind = "postpublish" /\ e.publication = row.target
                 /\ e.snapshot = row.seen["stats"] /\ e.snapshot # Unread
    PROVE  ScriptInv'
<1>1. PICK Before : checks \in Seq(CheckRow(Before))
  BY DEF ScriptInv
<1>2. /\ DOMAIN checks' = DOMAIN checks /\ checks'[c] = row
      /\ \A d \in DOMAIN checks \ {c} : checks'[d] = checks[d]
  BY <1>1
<1>3. checks' \in Seq(CheckRow(Before \cup Given))
  <2>1. CheckRow(Before) \subseteq CheckRow(Before \cup Given) /\ row \in CheckRow(Before \cup Given)
    BY DEF CheckRow
  <2>2. checks \in Seq(CheckRow(Before \cup Given))
    BY <1>1, <2>1, SeqMonotonic
  <2> QED
    BY <2>1, <2>2
<1>4. \A d \in DOMAIN checks' : CheckOk(checks[d])'
  <2> SUFFICES ASSUME NEW d \in DOMAIN checks' PROVE CheckOk(checks[d])'
    OBVIOUS
  <2>1. PICK check : check = checks'[d]
    OBVIOUS
  <2>2. CheckOk(check)
    BY <1>2, <2>1 DEF ScriptInv
  <2>3. CheckOk(check)'
    BY <2>2, CheckStays
  <2> QED
    BY <2>1, <2>3
<1>5. \A e \in evidence' : EvidenceOk(e)'
  <2> SUFFICES ASSUME NEW e \in evidence' PROVE EvidenceOk(e)'
    OBVIOUS
  <2>1. CASE e \in evidence
    BY <1>2, <2>1 DEF ScriptInv, EvidenceOk
  <2>2. CASE e \notin evidence
    BY <1>2, <2>2 DEF EvidenceOk
  <2> QED
    BY <2>1, <2>2
<1> QED
  BY <1>3, <1>4, <1>5, StillUncopied DEF ScriptInv

LEMMA ReadsWhatIsShown ==
    ASSUME IInv, NEW check, OfActive(check), check.since \in Nat, GetPublishedSnapshot(check.scope) # None
    PROVE  GivenBy(GetPublishedSnapshot(check.scope), check)
<1>1. publications \in Seq(PublicationRow) /\ Len(publications) \in Nat /\ DOMAIN publications = 1..Len(publications)
  BY DEF IInv, TypeInv
<1>2. PICK latest : latest = LatestPublication(check.scope)
  OBVIOUS
<1>3. /\ latest \in PublicationsOf(check.scope) /\ \A p \in PublicationsOf(check.scope) : p <= latest
  <2>1. PublicationsOf(check.scope) \in SUBSET Nat /\ \A p \in PublicationsOf(check.scope) : p <= Len(publications)
    BY <1>1 DEF PublicationsOf
  <2>2. check.target \in PublicationsOf(check.scope)
    BY DEF OfActive, PublicationsOf
  <2> QED
    BY <1>1, <1>2, <2>1, <2>2, NewestIsMember DEF LatestPublication
<1>4. GetPublishedSnapshot(check.scope) = publications[latest].snapshot /\ latest \in DOMAIN publications
      /\ publications[latest].scope = check.scope /\ check.target <= latest
  BY <1>2, <1>3 DEF GetPublishedSnapshot, OfActive, PublicationsOf
<1>5. CASE latest <= check.since
  <2>1. latest <= check.target
    BY <1>4, <1>5 DEF OfActive
  <2>2. latest = check.target
    BY <1>1, <1>4, <2>1 DEF OfActive
  <2> QED
    BY <1>4, <2>2 DEF GivenBy
<1>6. CASE latest > check.since
  BY <1>4, <1>6 DEF GivenBy
<1>7. latest \in Nat
  BY <1>1, <1>4
<1> QED
  BY <1>5, <1>6, <1>7

LEMMA FetchStep ==
    ASSUME IInv, CopyInv, ScriptInv, [Next]_vars, NEW c \in DOMAIN checks, NEW name \in DOMAIN checks[c].seen, Fetch(c, name)
    PROVE  ScriptInv'
<1>1. PICK Given : checks \in Seq(CheckRow(Given))
  BY DEF ScriptInv
<1>2. checks[c] \in CheckRow(Given) /\ CheckOk(checks[c]) /\ checks[c].verdict = "open" /\ checks[c].seen[name] = Unread
  BY <1>1 DEF ScriptInv, Fetch
<1>3. UNCHANGED <<publications, evidence>>
  BY DEF Fetch, serviceVars
<1>4. CASE checks' = Fail(c)
  <2> DEFINE row == [checks[c] EXCEPT !.verdict = "failed"]
  <2>1. row \in CheckRow(Given) /\ checks' = [checks EXCEPT ![c] = row]
    BY <1>1, <1>2, <1>4 DEF Fail, CheckRow
  <2>2. /\ row.kind = checks[c].kind /\ row.scope = checks[c].scope /\ row.target = checks[c].target
        /\ row.since = checks[c].since /\ row.seen = checks[c].seen /\ row.verdict = "failed"
    BY <1>2 DEF CheckRow
  <2> HIDE DEF row
  <2>3. CheckOk(row)
    BY <1>2, <2>2 DEF CheckOk, OfActive, GivenBy
  <2> QED
    BY <1>2, <1>3, <2>1, <2>3, MoveCheck
<1>5. ASSUME NEW snapshot, checks' = [checks EXCEPT ![c].seen[name] = snapshot],
             name = "stats" /\ checks[c].kind = "postpublish" => GivenBy(snapshot, checks[c])
      PROVE  ScriptInv'
  <2>1. PICK seen : seen = [checks[c].seen EXCEPT ![name] = snapshot]
    OBVIOUS
  <2>2. DOMAIN seen = DOMAIN checks[c].seen /\ seen["stats"] = IF name = "stats" THEN snapshot ELSE checks[c].seen["stats"]
    BY <1>2, <2>1, NamesOfTarget DEF CheckOk
  <2> DEFINE row == [checks[c] EXCEPT !.seen = seen]
  <2>3. row \in CheckRow({seen}) /\ checks' = [checks EXCEPT ![c] = row]
    BY <1>1, <1>2, <1>5, <2>1 DEF CheckRow
  <2>4. /\ row.kind = checks[c].kind /\ row.scope = checks[c].scope /\ row.target = checks[c].target
        /\ row.since = checks[c].since /\ row.seen = seen /\ row.verdict = "open"
    BY <1>2 DEF CheckRow
  <2> HIDE DEF row
  <2>5. CheckOk(row)
    <3>1. row.kind = "postpublish" => OfActive(row) /\ (row.seen["stats"] # Unread => GivenBy(row.seen["stats"], row))
      BY <1>2, <1>5, <2>2, <2>4 DEF CheckOk, OfActive, GivenBy
    <3> QED
      BY <1>2, <2>2, <2>4, <3>1 DEF CheckOk
  <2> QED
    BY <1>2, <1>3, <2>3, <2>5, MoveCheck
<1>6. PICK path : path = TargetPaths(checks[c].scope)[name]
  OBVIOUS
<1>7. ASSUME name = "stats", checks[c].kind = "postpublish", NEW answer \in AnswersTo(path)
      PROVE  GivenBy(answer.snapshot, checks[c])
  <2>1. OfActive(checks[c]) /\ checks[c].scope \in LowerScopes
    BY <1>2, <1>7 DEF CheckOk, OfActive
  <2>2. path = BuildPublicStateRoutes(checks[c].scope).stats
    BY <1>6, <1>7, <2>1, NamesOfTarget
  <2>3. \A copy \in edge \cup leaving : copy.path # path
    BY <2>1, <2>2 DEF ScriptInv, Uncopied
  <2>4. Router(path).status = 200 /\ answer = Answer(path)
    BY <1>7, <2>3 DEF AnswersTo
  <2>5. Router(path) = OfSnapshot(checks[c].scope, 404)
    BY <2>1, <2>2, StatisticsAreRouted
  <2>6. /\ GetPublishedSnapshot(checks[c].scope) # None
        /\ Router(path).snapshot = GetPublishedSnapshot(checks[c].scope)
    BY <2>4, <2>5 DEF OfSnapshot, Refused, Shows
  <2>7. answer.snapshot = GetPublishedSnapshot(checks[c].scope)
    BY <2>4, <2>6 DEF Answer
  <2> QED
    BY <1>2, <2>1, <2>6, <2>7, ReadsWhatIsShown DEF CheckOk
<1>8. \/ checks' = Fail(c)
      \/ \E answer \in AnswersTo(path) : checks' = [checks EXCEPT ![c].seen[name] = answer.snapshot]
  BY <1>6 DEF Fetch
<1> QED
  BY <1>4, <1>5, <1>7, <1>8

LEMMA AssessStep ==
    ASSUME IInv, CopyInv, ScriptInv, [Next]_vars, NEW c \in DOMAIN checks, Assess(c)
    PROVE  ScriptInv'
<1>1. PICK Given : checks \in Seq(CheckRow(Given))
  BY DEF ScriptInv
<1>2. checks[c] \in CheckRow(Given) /\ CheckOk(checks[c]) /\ checks[c].verdict = "open"
      /\ \A name \in DOMAIN checks[c].seen : checks[c].seen[name] # Unread
  BY <1>1 DEF ScriptInv, Assess
<1>3. UNCHANGED publications
  BY DEF Assess, serviceVars
<1> DEFINE lags == HasCsv(c) /\ checks[c].seen["csv"] # checks[c].seen["stats"]
<1> DEFINE passes == Matching(checks[c].seen) /\ ~lags
<1>4. CASE Matching(checks[c].seen) /\ lags /\ ~checks[c].retried
  <2>1. PICK seen : seen = [checks[c].seen EXCEPT !["csv"] = Unread]
    OBVIOUS
  <2>2. DOMAIN seen = DOMAIN checks[c].seen /\ seen["stats"] = checks[c].seen["stats"]
    BY <1>2, <2>1, NamesOfTarget DEF CheckOk
  <2> DEFINE row == [checks[c] EXCEPT !.seen = seen, !.retried = TRUE]
  <2>3. checks' = [checks EXCEPT ![c].seen["csv"] = Unread, ![c].retried = TRUE] /\ evidence' = evidence
    BY <1>4 DEF Assess
  <2>4. row \in CheckRow({seen}) /\ checks' = [checks EXCEPT ![c] = row]
    BY <1>1, <1>2, <2>1, <2>3 DEF CheckRow
  <2>5. /\ row.kind = checks[c].kind /\ row.scope = checks[c].scope /\ row.target = checks[c].target
        /\ row.since = checks[c].since /\ row.seen = seen /\ row.verdict = "open"
    BY <1>2 DEF CheckRow
  <2> HIDE DEF row
  <2>6. CheckOk(row)
    BY <1>2, <2>2, <2>5 DEF CheckOk, OfActive, GivenBy
  <2> QED
    BY <1>2, <1>3, <2>3, <2>4, <2>6, MoveCheck
<1>5. CASE ~(Matching(checks[c].seen) /\ lags /\ ~checks[c].retried)
  <2>1. PICK verdict \in {"passed", "failed"} : verdict = IF passes THEN "passed" ELSE "failed"
    OBVIOUS
  <2> DEFINE row == [checks[c] EXCEPT !.verdict = verdict]
  <2>2. /\ checks' = [checks EXCEPT ![c].verdict = verdict]
        /\ \/ evidence' = evidence
           \/ /\ checks[c].kind = "postpublish"
              /\ evidence' = evidence \cup {[check |-> c, publication |-> checks[c].target, snapshot |-> checks[c].seen["stats"]]}
    BY <1>5, <2>1 DEF Assess
  <2>3. row \in CheckRow(Given) /\ checks' = [checks EXCEPT ![c] = row]
    BY <1>1, <1>2, <2>2 DEF CheckRow
  <2>4. /\ row.kind = checks[c].kind /\ row.scope = checks[c].scope /\ row.target = checks[c].target
        /\ row.since = checks[c].since /\ row.seen = checks[c].seen /\ row.verdict = verdict
    BY <1>2 DEF CheckRow
  <2> HIDE DEF row
  <2>5. ASSUME verdict = "passed", NEW name \in DOMAIN checks[c].seen \ {"data"}
        PROVE  checks[c].seen[name] = checks[c].seen["stats"]
    <3>1. Matching(checks[c].seen) /\ ~lags
      BY <2>1, <2>5
    <3>2. name \in {"stats", "districts", "trends", "csv"}
      BY <1>2, NamesOfTarget DEF CheckOk
    <3> QED
      BY <3>1, <3>2 DEF Matching, Compared, HasCsv
  <2>6. CheckOk(row)
    BY <1>2, <2>4, <2>5 DEF CheckOk, OfActive, GivenBy
  <2>7. checks[c].seen["stats"] # Unread
    BY <1>2, NamesOfTarget DEF CheckOk
  <2>8. ASSUME NEW e \in evidence', e \notin evidence
        PROVE  /\ e.check = c /\ row.verdict # "open" /\ row.kind = "postpublish" /\ e.publication = row.target
               /\ e.snapshot = row.seen["stats"] /\ e.snapshot # Unread
    BY <2>2, <2>4, <2>7, <2>8
  <2> QED
    BY <1>2, <1>3, <2>3, <2>6, <2>8, MoveCheck
<1> QED
  BY <1>4, <1>5

LEMMA InitScriptInv == Init => ScriptInv
<1> SUFFICES ASSUME Init PROVE ScriptInv
  OBVIOUS
<1>1. Uncopied
  BY UncopiedAssumption DEF Init, Uncopied
<1>2. checks \in Seq(CheckRow({})) /\ checks = <<>> /\ evidence = {}
  BY EmptySeq DEF Init
<1> QED
  BY <1>1, <1>2 DEF ScriptInv

LEMMA NextScriptInv == IInv /\ CopyInv /\ ScriptInv /\ [Next]_vars => ScriptInv'
<1> SUFFICES ASSUME IInv, CopyInv, ScriptInv, [Next]_vars PROVE ScriptInv'
  OBVIOUS
<1>1. CASE Script
  <2>1. CASE \E scope \in CheckedScopes :
               \/ Verify(scope)
               \/ scope \in LowerScopes /\ \E run \in DOMAIN runs : Prepublish(scope, run)
               \/ scope \in LowerScopes /\ \E p \in DOMAIN publications : Postpublish(scope, p)
    BY <2>1, StartCheckStep DEF Verify, Prepublish, Postpublish
  <2>2. CASE \E c \in DOMAIN checks : Assess(c) \/ \E name \in DOMAIN checks[c].seen : Fetch(c, name)
    BY <2>2, AssessStep, FetchStep
  <2> QED
    BY <1>1, <2>1, <2>2 DEF Script
<1>2. CASE Operator \/ Handler \/ Surroundings \/ UNCHANGED vars
  <2>1. UNCHANGED <<checks, evidence>>
    BY <1>2 DEF Operator, Handler, Surroundings, vars
  <2> QED
    BY <2>1, NoScript
<1> QED
  BY <1>1, <1>2 DEF Next

(* What each script was given, and the evidence it wrote, as the tables stand. *)
THEOREM ScriptsInvariant == Spec => []ScriptInv
BY InitIInv, NextIInv, InitCopyInv, NextCopyInv, InitScriptInv, NextScriptInv, PTL DEF Spec

LEMMA ScriptInvPasses == ScriptInv => PassedVerificationIsOfOneSnapshot
<1> SUFFICES ASSUME ScriptInv PROVE PassedVerificationIsOfOneSnapshot
  OBVIOUS
<1>1. \A c \in DOMAIN checks : checks[c].verdict = "passed" =>
        \A name \in DOMAIN checks[c].seen \ {"data"} : checks[c].seen[name] = checks[c].seen["stats"]
  BY DEF ScriptInv, CheckOk
<1>2. ASSUME NEW e \in evidence
      PROVE  \/ e.snapshot = publications[e.publication].snapshot
             \/ \E later \in DOMAIN publications :
                  later > checks[e.check].since /\ publications[later].scope = checks[e.check].scope
                    /\ publications[later].snapshot = e.snapshot
  <2>1. EvidenceOk(e) /\ CheckOk(checks[e.check])
    BY DEF ScriptInv, EvidenceOk
  <2>2. GivenBy(e.snapshot, checks[e.check]) /\ e.publication = checks[e.check].target
    BY <2>1 DEF EvidenceOk, CheckOk
  <2> QED
    BY <2>2 DEF GivenBy
<1> QED
  BY <1>1, <1>2 DEF PassedVerificationIsOfOneSnapshot

(* However the fetches of a verification interleave with releases, purges and caches: *)
(* one that passed was given one snapshot by all the answers it compares, and the     *)
(* evidence of a publication is of its snapshot or of a later release of the state.   *)
THEOREM PassedVerificationsAreOfOneSnapshot == Spec => []PassedVerificationIsOfOneSnapshot
BY ScriptsInvariant, ScriptInvPasses, PTL

-----------------------------------------------------------------------------
(* What is released is answered *)

\* The default state's release stays, as every publication does.
DefaultInv == \E p \in DOMAIN publications : publications[p].scope = DefaultState

LEMMA DefaultStays ==
    /\ Init => DefaultInv
    /\ IInv /\ CopyInv /\ DefaultInv /\ [Next]_vars => DefaultInv'
<1>1. Init => DefaultInv
  BY DefaultStateAssumption DEF Init, DefaultInv
<1>2. IInv /\ CopyInv /\ DefaultInv /\ [Next]_vars => DefaultInv'
  BY PublicationsAreKept DEF DefaultInv
<1> QED
  BY <1>1, <1>2

\* The default state is released at all times.
THEOREM DefaultInvariant == Spec => []DefaultInv
BY DefaultStays, InductiveInvariant, CopiesInvariant, PTL DEF Spec

LEMMA ActiveIsInserted ==
    ASSUME IInv, CopyInv, NEW scope
    PROVE  /\ PublicationsOf(scope) # {} => GetPublishedSnapshot(scope) # None
           /\ GetPublishedSnapshot(scope) # None => DistrictsIn(GetPublishedSnapshot(scope)) \in SUBSET District
<1>1. CASE PublicationsOf(scope) = {}
  BY <1>1 DEF GetPublishedSnapshot
<1>2. CASE PublicationsOf(scope) # {}
  <2>1. PICK n \in Nat : n = Len(publications) /\ DOMAIN publications = 1..n
    BY DEF IInv, TypeInv
  <2>2. PublicationsOf(scope) \in SUBSET Nat /\ \A q \in PublicationsOf(scope) : q <= n
    BY <2>1 DEF PublicationsOf
  <2>3. LatestPublication(scope) \in PublicationsOf(scope)
    BY <1>2, <2>1, <2>2, NewestIsMember DEF LatestPublication
  <2>4. PICK p \in DOMAIN publications : p = publications[LatestPublication(scope)].snapshot
    BY <2>3 DEF PublicationsOf, CopyInv, SettledInv
  <2>5. GetPublishedSnapshot(scope) = p /\ p # None
    BY <1>2, <2>1, <2>4 DEF GetPublishedSnapshot, None
  <2>6. publications[p].run \in DOMAIN runs
    BY DEF IInv, PublicationOk
  <2>7. runs[publications[p].run] \in RunRow
    BY <2>6, RunAt DEF IInv
  <2> QED
    BY <2>5, <2>7 DEF DistrictsIn, RunRow
<1> QED
  BY <1>1, <1>2

LEMMA ReleasesAreCurrent == IInv /\ CopyInv /\ DefaultInv => Current
<1> SUFFICES ASSUME IInv, CopyInv, DefaultInv PROVE Current
  OBVIOUS
<1>1. Snapshot(DefaultState) # None
  BY ActiveIsInserted DEF DefaultInv, PublicationsOf, Snapshot
<1>2. \A s \in LowerScopes : Snapshot(s) # None => Shown(s) \in SUBSET District
  BY ActiveIsInserted DEF Snapshot, Shown
<1> QED
  BY <1>1, <1>2 DEF Current

\* What a release of a state purges are addresses that are answered.
LEMMA PurgedOfStateOpen ==
    ASSUME Current, NEW scope \in LowerScopes, NEW active, active = GetPublishedSnapshot(scope), active # None,
           NEW i \in DOMAIN PurgeList(scope, active)
    PROVE  Opens(PurgeList(scope, active)[i])
<1>1. PICK shown \in SUBSET District : shown = DistrictsIn(active)
  BY DEF Current, Snapshot, Shown
<1>2. scope \in ListAvailablePublicProfiles({})
  BY ReleasedStates DEF Snapshot
<1>3. PICK first : first = <<BuildPublicStateRoutes(scope).data, BuildPublicStateRoutes(scope).districtsCsv,
                             BuildPublicStateRoutes(scope).stateEvidencePack>>
  OBVIOUS
<1>4. Opens(first[1]) /\ Opens(first[2]) /\ Opens(first[3])
  BY <1>2, <1>3, StateLinksOpen
<1>5. PICK districts : districts = Listed(shown) /\ districts \in Seq(shown)
  BY <1>1, DistrictsAreListed, DistrictsAssumption, FS_Subset
<1>6. PICK n \in Nat : n = 2 * Len(districts)
  BY <1>5
<1>7. PICK rest : rest = [k \in 1..n |-> DistrictEntry(scope, districts, k)]
  OBVIOUS
<1>8. \A k \in 1..n : Opens(rest[k])
  <2> SUFFICES ASSUME NEW k \in 1..n PROVE Opens(rest[k])
    OBVIOUS
  <2>1. (k + 1) \div 2 \in 1..Len(districts)
    BY <1>5, <1>6
  <2>2. districts[(k + 1) \div 2] \in shown
    BY <1>5, <2>1
  <2>3. \A d \in shown : Opens(DistrictCsvRoute(scope, d)) /\ Opens(DistrictEvidenceRoute(scope, d))
    BY <1>1, DistrictRoutesOpen
  <2> QED
    BY <1>7, <2>2, <2>3 DEF DistrictEntry
<1>9. PICK list : list = first \o rest
  OBVIOUS
<1>10. list = PurgeList(scope, active)
  BY <1>1, <1>3, <1>5, <1>6, <1>7, <1>9, ListIsPurged DEF ListFor
<1>11. /\ DOMAIN list = 1..(3 + n)
       /\ \A k \in 1..(3 + n) : list[k] = IF k <= 3 THEN first[k] ELSE rest[k - 3]
  <2>1. PICK Path : first \in Seq(Path) /\ rest \in Seq(Path)
    <3> DEFINE Stops == {first[1], first[2], first[3]} \cup {rest[k] : k \in 1..n}
    <3>1. first \in Seq(Stops)
      BY <1>3
    <3>2. rest \in [1..n -> Stops]
      BY <1>7
    <3> HIDE DEF Stops
    <3>3. rest \in Seq(Stops)
      BY <3>2, <1>7, SeqDef
    <3> QED
      BY <3>1, <3>3
  <2>2. Len(first) = 3 /\ Len(rest) = n
    BY <1>3, <1>7
  <2>3. Len(list) = Len(first) + Len(rest) /\ list \in Seq(Path)
    BY <1>9, <2>1, ConcatProperties
  <2>4. \A k \in 1..(Len(first) + Len(rest)) : list[k] = IF k <= Len(first) THEN first[k] ELSE rest[k - Len(first)]
    BY <1>9, <2>1, ConcatProperties
  <2>5. DOMAIN list = 1..Len(list)
    BY <2>3, LenProperties
  <2> QED
    BY <2>2, <2>3, <2>4, <2>5
<1>12. i \in 1..(3 + n) /\ PurgeList(scope, active)[i] = list[i]
  BY <1>10, <1>11
<1>13. CASE i <= 3
  BY <1>4, <1>11, <1>12, <1>13
<1>14. CASE i > 3
  <2>1. i - 3 \in 1..n
    BY <1>12, <1>14
  <2> QED
    BY <1>8, <1>11, <1>12, <1>14, <2>1
<1> QED
  BY <1>12, <1>13, <1>14

LEMMA PurgedOpen ==
    ASSUME Current, NEW scope \in Scopes, NEW active, active = GetPublishedSnapshot(scope), active # None
    PROVE  \A i \in DOMAIN PurgeList(scope, active) : Opens(PurgeList(scope, active)[i])
<1>1. CASE scope \in LowerScopes
  BY <1>1, PurgedOfStateOpen
<1>2. CASE scope \in HighCourts
  <2>1. PICK routes : routes = BuildPublicHighCourtRoutes(scope)
    OBVIOUS
  <2>2. \A path \in RoutesIn(routes) : Opens(path)
    BY <1>2, <2>1, HighCourtRoutesOpen
  <2>3. DOMAIN routes = {"index", "home", "methodology", "api", "data", "stats", "trends"}
    BY <2>1 DEF BuildPublicHighCourtRoutes
  <2>4. /\ Opens(routes.index) /\ Opens(routes.home) /\ Opens(routes.data) /\ Opens(routes.methodology)
        /\ Opens(routes.api) /\ Opens(routes.stats) /\ Opens(routes.trends)
    BY <2>2, <2>3 DEF RoutesIn
  <2>5. PurgeList(scope, active) = <<routes.index, routes.home, routes.data, routes.methodology, routes.api,
                                     routes.stats, routes.trends>>
    BY <1>2, <2>1 DEF PurgeList
  <2>6. PICK list : list = PurgeList(scope, active)
    OBVIOUS
  <2>7. \A i \in 1..7 : Opens(list[i])
    BY <2>4, <2>5, <2>6
  <2>8. DOMAIN list = 1..7
    BY <2>5, <2>6
  <2> QED
    BY <2>6, <2>7, <2>8
<1>3. CASE scope = SupremeCourt /\ scope \notin HighCourts
  <2>1. PICK routes : routes = BuildPublicSupremeCourtRoutes
    OBVIOUS
  <2>2. \A path \in RoutesIn(routes) : Opens(path)
    BY <1>3, <2>1, SupremeCourtRoutesOpen
  <2>3. DOMAIN routes = {"home", "methodology", "api", "data", "stats", "trends"}
    BY <2>1 DEF BuildPublicSupremeCourtRoutes
  <2>4. /\ Opens(routes.home) /\ Opens(routes.data) /\ Opens(routes.methodology)
        /\ Opens(routes.api) /\ Opens(routes.stats) /\ Opens(routes.trends)
    BY <2>2, <2>3 DEF RoutesIn
  <2>5. PurgeList(scope, active) = <<routes.home, routes.data, routes.methodology, routes.api,
                                     routes.stats, routes.trends>>
    BY <1>3, <2>1 DEF PurgeList
  <2>6. PICK list : list = PurgeList(scope, active)
    OBVIOUS
  <2>7. \A i \in 1..6 : Opens(list[i])
    BY <2>4, <2>5, <2>6
  <2>8. DOMAIN list = 1..6
    BY <2>5, <2>6
  <2> QED
    BY <2>6, <2>7, <2>8
<1> QED
  BY <1>1, <1>2, <1>3 DEF Scopes

\* What a verification reads shows the geography's own active snapshot.
LEMMA TargetsShowTheActive ==
    ASSUME NEW scope \in Scopes, NEW active, active = GetPublishedSnapshot(scope), active # None
    PROVE  /\ \A name \in DOMAIN TargetPaths(scope) : Router(TargetPaths(scope)[name]) = Shows(active)
           /\ scope \in LowerScopes => Router(BuildPublicStateRoutes(scope).home) = Shows(active)
<1>1. CASE scope \in LowerScopes
  <2>1. PICK routes : routes = BuildPublicStateRoutes(scope)
    OBVIOUS
  <2>2. /\ Router(routes.home) = Shows(active) /\ Router(routes.data) = Shows(active)
        /\ Router(routes.districtsCsv) = Shows(active) /\ Router(routes.stats) = Shows(active)
        /\ Router(routes.districtsApi) = Shows(active) /\ Router(routes.trends) = Shows(active)
    BY <1>1, <2>1, StateRoutesOpen
  <2>3. TargetPaths(scope) = [stats |-> routes.stats, districts |-> routes.districtsApi, trends |-> routes.trends,
                              data |-> routes.data, csv |-> routes.districtsCsv]
    BY <1>1, <2>1, TiersAssumption DEF TargetPaths
  <2> QED
    BY <2>1, <2>2, <2>3
<1>2. CASE scope \in HighCourts
  <2>1. PICK routes : routes = BuildPublicHighCourtRoutes(scope)
    OBVIOUS
  <2>2. Router(routes.data) = Shows(active) /\ Router(routes.stats) = Shows(active) /\ Router(routes.trends) = Shows(active)
    BY <1>2, <2>1, HighCourtRoutesOpen
  <2>3. TargetPaths(scope) = [stats |-> routes.stats, trends |-> routes.trends, data |-> routes.data]
    BY <1>2, <2>1 DEF TargetPaths
  <2>4. scope \notin LowerScopes
    BY <1>2, TiersAssumption
  <2> QED
    BY <2>2, <2>3, <2>4
<1>3. CASE scope = SupremeCourt
  <2>1. PICK routes : routes = BuildPublicSupremeCourtRoutes
    OBVIOUS
  <2>2. Router(routes.data) = Shows(active) /\ Router(routes.stats) = Shows(active) /\ Router(routes.trends) = Shows(active)
    BY <1>3, <2>1, SupremeCourtRoutesOpen
  <2>3. scope \notin LowerScopes /\ scope \notin HighCourts
    BY <1>3, TiersAssumption
  <2>4. TargetPaths(scope) = [stats |-> routes.stats, trends |-> routes.trends, data |-> routes.data]
    BY <1>3, <2>1, <2>3 DEF TargetPaths
  <2> QED
    BY <2>2, <2>3, <2>4
<1> QED
  BY <1>1, <1>2, <1>3 DEF Scopes

LEMMA CurrentAnswers == Current => BuiltRoutesAnswer
<1> SUFFICES ASSUME Current PROVE BuiltRoutesAnswer
  OBVIOUS
<1>1. SiteHolds
  BY SiteIsFine
<1>2. ASSUME NEW scope \in Scopes, GetPublishedSnapshot(scope) # None
      PROVE  LET active == GetPublishedSnapshot(scope)
                 purged == PurgeList(scope, active)
                 own == TargetPaths(scope)
             IN  /\ \A i \in DOMAIN purged : Router(purged[i]).status = 200
                 /\ \A name \in DOMAIN own : Router(own[name]) = Shows(active)
                 /\ scope \in LowerScopes => Router(BuildPublicStateRoutes(scope).home) = Shows(active)
  <2>1. PICK active : active = GetPublishedSnapshot(scope) /\ active # None
    BY <1>2
  <2>2. \A i \in DOMAIN PurgeList(scope, active) : Router(PurgeList(scope, active)[i]).status = 200
    BY <2>1, PurgedOpen DEF Opens
  <2> QED
    BY <2>1, <2>2, TargetsShowTheActive
<1> QED
  BY <1>1, <1>2 DEF BuiltRoutesAnswer

(* Whatever geographies, courts and districts are released, in whatever order, while  *)
(* others release, crash or read: every page that is served is answered, as is every  *)
(* address it links to, a release purges and a verification reads; nothing released   *)
(* is out of a reader's reach.                                                        *)
THEOREM SiteIsAnsweredAtAllTimes == Spec => []BuiltRoutesAnswer
BY InductiveInvariant, CopiesInvariant, DefaultInvariant, ReleasesAreCurrent, CurrentAnswers, PTL

(* So it is when the last handler has released and ended, where a run looks at it.    *)
THEOREM ReleasedRoutesAreAnswered == Spec => []ReleasedRoutesAnswer
<1>1. BuiltRoutesAnswer => ReleasedRoutesAnswer
  BY DEF ReleasedRoutesAnswer
<1> QED
  BY <1>1, SiteIsAnsweredAtAllTimes, PTL

===============================================================================
