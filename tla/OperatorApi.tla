----------------------------- MODULE OperatorApi -----------------------------
(***************************************************************************)
(* The operators' side of the site: the routes under /operator, called     *)
(* with the remote client, and the operator command line, which runs the   *)
(* same services in a process of its own.  Every await of a handler ends a *)
(* step, so that two handlers, and the caches of the public site, are seen *)
(* in every order.  A client that stops waiting changes nothing here: its  *)
(* retry is another request, sent while the first is being served.         *)
(***************************************************************************)
EXTENDS PublicRoutes

CONSTANTS
    Commands,             \* what operators send
    Captures,             \* what a source can hold: sets of districts
    CloudflareConfigured, \* whether the services purge at all
    NewsletterConfigured, \* whether createApp was given a pool
    BatchSize,            \* paths in one purge call
    FillPaths,            \* the paths Cloudflare keeps copies of
    KeptAnyway,           \* those it keeps although they are sent with no-store
    MaxRestarts
ASSUME BatchAssumption == BatchSize \in Nat \ {0}

VARIABLES
    requests, \* one record for each request, in the order sent
    edge,     \* Cloudflare's copies
    leaving,  \* copies that a purge has removed and that some places still serve
    fill,     \* the copy on its way from the site to Cloudflare, if any
    digests,  \* [request, snapshot]: the mails the publish route started
    restarts,
    freeze    \* MIGRATION_WRITE_FREEZE of the running server
apiVars == <<requests, edge, leaving, fill, digests, restarts, freeze>>
serviceVars == <<runs, publications>>

Operations == {"fetch", "publish", "replay", "rollback", "inspect", "publications", "purge"}
Reads == {"inspect", "publications"}

\* "via": the HTTP route or the command line; "scope": the one whose routes or
\* service are used, for the routes without one any lower-court scope; "target": a run, or a publication to roll back to.
Request(command, after) ==
    [via |-> command.via, op |-> command.op, scope |-> command.scope, target |-> command.target,
     token |-> command.token, step |-> "sent", run |-> None, released |-> None, batch |-> 0,
     status |-> 0, after |-> after]
Finished == {r \in DOMAIN requests : requests[r].step = "done"}

\* The answer and everything a handler still knows.
Closed(r, status) ==
    [requests EXCEPT ![r].step = "done", ![r].status = status, ![r].batch = 0]
\* A request that is only answered leaves nothing but its answer.
Refusal(status, after) ==
    [via |-> "http", op |-> "inspect", scope |-> DefaultState, target |-> None, token |-> FALSE, step |-> "done",
     run |-> None, released |-> None, batch |-> 0, status |-> status, after |-> after]
Answered(r, status) == [requests EXCEPT ![r] = Refusal(status, requests[r].after)]
At(r, step) == requests[r].step = step
Goes(r, step) == [requests EXCEPT ![r].step = step]

-----------------------------------------------------------------------------
(* What a release purges *)

PurgeList(scope, snapshot) ==
    IF scope \in HighCourts THEN
        LET routes == BuildPublicHighCourtRoutes(scope)
        IN  <<routes.index, routes.home, routes.data, routes.methodology, routes.api, routes.stats, routes.trends>>
    ELSE IF scope = SupremeCourt THEN
        LET routes == BuildPublicSupremeCourtRoutes
        IN  <<routes.home, routes.data, routes.methodology, routes.api, routes.stats, routes.trends>>
    ELSE
        LET routes == BuildPublicStateRoutes(scope)
            shown == DistrictsIn(snapshot)
            districts == CHOOSE list \in [1..Cardinality(shown) -> shown] : \A d \in shown : \E i \in DOMAIN list : list[i] = d
        IN  <<routes.data, routes.districtsCsv, routes.stateEvidencePack>>
            \o [i \in 1..(2 * Len(districts)) |->
                  LET district == districts[(i + 1) \div 2]
                  IN  IF i % 2 = 1 THEN DistrictCsvRoute(scope, district) ELSE DistrictEvidenceRoute(scope, district)]
Batches(scope, snapshot) ==
    IF ~CloudflareConfigured THEN 0 ELSE (Len(PurgeList(scope, snapshot)) + BatchSize - 1) \div BatchSize
BatchButLast(scope, snapshot, n) ==
    LET urls == PurgeList(scope, snapshot) IN {urls[i] : i \in {j \in DOMAIN urls : (j - 1) \div BatchSize = n - 1 /\ j % BatchSize # 0}}
BatchOf(scope, snapshot, n) ==
    LET urls == PurgeList(scope, snapshot) IN {urls[i] : i \in {j \in DOMAIN urls : (j - 1) \div BatchSize = n - 1}}

-----------------------------------------------------------------------------
(* Dispatch: who answers, and what it looks up before the service is called *)

FirstStep == [fetch |-> "capturing", publish |-> "validating", replay |-> "copying",
              rollback |-> "restoring"]
Begin(r, scope) ==
    requests' = [requests EXCEPT ![r].scope = scope, ![r].step = FirstStep[requests[r].op]]

\* The freeze stops every method that writes, before the token is looked at.
Turned(r) ==
    IF freeze /\ requests[r].op \notin Reads THEN 503
    ELSE IF ~requests[r].token THEN 401 ELSE 0

\* The scope of the run or publication named, or {} for a 404.
ScopesOf(r, scopes) ==
    LET q == requests[r]
    IN  CASE q.op \in {"fetch", "publications"} -> {q.scope}
          [] q.op = "rollback" -> {s \in scopes : q.target \in PublicationsOf(s)}
          [] OTHER -> {s \in scopes : InspectRun(s, q.target) # {}}
Dispatch(r, scopes) ==
    IF Turned(r) # 0 THEN requests' = Answered(r, Turned(r))
    ELSE IF ScopesOf(r, scopes) = {} THEN requests' = Answered(r, 404)
    ELSE IF requests[r].op \in Reads THEN requests' = Answered(r, 200)
    ELSE \E scope \in ScopesOf(r, scopes) : Begin(r, scope)

UnchangedButRequests == UNCHANGED <<serviceVars, edge, leaving, fill, digests, restarts, freeze>>

\* /operator/...: the run or publication is looked for in every state's service.
LowerDispatch(r) ==
    /\ At(r, "sent") /\ requests[r].via = "http" /\ requests[r].scope \in LowerScopes
    /\ Dispatch(r, LowerScopes)
    /\ UnchangedButRequests
\* /operator/high-courts/:courtSlug/... and /operator/supreme-court/...: in the court's own.
HighCourtDispatch(r) ==
    /\ At(r, "sent") /\ requests[r].via = "http" /\ requests[r].scope \in HighCourts
    /\ Dispatch(r, {requests[r].scope})
    /\ UnchangedButRequests
SupremeCourtDispatch(r) ==
    /\ At(r, "sent") /\ requests[r].via = "http" /\ requests[r].scope = SupremeCourt
    /\ Dispatch(r, {SupremeCourt})
    /\ UnchangedButRequests
\* The command line asks the service of its own scope, which throws for another's rows.
CliDispatch(r) ==
    /\ At(r, "sent") /\ requests[r].via = "cli"
    /\ IF requests[r].op \in Reads THEN requests' = Answered(r, 200)
       ELSE IF requests[r].op = "purge" THEN
            requests' = IF CloudflareConfigured THEN [requests EXCEPT ![r].step = "purging", ![r].batch = 1]
                        ELSE Answered(r, 500)
       ELSE IF ScopesOf(r, {requests[r].scope}) = {} THEN requests' = Answered(r, 500)
       ELSE Begin(r, requests[r].scope)
    /\ UnchangedButRequests

-----------------------------------------------------------------------------
(* The services' steps *)

UnchangedByServices == UNCHANGED <<edge, leaving, fill, digests, restarts, freeze>>

\* captureRun: the source is read before the run is inserted.
Capture(r) ==
    /\ At(r, "capturing")
    /\ InsertRun(Run(requests[r].scope, None, r))
    /\ requests' = [requests EXCEPT ![r].step = "building", ![r].run = Len(runs) + 1]
    /\ UnchangedByServices
\* replayRun: the old run's raw capture is wanted before a run is inserted, and
\* for the Supreme Court its candidate after.
CopyRawCapture(r) ==
    /\ At(r, "copying")
    /\ \E old \in InspectRun(requests[r].scope, requests[r].target) :
         IF "raw" \notin old.artifacts THEN requests' = Closed(r, 500) /\ UNCHANGED serviceVars
         ELSE /\ InsertRun(Run(requests[r].scope, requests[r].target, r))
              /\ requests' = IF ReplayableRun(requests[r].scope, old)
                             THEN [requests EXCEPT ![r].step = "building", ![r].run = Len(runs) + 1]
                             ELSE Closed(r, 500)
    /\ UnchangedByServices
\* buildAndStoreSnapshotCandidate
BuildCandidate(r) ==
    /\ At(r, "building")
    /\ LET q == requests[r]
           captured == IF q.scope \notin LowerScopes THEN {{}}
                       ELSE IF q.op = "replay" /\ runs[q.target].districts # {} THEN {runs[q.target].districts}
                       ELSE Captures
       IN  \E quality \in Qualities, districts \in captured :
             /\ CompleteRun(q.run, quality, districts)
             /\ requests' = IF q.op = "fetch" THEN Closed(r, 201) ELSE Goes(r, "validating")
    /\ UnchangedByServices
\* publishRun: the run published is the one asked for, or the replay's own.
Published(r) == IF requests[r].op = "replay" THEN requests[r].run ELSE requests[r].target
Validate(r) ==
    /\ At(r, "validating")
    /\ PublishableRun(runs[Published(r)])
    /\ requests' = Goes(r, "committing")
    /\ UNCHANGED serviceVars /\ UnchangedByServices

\* The response, once nothing is left to purge; the publish route has a digest to send.
Respond(r) ==
    LET mails == requests[r].via = "http" /\ requests[r].op = "publish"
                 /\ requests[r].scope \in LowerScopes /\ NewsletterConfigured
    IN  [requests EXCEPT ![r].status = 201, ![r].batch = 0, ![r].step = IF mails THEN "digesting" ELSE "done"]
Released(r, snapshot) ==
    LET known == [requests EXCEPT ![r].released = snapshot, ![r].step = "purging", ![r].batch = 1]
    IN  requests' = IF CloudflareConfigured THEN known
                    ELSE [Respond(r) EXCEPT ![r].released = snapshot]
Commit(r) ==
    /\ At(r, "committing")
    /\ PublishTransaction(requests[r].scope, Published(r), r)
    /\ Released(r, Len(publications) + 1)
    /\ UnchangedByServices
Restore(r) ==
    /\ At(r, "restoring")
    /\ InsertRollback(requests[r].scope, requests[r].target, r)
    /\ Released(r, publications[requests[r].target].snapshot)
    /\ UnchangedByServices

\* A step throws, and the state of the run is what its catch makes of it.
StepFails(r) ==
    /\ requests[r].step \in {"capturing", "copying", "building", "validating", "committing", "restoring"}
    /\ requests' = Closed(r, 500)
    /\ IF requests[r].run = None THEN UNCHANGED serviceVars
       ELSE \E stored \in {{}, {"raw"}, {"raw", "candidate"}} :
              /\ requests[r].step # "building" => stored = {"raw", "candidate"}
              /\ FailRun(requests[r].run, stored)
    /\ UnchangedByServices

\* One purge call, answered or not: a call that failed three times may have been
\* carried out.  It stops the batches after it, and fails the replay it is part of.
\* What it removes may be served for a while yet (release-verification.ts:173-175), and
\* an answer on its way to Cloudflare is kept when it arrives after the purge.
PurgeBatch(r) ==
    /\ At(r, "purging")
    /\ LET q == requests[r]
           batch == BatchOf(q.scope, q.released, q.batch)
           purged == {copy \in edge : copy.path \in batch}
       IN  \E carriedOut, succeeds \in BOOLEAN :
             /\ succeeds => carriedOut
             /\ IF carriedOut
                THEN /\ edge' = edge \ purged
                     /\ leaving' = leaving \cup purged
                     /\ fill' = {[copy EXCEPT !.overtaken = @ \/ copy.path \in batch] : copy \in fill}
                ELSE UNCHANGED <<edge, leaving, fill>>
             /\ requests' = IF ~succeeds THEN Closed(r, 500)
                            ELSE IF q.batch = Batches(q.scope, q.released) THEN Respond(r)
                            ELSE [requests EXCEPT ![r].batch = @ + 1]
             /\ IF ~succeeds /\ q.run # None THEN FailRun(q.run, {}) ELSE UNCHANGED serviceVars
    /\ UNCHANGED <<digests, restarts, freeze>>

\* The publish route reads the active snapshot again for the mail.
DigestOfDefault(scope) == GetPublishedSnapshot(DefaultState)
DigestSource(scope) == GetPublishedSnapshot(scope)
StartDigest(r) ==
    /\ At(r, "digesting")
    /\ digests' = digests \cup {[request |-> r, snapshot |-> DigestSource(requests[r].scope)]}
    /\ requests' = Goes(r, "done")
    /\ UNCHANGED <<serviceVars, edge, leaving, fill, restarts, freeze>>

-----------------------------------------------------------------------------
(* The world around the handlers *)

Send(command) ==
    /\ requests' = Append(requests, Request(command, Finished))
    /\ UnchangedButRequests

\* A deploy, or a crash: the handlers of the old process are gone with it.
\* (Bound: it happens while a handler runs, where it cuts something short.)
Restart ==
    /\ restarts < MaxRestarts
    /\ \E r \in DOMAIN requests : requests[r].via = "http" /\ ~At(r, "done")
    /\ restarts' = restarts + 1
    /\ freeze' \in BOOLEAN
    /\ requests' = [r \in DOMAIN requests |->
          IF requests[r].via = "http" /\ requests[r].step # "done" THEN [requests[r] EXCEPT !.step = "done", !.batch = 0]
          ELSE requests[r]]
    /\ UNCHANGED <<serviceVars, edge, leaving, fill, digests>>

\* What the site answers with, as Cloudflare may keep it; "overtaken": the path was
\* purged between the answer and its arrival.
Answer(path) ==
    [path |-> path, snapshot |-> Router(path).snapshot, noStore |-> NoStore(path), overtaken |-> FALSE]
Keeps(path) == NoStore(path) => path \in KeptAnyway

\* A visitor's request passes through Cloudflare, which may keep the answer.
FillRead(path) ==
    /\ fill = {} /\ Keeps(path)
    /\ \A copy \in edge : copy.path # path
    /\ Router(path).status = 200
    /\ fill' = {Answer(path)}
    /\ UNCHANGED <<serviceVars, requests, edge, leaving, digests, restarts, freeze>>
FillArrives ==
    /\ fill # {}
    /\ edge' = {copy \in edge : \A new \in fill : copy.path # new.path} \cup fill
    /\ fill' = {}
    /\ UNCHANGED <<serviceVars, requests, leaving, digests, restarts, freeze>>
\* The purge has reached every place.
PurgeSpreads ==
    /\ leaving # {}
    /\ leaving' = {}
    /\ UNCHANGED <<serviceVars, requests, edge, fill, digests, restarts, freeze>>

=============================================================================
