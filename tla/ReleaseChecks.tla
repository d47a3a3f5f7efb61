----------------------------- MODULE ReleaseChecks -----------------------------
(***************************************************************************)
(* A release from the outside: the operators' requests (OperatorApi), and  *)
(* the scripts that fetch the public site before and after, compare what   *)
(* they were given, and write the release's evidence.                      *)
(***************************************************************************)
EXTENDS OperatorApi, SiteLinks

CONSTANTS MaxInvocations,  \* requests and checks
          CheckedScopes,   \* the scopes that are verified
          Beginnings       \* the tables and the copies at Cloudflare to start from

\* The rows of the tables, and what operators may ask: there is no route that purges.
District == UNION (Captures \cup UNION {{b.runs[r].districts : r \in DOMAIN b.runs} : b \in Beginnings})
RunRow == [scope : Scopes, status : Statuses, quality : Qualities, artifacts : SUBSET {"raw", "candidate"},
           districts : SUBSET District, replayOf : Nat, by : Nat]
PublicationRow == [scope : Scopes, action : {"publish", "rollback"}, run : Nat, snapshot : Nat, by : Nat]
Command == [via : {"http", "cli"}, op : Operations, scope : Scopes, target : Nat, token : BOOLEAN]
ASSUME DistrictsAssumption == IsFiniteSet(District)
ASSUME CommandsAssumption ==
    /\ Commands \subseteq Command
    /\ \A command \in Commands : command.op = "purge" => command.via = "cli"

\* A publication is of a run of its scope that is no longer pending or completed, and
\* shows the snapshot that a publish of that run inserted; no run was released twice
\* before the operators came.
ASSUME BeginningsAssumption ==
    \A b \in Beginnings :
      /\ b.runs \in Seq(RunRow) /\ b.publications \in Seq(PublicationRow)
      /\ \A r \in DOMAIN b.runs : b.runs[r].by = None
      /\ \A p \in DOMAIN b.publications :
           LET row == b.publications[p]
           IN  /\ row.by = None
               /\ row.run \in DOMAIN b.runs /\ row.scope = b.runs[row.run].scope
               /\ row.snapshot \in DOMAIN b.publications
               /\ b.publications[row.snapshot].action = "publish" /\ b.publications[row.snapshot].run = row.run
               /\ row.action = "publish" => b.runs[row.run].status \notin {"pending", "completed"}
      /\ \A p, q \in DOMAIN b.publications :
           LET row == b.publications[p] other == b.publications[q]
           IN  row.action = "publish" /\ other.action = "publish" /\ row.run = other.run => p = q

\* The default state has been live from the start (docs/OPERATING_EVIDENCE.md:7), and
\* nothing takes a release away.
ASSUME DefaultStateAssumption ==
    \A b \in Beginnings : \E p \in DOMAIN b.publications : b.publications[p].scope = DefaultState

\* A state's statistics pass through Cloudflare uncopied: its releases do not purge them.
ASSUME UncopiedAssumption ==
    \A scope \in LowerScopes :
      LET stats == BuildPublicStateRoutes(scope).stats
      IN  /\ stats \notin FillPaths
          /\ \A b \in Beginnings : \A copy \in b.copies : copy.path # stats

VARIABLES checks,   \* one record for each run of a script
          evidence  \* what postpublish wrote: the publication and the snapshot verified
vars == <<runs, publications, requests, edge, leaving, fill, digests, restarts, freeze, checks, evidence>>

Unread == -1
\* resolveReleaseTarget: the routes of the target, by the name of the answer.
TargetPaths(scope) ==
    IF scope \in HighCourts THEN
        LET routes == BuildPublicHighCourtRoutes(scope)
        IN  [stats |-> routes.stats, trends |-> routes.trends, data |-> routes.data]
    ELSE IF scope = SupremeCourt THEN
        LET routes == BuildPublicSupremeCourtRoutes
        IN  [stats |-> routes.stats, trends |-> routes.trends, data |-> routes.data]
    ELSE LET routes == BuildPublicStateRoutes(scope)
         IN  [stats |-> routes.stats, districts |-> routes.districtsApi, trends |-> routes.trends,
              data |-> routes.data, csv |-> routes.districtsCsv]

\* What a fetch of the path may be given: Cloudflare's copy, or the site's answer if
\* it has none; or, where the last purge has not got to, the copy that it removed.
Passes(path) == \A copy \in edge : copy.path # path
AnswersTo(path) ==
    {copy \in edge \cup leaving : copy.path = path}
    \cup (IF Passes(path) /\ Router(path).status = 200 THEN {Answer(path)} ELSE {})

-----------------------------------------------------------------------------
(* The scripts *)

\* "since": how many publications there were when the script looked at them.
StartCheck(kind, scope, target) ==
    /\ checks' = Append(checks, [kind |-> kind, scope |-> scope, target |-> target, since |-> Len(publications),
                                 seen |-> [name \in DOMAIN TargetPaths(scope) |-> Unread],
                                 retried |-> FALSE, verdict |-> "open"])
    /\ UNCHANGED <<serviceVars, apiVars, evidence>>
Verify(scope) == StartCheck("verify", scope, None)
\* buildPrepublishSummary wants a completed run with its candidate.
Prepublish(scope, run) ==
    /\ \E row \in InspectRun(scope, run) : row.status = "completed" /\ "candidate" \in row.artifacts
    /\ StartCheck("verify", scope, None)
\* buildPostpublishSummary wants the active publication.
IsActive(scope, publication) == publication = LatestPublication(scope)
Postpublish(scope, publication) ==
    /\ publication \in PublicationsOf(scope) /\ IsActive(scope, publication)
    /\ StartCheck("postpublish", scope, publication)

Fail(c) == [checks EXCEPT ![c].verdict = "failed"]
\* One of the parallel fetches, of a page that must have the no-store headers
\* (assertCacheProtection) or of any other.
Fetch(c, name) ==
    /\ checks[c].verdict = "open" /\ checks[c].seen[name] = Unread
    /\ LET path == TargetPaths(checks[c].scope)[name]
       IN  \/ \E answer \in AnswersTo(path) :
                checks' = IF name \in {"data", "csv"} /\ ~answer.noStore THEN Fail(c)
                          ELSE [checks EXCEPT ![c].seen[name] = answer.snapshot]
           \/ Passes(path) /\ Router(path).status # 200 /\ checks' = Fail(c)
    /\ UNCHANGED <<serviceVars, apiVars, evidence>>

\* The answers whose metadata is compared with that of the statistics.
ComparedButTrends(seen) == DOMAIN seen \cap {"districts"}
Compared(seen) == DOMAIN seen \cap {"districts", "trends"}
Matching(seen) == \A name \in Compared(seen) : seen[name] = seen["stats"]
HasCsv(c) == "csv" \in DOMAIN checks[c].seen

\* All have been read: the verdict, or one more look at a CSV that lags behind.
Assess(c) ==
    /\ checks[c].verdict = "open"
    /\ \A name \in DOMAIN checks[c].seen : checks[c].seen[name] # Unread
    /\ LET check == checks[c]
           lags == HasCsv(c) /\ check.seen["csv"] # check.seen["stats"]
           passes == Matching(check.seen) /\ ~lags
       IN  /\ checks' = IF Matching(check.seen) /\ lags /\ ~check.retried
                        THEN [checks EXCEPT ![c].seen["csv"] = Unread, ![c].retried = TRUE]
                        ELSE [checks EXCEPT ![c].verdict = IF passes THEN "passed" ELSE "failed"]
           /\ evidence' = IF passes /\ check.kind = "postpublish"
                          THEN evidence \cup {[check |-> c, publication |-> check.target, snapshot |-> check.seen["stats"]]}
                          ELSE evidence
    /\ UNCHANGED <<serviceVars, apiVars>>

-----------------------------------------------------------------------------
(* The specification *)

MayInvoke == Len(requests) + Len(checks) < MaxInvocations
Operator == MayInvoke /\ (\E command \in Commands : Send(command)) /\ UNCHANGED <<checks, evidence>>
Handler ==
    /\ \E r \in DOMAIN requests :
         \/ LowerDispatch(r) \/ HighCourtDispatch(r) \/ SupremeCourtDispatch(r) \/ CliDispatch(r)
         \/ Capture(r) \/ CopyRawCapture(r) \/ BuildCandidate(r) \/ Validate(r) \/ Commit(r) \/ Restore(r)
         \/ StepFails(r) \/ PurgeBatch(r) \/ StartDigest(r)
    /\ UNCHANGED <<checks, evidence>>
Surroundings ==
    /\ Restart \/ FillArrives \/ PurgeSpreads \/ \E path \in FillPaths : FillRead(path)
    /\ UNCHANGED <<checks, evidence>>
Script ==
    \/ /\ MayInvoke
       /\ \E scope \in CheckedScopes :
            \/ Verify(scope)
            \/ scope \in LowerScopes /\ \E run \in DOMAIN runs : Prepublish(scope, run)
            \/ scope \in LowerScopes /\ \E p \in DOMAIN publications : Postpublish(scope, p)
    \/ \E c \in DOMAIN checks : Assess(c) \/ \E name \in DOMAIN checks[c].seen : Fetch(c, name)
Next == Operator \/ Handler \/ Surroundings \/ Script

Init ==
    /\ \E beginning \in Beginnings :
         /\ runs = beginning.runs /\ publications = beginning.publications /\ edge = beginning.copies
    /\ requests = <<>> /\ leaving = {} /\ fill = {} /\ digests = {} /\ restarts = 0 /\ freeze = FALSE
    /\ checks = <<>> /\ evidence = {}
Spec == Init /\ [][Next]_vars

-----------------------------------------------------------------------------
(* Properties *)

PublishedBy(r) == {p \in DOMAIN publications : publications[p].by = r}
RunsBy(r) == {i \in DOMAIN runs : runs[i].by = r}
\* What a command may have done, and has done when its caller is told 201.
EffectOf(r, p) ==
    LET q == requests[r] row == publications[p]
    IN  /\ row.scope = q.scope /\ row.scope = runs[row.run].scope
        /\ CASE q.op = "publish" -> row.action = "publish" /\ row.run = q.target
             [] q.op = "replay" -> row.action = "publish" /\ runs[row.run].replayOf = q.target
             [] q.op = "rollback" -> row.action = "rollback" /\ row.snapshot = publications[q.target].snapshot
             [] OTHER -> FALSE

(* An operator who is told 401, 404 or 503 has changed nothing; one who is told     *)
(* 201 has made the one publication (or the one completed capture) asked for, in    *)
(* its own court; and a run is released twice only by handlers that overlapped:     *)
(* a retry sent after the answer, or after a restart, does not release it again.    *)
OperatorIsToldTheTruth ==
    /\ \A r \in DOMAIN requests :
         /\ requests[r].status \in {200, 401, 404, 503} => PublishedBy(r) = {} /\ RunsBy(r) = {}
         /\ Cardinality(PublishedBy(r)) <= 1
         /\ \A p \in PublishedBy(r) : EffectOf(r, p)
         /\ requests[r].status = 201 /\ requests[r].op \in {"publish", "replay", "rollback"} => PublishedBy(r) # {}
         /\ requests[r].status = 201 /\ requests[r].op = "fetch" =>
              \E i \in RunsBy(r) : runs[i].scope = requests[r].scope /\ runs[i].artifacts = {"raw", "candidate"}
    /\ \A p, q \in DOMAIN publications :
         /\ publications[p].action = "publish" /\ publications[q].action = "publish"
         /\ publications[p].run = publications[q].run /\ p < q
         => publications[q].by # None /\ publications[p].by # None
            /\ publications[p].by \notin requests[publications[q].by].after

(* The mail of a publication shows that publication, or one released in the same    *)
(* state after it; and only a publication that was answered is mailed, once.        *)
DigestIsOfTheRelease ==
    /\ \A d \in digests :
         /\ requests[d.request].status = 201
         /\ \E p \in PublishedBy(d.request) :
              \/ d.snapshot = publications[p].snapshot
              \/ \E later \in DOMAIN publications :
                   later > p /\ publications[later].scope = publications[p].scope /\ publications[later].snapshot = d.snapshot
    /\ \A d, e \in digests : d.request = e.request => d = e

(* Once a release is answered, Cloudflare keeps no copy of the geography's downloads, *)
(* of the state or of a district it shows, nor does one come back; where it keeps    *)
(* copies that were sent with no-store, they are of this release or of a later one.  *)
(* Two kinds of older copy are excepted: the removed ones that are still served until *)
(* the purge has spread, and an answer that was on its way when the purge overtook   *)
(* it, which the purge cannot remove.                                                *)
DownloadsOf(scope, snapshot) ==
    {path \in DataPageLinks(scope) : NoStore(path)} \cup {BuildPublicStateRoutes(scope).data}
    \cup UNION {{DistrictCsvRoute(scope, d), DistrictEvidenceRoute(scope, d)} : d \in DistrictsIn(snapshot)}
ReleasedSince(r, snapshot) ==
    \E p \in PublishedBy(r), later \in DOMAIN publications :
      later >= p /\ publications[later].scope = requests[r].scope /\ publications[later].snapshot = snapshot
Excused(r, copy) == copy.path \in KeptAnyway /\ (copy.overtaken \/ ReleasedSince(r, copy.snapshot))
DownloadsAreFresh ==
    \A r \in DOMAIN requests :
      /\ edge \cup fill # {} /\ CloudflareConfigured
      /\ requests[r].status = 201 /\ requests[r].released # None /\ requests[r].scope \in LowerScopes
      => \A copy \in edge \cup fill :
           copy.path \in DownloadsOf(requests[r].scope, requests[r].released) => Excused(r, copy)

(* A verification that passed was given one snapshot by every answer it reports; and *)
(* the evidence of a publication is of the snapshot it released, unless another      *)
(* release of the state landed while the site was being read.                        *)
PassedVerificationIsOfOneSnapshot ==
    /\ \A c \in DOMAIN checks : checks[c].verdict = "passed" =>
         \A name \in DOMAIN checks[c].seen \ {"data"} : checks[c].seen[name] = checks[c].seen["stats"]
    /\ \A e \in evidence :
         \/ e.snapshot = publications[e.publication].snapshot
         \/ \E later \in DOMAIN publications :
              later > checks[e.check].since /\ publications[later].scope = checks[e.check].scope
                /\ publications[later].snapshot = e.snapshot

(* Whatever is released, each page of the site is answered and so is every address it *)
(* links to, but for the fixed links to a tier that has no release; so is every       *)
(* address a release purges and a verification reads, the ones that carry data with   *)
(* the geography's own active snapshot; and a reader gets to the home of everything   *)
(* released from the front page or the courts' index, and to all of a state's pages.  *)
LinksToNothingReleased ==
    (IF Snapshot(SupremeCourt) = None THEN RoutesIn(BuildPublicSupremeCourtRoutes) ELSE {})
    \cup (IF ListAvailableHighCourts({}) = {} THEN {<<"high-courts">>} ELSE {})
SiteHolds ==
    LET pages == SitePages
        links == UNION {page.links : page \in pages}
        entries == NationalHome.links \cup (IF <<"high-courts">> \in LinksToNothingReleased THEN {} ELSE HighCourtsIndexPage.links)
        released == ListAvailablePublicProfiles({})
        homes == {StateHome(s) : s \in released} \cup {BuildPublicHighCourtRoutes(c).home : c \in ListAvailableHighCourts({})}
        own == UNION {PagesOfState(s) \ ForOtherSites(s) : s \in released}
    IN  /\ \A page \in pages : Router(page.path).status = 200
        /\ \A link \in links \ LinksToNothingReleased : Router(link).status = 200
        /\ homes \subseteq entries \cap Sitemap
        /\ {page.path : page \in own} \subseteq links \cup Sitemap
BuiltRoutesAnswer ==
    /\ SiteHolds
    /\ \A scope \in Scopes : GetPublishedSnapshot(scope) # None =>
         LET active == GetPublishedSnapshot(scope)
             purged == PurgeList(scope, active)
             own == TargetPaths(scope)
         IN  /\ \A i \in DOMAIN purged : Router(purged[i]).status = 200
             /\ \A name \in DOMAIN own : Router(own[name]) = Shows(active)
             /\ scope \in LowerScopes => Router(BuildPublicStateRoutes(scope).home) = Shows(active)
\* (What is shown depends on the publications alone, so it is looked at when the last
\* handler has released and ended, and not beside the scripts, Cloudflare and restarts.)
AtRest ==
    /\ checks = <<>> /\ edge \cup leaving \cup fill = {} /\ restarts = 0
    /\ \A r \in DOMAIN requests : requests[r].step = "done"
    /\ requests # <<>> /\ requests[Len(requests)].released # None
ReleasedRoutesAnswer == AtRest => BuiltRoutesAnswer

=============================================================================
