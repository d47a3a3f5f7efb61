----------------------------- MODULE PublicRoutes -----------------------------
(***************************************************************************)
(* The public site's addresses, twice: as the route builders write them    *)
(* into pages, purges and checks, and as the router answers them.  A path  *)
(* is the sequence of its segments; <<"data", "districts", d, "csv">> is   *)
(* /data/districts/d.csv.  An answer is its status and the snapshot it     *)
(* shows (None for a fixed text).                                          *)
(***************************************************************************)
EXTENDS CourtServices

CONSTANTS DefaultState,  \* Himachal Pradesh, whose pages have no prefix
          SlugOf         \* of each scope
ASSUME RoutesAssumption ==
    /\ DefaultState \in LowerScopes
    /\ \A s, t \in Scopes : SlugOf[s] = SlugOf[t] => s = t
    /\ \A s \in Scopes : SlugOf[s] # "himachal"

-----------------------------------------------------------------------------
(* The builders *)

HtmlBase(scope) == IF scope = DefaultState THEN <<>> ELSE <<"states", SlugOf[scope]>>
StateHome(scope) == <<"states", IF scope = DefaultState THEN "himachal" ELSE SlugOf[scope]>>
ApiBase(scope, what) ==
    IF scope # DefaultState THEN <<"v1", "states", SlugOf[scope], what>>
    ELSE IF what = "stats" THEN <<"v1", "stats", "himachal">> ELSE <<"v1", what>>

BuildPublicStateRoutes(scope) ==
    LET at(rest) == HtmlBase(scope) \o rest
    IN  [home |-> StateHome(scope), districts |-> at(<<"districts">>), movers |-> at(<<"movers">>),
         data |-> at(<<"data">>), stateEvidencePack |-> at(<<"data", "evidence", "state.json">>),
         districtsCsv |-> at(<<"data", "districts.csv">>), methodology |-> at(<<"methodology">>),
         api |-> IF scope = DefaultState THEN <<"states", "himachal", "api">> ELSE at(<<"api">>),
         stats |-> ApiBase(scope, "stats"), districtsApi |-> ApiBase(scope, "districts"),
         trends |-> ApiBase(scope, "trends")]
DistrictRoute(scope, d) == HtmlBase(scope) \o <<"districts", d>>
DistrictCsvRoute(scope, d) == HtmlBase(scope) \o <<"data", "districts", d, "csv">>
DistrictEvidenceRoute(scope, d) == HtmlBase(scope) \o <<"data", "evidence", "districts", d, "json">>
CompareRoute(scope, d, e) == HtmlBase(scope) \o <<"compare", d, e>>

BuildPublicHighCourtRoutes(court) ==
    LET base == <<"high-courts", SlugOf[court]>>
    IN  [index |-> <<"high-courts">>, home |-> base, methodology |-> base \o <<"methodology">>,
         api |-> base \o <<"api">>, data |-> base \o <<"data">>,
         stats |-> <<"v1">> \o base \o <<"stats">>, trends |-> <<"v1">> \o base \o <<"trends">>]
BuildPublicSupremeCourtRoutes ==
    LET base == <<"supreme-court">>
    IN  [home |-> base, methodology |-> base \o <<"methodology">>, api |-> base \o <<"api">>,
         data |-> base \o <<"data">>, stats |-> <<"v1">> \o base \o <<"stats">>,
         trends |-> <<"v1">> \o base \o <<"trends">>]

RoutesIn(routes) == {routes[name] : name \in DOMAIN routes}

\* The switchers list the geography shown and every other with a release.
ListAvailablePublicProfiles(shown) ==
    {s \in LowerScopes : s \in shown \/ GetPublishedSnapshot(s) # None}
ListAvailableHighCourts(shown) ==
    {c \in HighCourts : c \in shown \/ GetPublishedSnapshot(c) # None}

-----------------------------------------------------------------------------
(* The router *)

Refused(status) == [status |-> status, snapshot |-> None]
Shows(snapshot) == [status |-> 200, snapshot |-> snapshot]
NotRouted == Refused(404)

\* A page of the active snapshot, or the status its handler gives without one.
OfSnapshot(scope, missing) ==
    IF GetPublishedSnapshot(scope) = None THEN Refused(missing) ELSE Shows(GetPublishedSnapshot(scope))
\* A page of districts of the active snapshot.
OfDistricts(scope, districts, missing) ==
    LET snapshot == GetPublishedSnapshot(scope)
    IN  IF snapshot = None THEN Refused(missing)
        ELSE IF districts \subseteq DistrictsIn(snapshot) THEN Shows(snapshot) ELSE Refused(404)

\* The one member of a set of at most one scope decides; no member is a 404.
Only(scopes) == CHOOSE s \in scopes : TRUE
ResolveStateBySlug(slug) == {s \in LowerScopes : SlugOf[s] = slug}
ResolvePublicState(slug) == IF slug = "himachal" THEN {DefaultState} ELSE {s \in LowerScopes : SlugOf[s] = slug}
ResolveHighCourt(slug) == {c \in HighCourts : SlugOf[c] = slug}

\* /v1/states/:stateSlug/stats, /districts, /trends
StateData(scope, rest) ==
    IF rest \in {<<"stats">>, <<"districts">>, <<"trends">>} THEN OfSnapshot(scope, 404) ELSE NotRouted
HighCourtData(court, rest) ==
    IF rest \in {<<"stats">>, <<"trends">>} THEN OfSnapshot(court, 404) ELSE NotRouted
SupremeCourtData(rest) ==
    IF rest \in {<<"stats">>, <<"trends">>} THEN OfSnapshot(SupremeCourt, 404) ELSE NotRouted
\* The three routes without a geography in them.
DefaultData(rest) ==
    IF rest \in {<<"stats", "himachal">>, <<"districts">>, <<"trends">>} THEN OfSnapshot(DefaultState, 404) ELSE NotRouted

\* rest: what follows the geography's prefix, from here on not empty.
Downloads(scope, rest) ==
    CASE rest \in {<<"data", "districts.csv">>, <<"data", "evidence", "state.json">>} -> OfSnapshot(scope, 404)
      [] Len(rest) = 4 /\ rest[2] = "districts" -> OfDistricts(scope, {rest[3]}, 404)
      [] Len(rest) = 5 /\ rest[3] = "districts" -> OfDistricts(scope, {rest[4]}, 404)
      [] OTHER -> NotRouted
DistrictPages(scope, rest) ==
    CASE Len(rest) = 1 -> OfSnapshot(scope, 503)
      [] Len(rest) = 2 -> OfDistricts(scope, {rest[2]}, 404)
      [] OTHER -> NotRouted
Compare(scope, rest) == IF Len(rest) = 3 THEN OfDistricts(scope, {rest[2], rest[3]}, 503) ELSE NotRouted
\* Without two snapshots the page says so and is served all the same.
Movers(scope) == Shows(GetPublishedSnapshot(scope))
DistrictEmbeds(scope, rest) == IF Len(rest) = 3 THEN OfDistricts(scope, {rest[3]}, 404) ELSE NotRouted
DataPage(scope) == OfSnapshot(scope, 503)
\* Served without a snapshot, too; the API page shows none.
ReferencePages(scope, page) == Shows(IF page = "methodology" THEN GetPublishedSnapshot(scope) ELSE None)

StatePages(scope, rest) ==
    CASE rest = <<"data">> -> DataPage(scope)
      [] rest[1] = "data" /\ Len(rest) > 1 -> Downloads(scope, rest)
      [] rest[1] = "districts" -> DistrictPages(scope, rest)
      [] rest[1] = "compare" -> Compare(scope, rest)
      [] rest[1] = "embed" -> DistrictEmbeds(scope, rest)
      [] rest = <<"movers">> -> Movers(scope)
      [] rest \in {<<"methodology">>, <<"api">>} -> ReferencePages(scope, rest[1])
      [] OTHER -> NotRouted

\* /states/:stateSlug itself and the feed, which have no counterpart at the root.
UnderStates(scope, rest) ==
    CASE rest = <<>> -> OfSnapshot(scope, 503)
      [] rest = <<"feed.xml">> -> Shows(GetPublishedSnapshot(scope))
      [] OTHER -> StatePages(scope, rest)

CourtPages(court, rest) ==
    CASE rest \in {<<>>, <<"data">>} -> OfSnapshot(court, 503)
      [] rest = <<"methodology">> -> Shows(GetPublishedSnapshot(court))
      [] rest = <<"api">> -> Shows(None)
      [] OTHER -> NotRouted
HighCourtIndex == IF ListAvailableHighCourts({}) = {} THEN Refused(404) ELSE Shows(None)
WatchroomPages == IF ListAvailablePublicProfiles({}) = {} THEN Refused(503) ELSE Shows(None)
StateEmbed(scope) == OfSnapshot(scope, 404)

\* The national card is the Supreme Court's, or else of every state released.
NationalCard ==
    IF GetPublishedSnapshot(SupremeCourt) # None THEN OfSnapshot(SupremeCourt, 404)
    ELSE IF ListAvailablePublicProfiles({}) = {} THEN Refused(404) ELSE Shows(None)
\* A district's card is looked for in the default state, whatever state shows it.
\* (The square cards' routes follow ones that match all their addresses.)
DistrictCard(d) == OfDistricts(DefaultState, {d}, 404)
ResolveCard(slug, scopes) == {s \in scopes : SlugOf[s] = slug}
ShareCards(rest) ==
    LET found == ResolveCard(rest[2], IF rest[1] = "state" THEN LowerScopes ELSE HighCourts)
    IN  CASE rest = <<"national", "png">> -> NationalCard
          [] rest = <<"home", "png">> -> OfSnapshot(DefaultState, 404)
          [] rest = <<"supreme-court", "png">> -> OfSnapshot(SupremeCourt, 404)
          [] rest[1] = "district" -> DistrictCard(rest[2])
          [] rest[1] \in {"state", "high-court"} /\ found # {} -> OfSnapshot(Only(found), 404)
          [] OTHER -> NotRouted

Router(path) ==
    LET head == IF path = <<>> THEN "/" ELSE path[1]
        under(n) == SubSeq(path, n + 1, Len(path))
    IN  CASE head = "/" -> OfSnapshot(DefaultState, 503)
          [] head = "v1" /\ Len(path) = 4 /\ path[2] = "states" ->
                 LET found == ResolvePublicState(path[3])
                 IN  IF found = {} THEN NotRouted ELSE StateData(Only(found), under(3))
          [] head = "v1" /\ Len(path) = 4 /\ path[2] = "high-courts" ->
                 LET found == ResolveHighCourt(path[3])
                 IN  IF found = {} THEN NotRouted ELSE HighCourtData(Only(found), under(3))
          [] head = "v1" /\ Len(path) = 3 /\ path[2] = "supreme-court" -> SupremeCourtData(under(2))
          [] head = "states" /\ Len(path) > 1 ->
                 LET found == ResolvePublicState(path[2])
                 IN  IF found = {} THEN NotRouted ELSE UnderStates(Only(found), under(2))
          [] head = "embed" /\ Len(path) = 3 /\ path[2] = "state" ->
                 LET found == ResolvePublicState(path[3])
                 IN  IF found = {} THEN NotRouted ELSE StateEmbed(Only(found))
          [] head = "high-courts" /\ Len(path) > 1 ->
                 LET found == ResolveHighCourt(path[2])
                 IN  IF found = {} THEN NotRouted ELSE CourtPages(Only(found), under(2))
          [] head = "supreme-court" -> CourtPages(SupremeCourt, under(1))
          [] path = <<"high-courts">> -> HighCourtIndex
          [] head = "watch" -> WatchroomPages
          [] head = "og" /\ Len(path) > 2 -> ShareCards(under(1))
          [] head \in {"learn", "press", "sitemap.xml"} -> Shows(None)
          [] head = "v1" /\ Len(path) \in {2, 3} /\ path[2] # "supreme-court" -> DefaultData(under(1))
          [] OTHER -> StatePages(DefaultState, path)

-----------------------------------------------------------------------------
(* applyPublishedDataCacheHeaders: the answers no cache may keep *)

NoStore(path) ==
    LET rest == CASE path # <<>> /\ path[1] \in {"states", "high-courts"} -> SubSeq(path, 3, Len(path))
                  [] path # <<>> /\ path[1] = "supreme-court" -> Tail(path)
                  [] OTHER -> path
    IN  rest # <<>> /\ rest[1] = "data"

=============================================================================
