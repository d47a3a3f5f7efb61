------------------------------- MODULE SiteLinks -------------------------------
(***************************************************************************)
(* The site as its readers walk it: which page links to which addresses.   *)
(* A page that puts "the top district" or "the biggest mover" first may    *)
(* have chosen any district of its snapshot; the links of all are given.   *)
(* Links to a place within a page are those of the page.                   *)
(***************************************************************************)
EXTENDS PublicRoutes

Page(path, links) == [path |-> path, links |-> links]
Snapshot(scope) == GetPublishedSnapshot(scope)
Shown(scope) == DistrictsIn(Snapshot(scope))
Root == <<>>
Watchrooms == {<<"watch", room>> : room \in {"old-case-burden", "persistent-pressure", "backlog-concentration"}}

-----------------------------------------------------------------------------
(* renderPageShell: the brand, the navigation and the colophon *)

\* The navigation of a page that names no geography is the default state's.
DefaultNav == {<<"districts">>, <<"data">>, <<"methodology">>, <<"api">>, <<"learn">>}
Shell(nav) == {Root, <<"learn">>, <<"press">>} \cup nav

StateNav(scope) ==
    LET routes == BuildPublicStateRoutes(scope)
    IN  {routes.districts, routes.data, routes.methodology, routes.api}
StateShell(scope) ==
    Shell(StateNav(scope)) \cup {StateHome(s) : s \in ListAvailablePublicProfiles({scope})}
HighCourtShell(court) ==
    LET routes == BuildPublicHighCourtRoutes(court)
    IN  Shell({routes.home, routes.data, routes.methodology, routes.api})
        \cup {BuildPublicHighCourtRoutes(c).home : c \in ListAvailableHighCourts({court})}
SupremeCourtShell ==
    LET routes == BuildPublicSupremeCourtRoutes
    IN  Shell({routes.home, routes.data, routes.methodology, routes.api})

-----------------------------------------------------------------------------
(* The pages of a state *)

\* Evidence and comparisons are linked for any district shown, any two of them.
EvidenceOf(scope, d) ==
    {DistrictRoute(scope, d), DistrictCsvRoute(scope, d), DistrictEvidenceRoute(scope, d)}
Comparisons(scope) ==
    {CompareRoute(scope, pair[1], pair[2]) : pair \in {p \in Shown(scope) \X Shown(scope) : p[1] # p[2]}}

StateHomePage(scope) ==
    LET routes == BuildPublicStateRoutes(scope)
    IN  Page(routes.home, StateShell(scope) \cup {routes.movers, <<"og", "state", SlugOf[scope], "png">>}
                          \cup {DistrictRoute(scope, d) : d \in Shown(scope)})
DistrictsPage(scope) ==
    LET routes == BuildPublicStateRoutes(scope)
    IN  Page(routes.districts, StateShell(scope) \cup {routes.movers, routes.districtsCsv} \cup Comparisons(scope)
                               \cup {DistrictRoute(scope, d) : d \in Shown(scope)})
\* Its card is left to DistrictCard.
DistrictPage(scope, d) ==
    LET routes == BuildPublicStateRoutes(scope)
    IN  Page(DistrictRoute(scope, d), StateShell(scope) \cup EvidenceOf(scope, d)
                                      \cup {routes.movers, routes.stateEvidencePack, routes.districtsCsv})
MoversPage(scope) ==
    LET routes == BuildPublicStateRoutes(scope)
    IN  Page(routes.movers, StateShell(scope) \cup Comparisons(scope)
                            \cup {routes.movers, routes.stateEvidencePack, routes.data}
                            \cup UNION {EvidenceOf(scope, d) : d \in Shown(scope)})
ComparePages(scope) ==
    LET routes == BuildPublicStateRoutes(scope)
    IN  {Page(path, StateShell(scope) \cup {path, routes.movers, routes.stateEvidencePack}
                    \cup UNION {EvidenceOf(scope, d) : d \in Shown(scope)}) : path \in Comparisons(scope)}
DataPageLinks(scope) ==
    LET routes == BuildPublicStateRoutes(scope)
    IN  {routes.districtsCsv, routes.stats, routes.api, routes.stateEvidencePack}
ApiPageLinks(scope) ==
    LET routes == BuildPublicStateRoutes(scope)
    IN  {routes.stats, routes.districtsApi, routes.trends, routes.districtsCsv}
\* The two packs are JSON; what they name is followed as well.
StatePack(scope) ==
    LET routes == BuildPublicStateRoutes(scope)
    IN  Page(routes.stateEvidencePack,
             (RoutesIn(routes) \cup Comparisons(scope)) \cup UNION {EvidenceOf(scope, d) : d \in Shown(scope)})
DistrictPack(scope, d) ==
    LET routes == BuildPublicStateRoutes(scope)
    IN  Page(DistrictEvidenceRoute(scope, d),
             EvidenceOf(scope, d) \cup (RoutesIn(routes) \ {routes.home, routes.districts, routes.movers}))
\* The feed's items and the widgets lead back to the geography's pages.
Feed(scope) == Page(<<"states", SlugOf[scope], "feed.xml">>, {<<"states", SlugOf[scope]>>})
StateEmbedLinks(scope) ==
    Page(<<"embed", "state", SlugOf[scope]>>, {StateHome(scope)})
DistrictEmbedLinks(scope, d) ==
    Page(<<"states", SlugOf[scope], "embed", "district", d>>, {DistrictRoute(scope, d)})

\* The feed and the widgets are addressed by other sites, and linked from none.
ForOtherSites(scope) == {Feed(scope), StateEmbedLinks(scope)} \cup {DistrictEmbedLinks(scope, d) : d \in Shown(scope)}

PagesOfState(scope) ==
    LET routes == BuildPublicStateRoutes(scope)
    IN  {StateHomePage(scope), DistrictsPage(scope), MoversPage(scope), StatePack(scope),
         Page(routes.data, StateShell(scope) \cup DataPageLinks(scope)),
         Page(routes.api, StateShell(scope) \cup ApiPageLinks(scope)),
         Page(routes.methodology, StateShell(scope))}
        \cup {DistrictPage(scope, d) : d \in Shown(scope)} \cup {DistrictPack(scope, d) : d \in Shown(scope)}
        \cup ForOtherSites(scope) \cup ComparePages(scope)

-----------------------------------------------------------------------------
(* The pages of the courts above, and those of the whole country *)

PagesOfHighCourt(court) ==
    LET routes == BuildPublicHighCourtRoutes(court)
        links == HighCourtShell(court)
    IN  {Page(routes.home, links \cup {routes.index}), Page(routes.methodology, links),
         Page(routes.data, links \cup {routes.stats, routes.trends}), Page(routes.api, links \cup {routes.stats, routes.trends})}
PagesOfSupremeCourt ==
    LET routes == BuildPublicSupremeCourtRoutes
        links == SupremeCourtShell
    IN  {Page(routes.home, links \cup {<<"high-courts">>}), Page(routes.methodology, links),
         Page(routes.data, links \cup {routes.stats, routes.trends}), Page(routes.api, links \cup {routes.stats, routes.trends})}
\* The index borrows the navigation of one of the courts it lists.
HighCourtsIndexPage ==
    Page(<<"high-courts">>, Shell({}) \cup UNION {HighCourtShell(c) : c \in ListAvailableHighCourts({})})

\* The map writes /states/<slug> for every state, the directory its home.
MapLinks == {<<"states", SlugOf[s]>> : s \in ListAvailablePublicProfiles({})}
NationalHome ==
    LET supreme == BuildPublicSupremeCourtRoutes
    IN  Page(Root, Shell({<<"supreme-court">>, <<"high-courts">>}) \cup MapLinks
                   \cup {StateHome(s) : s \in ListAvailablePublicProfiles({})}
                   \cup {BuildPublicHighCourtRoutes(c).home : c \in ListAvailableHighCourts({})}
                   \cup {supreme.home, supreme.methodology, supreme.data, supreme.api}
                   \cup {<<"watch">>, <<"api">>, <<"og", "national", "png">>})
NationalApi == Page(<<"api">>, Shell({<<"supreme-court">>, <<"high-courts">>, <<"api">>, <<"supreme-court", "api">>}))
LearnPage == Page(<<"learn">>, Shell({<<"supreme-court">>, <<"high-courts">>, <<"districts">>}))
PressPage == Page(<<"press">>, Shell({<<"high-courts">>, <<"api">>}))

\* Each room lists geographies and districts of all that are released.
WatchNav == Shell(DefaultNav \cup {<<"watch">>})
WatchIndexPage == Page(<<"watch">>, WatchNav \cup Watchrooms)
WatchroomPage(room) ==
    LET released == ListAvailablePublicProfiles({})
    IN  Page(room, WatchNav \cup Watchrooms
             \cup {BuildPublicStateRoutes(s).home : s \in released} \cup {BuildPublicStateRoutes(s).stateEvidencePack : s \in released}
             \cup UNION {{DistrictRoute(s, d) : d \in Shown(s)} \cup {DistrictEvidenceRoute(s, d) : d \in Shown(s)} : s \in released})

\* The sitemap lists the pages of every state, released or not.
Sitemap ==
    {Root, <<"districts">>, <<"data">>, <<"methodology">>, <<"api">>, <<"learn">>, <<"press">>, <<"watch">>,
     <<"high-courts">>, <<"supreme-court">>}
    \cup Watchrooms \cup (UNION {StateNav(s) \cup {StateHome(s)} : s \in LowerScopes})
    \cup (UNION {{DistrictRoute(s, d) : d \in Shown(s)} : s \in ListAvailablePublicProfiles({})})
    \cup {BuildPublicHighCourtRoutes(c).home : c \in HighCourts}

NationalPages ==
    {NationalApi, LearnPage, PressPage} \cup (IF Snapshot(DefaultState) = None THEN {} ELSE {NationalHome})
    \cup (IF ListAvailableHighCourts({}) = {} THEN {} ELSE {HighCourtsIndexPage})
    \cup (IF ListAvailablePublicProfiles({}) = {} THEN {} ELSE {WatchIndexPage} \cup {WatchroomPage(room) : room \in Watchrooms})
SitePages ==
    NationalPages \cup (UNION {PagesOfState(s) : s \in ListAvailablePublicProfiles({})})
    \cup (UNION {PagesOfHighCourt(c) : c \in ListAvailableHighCourts({})})
    \cup IF Snapshot(SupremeCourt) = None THEN {} ELSE PagesOfSupremeCourt

=============================================================================
