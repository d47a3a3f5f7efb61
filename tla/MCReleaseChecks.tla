---------------------------- MODULE MCReleaseChecks ----------------------------
EXTENDS ReleaseChecks

MCSlugOf == [s \in {"HP", "PB", "HCPB", "SC"} |->
    CASE s = "HP" -> "himachal-pradesh" [] s = "PB" -> "punjab" [] s = "HCPB" -> "punjab-haryana" [] OTHER -> "supreme-court"]

Completed(scope, quality, districts) ==
    [Run(scope, None, None) EXCEPT !.status = "completed", !.quality = quality,
                                   !.artifacts = {"raw", "candidate"}, !.districts = districts]
Failed(scope) == [Run(scope, None, None) EXCEPT !.status = "failed", !.artifacts = {"raw"}]

\* Himachal Pradesh has a release with two districts, of which Cloudflare may still
\* hold copies, and a newer run with one of them; another court has a first run.
CsvPath == <<"data", "districts.csv">>
Leftover == {[path |-> path, snapshot |-> 1, noStore |-> path = CsvPath, overtaken |-> FALSE] :
                path \in {<<"data">>, CsvPath, <<"data", "evidence", "state.json">>}
                         \cup {<<"data", "districts", d, "csv">> : d \in {"kangra", "solan"}}
                         \cup {<<"data", "evidence", "districts", d, "json">> : d \in {"kangra", "solan"}}}
Beginning(other, copies) ==
    [runs |-> <<[Completed("HP", "complete", {"kangra", "solan"}) EXCEPT !.status = "published"],
                Completed("HP", "complete", {"kangra"}), other>>,
     publications |-> <<[scope |-> "HP", action |-> "publish", run |-> 1, snapshot |-> 1, by |-> None]>>,
     copies |-> copies]
MCBeginnings ==
    {Beginning(Completed("PB", "complete", {"ludhiana"}), {}), Beginning(Completed("PB", "partial", {"ludhiana"}), Leftover),
     Beginning(Completed("HCPB", "complete", {}), {}), Beginning(Completed("SC", "complete", {}), {}),
     Beginning(Failed("SC"), {})}

\* Every operation on every tier, with rows that are there, rows of another tier and
\* rows that are not there yet; one bad token.
MCCommand(via, op, scope, target) == [via |-> via, op |-> op, scope |-> scope, target |-> target, token |-> TRUE]
MCCommands ==
    {MCCommand(via, op, "HP", 2) : via \in {"http", "cli"}, op \in {"publish", "replay"}}
    \cup {MCCommand("http", "publish", "HP", 3), MCCommand("cli", "replay", "HP", 3)}
    \cup {MCCommand("http", op, scope, 3) : op \in {"publish", "replay", "inspect"}, scope \in {"HCPB", "SC"}}
    \cup {MCCommand("http", "publish", "HCPB", 2), MCCommand("cli", "publish", "HCPB", 3), MCCommand("cli", "replay", "SC", 3)}
    \cup {MCCommand("http", "fetch", "PB", None), MCCommand("cli", "fetch", "SC", None)}
    \cup {MCCommand("http", "replay", "HP", 1), MCCommand("http", "publish", "HP", 4)}
    \cup {MCCommand(via, "rollback", "HP", target) : via \in {"http", "cli"}, target \in 1..2}
    \cup {MCCommand("http", "rollback", scope, 2) : scope \in {"HCPB", "SC"}}
    \cup {MCCommand("cli", "purge", "HCPB", None), MCCommand("http", "inspect", "HP", 3),
          MCCommand("http", "publications", "SC", None), MCCommand("cli", "publications", "SC", None),
          MCCommand("cli", "publish", "PB", 3), [MCCommand("http", "publish", "HP", 2) EXCEPT !.token = FALSE]}
MCCaptures == {{"kangra"}, {"kangra", "solan"}}
MCKeptAnyway == {CsvPath, <<"states", "punjab", "data", "districts.csv">>}
MCFillPaths == {<<"states", "punjab", "data", "districts.csv">>, <<"v1", "high-courts", "punjab-haryana", "stats">>}
================================================================================
