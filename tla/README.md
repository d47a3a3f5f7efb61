# NyaayWatch: a TLA+ development

NyaayWatch publishes daily snapshots of the backlog of Indian courts. A scheduled *fetch* captures a
court's numbers and normalises them into a *candidate*; a *publish* makes the candidate the public
snapshot; *replay* rebuilds a candidate from stored evidence; *rollback* goes back to an earlier
snapshot; a daily *sweep* publishes candidates that look like their history and asks a person about the
rest. Separate processes (command line, HTTP routes, scheduled tasks) do all of it over one PostgreSQL
database and one artifact bucket, without a lock between them. A public site, a newsletter and a cache
at Cloudflare show the result.

This directory models the system in TLA+, checks small instances with TLC and proves the main safety
properties with TLAPS. Paths are relative to the repository; `[name]` is a run of `PROJECT.json`, which
also maps every definition to the lines it models, lists the hazards of the code with the properties
that guard them, and gives for every property a mutation of the code that breaks it.

## 1. The system

### Components

| Component (source) | State it keeps | Operations | Talks to |
|---|---|---|---|
| Release pipelines of the three tiers (`src/services/published-*-snapshot-service.ts`) | none of its own: rows and objects below | `captureRun`, `publishRun`, `replayRun`, `rollbackPublication`, `inspectRun`, the reads of the pages | warehouse and artifact store, normalizers, cache invalidation |
| Warehouse store (`src/storage/postgres.ts`, `src/db/migrations`) | `runs`, `run_artifacts`, `published_snapshots`, `publication_history`, `newsletter_subscriptions` | inserts, `updateRun`, `withTransaction`, queries by scope | PostgreSQL |
| Artifact store (`src/storage/artifact-store.ts`) | objects in S3 or Azure Blob | `uploadJson`, `downloadJson` with checksum, `copyObject` | bucket |
| Normalizers (`src/normalize`) | none: functions of a capture and the history | `buildSnapshotCandidate`, `buildTrends`, `buildTrendPoints`, `resolveMonthlyMetric` | pipelines |
| Auto-publish gate and sweep (`src/ops`) | `runningPreviousPending`, `heldReviews`, `results` in memory | `evaluateAutoPublish`, `runAutoPublish`, `runPublishPendingSweep` | pipelines, notifier |
| Scheduled fetches, watchdog, report (`src/dev`, `src/infra`) | the schedule, a task's loop | fetch every scope in turn; look for late fetches | pipelines, notifier |
| Migrations (`src/db/migrate.ts`) | `schema_migrations` | apply pending migrations at every start | PostgreSQL |
| HTTP application (`src/api/app.ts`) | write freeze, rate limits | public routes, operator routes, newsletter routes | services, Cloudflare in front |
| Public pages (`src/api/pages`, `home`, `share`, …) | none: functions of snapshots and history | render | HTTP application |
| Public cache invalidation (`src/services/public-cache-invalidation.ts`) | copies at Cloudflare | purge in batches | pipelines |
| Newsletter (`src/services/newsletter-service.ts`) | `newsletter_subscriptions` | subscribe, confirm, unsubscribe, digest | email provider |
| Operator command line, remote client (`src/dev/operator-*.ts`) | none | dispatch to services or routes | services, HTTP application |
| Release verification and summaries (`src/dev/release-*.ts`) | what they read | fetch the site and compare | HTTP application through Cloudflare |

### How they interact

A fetch inserts a `pending` run, uploads the raw bundle, records it, re-reads and normalises it, uploads
and records the candidate, marks the run `completed` and inspects it. A publish inspects a completed run,
then in one transaction inserts a snapshot, reads the latest event, inserts a `publish` event and marks
the run `published` or `replayed`; after the commit it purges Cloudflare, and the publish route mails a
digest. A rollback inserts one event that names an older snapshot. The public routes show the snapshot
of the event with the greatest `created_at`, which PostgreSQL stamps with the *start* of the transaction.
Every morning the fetch tasks of the tiers go over their scopes; the sweep then lists completed runs newer
than the last released one, gates each against the trends of its fetch (or the pending count it has just
published), publishes or holds it, and sends one digest of what it held; before the next
morning the watchdog looks at the newest scheduled run of one scope of a tier, and a report at the newest
run of every scope on the public site.

### What is hard about it

* Nothing serialises the processes: every `await` is a place where another operator may act. Decisions
  are taken on state read before the transaction that acts on them.
* A call may fail after it took effect: a lost commit acknowledgement, a purge that throws after the
  commit. Catch blocks then write a status over a release that happened.
* A process may die between any two awaits, or fail to record that it failed; at a start several race for
  the same migrations while older images still serve.
* The order of releases is the order of `created_at`, not of commits. History is read as snapshots ordered
  by dates that come from the sources, so days may arrive out of order, twice, or be rolled back.
* The gate's baseline is computed when a candidate is fetched and used days later; a held candidate has
  only the lookback of the sweep to be noticed.
* A page combines reads of several moments; several pages state the same ranking or the same "N/A" with
  code of their own; the same addresses are written by builders, purges, checks and links, and matched by
  a router elsewhere.
* An operator's client gives up and asks again while the server still works; a verification reads the site
  while another release lands; Cloudflare stores an answer that was read before a purge, and serves what
  a purge removed until the purge has spread.

### What makes each component correct

* Pipeline: only gated, intact evidence is released; the tables of a release agree; readers see one
  release at a time, and only releases and rollbacks move the surface; a rollback shows at once,
  and no publish that was in flight takes its place; runs settle.
* Gate and history: one bad count never becomes the baseline; nothing far from all history goes out
  without review; a day, a month, a carried-forward figure is represented by the snapshot that the
  comments of the code promise.
* Sweep and days: no candidate is dropped silently; reports are true; the sweep's own publications stay
  close to each other; a scope that stops, or a candidate that falls out of the lookback, has been
  announced.
* Newsletter: only the owner of an address subscribes it, the links that were mailed keep working, and
  mails stop after an unsubscription.
* Migrations: the ledger names what has taken effect, whoever raced or died; every row is found by the
  queries of its tier; every start serves in the end.
* Pages: what two pages say of one district agrees; a page that reads twice is of one snapshot.
* Operators' side: an operator is told the truth; mails, evidence and downloads are of the release; every
  address the site, the purge and the checks use is answered.

## 2. The modules

| Module | Models |
|---|---|
| `PublicationPipeline` | fetch, publish, replay and rollback of one scope, await by await, for any number of concurrent operators |
| `Sorting` | the sorts, filters and slices of the services and the pages, as operators on lists |
| `PublicationLog` | abstract specification: the set of releases and the active one that readers see |
| `AutoPublishGate`, `GateHistory` | the gate's decision and baseline as operators; the days of one scope under that gate |
| `PublicationHistory` | what the three services read of a scope's history: trends, carried-forward readings, finalized months, the lineage table |
| `PublishPendingSweep` | the sweep and `runAutoPublish` against concurrent operators |
| `DailyOperations` | the days of a tier: fetch task, sweep, operators, watchdog and report |
| `Newsletter` | the subscriptions of a scope, their links and the digests |
| `Migrations` | processes of every image starting on one database, and the rows they write |
| `DistrictReport` | the lower-court normalizer as operators: figures, metrics, ranks, flags, repeat signals |
| `MetricInsights`, `PublicPages`, `Watchrooms` | what the pages, downloads, widgets and cards print, as operators |
| `PublishedReports` | captures, publications and rollbacks of several geographies, with a district page that is read in two queries |
| `CourtServices` | the three services over one warehouse, each seeing its own scope |
| `PublicRoutes` | the addresses, as builders write them and as the router answers them |
| `OperatorApi` | the operator routes and the command line, await by await, with purges, digests, restarts and the freeze |
| `SiteLinks` | which page links to which addresses |
| `ReleaseChecks` | the verification and summary scripts, composed with everything before: the specification of `[surface]` |
| `MCPublicationPipeline`, `MCMigrations`, `MCPublishedReports`, `MCReleaseChecks` | the instances TLC checks |
| `SortingProofs` | lemmas on ranks, filters and sorts |
| `PublicationPipelineProofs`, `PublicationHistoryProofs` (with `GateHistory`), `PublishPendingSweepProofs`, `DailyOperationsProofs`, `DatabaseProofs` (`Migrations` and `Newsletter`), `PublishedReportsProofs`, `ReleaseChecksProofs` | inductive invariants and theorems |

```
Sorting <- AutoPublishGate <- GateHistory, PublicationHistory, PublishPendingSweep
PublicationLog  <- refined by PublicationPipeline
Sorting <- DistrictReport <- MetricInsights <- PublicPages <- Watchrooms <- PublishedReports
CourtServices   <- PublicRoutes <- OperatorApi, SiteLinks <- ReleaseChecks
```
(`A <- B`: B extends A; the other modules stand alone.)

`PublishPendingSweep`, `DailyOperations` and `OperatorApi` stand at different distances from the pipeline: the
pipeline has every await of an invocation, `OperatorApi` the ones that other requests, purges and restarts
can fall between, the sweep sees another operator's publication as one step, and `DailyOperations` sees a
whole sweep of a scope as one.

### `PublicationPipeline`

*State.* Columns of `runs` (`status`, `quality`, `replayOf`), `run_artifacts` as the content each
checksum is of (`rawArtifact`, `candidateArtifact`), the bucket (`rawObject`, `candidateObject`), the sets
of rows `snapshots` and `publications`, the database `clock`, and for each operator the await it is at
(`pc`), its `task`, `subject` run and the values it holds in memory (`held`, `startedAt`, `previous`,
`target`). `abandoned` is a history variable: the runs whose builder died, or failed, with the outcome
unrecorded.

*Actions.* One per awaited call, each named for it: `CaptureRun`, `UploadRaw`, `InsertRawArtifact`,
`Normalise`, `InsertCandidateArtifact`, `MarkCompleted`, `VerifyCapture`; `ReplayRun`, `CopyRaw`, then the
same steps as a fetch; `PublishRun`/`PublishReplay` (inspection and gate), `BeginPublish`, `ReadPrevious`,
`CommitPublish`, `Purge`; `ReadRollbackTarget`, `InsertRollback`; `AwaitFails` (any awaited call throws),
`CommitUnacknowledged`, `Recover` (the catch block's update), `RecoverFails`, `Crash`; `DamageRaw` and
`DamageCandidate` for a stored object that rots.

*Abstractions.* A bundle is a model value, its candidate is named by the bundle, and a checksum is the
content it is of. Quality is a function of the bundle. Two transactions never start in the same
microsecond, so `created_at` orders events. The rollback is one statement. Rows that are never rewritten
are read in one step. Transactions do not wait on each other's locks; an update that waits is that
update later. The S3 copy, which does not verify what it copies, is modelled; the Azure copy verifies its
source, so its behaviours are among those of the S3 copy and of a failing await. The services of the
other tiers are copies of this control flow; where they differ is in `PublicationHistory` and
`CourtServices`. Cache invalidation is here an await that succeeds or fails, and `OperatorApi` has what it
does.

### `Sorting`

A stable sort is stated by what it yields: the entry at a place is the one that has as many others before
it, a set of pairs saying which comes before which (`Ranked`). A filter is the sort by place of those that
pass, and `slice(-n)` keeps the last ones. Nothing is recursive, so the same definitions serve TLC and the
proofs; `SubSeq` in them changes no value and has TLC evaluate a list once.

### `AutoPublishGate`, `GateHistory`, `PublicationHistory`

The gate's arithmetic is exact: a baseline is kept doubled, so the midpoint of two counts is an integer,
and "delta above 0.2" is `5 * distance > baseline`. "No baseline" is 0, which the code treats alike.
`GateHistory` runs the gate over days: an automatic publication or a reviewed one adds a day's count to
the points, or replaces the day's count, and the last `TrendDays` days count.

`PublicationHistory` keeps what the database keeps (snapshots with a reference date, in order of
publication; events) and defines the code's walks over it as operators: the prior points of a lower-court
candidate (one a day, from the latest reference date down), the reading a high-court candidate carries
forward and the points of its trend (a date is represented by what was made active last), the months of a
Supreme Court candidate and whether they are final, the lineage table of the methodology pages. Reference
dates are instants, several to a day, because the code compares instants in one place and days in another.
`UnreviewedIsNearPublished` composes the high-court points with the gate of `AutoPublishGate`.

### `PublishPendingSweep`

*State.* The tables as one scope sees them, the replays in flight, and the sweep's memory:
`candidates`, `todo`, `override` (`runningPreviousPending`), `heldReviews`, `results`, `failed`, the
delivered `digest`. `committed` is a history variable.
*Actions.* `List`, `GateCandidate` or `InspectFails`, `InspectBeforePublish`, `CommitPublish`,
`PurgeSucceeds`, `PublishThrows`, then `ConfirmPublished`/`Warn` or `ConfirmNotPublished`/`Alarm`,
`SendDigest`, `Crash`; other operators `Fetch`, `Replay`, `PublishElsewhere`, `ReplayFails`, `ReplayEnds`,
`Rollback`.
*Abstractions.* One scope (scopes share nothing and are swept in turn) and one sweep at a time (the
workflow's concurrency group `ops-publish-pending`). Runs are fetched on different days. `since`, the
lookback, is any run. Events are in the order of commits. A candidate without a pending count is not
fetched: a completed run has one. Only the sweep calls `runAutoPublish`; a scheduled fetch does not.

### `DailyOperations`

A day has two halves. Fetch tasks start in the morning (08:00, 08:10 and 08:20 IST for the tiers), the sweep
follows at 08:30 and ends the morning; a slow task goes on in the afternoon; the workflow with the watchdog
and the report on the public site runs last, before the next day's fetches (05:00 UTC on the code's clock).
A task goes over the scopes, a scope that fails does not stop the others, one alarm at the end names the
failures; the task may die at any scope. The schedule may be disabled, drift or be reconciled by a
deployment. An operator may fetch a scope by hand, or publish, which completes the newest run of the scope
again as both checks read it (`measured`). The watchdog looks at the scheduled runs (`latest`) of the first
scope only, the report at runs of any kind (`newest`) of each public scope; the report's other complaints
(the age of the figures, a failed verification) would only add alerts and are left out. The smaller set of
targets that the hourly or daily monitor uses (`--target-set smoke`) is a part of the report's. An alert
that cannot be sent is logged (`ecs-scheduled-fetch-entrypoint.ts:16-21`) and counts as one. `alerted` is a
history variable.

### `Newsletter`

*State.* The row of each address (`token`, `confirmed`, `unsubscribed`), the mails on their way (`outbox`)
and delivered (`mailbox`). `round`, `consents` and `removed` are history variables: how often an address
unsubscribed, in which rounds its owner confirmed, and who last saw the page that says removed.
*Actions.* `Subscribe` (anybody, any address), `Confirm` and `Unsubscribe` (a link of a delivered mail, of
whatever age), `SendDigest` (reads the list once), `Deliver` and `Lose`.
*Abstractions.* A random token is new. A mail is in the outbox from the decision to send it until the
provider has delivered it or the attempt is over; that covers the loop of a digest, in any order, and the
death of its process. What a mail says, beyond its links, is left out.

### `Migrations`

*State.* The ledger (`schema_migrations`, whether it exists and its rows), what has taken effect
(`schema`), the `rows` written by serving processes, and for each process its `image`, the step it is at
and what its open transaction holds. *Actions.* One per query of `runMigrations`: creating the ledger,
reading it, `BEGIN` and the file, the insert of the id, the commit or the rollback; a query that fails,
a commit that is not acknowledged, a process that dies; the orchestrator starts it again, with the same
or a newer image; serving processes write rows as their image does.
*Abstractions.* The pool is idle at a start and queries are awaited one after the other, so `pg-pool` hands
back the connection it released last and `BEGIN … COMMIT` stays on one connection; a lost idle connection
emits the pool's `error` event before `src/index.ts:36` listens to it, which ends the process. The order
of the files is that of their names. What older images write is modelled from the migration that repairs
it (external).

### `DistrictReport`, `MetricInsights`, `PublicPages`, `Watchrooms`, `PublishedReports`

The first four are pure: what the normalizer makes of a capture and the history (shares in tenths of a
percent, rounded half up), and what each page, card, widget, feed and download prints of a snapshot and
the history. A cell is a set, empty for "N/A", so that "N/A here, 0 there" can be told. Markup, wording
and the precision of display are left out; a sentence is the case it states. District ids are numbered in
the order of their names. `PublishedReports` lets captures of several shapes become candidates, be
published later and be rolled back, in several geographies, while one reader's district page has read the
snapshot and not yet the history. Every completed run waits until it is published, in any order, so other
publications come between a capture and its own; captures are made between pages, and nothing happens
while a page is on the screen.

### `CourtServices`, `PublicRoutes`, `OperatorApi`, `SiteLinks`, `ReleaseChecks`

A request is a row of `requests` with the step its handler is at; `Send` adds one at any time, so a retry
after the client's timeout is simply another request. Dispatch checks the freeze, then the token, then
which scope the named run or publication belongs to; the command line has no freeze and no token and
asks the service of its own scope. The steps are the awaits between which others may act: capture, build,
validation, commit, purges by batch, digest. A restart ends every HTTP handler where it is and may
switch the freeze; it happens while a handler runs. A CLI error is status 500.

Cloudflare is external. `edge` is what it keeps, `fill` an answer on its way there and `leaving` what a purge
has removed. A copy is a path, the snapshot it shows, whether it was sent with `no-store`, and whether a purge
of its path overtook it on its way; an overtaken answer is stored all the same. Cloudflare keeps what is sent
without `no-store`, what is left of an older site (`docs/MVP_EXECUTION_PLAN.md:258-261`) and, of the paths in
`KeptAnyway`, also what is sent with it: the retry of the verification expects a previous `districts.csv` that
carries the header. What a purge removed is served until `PurgeSpreads`, which may take as long as it likes:
the propagation window of `dev/release-verification.ts:173-175`. So a reader, and a verification, gets a kept
copy, a leaving one or, where nothing is kept, the answer of the server (`AnswersTo`).

`by`, `after` and `since` are history: the request that wrote a row, the requests answered before one was
sent, and the publications there were when a script looked at them. Three attempts of a purge call and the
lookup of the zone are one outcome. `prepublish` is recorded as the verification it runs. A purge by hand
(`release-purge-public-routes.ts`) exists on the command line only. A lower-court purge covers the
districts of the released snapshot. A remote client that names a state with `publish`, `replay` or
`rollback` has it ignored by the route, while the command line rejects runs of another scope: both are in
the dispatch. A path is its segments; `PublicRoutes` has every builder and every public route, `SiteLinks`
the links of the pages. Pages that put "the top district" first may have chosen any of the snapshot's;
links to a place within a page are those of the page.

## 3. The runs

| Run | What it shows | Instance |
|---|---|---|
| `[pipeline_concurrent]` | type correctness, `ReleasesAreBackedByEvidence`, `CompletedMeansUnreleased`, `HistoryIsConsistent`, `PendingRunsAreAttended`, `RollbackStays` and the refinement of `PublicationLog`, under concurrency, failing awaits, lost acknowledgements, crashes and rot | 2 operators (symmetric), 2 runs, 2 bundles, 3 events |
| `[pipeline_serial]` | with one operator at a time: a run is released once, on a completed run, history links in order; and `PendingRunsSettle` under fairness | 1 operator, 2 runs, 4 events |
| `[pipeline_stale_gate]` | **violation**: a release lands on a run that is no longer completed | as concurrent |
| `[gate]` | one bad count among four does not poison the baseline; nothing far from all history is published without review | all histories over counts {0, 5, 6, 7, 12, 20}, 4 points |
| `[history]` | the histories the tiers read take of the tables what their comments promise | 3 days of 2 instants, 2 days to a month, 3 snapshots with totals 1 or 2, 5 events, 2 points |
| `[high_court_gate]` | **violation**: a high-court candidate of a published date is gated without the newest published point | same |
| `[sweep]` | no candidate is lost, reports are true, the digest is current, consecutive publications of a sweep are close | 3 runs, 3 events, counts {5, 6, 8} |
| `[schedule]` | a scope that stops is alerted about; a candidate lapses unannounced only after `Lookback - 1` missed sweeps | 2 scopes, 3 days, lag 1, lookback 2, 1 change of the schedule or fetch by hand, the second scope public |
| `[newsletter]` | no subscription without a fresh consent, working links for as long as a subscription lasts, digests only on consent, and silence after an unsubscription | 2 addresses, 3 tokens, any number of mails |
| `[startup]` | ledger and schema agree, every row is found, every start serves | 2 processes, 3 codes, 2 faults |
| `[pages]` | pages agree on N/A, changes, rankings and lists; a district page is of one snapshot | 2 geographies, 4 shapes of captures, 2 dates, 2 waiting runs, limits of 1 and 2, 3 snapshots, 3 events |
| `[surface]` | operators are told the truth; mails, downloads and evidence are of the release; every address is answered | 4 scopes, 5 beginnings, 2 requests or checks, 1 restart, batches of 4 |

*Why the bounds are enough.* Every interference in the pipeline is between two invocations over one run
or over a run and its replay: two operators and two runs cover publish against publish, publish against
the late failure of a capture, replay against the publication of the replay by somebody else, and a
rollback against either. Three events are a release, a second one and a rollback, in every order of start
and commit; four in the serial run add a second rollback or a repeated release. One bundle is complete and
one partial; stale is gated like complete by `publishRun`. In the sweep two candidates are needed for the
baseline to be handed on and a third for a held run between two publications; 5 and 6 are exactly a fifth
apart, 8 is far from both. In `GateHistory` 5 and 6 sit exactly on the threshold, 7 is near 6 only, 12
lies near the midpoint of 5 and 20 and far from both, 20 is an outlier and 0 is a count the code ignores;
four points are the code's own. In `PublicationHistory` three snapshots are two of one day (in either order
of instants) and one of another day or month, and five events are their publications and two rollbacks;
two points are as good as four or five to tell whether the newest are kept. In `DailyOperations` the
thresholds of the code (2 days of lag, 3 of lookback) are scaled to 1 and 2, so that three days hold a
stop, the day it is noticed and the day a candidate lapses; the proofs hold for every threshold. Three
tokens are two subscriptions of one address next to one of another. Two migrators are a winner and a
loser; two faults let each die once or one die twice. In `PublishedReports` the captures separate what the
pages distinguish (see `MCPublishedReports`), and the page limits are scaled to one district so that a list
leaves somebody out. Two waiting runs are one that is published late and one that comes in between; they are
of one geography at a time, because histories are, and pages are opened of the geography whose districts come
and go. In `[surface]` two overlapping requests, or a request and a check, are the pairs that
interfere; beginnings give each tier a run to publish, a run that may not be published, a failed one and
leftover copies; four paths to a batch cut the purge lists of the instance in several batches. Cloudflare
fills the download of one state in spite of `no-store` and a page of a high court that is sent without it,
and has a leftover download of either kind, so copies of this release, of older ones and overtaken answers
meet every batch of a purge; the property fails without either of its exceptions. `ReleasedRoutesAnswer` depends on the publications
alone and is looked at when the last handler has ended. `CHECK_DEADLOCK FALSE` is said where runs,
events, snapshots, days, tokens or requests are bounded: the bounded instance runs out of work, the
program does not.

*Fairness.* Three runs check liveness. In `[pipeline_serial]`, `FairSpec` assumes weak fairness of
`Advance(o)`: a process that is alive and awaits something eventually gets an answer or an exception. HTTP
calls have timeouts, and the database and bucket clients resolve or reject, so the code justifies it.
Nothing forces an invocation to start, a process to die or an object to rot, and success is not assumed:
`AwaitFails` satisfies the fairness as well as success does. In `[newsletter]` every mail is delivered or
given up in the end: the call to the provider settles and the loop goes on after an error. In `[startup]`
a process that awaits a query gets an answer or an error, and the orchestrator starts a process that died.

## 4. What the checks found

Two disagreements have a run that shows them:

* `[pipeline_stale_gate]` `publishRun` checks the status of a run before its transaction and not in it.
  Two operators can release the same run twice, or release a run whose capture has just been marked
  failed; `docs/STORAGE_AND_OPERATIONS.md:55` requires a completed run.
* `[high_court_gate]` A high-court candidate whose review date is already published adds no trend point of
  its own, while the gate drops the last point as the candidate's: the newest published point is
  lost, and with one published date the gate publishes any count.

The others are recorded in `PROJECT.json` with their lines:

* a release is answered as soon as its purge calls are: `docs/STORAGE_AND_OPERATIONS.md:160` promises that the
  downloads "do not keep serving a stale cached snapshot after a release change", while the comment at
  `dev/release-verification.ts:173-175` knows of a window in which they do. Nothing waits for it but one retry
  of the verification, and an answer that was under way during the purge may be kept until the next one;
* the share cards of a state and of a district print the stored rate, 0 for a month the source left out, where
  everything else says "N/A";
* the walk of `buildTrends` goes from the latest *reference date* down, so after a same-day re-fetch with
  an earlier reference date the baseline is not the live snapshot;
* `replayRun` marks its run failed when the purge fails after the commit, and the sweep's floor then no
  longer sees the release: older runs are listed again;
* a publication that committed, threw and could not be confirmed leaves `runningPreviousPending` unset, and
  the next candidate is gated against the trends of its fetch;
* the unsubscribe route answers "You've been removed." whatever its link matched: a reader who subscribed
  again and uses an older link stays subscribed;
* replaying a failed Supreme Court capture inserts a run that is pending for ever;
* the rank table of the movers page computes the previous rank with the wrong sign;
* the share card of a district asks the default state's service for the districts of all states;
* a district without a monthly rate is stored with 0 and named the slowest clearance of its state;
* at exactly 100 cleared per 100 filed the caption and the glossary of the same page disagree.

Smaller things were met on the way: a last count of zero with middle counts that disagree leaves the gate
without a baseline, and it publishes anything (`UnreviewedIsNearHistory` excludes exactly this);
publications by the sweep or the command line mail no digest, while the confirmation page promises one
"whenever a new snapshot publishes"; a purge that misses a batch is not resumed, so what it leaves is served until the next release of
the geography; the fixed links of the front page to a court tier
without a release answer 404 or 503.

## 5. What is proved

| Theorem | Property | For every |
|---|---|---|
| `PublicationPipelineProofs!TypeCorrect` | `TypeOK` | set of operators and bundles, every bound |
| `PublicationPipelineProofs!ReleasesBacked` | `ReleasesAreBackedByEvidence` | same |
| `PublicationPipelineProofs!CompletedUnreleased` | `CompletedMeansUnreleased` | same |
| `PublicationPipelineProofs!HistoryConsistent` | `HistoryIsConsistent` | same |
| `PublicationPipelineProofs!RollbacksStay` | `RollbackStays` | same |
| `PublicationPipelineProofs!PendingAttended` | `PendingRunsAreAttended` | same |
| `PublicationPipelineProofs!Refinement` | `ImplementsPublicationLog` | same |
| `PublicationPipelineProofs!SerialHistory` | `ReleasedOnceInOrder` | same, one operator at a time |
| `PublicationPipelineProofs!SerialPublishes` | `PublishRequiresCompletedRun` | same, one operator at a time |
| `PublicationHistoryProofs!UnreviewedStaysNear` | `UnreviewedIsNearHistory` | set of counts, number of points and days |
| `PublicationHistoryProofs!OneBadPublicationIsHarmless` | `OneBadPublicationDoesNotPoison` | same |
| `PublicationHistoryProofs!LowerCourtTrends` | `TrendsAreNewestDays` | calendar, totals, number of points, snapshots and events |
| `PublicationHistoryProofs!CarriedForwardReadings` | `CarriedForwardIsActive` | same |
| `PublicationHistoryProofs!TrendPoints` | `TrendPointsAreActive` | same |
| `PublicationHistoryProofs!FinalizedMonthsAreClosed` | `MonthsAreFinalizedByTheirLastCapture` | same |
| `PublicationHistoryProofs!LineageRows` | `LineageShowsWhatEndedUpLive` | same |
| `PublishedReportsProofs!DistrictPagesAreOfOneSnapshot` | `DistrictPageIsOfOneSnapshot` | registry, captures, dates, list limits, snapshots and events |
| `PublishedReportsProofs!MoversAgreeWithPages` | `MoversAgreeWithDistrictPages` | same |
| `PublishedReportsProofs!RepeatSignalsCountWatchlists` | `RepeatSignalCountsTheWatchlists` | same, and every length of the windows |
| `PublishedReportsProofs!PaceAgreesEverywhere` | `PaceIsShownOrNotEverywhere` | same |
| `PublishedReportsProofs!HeadlinesOpenWatchrooms` | `HeadlinesOpenTheirWatchroom` | same |
| `PublishPendingSweepProofs!ReportsAreTrue` | `ReportedPublishedIsReleased` | number of runs and events, set of counts |
| `PublishPendingSweepProofs!CandidatesAccountedFor` | `EveryCandidateIsAccountedFor` | same |
| `PublishPendingSweepProofs!DigestCurrent` | `DigestIsCurrent` | same |
| `PublishPendingSweepProofs!SweepsTakeSmallSteps` | `SweepStepsAreSmall` | same |
| `DailyOperationsProofs!StaleScopesNoticed` | `NoScopeGoesStaleUnnoticed` | number of scopes and days, every threshold |
| `DailyOperationsProofs!NothingLapsesUnannounced` | `NothingExpiresUnannounced` | same |
| `DatabaseProofs!LedgerCorrect` | `LedgerMatchesSchema` | set of processes and codes, number of faults |
| `DatabaseProofs!RowsFound` | `EveryRowIsFound` | same |
| `DatabaseProofs!ConsentNeeded` | `NoSubscriptionWithoutConsent` | set of addresses, number of tokens |
| `DatabaseProofs!LinksWork` | `LinksOfThisSubscriptionWork` | same |
| `DatabaseProofs!DigestsConsented` | `DigestsOnlyOnConsent` | same |
| `ReleaseChecksProofs!OperatorsAreToldTheTruth` | `OperatorIsToldTheTruth` | set of scopes, commands and captures, tables to start from, number of requests and restarts |
| `ReleaseChecksProofs!DigestsAreOfTheirRelease` | `DigestIsOfTheRelease` | same |
| `ReleaseChecksProofs!ReleasedDownloadsAreFresh` | `DownloadsAreFresh` | same, and every batch size and set of paths Cloudflare copies |
| `ReleaseChecksProofs!PassedVerificationsAreOfOneSnapshot` | `PassedVerificationIsOfOneSnapshot` | same |
| `ReleaseChecksProofs!ReleasedRoutesAreAnswered` | `ReleasedRoutesAnswer` | same, and every registry, slugs and districts |

The assumptions are the ones the modules name: every bundle has a quality, and the placeholders for "nothing"
and "damaged" are no bundles (`EvidenceAssumption`); bounds are natural numbers; counts are (`SweepAssumption`);
a code has a tier (`MigrationsAssumption`); there is at least one scope and one day of threshold and lookback
(`DailyAssumption`); the tiers have scopes of their own (`TiersAssumption`), a purge call takes at least one
path (`BatchAssumption`) and a snapshot covers finitely many districts (`DistrictsAssumption`), and what a
source shows of a geography are counts, each district once, because the pages look districts up by their ids
(`ExtractsAssumption`), and the registry names a geography once (`RegistryAssumption`; `geographies.ts` lists
them); operators purge from the command line only (`CommandsAssumption`); in the tables they
find, rows are of the types the store inserts, publications agree with their runs on the scope and the snapshot,
no run was released twice and none that was released is still completed (`BeginningsAssumption`), and the
default state has a release (`DefaultStateAssumption`: it was live from the start, `docs/OPERATING_EVIDENCE.md`,
and no operation takes a release away; the learn, press and watch pages link to its pages unconditionally,
and without any release of it those would be answered 503).
`UncopiedAssumption` says that Cloudflare keeps no copy of the statistics of a state: the route sets no caching
header (`applyPublishedDataCacheHeaders` covers the data pages, the downloads and the evidence routes) and its
path has no extension, and without either Cloudflare does not copy. It is needed, as no purge covers that path:
the verification would compare the districts of one snapshot with old totals. The bounds do not help any proof:
they are parameters.

*The pipeline.* What is released depends on what an operator holds in memory when it commits, that on which
operator builds a run, and that on where each operator is. `IInv` says this, in parts, each preserved
by one lemma with a step per action:

* `ControlInv`: which steps belong to which task, and what `subject` may be there;
* `OwnershipInv`: a run under construction has one builder;
* `ArtifactInv`: artifact rows, once written, agree with each other, with the bundle of the source of a
  replay, with the run's quality and with what the builder holds;
* `GateInv`: past the gate an operator holds a gated payload that its run vouches for, and its
  timestamp is its own; a rollback holds the id of a snapshot;
* `ReleaseInv`: what each snapshot is backed by and how events and snapshots name each other;
* `LatestInv`: a non-empty history has a latest event, which makes the public reads well defined.

`PendingAttended` adds `SettledInv` (a run past construction is no longer pending), and `Refinement` shows
that a commit is a `Release` of the log, an inserted rollback a `RollBack`, and everything else a stutter;
`NewEventDecides` is the order of `created_at` against the order of commits. The serial theorems assume
`OneAtATime` and add `SerialInv`: what the one operator read before its transaction is still so when it
commits. `[pipeline_stale_gate]` is what happens without the assumption.

*The sweep.* Candidates are taken oldest first, so every one still to do is newer than every one that is
done and has no result yet; nothing newer than a held review was published; all else that is done was
published, failed or was superseded; and a publication about to be reported is in the history. The gate's
decision does not matter to any of this. It does to `SweepsTakeSmallSteps`, whose `StepInv` adds that what
the gate reads of a run never changes, that the count it compares with is the one last reported, and that a
publication in progress passed it.

*Sorting.* What comes before a member has fewer before it (`FewerBefore`), so no two members have equally
many, so every place of the order is taken by one of them (`Ranks`). From this follow the sort by a number
(`Order`), that a filter keeps the order (`Filters`), that a sort by a comparator loses nothing and leaves what
the comparator leaves open as it was (`Arrangement`, for any comparator that is a weak order), and that the
last entries of an ascending list are the highest (`NewestAreHighest`). The gate, the histories and the pages
rest on these.

*The gate.* `GateHistory` is three bounds and a type, so what is hard here is the arithmetic of
`SelectBaseline`. With an odd number of points the baseline is one of
them; with an even number the midpoint of two that are no further than a fifth apart (`Baseline`,
`NearMidpoint`). So a count near the baseline is near a published one. `BaselineLiesBetweenOthers` is the
case of one bad point among at least three that agree: whichever place it takes in the order, the middle
lies between two of the others, and what is near the middle is near one of them.

*The histories.* The tables only grow, so `TypeInv` is all the induction there is; the rest is what the walks of
the three services make of any tables. `RecencyList` says what `listPublications` with `seenSnapshotIds`
yields: each published snapshot once, by the last event that made it active. So the first entry of a group is
the member made active last (`FirstIsActive`), which is all `CarriedForwardReadings` and `TrendPoints` need.
`ChronologicalList` is the other order, and `PointsOfDays` and `OverwritingKeepsTheLast` are what a walk from its
end that skips the days it has seen, and a Map filled from its beginning, keep of it. A trend is cut from a list
whose dates ascend, and its last `n` entries are those with fewer than `n` dates above them
(`NewestAreHighest`). A month is finalized twice only if totals that grow within a month drop twice in it,
and a drop leads to a later month (`OneDropPerMonth`); `DropsClose` is that only neighbours close a month.

*The pages.* `ReportsInv` says that candidates are of their geography, that snapshots are numbered as they were
published, that a page that was opened is of a snapshot of the log and, once it is shown, has the history of
that moment, and that a row has the figures the normalizer makes of some extract and of the history before its
capture, whose snapshots are older than the row (`BuiltInv`; what is published later changes no such history,
`HistoryStays`). The log only grows (`LogGrows`), so the snapshot a page read first is among those it reads
next. `DistrictHistoryLists` is what the history is: each published snapshot that has the district, once, by
date and then publication. A snapshot has one point in it, found by its date and its number, and the point
before that is of the latest of the earlier ones (`PageFindsItsPoint`).

The movers and the repeat signal rest on what the normalizer yields: each district of the extract once, with its
figures and its place (`DistrictsAreListed`), so that a lookup by id finds it (`FoundDistrict`). The movers are
the districts both newest snapshots have, with the differences of the figures that the district's page takes
from its last two points (`MoversAreListed`, `PageComparesNewest`), and sorting loses none of them
(`MoversAreShown`). The flags of a repeat signal mark the earlier snapshots whose workspace lists the district,
and its own (`FlagsMarkTheWatched`: the rank on one side, the sorted and filtered table on the other), and the
last flags are those of the snapshots with the fewest after them (`WindowIsLast`, `CountOfWindow`).

The pace of clearance is one figure printed in some thirty places, each with a guard of its own.
`SnapshotsTellPace` is that the figures of a snapshot's rows are those of the candidate it was published from, so
every place but the share cards asks the same cells, and the cards print 0 exactly where the others say "N/A".
What is left are the differences, which are shown when both their sides are, and the signs: a difference of two
rounded shares is not negative exactly when the shares are in that order. The headlines and their rooms sort the
same districts by different comparators. `HeadlinesOpenWatchrooms` needs that each comparator is a weak order
(rates are compared as fractions, whose cross products are transitive because what is divided by is not zero),
that both refine the same first figure, so the head of one list has the first figure of the head of the other, and
that nothing is lost in between: the persistent geographies are counted by a bijection between the list of the
headline and the room's, and the shades of the map rise with the share they stand for because a rounded-down
quotient is monotone.

*The days.* A fetch is of the scope its task is at and ends on the day it started (`FlightInv`). A scope that
gave no cause for an alert was fetched no earlier than the first one, which the watchdog looks at
(`AlertInv`); a public scope that nobody refreshed is named by the report whatever the first one does. A run
that was not announced can still be listed, and every sweep since its creation missed it (`LookbackInv`).

*Migrations.* An open transaction holds the statements and the record of the same file; two open
transactions never hold the same one; what the loop has passed is in the schema; a row without a
scope exists only before the scope migration.

*The newsletter.* Whether an old link may confirm depends on every mail ever sent, so the invariant speaks of
all of them: a mail's token was stored for its address and no other, a mail of the current round carries the
row's token and the other way round, and an unsubscription leaves no mail of the round that follows it.

*The operators' requests.* Every row a request wrote follows from the step its handler is at: a run it
inserted is its own and pending until it is completed, nothing is published by a request before its
transaction, and one whose answer is a success has its publication (`RequestOk`, `PublicationOk`). A run is
released twice only by requests that were served at the same time, because a validated run had not been
released, and who releases it before the transaction had not been answered when this request was sent
(`Commits`). A restart ends handlers and writes no row; the scripts and Cloudflare touch none of this state.

*The public site.* A release is answered after its purges, so what counts is what a purge leaves. Once a handler
has the answers of `n` calls, what Cloudflare keeps of the first `n` batches, or is about to, are answers that
those calls overtook and copies made since (`CopyInv`). All of them are of paths Cloudflare keeps in spite of
`no-store`, as every download is sent with it, and the ones made since show the active snapshot of the
geography (`AnswersShowTheActive`), which is this release or a later one (`OwnReleaseStays`). Where Cloudflare
obeys `no-store` (`KeptAnyway` is empty) nothing is left. Which districts a publication shows never changes, so neither does the list it walks. Every
download is on that list (`DownloadsAreListed`: addresses are compared segment by segment) and every path of
a list is in one of its batches (`EveryPathHasABatch`). For a script, `ScriptInv` says that a passed
verification read one snapshot everywhere, that its target was the last release of the state when it began,
and that what it read of the statistics is of that release or of one committed since.

*The site.* Builders write addresses, one router takes them apart again, and the two are far apart in the code.
What the router sees after a prefix is what the builder put there (`SegmentsAfter`), a slug names one geography
(`SlugsAreResolved`), and so each address a builder makes is routed to its own geography (`StatePagesAreRouted`,
`DataIsRouted`, `StateRoutesOpen`, `DistrictRoutesOpen`, `HighCourtRoutesOpen`, `SupremeCourtRoutesOpen`,
`FixedPathsOpen`). Then each kind of page is answered and links only to such addresses or to a tier without any
release (`StatePagesAreFine` and the like), each page of a state is linked or in the sitemap
(`StatePagesAreLinked`), and together they are `SiteIsFine`; `PurgedOpen` and `TargetsShowTheActive` are the purge
lists and the targets of a verification. Of the tables all this needs little (`Current`): the default state has a
release, and an active snapshot is in the table and shows districts that exist. It holds in every state, not only
when the handlers are at rest, where the run looks (`SiteIsAnsweredAtAllTimes`).

*Only model-checked.* `PendingRunsSettle`, `UnsubscribedIsLeftAlone` and `EveryStartServes` are liveness,
out of the proof system's reach here; every invariant and action property of the passing runs is proved.

## 6. What is not modelled, and what could come next

* *Extraction and source clients* (`src/extract`, `src/ingest`): parsing of court pages and HTTP reads. What
  they return is the bundle, a value of every model.
* *Preview runtime*: each process seeds an in-memory database of its own; nothing is shared.
* *Schemas, tables, configuration, helpers*: no behaviour over time. Routes and scopes use the tables of
  geographies as constants.
* *Markup, styles, drawings, fixed texts* (`api/design`, `api/pages/learn.ts`, most of `api/home`): no property
  is about them.
* *HTTP application*: rate limits, the redirect to the canonical host, the health route.
* *Transports of the notifier, deployment scripts, the staging wrapper*: pure I/O
  around operators that are modelled.
* *In-memory store*, used by tests and previews, and the set-up and tagging of the bucket.

Next: the figures of the high-court and Supreme Court pages.
