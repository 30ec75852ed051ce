# A formal model of paczkomat-atlas

paczkomat-atlas mirrors the parcel lockers that InPost publishes into Postgres, joins them to
Polish gminy and European NUTS-2 regions, publishes densities through materialized views, and
shows them in a dashboard. This directory holds TLA+ modules that model the program, TLC
configurations that check them on small instances, and theorems about them checked by TLAPS.

Paths below are relative to `src/`; `ingest/` stands for `api/src/paczkomat_atlas_api/ingest/`.

## 1. Inventory

| Component | State it keeps | Operations | Talks to | What is hard | What makes it correct | Module |
|---|---|---|---|---|---|---|
| InPost client (`ingest/inpost_client.py`) | page number, items seen, announced total, attempt | iterate one country; retry a GET | InPost API | the listing moves between two requests; retries inside the loop | a quiet crawl is exact; loss and repeats are bounded by what changed; it ends | `Paging`, `InPostCrawl` |
| Point filter, row mapping (`inpost_client.py`, `ingest/sync.py`) | none | `is_valid_point`, `item_to_row`, content hash | sync | a record without a location, name, country or coordinate passes the filter and raises in the mapping; some values only Postgres refuses | only such records stop a run | `IngestPipeline` |
| Sync and pipeline (`ingest/sync.py`, `ingest/cli.py`) | current country, page, batch, stage; tables `lockers`, `ingest_snapshots` | upsert of a batch, two spatial joins, snapshot, refresh | client, Postgres | dies between any two commits, overlaps with another run, one record stops it | rows are whole accepted records; an undisturbed run repairs whatever came before | `IngestPipeline`, `LockerMirror` |
| Materialized views and pg_cron (`api/alembic/versions/`) | four views | refresh | reads `lockers` | refreshed while a run is half way | agree after a run; catch up without one | `IngestPipeline` |
| Reference loaders (`ingest/prg_loader.py`, `eurostat_loader.py`, `scripts/load_prg.sh`) | tables `gminy`, `nuts2`, `population` | load, merge, compute areas | files, Postgres | order of loads, overlapping loads, files replaced, staging shared | a load that was alone is complete; populations fit their tables | `ReferenceData` |
| BDL matching (`ingest/bdl_loader.py`) | none (an index per call) | match gminy to population units | files, Postgres | ambiguous names, redundant units, threshold | a gmina gets the preferred unit of its name or none | `BdlMatch`, `BdlIndex`, `ReferenceData` |
| Dashboard loader (`web/app/page.tsx`, `web/lib/api/client/`) | section asked for, attempt, answers so far | load, retry, render, hover | API | partial failure, answers of any shape, panels of different view generations | a failure stays in its panel; figures over one generation agree; the page is answered | `DashboardPage`, `Panels`, `ApiClient` |
| Density map (`web/components/dashboard/density-map.tsx`, `nav.tsx`) | style, layer visibility, mode, hover, camera | mount, load, chips, scope, pointer, unmount | MapLibre, tile server | clicks before load or during style traffic, handlers that share a closure | one mode at a time, the chosen one; one highlighted region | `DensityMap` |
| Gminy table (`web/components/dashboard/gminy-table.tsx`) | filters, order, menu, page | filter, sort, page, page size | TanStack Table | page index against a shorter list | the page exists, the announced range is true, in the default order the numbers count the rows shown | `GminyTable` |
| Event stream and interceptors (`web/lib/api/core/serverSentEvents.gen.ts`, `client/`) | connection, attempt, last event id, registry | connect, read, parse, yield, retry, abort; use, eject, update, clear | any server of events | breaks between any two reads, aborts anywhere, a registry that changes under an awaited loop | nothing is reordered, nothing is lost unless a read cuts a line end, an abort ends it, interceptors run | `EventStream`, `EventFeed`, `ApiClient` |
| API service (`api/src/paczkomat_atlas_api/main.py`, `db.py`, `middleware/`, `routers/`, `repositories/`) | connection pool | read endpoints, health | Postgres, Martin | pool is held while Martin is probed, a page and its total are two statements | the pool is not exhausted for ever; totals and pages agree when nothing is written | not modelled |
| Deployment (`scripts/deploy.sh`, `infra/compose/`) | images, schema, secrets | nine steps | docker | stops after any step | a rerun finishes it | not modelled |

Only presentation, or declarations: footer, button, layout, number formatting, generated types,
schemas, configuration, reconnaissance scripts and recorded samples. `PROJECT.json` lists each part of
the repository with its status, and all hazards with the line they sit at.

### How the parts interact

A CLI process crawls one country after the other. Items go through the filter and the mapping into
a batch; a full batch is one `INSERT .. ON CONFLICT` and one commit. After the last country the
process runs two `UPDATE`s that fill region columns, copies the table into a snapshot and refreshes
the views, each its own transaction. pg_cron refreshes the same views on its own clock. Nothing
coordinates processes: two may run at once, and any of them may die or be refused between two
commits. The API reads views and table. The dashboard's server component asks the API for seven sections,
one after the other, and renders what came; in the browser the map fetches tiles for itself, the table
works on the rows the page was given, and nothing is fetched again until the page is.

## 2. Modules

**`Paging`** – the arithmetic of `iter_country` (`page`, `seen`, `total`) and the page InPost cuts
from its listing when it answers. It is shared by the next two. The API itself is external; it is
modelled from how the client reads it: a listing with a serving order, `count` its length.

**`InPostCrawl`** – one crawl while the listing changes. `GetPage` is a request that is answered,
`GetFails` one attempt that tenacity repeats or gives up on, `GetRejected` an error that is not retried;
`Publish` and `Withdraw` are InPost. `published`, `withdrawn` and `stable` only record what
happened upstream since the crawl started, for the properties.

**`IngestPipeline`** – any number of CLI processes (`Runs`), the database and pg_cron. Each process
has the local variables of `sync_country` (`todo`, `crawl`, `page`, `batch`) and a `stage`. An action
reaches from one point where the process can be interrupted to the next:

| Action | Code |
|---|---|
| `StartAll` .. `StartRefresh` | the branches of `cli._main` |
| `GetPage`, `NextGet` | a turn of `iter_country` |
| `DropItem`, `ItemRaises`, `CollectItem`, `CommitBatch` | the four ways through the loop of `sync_country` |
| `EndCountry` | the rest of the batch after the loop, then the next country of `sync_all` |
| `AssignGminy`, `AssignNuts2`, `Snapshot`, `Refresh` | the stages of `full_pipeline`; `Refresh` is one view |
| `Abort` | death, an exhausted retry, an error of the database |
| `CronRefresh` | one pg_cron job |
| `ChangePoint`, `Publish`, `Withdraw` | InPost |

`DropItem` and `CollectItem` are steps of their own although the code does not await there: a death
between them is the same as one before or after. A record is a status, a place, the mark of a test
point and what is wrong with it (`Faults`): nothing; a field that the filter cannot read; a key that only
the mapping needs; a value that Postgres refuses. A row has the last accepted record of its point and the two region columns;
the content hash is equality of the record. `Upsertable` is Postgres' refusal of a statement with a value
it cannot store, or that touches one row twice. The snapshot (`SnapshotOf`) has no region columns, as
the `INSERT` into it has none. `served` and `disturbed` are history.

**`LockerMirror`** – the abstract specification of table `lockers`: it takes whole, served, accepted
records, loses none, and fills region columns once from the place a row has then. It has no processes,
no pages and no batches. `IngestPipeline` implements it (`MirrorSpec`).

**`BdlMatch`** – the index over BDL's units and the lookup of a gmina in it, as operators: `AddUnit` is a turn of
the loop that builds the index, `UnitIndex` what the loop comes to (the last unit of each key), and `Match` the
kind chain with the name-only fallback. `Normalized` is `normalize_name`, a function that sends several spellings
to one. **`BdlIndex`** is that loop as a state machine (`ReadUnit`, over the variables `units` and `index`); its properties
compare each lookup with a definition over the units themselves (`SameName`, `Preference`), after any number of
units, since a file may end there.

**`ReferenceData`** – the loading options as processes over the reference tables. One step is one
transaction together with the files read right before or after it:

| Action | Code |
|---|---|
| `Start` | the branches of `cli._main`; `merge` alone is how `docs/DEPLOY.md` goes on after `load_prg.sh` |
| `DropStaging`, `CopyStaging` | `ogr2ogr -overwrite`, which drops the layer and writes it anew |
| `Merge`, `ComputeAreas` | `merge_staging_to_gminy`, `compute_areas` |
| `LoadNuts2` | `load_nuts2_boundaries` |
| `MatchGminy`, `InsertGmina` | `load_population_gmina` up to its insert, and the insert |
| `ReadCodes`, `InsertNuts2` | `load_nuts2_population` up to its insert, and the insert |
| `Abort`, `Download` | death or an error; a file replaced by a newer one |

Its tables are what `IngestPipeline` takes as `GminaAt` and `Nuts2At`. `BdlMatch` is part of it by `EXTENDS`.

**`DashboardPage`** – one visitor's page. `ProbeHealth` and `Receive` are one request each, answered in any
way `ApiClient!Resolved` allows; `Receive` is a turn of `withRetry`; `Render` is `HomePage`, which may
throw; `EnterMarket` and `LeaveShare` are the hover of `CountryShare`; `Reload` is the next visit
(`force-dynamic`). `Refresh` is the pipeline or pg_cron renewing one view between two requests: it is the
composition with `IngestPipeline`, of whose views only the rows a panel reads are kept, by generation.

**`Panels`** – the figures of the panels as operators over rows: the KPI cards, the bars and their benchmark
line, shares of countries, the lines of the velocity chart with their labels, and what the API's summary and
top-15 queries give. **`ApiClient`** – what `request()` resolves to for every kind of response, and the
registry of interceptors.

**`DensityMap`** – the React component and its MapLibre map. `SelectLayer` is a chip with the effect it
triggers, in its two outcomes `ApplyMode` and `SkipMode`; `SelectScope` goes through the navigation bar's
event; `MouseMove` runs the handlers of both layers in the order in which `attachHover` adds them; `Load`,
`StyleTraffic` and `Zoom` are MapLibre. `missed` records that the last change of mode was skipped.

**`GminyTable`** – the component's filters and TanStack Table as it is configured (external: order, page,
`setPageIndex`, `setPageSize`, and the automatic reset of the page, which may or may not come). Each click
is one action with the effects it triggers.

**`EventStream`** – the generator of `createSseClient` with `makeSseFn`'s `onRequest`; each action goes
from one `await` or `yield` to the next:

| Action | Code |
|---|---|
| `Connect`, `LeaveAborted` | the head of the loop |
| `Intercept`, `Fetch` | one awaited interceptor; the end of that loop and the request |
| `Connected`, `Refused` | the response and the checks on it; a rejected fetch |
| `Read`, `ParseIdLine`, `Parse` | one `reader.read()`; what a cut line end makes an event of; one event |
| `StreamEnds`, `StreamBreaks`, `WakeUp` | normal end, `catch`, the backoff |
| `Pull`, `Return`, `Abort` | the consumer |
| `Use`, `Eject`, `Update`, `Clear` | other code that holds the client |

An event on the wire is three parts: its first line (the id line of an event with an id) up to the CR, the LF
of that line, and the rest. So a read can end inside an event and, when the server's lines end with CR LF (`Crlf`), inside
a line end. The code turns CR LF into LF read by read, so the LF that comes next completes
an event of the first line alone, which is `idLine` until `ParseIdLine` has remembered its id.

**`EventFeed`** is the abstract specification: a cursor over the server's log that delivers or passes over the
next event, falls back to the last event with an id, or stops. From a server with CR LF an interruption may
give up the event it cuts (`LosesNext`). It has no connections, reads, buffers or attempts.

**`MCIngestPipeline`, `MCReferenceData`, `MCBdlMatch`, `MCGminyTable`, `MCDashboardPage`** – values for TLC; the other
modules are instantiated by their cfg alone. **`PagingProofs`, `InPostCrawlProofs`, `IngestPipelineProofs`,
`ReferenceDataProofs`, `DensityMapProofs`, `GminyTableProofs`, `DashboardPageProofs`, `EventStreamProofs`** – the
theorems; `PagingProofs` holds the lemmas about listings and pages that the next two share.

## 3. Runs

| Run | Question | Bounds |
|---|---|---|
| `InPostCrawl` | what a crawl yields under churn and retries, and does it end | 5 records, pages of 2, 2 upstream changes, 2 attempts |
| `IngestPipeline` | every CLI option in any order, dying anywhere, next to pg_cron; and do table and views catch up | 2 countries, 2 points, 1 change, pages of 1, batches of 2, 2 jobs |
| `IngestOverlap` | two full runs interleaved, over sound and malformed records | 1 country, 2 points, 1 change, pages of 1, batches of 2, 2 processes; processes and points are symmetric |
| `IngestCurrent` (violation) | "current snapshot", says the model of the table | 2 points, 1 change |
| `BdlMatch` | what each gmina is matched with | every file of at most 3 units, 2 voivodeships, 3 names, 6 kinds, 4 values of rodzaj of which the chains lack one; ids are symmetric |
| `ReferenceData` | loads that overlap, die and are repeated | 2 loaders, 1 replaced file |
| `DensityMap` | which layers and which region the map shows | 3 regions, 3 gminy, 3 zooms |
| `DensityMapToggle` (violation) | "can never leave a stale visibility", says a comment | as above |
| `GminyTable` | page, range and row numbers under any clicks | 9 rows, 2 voivodeships, 3 page sizes, 3 thresholds, 3 needles |
| `DashboardPage` | what a page shows when its requests meet anything | 7 sections, 4 tries, 3 generations per view |
| `EventStream` | what a consumer is given, and does an abort end it | 5 events of 3 parts with CR LF, 3 attempts, 2 interceptors, reads of 1 to 5 parts |
| `EventStreamCrlf` (violation) | "normalize line endings", says a comment | 3 events with CR LF, 2 attempts |

`MaxChurn` and `MaxChanges` bound how often InPost changes; `PerPage`, `BatchSize` and
`MaxAttempts` are the program's own parameters made small. They are enough for the cases that differ:

- 5 records on pages of 2 give empty, full and short last pages, listings that end at a page
  boundary and listings that do not, and a page that lies behind or ahead of a change.
- 2 changes suffice to shift a record over a page boundary, shift it back, and cut the tail
  (4 records with 3 changes hold as well). 2 attempts have a first, a repeated and a last one.
- Batches of 2 and pages of 1 over 2 points give a full batch that spans pages when one country lists both
  (`IngestOverlap`), a partial last batch and an empty one. The two processes of `IngestOverlap` commit full
  and partial batches between each other's pages, and die with either.
- `MCFaulty` has a sound record in two versions and one of each kind of fault, with two statuses for the one that
  the filter may drop before the mapping would raise.
- 3 units give a gmina every combination of preferred, second, foreign and missing kinds, and two
  units that share a key with a third that does not (`MaxUnits`).
- 2 loaders and 1 replaced file (`MaxDownloads`) give every overlap of two transactions, and loads of an
  older and a newer file one after the other. The PRG files in `MCReferenceData` are one before and one
  after a gmina changed its kind, and one in which a code comes twice.
- 3 features per source give a highlighted, a left and a third one; the zooms (`UserZooms`) lie below, above and
  beyond the limits of the layers.
- 9 rows over page sizes of 2, 3 and 5 give full, partial and empty pages, ties in every column, rows
  without a voivodeship and one without a density.
- `MAX_TRIES` is the code's own; 3 generations (`MaxGen`) have empty views, a market and regions that
  appear, and a generation in which another country leads.
- 5 events mix those with an id, without, without data and rejected ones, in every order that differs for
  resuming; reads up to `MaxChunk` parts end before, inside and behind events and between the CR and the LF
  of a first line; `MaxSlots` of 2 lets one interceptor go while another waits its turn.
- One change is enough for a stale page, batch or `total` in one process; two processes turn that
  into a lost update.

The number of runs one after another is not bounded: a stopped process may always start again.

### Fairness

`InPostCrawl!FairSpec` is weak fairness of the outcome of a request: httpx has a timeout, so a request is
answered, fails or is rejected, and nothing says which. No fairness is put on starting a crawl or on
InPost. A crawl ends even though `total` may be wrong, since it is fixed by the first page and every
page either adds to `seen` or is empty.

`IngestPipeline!FairSpec` is weak fairness of each process's next step (every await is a request or a
statement that ends) and of each pg_cron job (scheduled daily), and strong fairness of starting a full run, which
`ARCHITECTURE.md:48` has happen daily although no code does: other stages may be run by hand between, and full runs are
still started again. `EventuallyInSync` also assumes that at some point runs stop dying; that InPost stops changing is the bound `MaxChanges`.

`DashboardPage!FairSpec` is weak fairness of the page's own steps: an awaited fetch settles, the pause
between two tries ends, rendering returns. No outcome is favoured, so every request may fail for ever.

`EventStream!FairSpec` is weak fairness of the generator from the abort on, and of the consumer asking for
the next event: interceptors, an aborted fetch, a cancelled reader and timers settle. A silent server may leave
a read waiting for ever, so nothing is assumed before an abort. `DensityMap` and `GminyTable` have no
liveness property: their steps are a user's.

## 4. What the runs show

Properties that hold:

- `QuietCrawlIsExact`: without upstream changes the crawl is the listing, whatever is retried.
- `LossBoundedByChurn`, `RepeatsBoundedByPublications`, `WithdrawalsNeverRepeat`,
  `PublicationsCutOnlyTheTail`: what page numbers cost when the listing moves: each change loses at
  most one record that was there all along, only publications repeat records, and a crawl that met only
  publications misses records at the tail only.
- `MirrorSpec`: no interleaving of pages, batches, joins and deaths of two processes ever makes a row that InPost
  never served under that name, or resets a region column. (The promise is what the code does, and no more:
  a region is assigned once, so a point that moves keeps its old one.)
- `RunConverges`, `RunAssignsAll`, `RunPublishesOneState`: a full run that is alone and sees a
  quiet InPost repairs what earlier runs left: points that are missing or outdated, region columns still NULL on a row
  whose place lies in a region, and views refreshed half way by cron. Rows of points no longer listed, and region
  columns that a move has made wrong, it leaves.
- `QuietRunNeverRaises`: such a run is stopped by its data for three reasons only: a listed record that the filter raises
  on (a null name), that passes the filter and raises in the mapping (no location, name, country or
  coordinate), or that Postgres refuses (a value it cannot store). It never puts one point twice into an upsert.
- `MatchIsPreferred`, `UniqueNameIsMatched`, `TownAndCountryApart`: the order of the chain decides; a gmina with
  one namesake in BDL, or with one of a kind of its chain, is matched; the fallback never chooses between namesakes of
  different kinds; and a town and its rural gmina never share a unit when BDL has units for both.
- `RowsFitTheirTable`: rows prepared before other loaders committed still fit the table.
- `PrgLoadIsComplete`, `PopulationLoadIsComplete`: a load that was alone is complete whatever
  earlier loads left in staging, without areas or half inserted. A load of regions after a load of
  populations leaves them without a population until the next one: nothing orders the options.
- `EventuallyInSync`, `ViewsCatchUp`: repeated runs bring the table to InPost's state; cron alone
  brings the views to the table's.
- `OneModeVisible`, `MapShowsChip`: whatever clicks, loading and style traffic do, the map never paints
  two modes; it shows the chosen one unless the last change was skipped; and the flights of the gmina chip and
  the PL scope end at a zoom where the layers they are for are painted.
- `NoHoverResidue`, `PointedRegionIsShown`: closure, feature states and tooltip agree on one region of the
  shown layer. A pointer event shows the region under it, except one: when the pointer comes out of a layer that was
  hidden under it, `mouseleave` of that layer runs after `mousemove` of the other and clears it until the
  pointer moves again.
- `PageNeverStuck`, `ShowingIsTrue`, `DefaultOrderIsNumbered`: the page is never past the end, "Showing a–b of
  n" and the buttons are true, and in the default order "#" counts the rows the range announces, through every filter
  and page. In another order it does not; see below.
- `PanelErrorIsEarned`: an error panel appears only after `MAX_TRIES` failures, over an empty view, or (for the
  KPI cards) over a 2xx answer without envelope. Such an answer to any other section is not retried and
  takes the whole page down: it is truthy, and its missing `data` throws while rendering.
- `FiguresAgree`: KPI cards and country shares, and benchmark line and bars, agree over one refresh of a view; over
  two nothing is promised, since the page asks for them one after the other. Two exceptions are conditions
  of the property: the list of pre-launch markets is fixed in the code (`web/lib/countries.ts:43`), so a market
  that launches counts in the cards and not in the shares, and the bars leave out regions with few inhabitants.
- `VelocityLabelsMatchLine`: labels sit on the ends of their lines whatever the order of the points.
- `PageEventuallySettles`: the page is answered, however often its requests fail.
- `FeedSpec`: however reads cut the events and wherever connections break, the consumer gets the log in order
  and only events without an id twice. It misses rejected and silent events and, from a server with CR LF line ends,
  at most the one event that is cut inside the line end of its id line by the last reads before an interruption. An event the validator rejects is
  lost for good when it has an id: the id is remembered before the data is validated.
- `InterceptorsRun`: a request skips no interceptor that stays registered, though others are ejected,
  replaced or cleared while it awaits one.
- `AbortEndsStream`: an abort ends the stream wherever it meets it. (Before one, the stream gives up after
  `sseMaxRetryAttempts` failures in its whole life: the count is not reset by a connection that worked.)

Disagreements between the code and what is said about it, each shown by a violation run:

- `IngestCurrent`: "current snapshot of all InPost pickup points" (`models/locker.py:1`): a
  point that leaves the listing or goes out of service keeps its last accepted row.
- `DensityMapToggle`: "a rapid toggle .. can never leave a stale visibility"
  (`web/components/dashboard/density-map.tsx:84`): the effect returns while `isStyleLoaded()` is false, and nothing
  repeats it, so chips and legend show one mode and the map another.
- `EventStreamCrlf`: "normalize line endings" (`web/lib/api/core/serverSentEvents.gen.ts:172`): done read by read, it makes two
  line ends of a CR LF that a read cuts. An id line is then an event without data; its id is remembered, and when
  the connection breaks before the data comes, the next one resumes behind an event that was never delivered.

Not runs of their own but visible in the models:

- `ingest/bdl_loader.py:156` says that the fallback accepts a unit "if (voj, name) is unique in BDL". Two units
  of one voivodeship, name and kind share a key of the index, so the last of them is the only candidate and is
  accepted when the gmina's chain lacks their kind (`Match`). `UniqueNameIsMatched` leaves that case open.
- `web/components/dashboard/gminy-table.tsx:234` tells the user "Filters narrow the working set; sort headers
  re-rank." The number of a row is `row.index + 1` (line 103), its place in the filtered data, which headers do not
  change (`rank`). `DefaultOrderIsNumbered` claims only what both agree on.
- Gminy that a newer PRG file no longer has stay in the table, which is not what `ingest/bdl_loader.py:3` calls the
  source of truth for which gminy exist (`ReferenceData`).
- A point that moves keeps the region columns of its old place (`AssignedGmina`, and the promise of `LockerMirror`).
- One malformed record ends every run that meets it (`ItemRaises`, and `CommitBatch` on what Postgres refuses).

## 5. What is proved

For every value of the constants, from the named assumptions of the modules. Most say that sizes are
positive, sets of names finite, sets of features disjoint and functions total, and that a null is not one of the
values it stands beside. Some say more, and why the code gives it:

- `IngestPipeline!AbsentAssumption`, `ReferenceData!CodesAssumption`, `FilesAssumption`, `Panels!NullsAssumption`:
  "no row", `NULL`, "no unit" and "no value" are not rows, areas, units or values.
- `GminyTable!ServerOrder`: the rows come in the order of the API's query (`repositories/density.py:48`).
  `ControlsAssumption`: an empty search box is one of the texts a user may leave.
- `DashboardPage!VelocityAssumption`: a country has one point of a date. The list is a constant of the API
  (`HISTORICAL` in `routers/velocity.py:25`) and has that form.
- `DashboardPage!ViewsAssumption`: what the queries of the views give whatever the table holds. The rows are finitely
  many, counts are natural numbers, and lockers and PUDO points make up the total, since `is_locker` is never null
  (`alembic/versions/d6af7bb14d60_*.py:95`); a density is a number or null (line 65). It says nothing of how rows
  of different generations or of different views relate.
- `BdlIndex!UnitIdsAssumption`: "no unit" is not the id of a unit (`if not bdl_id: continue`). That BDL gives no id twice
  is part of `ReadUnit`.

The crawl:

- `InPostCrawlProofs!TypeCorrect`.
- `QuietCrawlCorrect` (`QuietCrawlIsExact`). The property only speaks of finished
  crawls and is not inductive. `QuietInv` adds what holds during one: as long as nothing
  changed, what was yielded is the listing up to the current page's offset, `seen` is its length
  and `total`, once known, is the listing's.
- `WithdrawalsCorrect` (`WithdrawalsNeverRepeat`). `NoRepeatInv` adds that
  every record at or behind the cursor's offset has not been yielded yet: a withdrawal moves records
  towards the front only, so it can carry a record out of that range, never a yielded one into it.
- `RepeatsCorrect`, `LossCorrect`, `TailCorrect`, by `ChurnInv`. Each part of it is a budget. `RepeatInv`: the
  repeats so far and the yielded records that lie ahead again are together at most the publications.
  `LossInv`: everything that makes `seen` grow without bringing in a record that was there all along, past or still
  ahead, was paid for by a change, and a stable record that the cursor passed by was passed by because of a withdrawal;
  so when `seen` reaches the `total` of the first page, no more records are missing than changes were met.
  `OrderInv`: without withdrawals the stable records already yielded come before the others. The lemmas
  behind them say what inserting and removing one element does to the part of a listing behind an offset, and to
  its cardinality.

The pipeline:

- `IngestPipelineProofs!TypeCorrect`, by `Inv`: besides the types, a process that is fetching has a
  country, and the rows of a batch come from records the filter passed and the mapping could
  take (`Mapped`), and those of the table from such that Postgres can store (`Accepted`).
- `PipelineMirrors` (`MirrorSpec`): the pipeline implements `LockerMirror`,
  with any number of processes. Its heart is that a batch holds only mapped records that were served, and reaches the table
  only if Postgres can store all of them, also after the process slept through other processes' commits.
- `ConvergesCorrect`, `AssignsCorrect`, `PublishesCorrect`, `NeverRaises` (`RunConverges`, `RunAssignsAll`,
  `RunPublishesOneState`, `QuietRunNeverRaises`), by `QuietInv`. All four speak of a run that has ended; the invariant says
  what it has achieved at every point before. A process not in `disturbed` is alone (`SoloInv`); pages and
  batches hold points as they are now (`CurrentInv`); no listing names a point twice (`DistinctInv`); what a process
  does not need at its stage is as at the start (`RestInv`). For each process not in `disturbed` (`ProgressInv`) `Crawling` says that
  the page is the one at the cursor, that each listed, acceptable point before the cursor is in the table or the batch, that the
  batch has each point once and none from behind the cursor, and that the countries already synced are in the table; `Following`, that each stage keeps what the stages before it achieved: upsert,
  both joins, snapshot, and the views refreshed so far; `Raising`, that a run was stopped by a listed
  record that raises in the filter or the mapping or that Postgres refuses. `RunAssignsAll` says that no region column stays NULL
  where a region contains the row, not that a region that is there is still the right one. Steps of others preserve it: a process that starts beside it puts both into `disturbed`, one that
  starts after it finds nothing left to change (`SettledStays`), and pg_cron gives a view that is up to date the rows it has.

The reference tables:

- `ReferenceDataProofs!TypeCorrect` and `RowsFit` (`RowsFitTheirTable`). The invariant is inductive
  together with the types; the argument is that no action removes a row of `gminy` or `nuts2` (`Gains`),
  so what was read stays true until it is used, however long the loader is suspended.
- `PrgComplete`, `PopulationComplete` (`PrgLoadIsComplete`, `PopulationLoadIsComplete`), by `LoadInv`: a loader is at
  a stage of its option (`StageInv`), one that is not disturbed is alone (`SoloInv`), what it has read
  and written since it started is what files and tables still hold, stage by stage (`PrgInv`, `PopulationInv`), and a load of
  populations passed the check of the match rate for the rows it is about to insert.

- `IndexIsOfTheLast`, by `IndexInv` (no property of a run): after every turn the dictionary is `UnitIndex` of the units read,
  so the closed form that `ReferenceData` matches with is what the loop computes. The invariant is inductive because a
  new unit has the highest place in the file and hides the earlier ones of its key only.
- `MatchedArePreferred`, `UniqueNamesAreMatched`, `TownAndCountryAreApart` (`MatchIsPreferred`, `UniqueNameIsMatched`,
  `TownAndCountryApart`), from the same invariant and from two facts about the table of chains: no chain has a kind
  twice, so a kind has one place in it, and those of towns and of rural gminy have none in common. The fallback never
  chooses between kinds because ids are unique: one candidate means one key, so all namesakes are of one kind.

The dashboard:

- `DensityMapProofs!TypeCorrect`, `OneModeCorrect`, `ChipCorrect`, `HoverCorrect`, `PointerCorrect`. `MapInv` adds to
  the types that the layers carry one mode and, unless `missed`, the chosen one (`LayersCarryAMode`), that
  the hover state is about one region of the visible mode or none (`OneHover`), and that the camera is where its
  last flight sent it (`CameraReachesGminy`). What makes it inductive is that a table of `LAYER_VISIBILITY`
  names every data layer and that the effect clears the hover before it changes layers.
- `GminyTableProofs!TypeCorrect`, `NeverStuck`, `ShowingCorrect`, `DefaultOrderNumbered` (`PageNeverStuck`, `ShowingIsTrue`,
  `DefaultOrderIsNumbered`). `TableInv` adds to the types that the page begins at a row or is the first (`PageBegins`), which
  moves, new page sizes and filters keep for different reasons. The other two properties rest on the order: it
  numbers the filtered rows from 0 and leaves none out, because the comparison is total and ties are broken by
  the row's index; and the server's order makes the default order the order of the indices, so a row's number is
  its position plus one.
- `DashboardPageProofs!TypeCorrect` and `PanelErrorsEarned` (`PanelErrorIsEarned`). `PageInv` adds what holds
  while the page still loads: a section that was asked for and has no data used up its tries
  (`TriesUsedUp`), the page leaves `"loading"` only with every section asked for (`ShownWhenComplete`),
  and only a page that is shown has a hovered market (`HoverNeedsPage`).
- `DashboardPageProofs!LabelsMatch` (`VelocityLabelsMatchLine`): a statement about the constants. The dates of a country are finitely
  many, so the first and the last exist, and one point per date makes the label's value the line's.
- `DashboardPageProofs!FiguresCorrect` (`FiguresAgree`), for any rows that `ViewsAssumption` admits. A sum over rows is
  a fold, and the library's induction cannot be applied to it; the proofs take the least of the sets of rows for which
  an equation fails instead, the strict subsets of a finite set being well-founded (`SubsetInduction`). So a sum takes its rows in any order
  (`TotalWithout`), the sum of sums is the sum (`TotalAdds`) and a part has at most the whole's (`TotalOfPart`). The benchmark line
  is on the chart because the densest of the big regions is never cut from the list (`TopHasDensest`), and a part of a whole
  is at most 1000 per mille of it (`PartIsPerMille`).
- `EventStreamProofs!TypeCorrect`, `InterceptorsCorrect`, `StreamFeeds`, `LineFeedsLoseNothing`. `StreamInv` adds that a retry leaves an
  attempt (`AttemptsLeft`); that `lastEventId` is the last id at or before the handled event, so falling
  back to it is a step of the feed, or, behind a cut line end only, the id of the next event (`Cursor`); that `idLine`
  and the pending events are what lies between the handled event and what was read (`ReadAhead`); and that every registered interceptor the loop has not run yet lies
  ahead of its index in the array it iterates (`Ahead`), which is why ejecting must leave a hole. Without CR LF the second case
  of `Cursor` never occurs, and the stream implements the feed that loses nothing: `LineEndsNormalized`, which the run
  `EventStreamCrlf` refutes for CR LF, is a theorem under `~Crlf`.

The invariants above were first checked by TLC on the instances of section 3.

Only model-checked: liveness (`CrawlTerminates`, `EventuallyInSync`, `ViewsCatchUp`, `PageEventuallySettles`,
`AbortEndsStream`), which is out of TLAPS's reach here. Every other property that a passing run checks is
stated by one of these theorems.

## 6. What is abstracted

- Each spatial join is one atomic `UPDATE`, and each refresh one atomic step per view, without row locks.
- In `IngestPipeline` a retried GET is one that is answered later; `InPostCrawl` has the attempts.
- A place is a model value; `GminaAt`, `Nuts2At` and `CellAt` are the reference tables and H3.
- A view keeps its grouping keys and counts of live points; population, area and the 24/7 share are
  columns of the same rows.
- Populations have one year, the newest; names, voivodeship labels and country columns that nothing
  compares are left out. A unit without an id or with a short one is not in the file.
- `CopyStaging` fills the layer in one step: ogr2ogr commits its copy at the end.
- Earlier snapshots (`ingest_snapshots` is append-only) are dropped: only the latest is kept.
- In `DashboardPage` a response is its status, content type and the shape of its body; view rows carry the
  columns that panels compare. Shares are per mille and ratios pairs, so that all figures stay whole numbers.
- `TopNuts2` keeps all regions that tie for the last place, of which the query returns some.
- In `DensityMap` a click and the effects React runs for it are one step, and the camera is the goal of its last
  flight. Paint, labels, fullscreen and the legend's gradient are left out.
- In `EventStream` the buffer is the number of parts read. A cut inside the line end of an event's first line is modelled;
  an event has one `data:` line, and one with several, which a cut between them would yield in pieces, is not. Events without any field
  only reach `onSseEvent`. Backoff has no length; `retry:` and `event:` lines change nothing that is checked.
- In `IngestPipeline` a record has at most one fault, and what exactly is wrong with it is left out.
- In `GminyTable` one column sorts at a time: TanStack's shift-click, which adds a column to the order
  (`gminy-table.tsx:54`, `434`), is left out.

## 7. Not modelled

- The API service: its handlers only read. What the dashboard can get from it, failures of any kind included, is
  modelled at the client; pool exhaustion, the health probe holding a connection while it waits for the
  tile server, and cache headers on error answers are hazards listed without a property.
- Row locks and the two phases of `REFRESH .. CONCURRENTLY`: which of two deadlocked statements Postgres
  kills is its own choice, and in `IngestPipeline` a killed run is an `Abort`.
- The rest of the generated client: building of addresses, serializers, auth tokens, types and schemas are pure
  functions or declarations.
- Migrations, deployment, tile server, reverse proxy and pooler: scripts and configuration of programs that are
  not part of the repository.
- MapLibre, TanStack Table, Recharts and React are external and modelled as far as the components use them.
