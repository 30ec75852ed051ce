--------------------------- MODULE IngestPipeline ---------------------------
(***************************************************************************)
(* The ingest CLI: crawl, filter and upsert of every country, the spatial  *)
(* joins, the snapshot and the refresh of the materialized views, run as   *)
(* one or several processes against one Postgres database, next to pg_cron *)
(* and to an upstream listing that changes.                                *)
(*                                                                         *)
(* What a step may do atomically follows the code's transactions.  A batch *)
(* is upserted and committed on its own; each spatial join, the snapshot   *)
(* and each REFRESH are one statement and one commit.  A process may die   *)
(* or be refused by the API or the database before any of them: its memory *)
(* is lost and everything it committed stays.                              *)
(***************************************************************************)
EXTENDS Paging, FiniteSets, SequencesExt

CONSTANTS
    Runs,            \* invocations of the CLI that may be active together
    CountriesActive, \* COUNTRIES_ACTIVE, in crawl order
    Lockers,         \* names of points
    CountryOf,       \* the country that lists a name
    Points,          \* what InPost may say of a point: [status, place, test, fault]
    BatchSize,       \* --batch-size
    Poland,          \* the country assign_gminy is about
    NullIsland,      \* a place: latitude and longitude are zero
    GminaAt,         \* place -> the gmina that contains it, or Null
    Nuts2At,         \* place -> the NUTS-2 region that contains it, or Null
    CellAt,          \* place -> its H3 cell
    Null,            \* SQL NULL
    Absent,          \* no row of that name
    Commands,        \* the CLI options in use in a deployment
    CronJobs,        \* the views pg_cron refreshes
    MaxChanges       \* bound: changes InPost makes

Places == DOMAIN GminaAt

\* What may be wrong with a record: a field the filter reads has a type it
\* cannot read (a name that is null); a key that only the mapping needs is
\* missing (location, name, country, a coordinate); the row has a value
\* Postgres refuses (a coordinate that is no number, a text too long).
Faults == {"none", "untyped", "unmapped", "refused"}

ASSUME RunsAssumption == Runs # {}
ASSUME CountriesAssumption == CountriesActive \in Seq(STRING) \ {<<>>}
ASSUME LockersAssumption ==
    /\ IsFiniteSet(Lockers)
    /\ CountryOf \in [Lockers -> ToSet(CountriesActive)]
ASSUME PointsAssumption ==
    /\ NullIsland \in Places
    /\ DOMAIN Nuts2At = Places
    /\ DOMAIN CellAt = Places
    /\ \A p \in Points : DOMAIN p = {"status", "place", "test", "fault"}
    /\ \A p \in Points : p.place \in Places /\ p.fault \in Faults
ASSUME CommandsAssumption == Commands \subseteq {"all", "country", "assign", "snapshot", "refresh"}
ASSUME BatchSizeAssumption == BatchSize \in Nat \ {0}
ASSUME MaxChangesAssumption == MaxChanges \in Nat

VARIABLES
    (* upstream *)
    listing,    \* country -> the names it lists, in serving order
    point,      \* name -> what InPost currently says of it
    changes,    \* number of upstream changes (bounded by MaxChanges)
    (* the database *)
    lockers,    \* name -> row of table lockers, or Absent
    snapshot,   \* the rows of the latest snapshot in ingest_snapshots
    views,      \* materialized view -> contents of its last refresh
    (* each process *)
    stage,      \* what it does next
    full,       \* it runs full_pipeline, not a single stage
    todo,       \* countries still to sync, the current one first
    crawl,      \* iter_country: page, seen, total
    page,       \* items of the current page not yet consumed
    last,       \* the current page is the crawl's last
    batch,      \* rows collected and not yet upserted
    nextView,   \* index of the view to refresh next
    (* observation only *)
    served,     \* every item ever served to a crawl
    disturbed   \* runs that were not alone with a quiet upstream

upstream == <<listing, point, changes>>
database == <<lockers, snapshot, views>>
sync     == <<todo, crawl, page, last, batch>>
process  == <<stage, full, sync, nextView>>
vars     == <<upstream, database, process, served, disturbed>>

-----------------------------------------------------------------------------
(* Records and rows. *)

Items == [name : Lockers, point : Points]

ValidStatuses == {"Operating", "Created", "Disabled", "Overloaded"}
LiveStatuses  == {"Operating", "Overloaded"}

\* is_valid_point: what it reads with get() may be missing.
IsValidPoint(p) ==
    /\ ~p.test
    /\ p.place # NullIsland
    /\ p.status \in ValidStatuses

\* The filter itself raises, or item_to_row on a record that passed it.
Raises(p) ==
    \/ p.fault = "untyped" /\ ~p.test
    \/ p.fault = "unmapped" /\ IsValidPoint(p)

\* The points that reach a batch, and those that become rows.
Mapped   == {p \in Points : IsValidPoint(p) /\ ~Raises(p)}
Storable == {p \in Points : p.fault # "refused"}
Accepted == Mapped \cap Storable

Row(p, g, n) == [point |-> p, gmina |-> g, nuts2 |-> n]

RowType == [point : Points, gmina : {GminaAt[x] : x \in Places} \cup {Null},
            nuts2 : {Nuts2At[x] : x \in Places} \cup {Null}]

ASSUME AbsentAssumption == Absent \notin RowType

Named(items) == {items[i].name : i \in DOMAIN items}

\* The item a statement ends up with for a name, when it is given several.
LastNamed(rows, n) ==
    rows[CHOOSE i \in DOMAIN rows :
            /\ rows[i].name = n
            /\ \A j \in DOMAIN rows : rows[j].name = n => j <= i]

\* The WHERE clause on the content hash: only such an item writes its row.
Writes(table, item) ==
    \/ table[item.name] = Absent
    \/ table[item.name].point # item.point

\* Mutant: ON CONFLICT DO NOTHING.
UpsertDoNothing(table, rows) ==
    [n \in Lockers |->
        IF n \in Named(rows) /\ table[n] = Absent
        THEN Row(LastNamed(rows, n).point, Null, Null) ELSE table[n]]

\* INSERT ... ON CONFLICT (name) DO UPDATE.  The columns filled by the spatial
\* joins are not in the SET list.
Upsert(table, rows) ==
    [n \in Lockers |->
        IF n \notin Named(rows) THEN table[n]
        ELSE IF table[n] = Absent THEN Row(LastNamed(rows, n).point, Null, Null)
        ELSE [table[n] EXCEPT !.point = LastNamed(rows, n).point]]

\* Postgres refuses a statement that has a value it cannot store, or that
\* comes back to a row it has written.
Upsertable(table, rows) ==
    /\ \A i \in DOMAIN rows : rows[i].point \in Storable
    /\ \A i, j \in DOMAIN rows :
        (i < j /\ rows[i].name = rows[j].name) => ~Writes(table, rows[i])

\* Mutant: the join without IS NULL, which recomputes assigned rows.
AssignedGminaAnew(table) ==
    [n \in Lockers |->
        IF table[n] # Absent /\ CountryOf[n] = Poland
        THEN [table[n] EXCEPT !.gmina = GminaAt[table[n].point.place]]
        ELSE table[n]]

\* UPDATE lockers SET gmina_teryt .. WHERE country = 'PL' AND gmina_teryt IS NULL
AssignedGmina(table) ==
    [n \in Lockers |->
        IF /\ table[n] # Absent
           /\ CountryOf[n] = Poland
           /\ table[n].gmina = Null
        THEN [table[n] EXCEPT !.gmina = GminaAt[table[n].point.place]]
        ELSE table[n]]

\* Mutants: the country filter of the gmina join kept by mistake; the gmina
\* written to the wrong column.
AssignedNuts2PolandOnly(table) ==
    [n \in Lockers |->
        IF table[n] # Absent /\ CountryOf[n] = Poland /\ table[n].nuts2 = Null
        THEN [table[n] EXCEPT !.nuts2 = Nuts2At[table[n].point.place]]
        ELSE table[n]]
AssignedNuts2WrongColumn(table) ==
    [n \in Lockers |->
        IF table[n] # Absent /\ table[n].nuts2 = Null
        THEN [table[n] EXCEPT !.nuts2 = GminaAt[table[n].point.place]]
        ELSE table[n]]

\* UPDATE lockers SET nuts2_id .. WHERE nuts2_id IS NULL
AssignedNuts2(table) ==
    [n \in Lockers |->
        IF table[n] # Absent /\ table[n].nuts2 = Null
        THEN [table[n] EXCEPT !.nuts2 = Nuts2At[table[n].point.place]]
        ELSE table[n]]

\* INSERT INTO ingest_snapshots: the row without its region columns.
SnapshotOf(table) ==
    [n \in Lockers |-> IF table[n] = Absent THEN Absent
                       ELSE [status |-> table[n].point.status, place |-> table[n].point.place]]

SnapshotRow == [status : {p.status : p \in Points}, place : Places]

-----------------------------------------------------------------------------
(* The materialized views.  Each groups the live rows by a key and counts   *)
(* them; population, area and the 24/7 share are columns of the same rows   *)
(* and are left out.                                                        *)

Views == <<"mv_country_kpi", "mv_density_gmina", "mv_density_nuts2",
           "mv_h3_density_r8">>

Present(table) == {n \in Lockers : table[n] # Absent}
Live(table)    == {n \in Present(table) : table[n].point.status \in LiveStatuses}

CountBy(names, keys, Key(_)) ==
    [k \in keys |-> Cardinality({n \in names : Key(n) = k})]

CountryKpi(table) ==
    LET Key(n) == CountryOf[n]
    IN  CountBy(Live(table), {Key(n) : n \in Present(table)}, Key)

\* gminy and nuts2 are LEFT JOINed: every region has a row.
DensityGmina(table) ==
    LET Key(n) == table[n].gmina
    IN  CountBy(Live(table), {GminaAt[x] : x \in Places} \ {Null}, Key)

DensityNuts2(table) ==
    LET Key(n) == table[n].nuts2
    IN  CountBy(Live(table), {Nuts2At[x] : x \in Places} \ {Null}, Key)

H3Density(table) ==
    LET Key(n) == <<CellAt[table[n].point.place], CountryOf[n]>>
    IN  CountBy(Live(table), {Key(n) : n \in Live(table)}, Key)

Query(view, table) ==
    CASE view = "mv_country_kpi"   -> CountryKpi(table)
      [] view = "mv_density_gmina" -> DensityGmina(table)
      [] view = "mv_density_nuts2" -> DensityNuts2(table)
      [] view = "mv_h3_density_r8" -> H3Density(table)

-----------------------------------------------------------------------------

EmptyTable == [n \in Lockers |-> Absent]

Init ==
    /\ listing \in [ToSet(CountriesActive) ->
                        UNION {[1 .. k -> Lockers] : k \in 0 .. Cardinality(Lockers)}]
    /\ \A c \in ToSet(CountriesActive) :
            /\ IsInjective(listing[c])
            /\ ToSet(listing[c]) \subseteq {n \in Lockers : CountryOf[n] = c}
    /\ point \in [Lockers -> Points]
    /\ changes = 0
    /\ lockers = EmptyTable
    /\ snapshot = SnapshotOf(EmptyTable)
    /\ views = [v \in ToSet(Views) |-> Query(v, EmptyTable)]
    /\ stage = [r \in Runs |-> "idle"]
    /\ full = [r \in Runs |-> FALSE]
    /\ todo = [r \in Runs |-> <<>>]
    /\ crawl = [r \in Runs |-> NewCrawl]
    /\ page = [r \in Runs |-> <<>>]
    /\ last = [r \in Runs |-> FALSE]
    /\ batch = [r \in Runs |-> <<>>]
    /\ nextView = [r \in Runs |-> 1]
    /\ served = {}
    /\ disturbed = {}

Stopped == {"idle", "done", "failed", "raised"}
Active  == {r \in Runs : stage[r] \notin Stopped}

-----------------------------------------------------------------------------
(* The command line. *)

\* A process starts; what it does first and whether it goes on to the other
\* stages depends on its option.  A single-country run only syncs.
Start(r, first, isFull, countries) ==
    /\ stage[r] \in Stopped
    /\ stage' = [stage EXCEPT ![r] = first]
    /\ full' = [full EXCEPT ![r] = isFull]
    /\ todo' = [todo EXCEPT ![r] = countries]
    /\ disturbed' = IF Active = {} THEN disturbed \ {r}
                    ELSE disturbed \cup {r} \cup Active
    /\ UNCHANGED <<upstream, database, crawl, page, last, batch, nextView, served>>

StartAll(r)        == "all" \in Commands /\ Start(r, "get", TRUE, CountriesActive)
StartCountry(r, c) == "country" \in Commands /\ Start(r, "get", FALSE, <<c>>)
StartAssign(r)     == "assign" \in Commands /\ Start(r, "gminy", FALSE, <<>>)
StartSnapshot(r)   == "snapshot" \in Commands /\ Start(r, "snapshot", FALSE, <<>>)
StartRefresh(r)    == "refresh" \in Commands /\ Start(r, "refresh", FALSE, <<>>)

\* A process ends early: nothing it kept in memory survives, and its open
\* transaction is rolled back.
Exit(r, how) ==
    /\ stage' = [stage EXCEPT ![r] = how]
    /\ todo' = [todo EXCEPT ![r] = <<>>]
    /\ crawl' = [crawl EXCEPT ![r] = NewCrawl]
    /\ page' = [page EXCEPT ![r] = <<>>]
    /\ last' = [last EXCEPT ![r] = FALSE]
    /\ batch' = [batch EXCEPT ![r] = <<>>]
    /\ nextView' = [nextView EXCEPT ![r] = 1]

\* The process dies, or an error of the API or of the database reaches the
\* top: no stage catches anything.
Abort(r) ==
    /\ stage[r] \notin Stopped
    /\ Exit(r, "failed")
    /\ UNCHANGED <<upstream, database, full, served, disturbed>>

-----------------------------------------------------------------------------
(* sync_country: fetch, filter, upsert. *)

Goto(r, next) == stage' = [stage EXCEPT ![r] = next]

\* A page arrives; a GET that was retried arrives later, one that was not
\* answered in MaxAttempts attempts is an Abort.
GetPage(r) ==
    /\ stage[r] = "get"
    /\ LET names == listing[Head(todo[r])]
           items == [i \in DOMAIN PageOf(names, crawl[r].page) |->
                        LET n == PageOf(names, crawl[r].page)[i]
                        IN  [name |-> n, point |-> point[n]]]
           n     == Len(items)
           count == Len(names)
       IN  /\ page' = [page EXCEPT ![r] = items]
           /\ last' = [last EXCEPT ![r] = CrawlEnds(crawl[r], n, count)]
           /\ crawl' = [crawl EXCEPT ![r] = NextPage(crawl[r], n, count)]
           /\ served' = served \cup ToSet(items)
    /\ Goto(r, "take")
    /\ UNCHANGED <<upstream, database, full, todo, batch, nextView, disturbed>>

\* One item that the filter drops.
DropItem(r) ==
    /\ stage[r] = "take"
    /\ page[r] # <<>>
    /\ ~Raises(Head(page[r]).point)
    /\ ~IsValidPoint(Head(page[r]).point)
    /\ page' = [page EXCEPT ![r] = Tail(@)]
    /\ UNCHANGED <<upstream, database, stage, full, todo, crawl, last, batch,
                   nextView, served, disturbed>>

\* The filter or the mapping raises on the item, and nothing catches it.
ItemRaises(r) ==
    /\ stage[r] = "take"
    /\ page[r] # <<>>
    /\ Raises(Head(page[r]).point)
    /\ Exit(r, "raised")
    /\ UNCHANGED <<upstream, database, full, served, disturbed>>

\* One item becomes a row of the batch, which is not full yet.
CollectItem(r) ==
    /\ stage[r] = "take"
    /\ page[r] # <<>>
    /\ Head(page[r]).point \in Mapped
    /\ Len(batch[r]) + 1 < BatchSize
    /\ batch' = [batch EXCEPT ![r] = Append(@, Head(page[r]))]
    /\ page' = [page EXCEPT ![r] = Tail(@)]
    /\ UNCHANGED <<upstream, database, stage, full, todo, crawl, last, nextView,
                   served, disturbed>>

\* The item that fills the batch: the batch is upserted and committed.
CommitBatch(r) ==
    /\ stage[r] = "take"
    /\ page[r] # <<>>
    /\ Head(page[r]).point \in Mapped
    /\ Len(batch[r]) + 1 >= BatchSize
    /\ LET rows == Append(batch[r], Head(page[r]))
       IN  \/ /\ Upsertable(lockers, rows)
              /\ lockers' = Upsert(lockers, rows)
              /\ batch' = [batch EXCEPT ![r] = <<>>]
              /\ page' = [page EXCEPT ![r] = Tail(@)]
              /\ UNCHANGED <<stage, todo, crawl, last, nextView>>
           \/ /\ ~Upsertable(lockers, rows)
              /\ Exit(r, "raised")
              /\ UNCHANGED lockers
    /\ UNCHANGED <<upstream, snapshot, views, full, served, disturbed>>

\* The page is used up and the crawl goes on.
NextGet(r) ==
    /\ stage[r] = "take"
    /\ page[r] = <<>>
    /\ ~last[r]
    /\ Goto(r, "get")
    /\ UNCHANGED <<upstream, database, full, sync, nextView, served, disturbed>>

\* The generator has returned: the rows left over are upserted and committed,
\* then the next country follows, or the stages after the sync.
EndCountry(r) ==
    /\ stage[r] = "take"
    /\ page[r] = <<>>
    /\ last[r]
    /\ \/ /\ Upsertable(lockers, batch[r])
          /\ lockers' = Upsert(lockers, batch[r])
          /\ batch' = [batch EXCEPT ![r] = <<>>]
          /\ todo' = [todo EXCEPT ![r] = Tail(@)]
          /\ crawl' = [crawl EXCEPT ![r] = NewCrawl]
          /\ last' = [last EXCEPT ![r] = FALSE]
          /\ Goto(r, IF Len(todo[r]) > 1 THEN "get"
                     ELSE IF full[r] THEN "gminy" ELSE "done")
          /\ UNCHANGED <<page, nextView>>
       \/ /\ ~Upsertable(lockers, batch[r])
          /\ Exit(r, "raised")
          /\ UNCHANGED lockers
    /\ UNCHANGED <<upstream, snapshot, views, full, served, disturbed>>

-----------------------------------------------------------------------------
(* The stages after the sync, each one statement and one commit. *)

AssignGminy(r) ==
    /\ stage[r] = "gminy"
    /\ lockers' = AssignedGmina(lockers)
    /\ Goto(r, "nuts2")
    /\ UNCHANGED <<upstream, snapshot, views, full, sync, nextView, served,
                   disturbed>>

AssignNuts2(r) ==
    /\ stage[r] = "nuts2"
    /\ lockers' = AssignedNuts2(lockers)
    /\ Goto(r, IF full[r] THEN "snapshot" ELSE "done")
    /\ UNCHANGED <<upstream, snapshot, views, full, sync, nextView, served,
                   disturbed>>

Snapshot(r) ==
    /\ stage[r] = "snapshot"
    /\ snapshot' = SnapshotOf(lockers)
    /\ Goto(r, IF full[r] THEN "refresh" ELSE "done")
    /\ UNCHANGED <<upstream, lockers, views, full, sync, nextView, served,
                   disturbed>>

\* Mutant: the loop over the views stops one short.
RefreshOneShort(r) ==
    /\ stage[r] = "refresh"
    /\ LET v == Views[nextView[r]]
       IN  views' = [views EXCEPT ![v] = Query(v, lockers)]
    /\ \/ /\ nextView[r] < Len(Views) - 1
          /\ nextView' = [nextView EXCEPT ![r] = @ + 1]
          /\ UNCHANGED stage
       \/ /\ nextView[r] = Len(Views) - 1
          /\ nextView' = [nextView EXCEPT ![r] = 1]
          /\ Goto(r, "done")
    /\ UNCHANGED <<upstream, lockers, snapshot, full, sync, served, disturbed>>

\* REFRESH MATERIALIZED VIEW CONCURRENTLY, one view and one commit at a time.
Refresh(r) ==
    /\ stage[r] = "refresh"
    /\ LET v == Views[nextView[r]]
       IN  views' = [views EXCEPT ![v] = Query(v, lockers)]
    /\ \/ /\ nextView[r] < Len(Views)
          /\ nextView' = [nextView EXCEPT ![r] = @ + 1]
          /\ UNCHANGED stage
       \/ /\ nextView[r] = Len(Views)
          /\ nextView' = [nextView EXCEPT ![r] = 1]
          /\ Goto(r, "done")
    /\ UNCHANGED <<upstream, lockers, snapshot, full, sync, served, disturbed>>

-----------------------------------------------------------------------------
(* The surroundings. *)

\* Mutant: a job that names another view than its own.
CronRefreshKpiOnly(v) ==
    /\ views' = [views EXCEPT !["mv_country_kpi"] = Query("mv_country_kpi", lockers)]
    /\ UNCHANGED <<upstream, lockers, snapshot, process, served, disturbed>>

\* A pg_cron job refreshes its view on its own schedule.
CronRefresh(v) ==
    /\ views' = [views EXCEPT ![v] = Query(v, lockers)]
    /\ UNCHANGED <<upstream, lockers, snapshot, process, served, disturbed>>

\* InPost changes what it says of a point, publishes one or withdraws one.
UpstreamChange ==
    /\ changes < MaxChanges
    /\ changes' = changes + 1
    /\ disturbed' = Runs
    /\ UNCHANGED <<database, process, served>>

ChangePoint(n, p) ==
    /\ point[n] # p
    /\ point' = [point EXCEPT ![n] = p]
    /\ UNCHANGED listing
    /\ UpstreamChange

Publish(n, i) ==
    LET c == CountryOf[n]
    IN  /\ n \notin ToSet(listing[c])
        /\ i <= Len(listing[c]) + 1
        /\ listing' = [listing EXCEPT ![c] = InsertAt(@, i, n)]
        /\ UNCHANGED point
        /\ UpstreamChange

Withdraw(c, i) ==
    /\ i <= Len(listing[c])
    /\ listing' = [listing EXCEPT ![c] = RemoveAt(@, i)]
    /\ UNCHANGED point
    /\ UpstreamChange

Command(r) ==
    \/ StartAll(r)
    \/ \E c \in ToSet(CountriesActive) : StartCountry(r, c)
    \/ StartAssign(r)
    \/ StartSnapshot(r)
    \/ StartRefresh(r)

Step(r) ==
    \/ GetPage(r) \/ DropItem(r) \/ ItemRaises(r)
    \/ CollectItem(r) \/ CommitBatch(r) \/ NextGet(r) \/ EndCountry(r)
    \/ AssignGminy(r) \/ AssignNuts2(r) \/ Snapshot(r) \/ Refresh(r)

InPost ==
    \/ \E n \in Lockers, p \in Points : ChangePoint(n, p)
    \/ \E n \in Lockers, i \in 1 .. Cardinality(Lockers) : Publish(n, i)
    \/ \E c \in ToSet(CountriesActive), i \in 1 .. Cardinality(Lockers) : Withdraw(c, i)

Next ==
    \/ \E r \in Runs : Command(r) \/ Step(r) \/ Abort(r)
    \/ \E v \in CronJobs : CronRefresh(v)
    \/ InPost

Spec == Init /\ [][Next]_vars

-----------------------------------------------------------------------------
(* Properties. *)

\* Types of the database and of the processes.
TypeOK ==
    /\ listing \in [ToSet(CountriesActive) -> Seq(Lockers)]
    /\ point \in [Lockers -> Points]
    /\ changes \in 0 .. MaxChanges
    /\ lockers \in [Lockers -> RowType \cup {Absent}]
    /\ snapshot \in [Lockers -> SnapshotRow \cup {Absent}]
    /\ DOMAIN views = ToSet(Views)
    /\ stage \in [Runs -> Stopped \cup {"get", "take", "gminy", "nuts2",
                                       "snapshot", "refresh"}]
    /\ full \in [Runs -> BOOLEAN]
    /\ todo \in [Runs -> Seq(ToSet(CountriesActive))]
    /\ crawl \in [Runs -> [page : Nat \ {0}, seen : Nat, total : Nat \cup {Unknown}]]
    /\ page \in [Runs -> Seq(Items)]
    /\ last \in [Runs -> BOOLEAN]
    /\ batch \in [Runs -> Seq(Items)]
    /\ nextView \in [Runs -> 1 .. Len(Views)]
    /\ served \in SUBSET Items
    /\ disturbed \in SUBSET Runs

\* A run of full_pipeline that has ended, was the only process throughout and
\* saw no upstream change.  What came before it is arbitrary: runs that died
\* between any two commits, runs that overlapped, pages cut by churn.
Undisturbed(r) == stage[r] = "done" /\ full[r] /\ r \notin disturbed

ListedPoints == UNION {ToSet(listing[c]) : c \in ToSet(CountriesActive)}

\* Whatever earlier runs left behind, such a run brings every listed and
\* acceptable point to the version InPost serves: batches, partial last
\* batches, content-hash skips and page ends lose nothing (sync_country).
RunConverges ==
    \A r \in Runs : Undisturbed(r) =>
        \A n \in ListedPoints : IsValidPoint(point[n]) =>
            lockers[n] # Absent /\ lockers[n].point = point[n]

\* After such a run no row that lies in a region is left without it, whichever
\* stage an earlier run died before (assign_gminy, assign_nuts2).
RunAssignsAll ==
    \A r \in Runs : Undisturbed(r) =>
        \A n \in Present(lockers) :
            /\ (CountryOf[n] = Poland /\ lockers[n].gmina = Null) =>
                    GminaAt[lockers[n].point.place] = Null
            /\ lockers[n].nuts2 = Null => Nuts2At[lockers[n].point.place] = Null

\* After such a run the snapshot and the four views describe the same table,
\* although pg_cron refreshed any of them at any time in between
\* (full_pipeline's order: joins, snapshot, refresh).
RunPublishesOneState ==
    \A r \in Runs : Undisturbed(r) =>
        /\ snapshot = SnapshotOf(lockers)
        /\ \A v \in ToSet(Views) : views[v] = Query(v, lockers)

\* While it is alone with a quiet upstream, a run is stopped by its own data
\* only if InPost lists a record that stops every run: one that the filter or
\* the mapping raises on, or one that passes both and that Postgres refuses.
\* No batch holds a name twice, since the pages of a quiet crawl do not overlap.
QuietRunNeverRaises ==
    \A r \in Runs : (stage[r] = "raised" /\ r \notin disturbed) =>
        \E n \in ListedPoints : Raises(point[n]) \/ point[n] \in Mapped \ Storable

\* Two runs whose batches interleave, that die in the middle of a country or
\* hold a page for longer than the other runs, and an upstream that changes
\* meanwhile keep the promise of LockerMirror: no row is lost, mixed from two
\* records, or taken from one that was not served and accepted.
Mirrored == INSTANCE LockerMirror WITH served <- served, lockers <- lockers
MirrorSpec == Mirrored!Spec

\* Once InPost stops changing and runs stop dying, the daily full run brings
\* the table to what InPost lists, and it stays there.
AnyAbort == \E r \in Runs : Abort(r)
InSync ==
    \A n \in ListedPoints : IsValidPoint(point[n]) =>
        lockers[n] # Absent /\ lockers[n].point = point[n]
EventuallyInSync == <>[][~AnyAbort]_vars => <>[]InSync

\* Once the table stops changing, every view that has a pg_cron job comes to
\* describe it, even when every run dies before its own refresh.
ViewsCatchUp ==
    <>[][lockers' = lockers]_vars =>
        <>[](\A v \in CronJobs : views[v] = Query(v, lockers))

\* Each started stage makes progress (every await is bounded by a timeout or
\* a statement that ends), and the full pipeline is started again and again,
\* whatever other stages are run by hand between (ARCHITECTURE.md has it run
\* daily).  pg_cron runs each job daily.
FairSpec ==
    /\ Spec
    /\ \A r \in Runs : WF_vars(Step(r)) /\ SF_vars(StartAll(r))
    /\ \A v \in CronJobs : WF_vars(CronRefresh(v))

-----------------------------------------------------------------------------
(* What documents, comments and tests say. *)

\* "Lockers -- current snapshot of all InPost pickup points": after an
\* undisturbed run no row describes a point InPost no longer lists, or lists
\* as something else.
TableIsCurrentSnapshot ==
    \A r \in Runs : Undisturbed(r) =>
        \A n \in Present(lockers) :
            n \in ListedPoints /\ lockers[n].point.status = point[n].status

=============================================================================
