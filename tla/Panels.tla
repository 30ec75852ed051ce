------------------------------- MODULE Panels -------------------------------
(***************************************************************************)
(* What the panels of the dashboard derive from the rows they are given:   *)
(* the benchmark of page.tsx, the KPI cards, the density bars, the country *)
(* shares and the velocity chart.  Densities are whole numbers, shares are *)
(* per mille, and a ratio is the pair of what is divided.                  *)
(***************************************************************************)
EXTENDS Integers, FiniteSets, Sequences, FiniteSetsExt

CONSTANTS PRE_LAUNCH,  \* markets shown as "catalog only"
          SERIES,      \* countries the velocity chart draws
          NoDensity,   \* lockers_per_10k is null
          NoValue      \* null: no benchmark, no label, no growth

ASSUME NullsAssumption ==
    /\ NoDensity \notin Int
    /\ NoValue \notin Int
    /\ NoValue \notin [date : Int, value : Int]

-----------------------------------------------------------------------------
(* The API's answers over the views: country rows, and NUTS-2 rows.        *)

Total(kind, rows) == MapThenSumSet(LAMBDA r : r[kind], rows)

PerMille(part, whole) == (1000 * part) \div whole

\* KpiRepo.network_summary: the rows of mv_country_kpi that have any point.
NetworkSummary(rows) ==
    LET counted == {r \in rows : r.n_total > 0}
    IN  [n_lockers_total    |-> Total("n_lockers", counted),
         n_network_total    |-> Total("n_total", counted),
         n_countries_active |-> Cardinality(counted)]

\* DensityRepo.top_nuts2: big regions with a density, the densest; of those
\* that share the last place all are kept.
TopNuts2(rows, limit, minPopulation) ==
    LET big == {r \in rows : r.population >= minPopulation /\ r.lockers_per_10k # NoDensity}
    IN  {r \in big :
            Cardinality({q \in big : q.lockers_per_10k > r.lockers_per_10k}) < limit}

-----------------------------------------------------------------------------
(* computeBenchmark, HeroKpis and DensityBars. *)

Densest(rows) == CHOOSE r \in rows : \A q \in rows : q.lockers_per_10k <= r.lockers_per_10k

computeBenchmark(rows) ==
    LET ranked == {r \in rows : r.lockers_per_10k # NoDensity /\ r.lockers_per_10k > 0}
        polish == {r \in ranked : r.country = "PL"}
        other  == ranked \ polish
    IN  IF polish = {} \/ other = {} THEN NoValue
        ELSE [topPl    |-> Densest(polish).lockers_per_10k,
              topNonPl |-> Densest(other).lockers_per_10k]

\* The Polish card shows 0 when the country rows did not come.
HeroKpis(summary, countries, benchmark) ==
    [network |-> summary.n_network_total,
     lockers |-> summary.n_lockers_total,
     active  |-> summary.n_countries_active,
     polish  |-> Total("n_lockers", {r \in countries : r.country = "PL"}),
     ratio   |-> benchmark]

\* The dashed line of the benchmark, per mille of the longest bar; off the
\* chart beyond 1000.
DensityBars(rows, benchmark) ==
    LET longest == Densest(rows).lockers_per_10k
    IN  [longest |-> longest,
         line    |-> IF benchmark = NoValue \/ longest = 0 THEN NoValue
                     ELSE PerMille(benchmark.topNonPl, longest)]

-----------------------------------------------------------------------------
(* CountryShare. *)

isPreLaunch(country) == country \in PRE_LAUNCH

ActiveMarketsWithEmpty(rows) == {r \in rows : ~isPreLaunch(r.country)}

ActiveMarkets(rows) == {r \in rows : ~isPreLaunch(r.country) /\ r.n_total > 0}

PreLaunchMarkets(rows) == {r \in rows : isPreLaunch(r.country)}

\* A bar's segments: a share below 0.4 % is not drawn.
ShareRow(rows, kind) ==
    LET active == ActiveMarkets(rows)
        total  == Total(kind, active)
    IN  {r \in active : r[kind] > 0 /\ 1000 * r[kind] >= 4 * total}

CountryShare(rows) ==
    [active  |-> Cardinality(ActiveMarkets(rows)),
     lockers |-> Total("n_lockers", ActiveMarkets(rows)),
     pudo    |-> Total("n_pudo", ActiveMarkets(rows))]

\* The hovered market's share of its kind, per mille.
ShareReadout(rows, country, kind) ==
    LET total == Total(kind, ActiveMarkets(rows))
    IN  IF total = 0 THEN 0
        ELSE PerMille(Total(kind, {r \in ActiveMarkets(rows) : r.country = country}), total)

-----------------------------------------------------------------------------
(* toWide, and the labels at the ends of the lines, over points in the     *)
(* order of the answer.                                                    *)

Of(points, cc) == {i \in DOMAIN points : points[i].country = cc}

\* The value drawn for a country at a date: the last point written there.
Drawn(points, cc, date) ==
    points[Max({i \in Of(points, cc) : points[i].date = date})].n_lockers

DrawnDates(points, cc) == {points[i].date : i \in Of(points, cc)}

\* The sort by date is stable.
FirstByArrival(points, cc) == Min(Of(points, cc))

First(points, cc) ==
    CHOOSE i \in Of(points, cc) : \A j \in Of(points, cc) :
        points[i].date < points[j].date \/ (points[i].date = points[j].date /\ i <= j)

Last(points, cc) ==
    CHOOSE i \in Of(points, cc) : \A j \in Of(points, cc) :
        points[j].date < points[i].date \/ (points[i].date = points[j].date /\ j <= i)

lastByCountry(points, cc) ==
    IF Cardinality(Of(points, cc)) < 2 THEN NoValue
    ELSE [date |-> points[Last(points, cc)].date, value |-> points[Last(points, cc)].n_lockers]

\* last over first.
growth(points, cc) ==
    IF Cardinality(Of(points, cc)) < 2 THEN NoValue
    ELSE IF points[First(points, cc)].n_lockers = 0 THEN NoValue
    ELSE <<points[Last(points, cc)].n_lockers, points[First(points, cc)].n_lockers>>

\* The chart: for every series its line, by date, and the label at its end.
VelocityTimeline(points) ==
    [cc \in SERIES |->
        [line   |-> [date \in DrawnDates(points, cc) |-> Drawn(points, cc, date)],
         label  |-> lastByCountry(points, cc),
         growth |-> growth(points, cc)]]

=============================================================================
