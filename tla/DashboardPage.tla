--------------------------- MODULE DashboardPage ---------------------------
(***************************************************************************)
(* The dashboard page (page.tsx): a server component that asks the API for *)
(* seven sections one after the other, each through withRetry, and renders *)
(* what came.  The views the API reads are refreshed one at a time while   *)
(* the page loads, so two sections of one page may show two states.        *)
(***************************************************************************)
EXTENDS Panels, ApiClient

CONSTANTS
    MAX_TRIES,
    MaxGen,           \* bound: refreshes of one view
    CountriesAt(_),   \* rows of mv_country_kpi after its g-th refresh
    Nuts2At(_),       \* rows of mv_density_nuts2
    GminyAt(_),       \* rows of mv_density_gmina
    VelocityPoints,   \* the API's static list
    TopLimit, TopMinPopulation,
    NoCountry

ASSUME PageAssumption ==
    /\ MAX_TRIES \in Nat \ {0}
    /\ MaxGen \in Nat

\* The list the API was written with: a country has one point of a date.
ASSUME VelocityAssumption ==
    /\ VelocityPoints \in Seq([country : STRING, date : Int, n_lockers : Int])
    /\ \A i, j \in DOMAIN VelocityPoints :
            /\ VelocityPoints[i].country = VelocityPoints[j].country
            /\ VelocityPoints[i].date = VelocityPoints[j].date
            => i = j

\* mv_country_kpi counts every live point as a locker or as a PUDO point;
\* mv_density_nuts2 has a population, 0 for none, and a density or null.
ASSUME ViewsAssumption ==
    /\ \A g \in 0..MaxGen :
        /\ IsFiniteSet(CountriesAt(g)) /\ IsFiniteSet(Nuts2At(g))
        /\ \A r \in CountriesAt(g) :
            r.n_lockers \in Nat /\ r.n_pudo \in Nat /\ r.n_total = r.n_lockers + r.n_pudo
        /\ \A r \in Nuts2At(g) :
            r.population \in Nat /\ r.lockers_per_10k \in Nat \cup {NoDensity}
    /\ TopLimit \in Nat \ {0} /\ TopMinPopulation \in Nat

VARIABLES
    page,     \* "loading", "rendered", or "crashed": Next shows its own error
    section,  \* index in Sections, one more when all have come
    attempt,  \* withRetry's
    loaded,   \* section -> its answer, as loadAll keeps it
    gen,      \* view -> how often it was refreshed
    hovered   \* CountryShare's hovered market

vars == <<page, section, attempt, loaded, gen, hovered>>

Views == {"mv_country_kpi", "mv_density_nuts2", "mv_density_gmina"}

Sections == <<"health", "summary", "countries", "topNuts2", "allNuts2", "velocity", "gminy">>

SectionNames == {Sections[i] : i \in DOMAIN Sections}

\* The refresh an answer to this section shows; health and velocity none.
GenOf(s) ==
    IF s \in {"summary", "countries"} THEN gen["mv_country_kpi"]
    ELSE IF s \in {"topNuts2", "allNuts2"} THEN gen["mv_density_nuts2"]
    ELSE IF s = "gminy" THEN gen["mv_density_gmina"]
    ELSE 0

\* A section without data, after so many tries.
Failed(tries) == [data |-> "nothing", gen |-> 0, tries |-> tries]

Missing == Failed(0)

\* What the client makes of any response.  A failure has no data; so has an
\* empty text, which no caller tells from one.  probeHealth parses for itself.
Outcomes == {Resolved(response).data : response \in Responses}

Answers(s) ==
    LET outcomes == IF s = "health" THEN {"envelope", "nothing"} ELSE Outcomes
    IN  {[data |-> d, gen |-> IF d = "envelope" THEN GenOf(s) ELSE 0, tries |-> 0] :
            d \in outcomes}

isOk(a) == a.data # "nothing"

-----------------------------------------------------------------------------
(* What loadAll and HomePage make of the answers. *)

Content(s) ==
    LET g == loaded[s].gen
    IN  CASE s = "countries" -> CountriesAt(g)
          [] s = "topNuts2"  -> TopNuts2(Nuts2At(g), TopLimit, TopMinPopulation)
          [] s = "allNuts2"  -> Nuts2At(g)
          [] s = "gminy"     -> GminyAt(g)
          [] s = "velocity"  -> {VelocityPoints[i] : i \in DOMAIN VelocityPoints}

\* The rows a panel is given: [] for a section that failed.
Rows(s) == IF loaded[s].data = "envelope" THEN Content(s) ELSE {}

benchmark == IF loaded["allNuts2"].data = "envelope" THEN computeBenchmark(Content("allNuts2"))
             ELSE NoValue

PanelSections == {"summary", "countries", "topNuts2", "velocity", "gminy"}

\* The sections whose panel is shown; the others show an ErrorPanel.
Panels == {s \in PanelSections :
            IF s = "summary" THEN loaded[s].data = "envelope" ELSE Rows(s) # {}}

ErrorPanels == PanelSections \ Panels

Hero == HeroKpis(NetworkSummary(CountriesAt(loaded["summary"].gen)), Rows("countries"), benchmark)

\* data.data of a bare answer is undefined: computeBenchmark or .length
\* throws, and no error boundary is between it and the page.
RenderThrows ==
    \E s \in SectionNames \ {"health", "summary"} : loaded[s].data = "bare"

-----------------------------------------------------------------------------

Init ==
    /\ page = "loading" /\ section = 1 /\ attempt = 1
    /\ loaded = [s \in SectionNames |-> Missing]
    /\ gen = [v \in Views |-> 0]
    /\ hovered = NoCountry

Keep(s, a) ==
    /\ loaded' = [loaded EXCEPT ![s] = a]
    /\ section' = section + 1
    /\ attempt' = 1

\* probeHealth: asked once; any failure is an answer like another.
ProbeHealth ==
    /\ page = "loading" /\ section = 1
    /\ \E a \in Answers("health") : Keep("health", a)
    /\ UNCHANGED <<page, gen, hovered>>

\* One request of withRetry is answered: kept if ok or the last, else the
\* loop sleeps and asks again.
ReceiveWrapsAround ==
    /\ page = "loading" /\ section \in 2..Len(Sections)
    /\ \E a \in Answers(Sections[section]) :
        IF isOk(a) THEN Keep(Sections[section], a)
        ELSE /\ attempt' = 1 + (attempt % (MAX_TRIES - 1))
             /\ UNCHANGED <<loaded, section>>
    /\ UNCHANGED <<page, gen, hovered>>

ReceiveStopsShort ==
    /\ page = "loading" /\ section \in 2..Len(Sections)
    /\ \E a \in Answers(Sections[section]) :
        IF isOk(a) THEN Keep(Sections[section], a)
        ELSE IF attempt + 1 = MAX_TRIES
             THEN Keep(Sections[section], Failed(attempt))
        ELSE /\ attempt' = attempt + 1
             /\ UNCHANGED <<loaded, section>>
    /\ UNCHANGED <<page, gen, hovered>>

Receive ==
    /\ page = "loading" /\ section \in 2..Len(Sections)
    /\ \E a \in Answers(Sections[section]) :
        IF isOk(a) THEN Keep(Sections[section], a)
        ELSE IF attempt = MAX_TRIES
             THEN Keep(Sections[section], Failed(attempt))
        ELSE /\ attempt' = attempt + 1
             /\ UNCHANGED <<loaded, section>>
    /\ UNCHANGED <<page, gen, hovered>>

Render ==
    /\ page = "loading" /\ section > Len(Sections)
    /\ page' = IF RenderThrows THEN "crashed" ELSE "rendered"
    /\ UNCHANGED <<section, attempt, loaded, gen, hovered>>

\* The pointer enters a segment or a cell of CountryShare, or leaves it.
EnterMarket(c) ==
    /\ page = "rendered"
    /\ "countries" \in Panels
    /\ hovered' = c
    /\ UNCHANGED <<page, section, attempt, loaded, gen>>

LeaveShare ==
    /\ hovered # NoCountry
    /\ hovered' = NoCountry
    /\ UNCHANGED <<page, section, attempt, loaded, gen>>

\* A new request for the page: force-dynamic, nothing is kept.
ReloadKeepsHover ==
    /\ page # "loading"
    /\ page' = "loading" /\ section' = 1 /\ attempt' = 1
    /\ loaded' = [s \in SectionNames |-> Missing]
    /\ UNCHANGED <<gen, hovered>>

Reload ==
    /\ page # "loading"
    /\ page' = "loading" /\ section' = 1 /\ attempt' = 1
    /\ loaded' = [s \in SectionNames |-> Missing]
    /\ hovered' = NoCountry
    /\ UNCHANGED gen

\* Environment: the pipeline or a cron job refreshes one view.
Refresh(v) ==
    /\ gen[v] < MaxGen
    /\ gen' = [gen EXCEPT ![v] = @ + 1]
    /\ UNCHANGED <<page, section, attempt, loaded, hovered>>

Next ==
    \/ ProbeHealth \/ Receive \/ Render \/ Reload
    \/ \E r \in ActiveMarkets(Rows("countries")) : EnterMarket(r.country)
    \/ LeaveShare
    \/ \E v \in Views : Refresh(v)

Spec == Init /\ [][Next]_vars

\* Every request of the page is answered or refused.
FairSpec == Spec /\ WF_vars(ProbeHealth) /\ WF_vars(Receive) /\ WF_vars(Render)

-----------------------------------------------------------------------------
(* Properties. *)

TypeOK ==
    /\ page \in {"loading", "rendered", "crashed"}
    /\ section \in 1..(Len(Sections) + 1)
    /\ attempt \in 1..MAX_TRIES
    /\ loaded \in [SectionNames -> [data : {"envelope", "bare", "nothing"},
                                    gen : 0..MaxGen, tries : 0..MAX_TRIES]]
    /\ gen \in [Views -> 0..MaxGen]
    /\ hovered \in {r.country : r \in ActiveMarkets(Rows("countries"))} \cup {NoCountry}

\* A failure stays in its panel: however many sections fail, the page renders
\* and every section that answered with rows has its panel; a panel says
\* "unavailable" after MAX_TRIES failed requests or over a view that is
\* empty, and the page goes down only with a 2xx answer without envelope.
PanelErrorIsEarned ==
    /\ page = "rendered" =>
        \A s \in ErrorPanels :
            \/ loaded[s].data = "nothing" /\ loaded[s].tries = MAX_TRIES
            \/ loaded[s].data = "envelope" /\ Content(s) = {}
            \/ loaded[s].data = "bare" /\ s = "summary"
    /\ page = "crashed" => \E s \in SectionNames : loaded[s].data = "bare"

\* Two panels over one refresh of a view agree: the KPI cards with the
\* country shares, unless a market listed as pre-launch has points, and the
\* benchmark with the bars when its region is big enough to have one.  Over
\* two refreshes nothing is promised.
FiguresAgree ==
    page = "rendered" =>
        /\ ({"summary", "countries"} \subseteq Panels
            /\ loaded["summary"].gen = loaded["countries"].gen
            /\ \A r \in PreLaunchMarkets(Rows("countries")) : r.n_total = 0)
           => LET share == CountryShare(Rows("countries"))
              IN  /\ Hero.lockers = share.lockers
                  /\ Hero.network = share.lockers + share.pudo
                  /\ Hero.active = share.active
        /\ ({"summary", "countries"} \subseteq Panels
            /\ Hero.polish > Hero.lockers) => loaded["summary"].gen # loaded["countries"].gen
        /\ ("topNuts2" \in Panels /\ benchmark # NoValue
            /\ loaded["topNuts2"].gen = loaded["allNuts2"].gen
            /\ \A r \in Content("allNuts2") :
                r.lockers_per_10k = benchmark.topNonPl => r.population >= TopMinPopulation)
           => DensityBars(Rows("topNuts2"), benchmark).line \in 0..1000

\* The label at the end of a line sits on its last point, and the growth it
\* gives is that of the line drawn; a country of two points has a label.
VelocityLabelsMatchLine ==
    page = "rendered" /\ "velocity" \in Panels =>
        \A cc \in SERIES :
            LET shown == VelocityTimeline(VelocityPoints)[cc]
                dates == DOMAIN shown.line
            IN  /\ Cardinality(dates) >= 2 => shown.label # NoValue
                /\ shown.label # NoValue =>
                    /\ shown.label.date = Max(dates)
                    /\ shown.label.value = shown.line[Max(dates)]
                    /\ shown.growth # NoValue =>
                        shown.growth = <<shown.label.value, shown.line[Min(dates)]>>

\* A page that is asked for is answered, whatever the API does, as long as
\* every request is answered or refused: no section is retried for ever.
PageEventuallySettles == page = "loading" ~> page # "loading"

=============================================================================
