------------------------ MODULE DashboardPageProofs ------------------------
(***************************************************************************)
(* Theorems about the dashboard page, for any limit of tries, any views    *)
(* and any answers.                                                        *)
(***************************************************************************)
EXTENDS DashboardPage, FiniteSetTheorems, SequenceTheorems, TLAPS

Data == {"envelope", "bare", "nothing"}

Kept == [data : Data, gen : 0..MaxGen, tries : 0..MAX_TRIES]

\* A section that was asked for and has no data used up its tries; the
\* health probe has only one.
TriesUsedUp ==
    \A i \in DOMAIN Sections :
        i < section /\ Sections[i] # "health" /\ loaded[Sections[i]].data = "nothing" =>
            loaded[Sections[i]].tries = MAX_TRIES

\* A page is shown when every section was asked for and rendering them did
\* not throw, and it crashes when that throws.
ShownWhenComplete ==
    /\ page # "loading" => section = Len(Sections) + 1
    /\ page = "rendered" => ~RenderThrows
    /\ page = "crashed" => RenderThrows

\* Only a page that is shown has a market under the pointer.
HoverNeedsPage == page # "rendered" => hovered = NoCountry

PageInv == TypeOK /\ TriesUsedUp /\ ShownWhenComplete /\ HoverNeedsPage

-----------------------------------------------------------------------------
(* The sections and their answers.                                         *)

LEMMA SectionFacts ==
    /\ Len(Sections) = 7
    /\ DOMAIN Sections = 1..7
    /\ \A i \in 1..7 : Sections[i] \in SectionNames
    /\ \A i, j \in 1..7 : i # j => Sections[i] # Sections[j]
    /\ Sections[1] = "health"
    /\ \A i \in 2..7 : Sections[i] # "health"
    /\ "health" \in SectionNames
BY DEF Sections, SectionNames

LEMMA ResolvedData ==
    ASSUME NEW response \in Responses
    PROVE  Resolved(response).data \in Data
BY DEF Resolved, Data

LEMMA AnswerTyped ==
    ASSUME TypeOK, NEW s \in SectionNames, NEW a \in Answers(s)
    PROVE  a \in [data : Data, gen : 0..MaxGen, tries : {0}]
<1>1. Outcomes \subseteq Data
  BY ResolvedData DEF Outcomes
<1>2. GenOf(s) \in 0..MaxGen
  BY PageAssumption DEF GenOf, TypeOK, Views
<1>3. PICK d \in Data :
          a = [data |-> d, gen |-> IF d = "envelope" THEN GenOf(s) ELSE 0, tries |-> 0]
  BY <1>1 DEF Answers, Data
<1> QED BY <1>2, <1>3, PageAssumption

\* What is kept has its type, and so has a failure.
LEMMA KeptTyped ==
    /\ [data : Data, gen : 0..MaxGen, tries : {0}] \subseteq Kept
    /\ \A n \in 0..MAX_TRIES : Failed(n) \in Kept
BY PageAssumption DEF Kept, Failed, Data

\* The countries are drawn from what was loaded.
LEMMA RowsKept ==
    ASSUME UNCHANGED loaded
    PROVE  Rows("countries")' = Rows("countries")
BY Zenon DEF Rows, Content

-----------------------------------------------------------------------------
(* The invariant.                                                          *)

LEMMA InitInv == Init => PageInv
<1> SUFFICES ASSUME Init PROVE PageInv
  OBVIOUS
<1>1. Missing \in Kept
  BY PageAssumption DEF Missing, Failed, Kept, Data
<1>2. TypeOK
  BY <1>1, SectionFacts, PageAssumption DEF Init, TypeOK, Kept, Data
<1>3. TriesUsedUp
  BY SectionFacts DEF Init, TriesUsedUp
<1> QED BY <1>2, <1>3 DEF Init, PageInv, ShownWhenComplete, HoverNeedsPage

\* Keeping an answer that has data, that is the probe's, or that used up its
\* tries, while the page loads.
LEMMA KeepInv ==
    ASSUME PageInv, page = "loading", section \in 1..7,
           NEW a \in Kept, Keep(Sections[section], a),
           section = 1 \/ a.data # "nothing" \/ a.tries = MAX_TRIES,
           UNCHANGED <<page, gen, hovered>>
    PROVE  PageInv'
<1>1. hovered' = NoCountry
  BY DEF PageInv, HoverNeedsPage
<1>2. loaded' \in [SectionNames -> Kept]
  BY SectionFacts DEF Keep, PageInv, TypeOK, Kept, Data
<1>3. section' = section + 1 /\ attempt' = 1
  BY DEF Keep
<1>4. TypeOK'
  BY <1>1, <1>2, <1>3, SectionFacts, PageAssumption DEF PageInv, TypeOK, Kept, Data
<1>5. TriesUsedUp'
  <2> SUFFICES ASSUME NEW i \in 1..7, i < section', Sections[i] # "health",
                      loaded'[Sections[i]].data = "nothing"
               PROVE  loaded'[Sections[i]].tries = MAX_TRIES
    BY SectionFacts DEF TriesUsedUp
  <2>1. CASE i = section
    <3>1. loaded'[Sections[i]] = a
      BY <2>1, SectionFacts DEF Keep, PageInv, TypeOK
    <3> QED BY <2>1, <3>1, SectionFacts
  <2>2. CASE i # section
    <3>1. loaded'[Sections[i]] = loaded[Sections[i]] /\ i < section
      BY <1>3, <2>2, SectionFacts DEF Keep, PageInv, TypeOK
    <3> QED BY <3>1, SectionFacts DEF PageInv, TriesUsedUp
  <2> QED BY <2>1, <2>2
<1> QED BY <1>1, <1>4, <1>5 DEF PageInv, ShownWhenComplete, HoverNeedsPage

LEMMA ProbeHealthInv ==
    ASSUME PageInv, ProbeHealth
    PROVE  PageInv'
<1>1. PICK a \in Answers("health") : Keep("health", a)
  BY DEF ProbeHealth
<1>2. a \in Kept
  BY AnswerTyped, KeptTyped, SectionFacts, PageAssumption DEF PageInv
<1> QED BY <1>1, <1>2, KeepInv, SectionFacts DEF ProbeHealth

LEMMA ReceiveInv ==
    ASSUME PageInv, Receive
    PROVE  PageInv'
<1>1. section \in 2..7 /\ page = "loading" /\ UNCHANGED <<page, gen, hovered>>
  BY SectionFacts DEF Receive
<1>2. PICK a \in Answers(Sections[section]) :
          IF isOk(a) THEN Keep(Sections[section], a)
          ELSE IF attempt = MAX_TRIES
               THEN Keep(Sections[section], Failed(attempt))
          ELSE /\ attempt' = attempt + 1
               /\ UNCHANGED <<loaded, section>>
  BY DEF Receive
<1>3. attempt \in 1..MAX_TRIES
  BY RowsKept DEF PageInv, TypeOK
<1>4. a \in [data : Data, gen : 0..MaxGen, tries : {0}]
  BY <1>1, AnswerTyped, SectionFacts DEF PageInv
<1>5. a \in Kept /\ Failed(attempt) \in Kept
  BY <1>3, <1>4, KeptTyped, PageAssumption
<1>6. CASE isOk(a)
  BY <1>1, <1>2, <1>5, <1>6, KeepInv DEF isOk
<1>7. CASE ~isOk(a) /\ attempt = MAX_TRIES
  <2>1. Failed(attempt).tries = MAX_TRIES
    BY <1>4, <1>7 DEF Failed
  <2> QED BY <1>1, <1>2, <1>5, <1>7, <2>1, KeepInv
<1>8. CASE ~isOk(a) /\ attempt # MAX_TRIES
  <2>1. attempt' = attempt + 1 /\ UNCHANGED <<page, section, loaded, gen, hovered>>
    BY <1>1, <1>2, <1>8
  <2>2. attempt' \in 1..MAX_TRIES
    BY <1>3, <1>8, <2>1, PageAssumption
  <2>3. TypeOK'
    BY <2>1, <2>2, RowsKept DEF PageInv, TypeOK
  <2> QED BY <2>1, <2>3 DEF PageInv, TriesUsedUp, ShownWhenComplete, HoverNeedsPage, RenderThrows
<1> QED BY <1>6, <1>7, <1>8

LEMMA RenderInv ==
    ASSUME PageInv, Render
    PROVE  PageInv'
<1>1. section = 8 /\ page' \in {"rendered", "crashed"} /\ hovered = NoCountry
  BY SectionFacts DEF Render, PageInv, TypeOK, HoverNeedsPage
<1>2. UNCHANGED <<section, attempt, loaded, gen, hovered>>
  BY DEF Render
<1>3. TypeOK'
  BY <1>1, <1>2, RowsKept DEF PageInv, TypeOK
<1>4. ShownWhenComplete'
  BY <1>1, <1>2, SectionFacts DEF Render, ShownWhenComplete, RenderThrows
<1> QED BY <1>1, <1>2, <1>3, <1>4 DEF PageInv, TriesUsedUp, HoverNeedsPage

\* The pointer and the refreshes leave what was loaded alone.
LEMMA PointerInv ==
    ASSUME PageInv, UNCHANGED <<page, section, attempt, loaded>>,
           gen' \in [Views -> 0..MaxGen],
           hovered' \in {r.country : r \in ActiveMarkets(Rows("countries"))} \cup {NoCountry},
           page # "rendered" => hovered' = NoCountry
    PROVE  PageInv'
<1>1. TypeOK'
  BY RowsKept DEF PageInv, TypeOK
<1> QED BY <1>1 DEF PageInv, TriesUsedUp, ShownWhenComplete, HoverNeedsPage, RenderThrows

LEMMA ReloadInv ==
    ASSUME PageInv, Reload
    PROVE  PageInv'
<1>1. Missing \in Kept
  BY PageAssumption DEF Missing, Failed, Kept, Data
<1>2. TypeOK'
  BY <1>1, SectionFacts, PageAssumption DEF Reload, PageInv, TypeOK, Kept, Data
<1>3. TriesUsedUp'
  BY SectionFacts DEF Reload, TriesUsedUp
<1> QED BY <1>2, <1>3 DEF Reload, PageInv, ShownWhenComplete, HoverNeedsPage

LEMMA StepInv == PageInv /\ [Next]_vars => PageInv'
<1> SUFFICES ASSUME PageInv, [Next]_vars PROVE PageInv'
  OBVIOUS
<1>1. CASE ProbeHealth BY <1>1, ProbeHealthInv
<1>2. CASE Receive BY <1>2, ReceiveInv
<1>3. CASE Render BY <1>3, RenderInv
<1>4. CASE Reload BY <1>4, ReloadInv
<1>5. ASSUME NEW r \in ActiveMarkets(Rows("countries")), EnterMarket(r.country)
      PROVE  PageInv'
  BY <1>5, PointerInv DEF EnterMarket, PageInv, TypeOK
<1>6. CASE LeaveShare
  BY <1>6, PointerInv DEF LeaveShare, PageInv, TypeOK
<1>7. ASSUME NEW v \in Views, Refresh(v)
      PROVE  PageInv'
  <2>1. gen' \in [Views -> 0..MaxGen]
    BY <1>7, PageAssumption DEF Refresh, PageInv, TypeOK
  <2> QED BY <1>7, <2>1, PointerInv DEF Refresh, PageInv, TypeOK, HoverNeedsPage
<1>8. CASE UNCHANGED vars
  BY <1>8, PointerInv DEF vars, PageInv, TypeOK, HoverNeedsPage
<1> QED BY <1>1, <1>2, <1>3, <1>4, <1>5, <1>6, <1>7, <1>8 DEF Next

LEMMA SpecInv == Spec => []PageInv
BY InitInv, StepInv, PTL DEF Spec

-----------------------------------------------------------------------------

\* The page keeps its types: the loop of withRetry never counts past
\* MAX_TRIES, and a hovered market is one of those that are shown.
THEOREM TypeCorrect == Spec => []TypeOK
<1>1. PageInv => TypeOK
  BY DEF PageInv
<1> QED BY <1>1, SpecInv, PTL

\* A panel of page.tsx is missing only after MAX_TRIES failures, over an
\* empty view or, for the KPI cards, without an envelope; and the page goes
\* down only with an answer that is ok but has no envelope.
THEOREM PanelErrorsEarned == Spec => []PanelErrorIsEarned
<1>1. PageInv => PanelErrorIsEarned
  <2> SUFFICES ASSUME PageInv PROVE PanelErrorIsEarned
    OBVIOUS
  <2>1. page = "crashed" => \E s \in SectionNames : loaded[s].data = "bare"
    BY DEF PageInv, ShownWhenComplete, RenderThrows
  <2>2. ASSUME page = "rendered", NEW s \in ErrorPanels
        PROVE  \/ loaded[s].data = "nothing" /\ loaded[s].tries = MAX_TRIES
               \/ loaded[s].data = "envelope" /\ Content(s) = {}
               \/ loaded[s].data = "bare" /\ s = "summary"
    <3>1. s \in PanelSections /\ s \notin Panels
      BY <2>2 DEF ErrorPanels
    <3>2. s \in SectionNames /\ s # "health"
      BY <3>1 DEF PanelSections, SectionNames, Sections
    <3>3. PICK i \in 1..7 : Sections[i] = s
      BY <3>2, SectionFacts DEF SectionNames
    <3>4. i < section
      BY <2>2, <3>3, SectionFacts DEF PageInv, ShownWhenComplete
    <3>5. loaded[s].data \in Data
      BY <3>2 DEF PageInv, TypeOK, Data
    <3>6. CASE loaded[s].data = "nothing"
      BY <3>2, <3>3, <3>4, <3>6, SectionFacts DEF PageInv, TriesUsedUp
    <3>7. CASE loaded[s].data = "envelope"
      <4>1. s # "summary" /\ Rows(s) = {}
        BY <3>1, <3>7 DEF Panels
      <4> QED BY <3>7, <4>1 DEF Rows
    <3>8. CASE loaded[s].data = "bare"
      <4>1. ~RenderThrows
        BY <2>2 DEF PageInv, ShownWhenComplete
      <4> QED BY <3>2, <3>8, <4>1 DEF RenderThrows
    <3> QED BY <3>5, <3>6, <3>7, <3>8 DEF Data
  <2> QED BY <2>1, <2>2 DEF PanelErrorIsEarned
<1> QED BY <1>1, SpecInv, PTL

-----------------------------------------------------------------------------
(* The velocity chart.                                                     *)

\* A finite set has a member that nothing of it precedes: a minimal one among
\* the sets of the members that precede some member.
LEMMA FiniteExtreme ==
    ASSUME NEW I, IsFiniteSet(I), I # {}, NEW R,
           \A i \in I : <<i, i>> \notin R,
           \A i, j, k \in I : <<i, j>> \in R /\ <<j, k>> \in R => <<i, k>> \in R
    PROVE  \E i \in I : \A j \in I : <<j, i>> \notin R
<1> DEFINE Before(i) == {j \in I : <<j, i>> \in R}
           T == {Before(i) : i \in I}
<1>1. T \subseteq SUBSET I /\ T # {}
  <2>1. \A i \in I : Before(i) \in SUBSET I
    OBVIOUS
  <2> HIDE DEF Before
  <2> QED BY <2>1
<1>2. FiniteSubsetsOf(I) = SUBSET I
  BY FS_FiniteSubsetsOfFinite
<1>3. IsWellFoundedOn(StrictSubsetOrdering(I), SUBSET I)
  <2>1. IsWellFoundedOn(StrictSubsetOrdering(I), FiniteSubsetsOf(I))
    BY FS_StrictSubsetOrderingWellFounded, Zenon
  <2> QED BY <1>2, <2>1, Zenon
<1> HIDE DEF T, Before
<1>4. \E x \in T : \A y \in T : <<y, x>> \notin StrictSubsetOrdering(I)
  BY <1>1, <1>3, WFMin
<1>5. PICK i \in I : \A j \in I : <<Before(j), Before(i)>> \notin StrictSubsetOrdering(I)
  BY <1>4 DEF T
<1> USE DEF Before
<1>6. ASSUME NEW j \in I, <<j, i>> \in R PROVE FALSE
  <2>1. Before(j) \subseteq Before(i)
    BY <1>6
  <2>2. j \in Before(i) /\ j \notin Before(j)
    BY <1>6
  <2>3. <<Before(j), Before(i)>> \in StrictSubsetOrdering(I)
    BY <2>1, <2>2 DEF StrictSubsetOrdering
  <2> QED BY <2>3, <1>5
<1> QED BY <1>6

\* What the chart knows of a country: its points have integer dates, one each.
LEMMA CountryPoints ==
    ASSUME NEW cc
    PROVE  /\ IsFiniteSet(Of(VelocityPoints, cc))
           /\ \A i \in Of(VelocityPoints, cc) :
                /\ i \in Int
                /\ VelocityPoints[i].date \in Int
                /\ VelocityPoints[i].n_lockers \in Int
           /\ \A i, j \in Of(VelocityPoints, cc) :
                VelocityPoints[i].date = VelocityPoints[j].date => i = j
<1>1. /\ DOMAIN VelocityPoints = 1 .. Len(VelocityPoints)
      /\ Len(VelocityPoints) \in Nat
      /\ \A i \in 1 .. Len(VelocityPoints) :
            VelocityPoints[i] \in [country : STRING, date : Int, n_lockers : Int]
  BY VelocityAssumption, LenProperties, ElementOfSeq
<1>2. IsFiniteSet(1 .. Len(VelocityPoints))
  <2>1. \A n \in Nat : IsFiniteSet(1 .. n)
    BY FS_Interval
  <2> QED BY <1>1, <2>1
<1>3. IsFiniteSet(Of(VelocityPoints, cc))
  BY <1>1, <1>2, FS_Subset DEF Of
<1>4. \A i, j \in Of(VelocityPoints, cc) :
            VelocityPoints[i].date = VelocityPoints[j].date => i = j
  BY VelocityAssumption DEF Of
<1> QED BY <1>1, <1>3, <1>4 DEF Of

\* The points First and Last choose: the ones of the extreme dates.
LEMMA FirstAndLast ==
    ASSUME NEW cc, Of(VelocityPoints, cc) # {}
    PROVE  LET I == Of(VelocityPoints, cc)
               first == First(VelocityPoints, cc)
               final == Last(VelocityPoints, cc)
           IN  /\ first \in I
               /\ \A j \in I : VelocityPoints[first].date <= VelocityPoints[j].date
               /\ final \in I
               /\ \A j \in I : VelocityPoints[j].date <= VelocityPoints[final].date
<1> DEFINE I == Of(VelocityPoints, cc)
           D(i) == VelocityPoints[i].date
           Earlier == {e \in I \X I : D(e[1]) < D(e[2])}
           Later   == {e \in I \X I : D(e[2]) < D(e[1])}
<1>1. /\ IsFiniteSet(I)
      /\ \A i \in I : i \in Int /\ D(i) \in Int
      /\ \A i, j \in I : D(i) = D(j) => i = j
  BY CountryPoints
<1> HIDE DEF I, D
<1>2. /\ \A i, j \in I : <<i, j>> \in Earlier <=> D(i) < D(j)
      /\ \A i, j \in I : <<i, j>> \in Later <=> D(j) < D(i)
  OBVIOUS
<1> HIDE DEF Earlier, Later
<1>3. \E i \in I : \A j \in I : <<j, i>> \notin Earlier
  <2>1. /\ \A i \in I : <<i, i>> \notin Earlier
        /\ \A i, j, k \in I : <<i, j>> \in Earlier /\ <<j, k>> \in Earlier => <<i, k>> \in Earlier
    BY <1>1, <1>2
  <2> QED BY <1>1, <2>1, FiniteExtreme DEF I
<1>4. \E i \in I : \A j \in I : <<j, i>> \notin Later
  <2>1. /\ \A i \in I : <<i, i>> \notin Later
        /\ \A i, j, k \in I : <<i, j>> \in Later /\ <<j, k>> \in Later => <<i, k>> \in Later
    BY <1>1, <1>2
  <2> QED BY <1>1, <2>1, FiniteExtreme DEF I
<1>5. \E i \in I : \A j \in I : D(i) < D(j) \/ (D(i) = D(j) /\ i <= j)
  <2>1. PICK i \in I : \A j \in I : ~(D(j) < D(i))
    BY <1>2, <1>3
  <2>2. \A j \in I : D(i) < D(j) \/ (D(i) = D(j) /\ i <= j)
    BY <1>1, <2>1
  <2> QED BY <2>2
<1>6. \E i \in I : \A j \in I : D(j) < D(i) \/ (D(i) = D(j) /\ j <= i)
  <2>1. PICK i \in I : \A j \in I : ~(D(i) < D(j))
    BY <1>2, <1>4
  <2>2. \A j \in I : D(j) < D(i) \/ (D(i) = D(j) /\ j <= i)
    BY <1>1, <2>1
  <2> QED BY <2>2
<1>7. /\ First(VelocityPoints, cc) \in I
      /\ \A j \in I : \/ D(First(VelocityPoints, cc)) < D(j)
                      \/ D(First(VelocityPoints, cc)) = D(j)
  BY <1>5 DEF First, I, D
<1>8. /\ Last(VelocityPoints, cc) \in I
      /\ \A j \in I : \/ D(j) < D(Last(VelocityPoints, cc))
                      \/ D(Last(VelocityPoints, cc)) = D(j)
  BY <1>6 DEF Last, I, D
<1>9. /\ \A j \in I : D(First(VelocityPoints, cc)) <= D(j)
      /\ \A j \in I : D(j) <= D(Last(VelocityPoints, cc))
  BY <1>1, <1>7, <1>8
<1> QED BY <1>7, <1>8, <1>9 DEF I, D

LEMMA MaxIs ==
    ASSUME NEW S \in SUBSET Int, NEW m \in S, \A x \in S : x <= m
    PROVE  Max(S) = m
<1>1. m \in S /\ \A y \in S : m >= y
  OBVIOUS
<1>2. Max(S) \in S /\ \A y \in S : Max(S) >= y
  BY <1>1, Zenon DEF Max
<1>3. Max(S) >= m /\ Max(S) <= m /\ Max(S) \in Int /\ m \in Int
  BY <1>2
<1> QED BY <1>3

LEMMA MinIs ==
    ASSUME NEW S \in SUBSET Int, NEW m \in S, \A x \in S : m <= x
    PROVE  Min(S) = m
<1>1. m \in S /\ \A y \in S : m =< y
  OBVIOUS
<1>2. Min(S) \in S /\ \A y \in S : Min(S) =< y
  BY <1>1, Zenon DEF Min
<1>3. Min(S) <= m /\ m <= Min(S) /\ Min(S) \in Int /\ m \in Int
  BY <1>2
<1> QED BY <1>3

\* The value drawn at the date of a point is the value of that point.
LEMMA DrawnPoint ==
    ASSUME NEW cc, NEW i \in Of(VelocityPoints, cc)
    PROVE  Drawn(VelocityPoints, cc, VelocityPoints[i].date) = VelocityPoints[i].n_lockers
<1> DEFINE S == {j \in Of(VelocityPoints, cc) : VelocityPoints[j].date = VelocityPoints[i].date}
<1>1. S = {i} /\ i \in Int
  BY CountryPoints
<1>2. Max(S) = i
  BY <1>1, MaxIs
<1> QED BY <1>2 DEF Drawn

\* Two dates come from two points.
LEMMA TwoDates ==
    ASSUME NEW cc, Cardinality(DrawnDates(VelocityPoints, cc)) >= 2
    PROVE  ~(Cardinality(Of(VelocityPoints, cc)) < 2)
<1> DEFINE I == Of(VelocityPoints, cc)
           T == DrawnDates(VelocityPoints, cc)
           f == [i \in I |-> VelocityPoints[i].date]
<1>1. IsFiniteSet(I)
  BY CountryPoints
<1>2. T = {VelocityPoints[i].date : i \in I}
  BY DEF DrawnDates
<1> HIDE DEF I, T
<1>3. f \in Surjection(I, T)
  BY <1>2 DEF Surjection
<1> HIDE DEF f
<1>4. Cardinality(T) <= Cardinality(I) /\ IsFiniteSet(T)
  BY <1>1, <1>3, FS_Surjection
<1>5. Cardinality(T) \in Nat /\ Cardinality(I) \in Nat
  BY <1>1, <1>4, FS_CardinalityType
<1>6. Cardinality(T) >= 2
  BY DEF T
<1>7. ~(Cardinality(I) < 2)
  BY <1>4, <1>5, <1>6
<1> QED BY <1>7 DEF I

\* For any list with one point per country and date: a line of two or more
\* dates has a label, the label is at the line's last date with the value
\* drawn there, and the growth divides that by the value drawn at its first
\* (VelocityTimeline: toWide against lastByCountry and growth, which sort the
\* points in ways of their own).
THEOREM LabelsMatch == Spec => []VelocityLabelsMatchLine
<1>1. ASSUME NEW cc \in SERIES
      PROVE  LET shown == VelocityTimeline(VelocityPoints)[cc]
                 dates == DOMAIN shown.line
             IN  /\ Cardinality(dates) >= 2 => shown.label # NoValue
                 /\ shown.label # NoValue =>
                     /\ shown.label.date = Max(dates)
                     /\ shown.label.value = shown.line[Max(dates)]
                     /\ shown.growth # NoValue =>
                         shown.growth = <<shown.label.value, shown.line[Min(dates)]>>
  <2> DEFINE shown == VelocityTimeline(VelocityPoints)[cc]
             dates == DrawnDates(VelocityPoints, cc)
             I     == Of(VelocityPoints, cc)
             first == First(VelocityPoints, cc)
             final == Last(VelocityPoints, cc)
  <2>1. /\ DOMAIN shown.line = dates
        /\ \A d \in dates : shown.line[d] = Drawn(VelocityPoints, cc, d)
        /\ shown.label = lastByCountry(VelocityPoints, cc)
        /\ shown.growth = growth(VelocityPoints, cc)
    BY DEF VelocityTimeline
  <2>2. dates \subseteq Int /\ \A i \in I : VelocityPoints[i].date \in dates
    BY CountryPoints DEF DrawnDates
  <2>3. CASE Cardinality(I) < 2
    <3>1. ~(Cardinality(dates) >= 2)
      BY <2>3, TwoDates
    <3>2. shown.label = NoValue
      BY <2>1, <2>3 DEF lastByCountry
    <3> QED BY <2>1, <3>1, <3>2
  <2>4. CASE ~(Cardinality(I) < 2)
    <3>1. I # {}
      BY <2>4, FS_EmptySet
    <3>2. /\ first \in I
          /\ \A j \in I : VelocityPoints[first].date <= VelocityPoints[j].date
          /\ final \in I
          /\ \A j \in I : VelocityPoints[j].date <= VelocityPoints[final].date
      BY <3>1, FirstAndLast
    <3> HIDE DEF first, final
    <3>3. \A d \in dates : \E j \in I : d = VelocityPoints[j].date
      BY DEF DrawnDates
    <3>4. Max(dates) = VelocityPoints[final].date
      BY <2>2, <3>2, <3>3, MaxIs
    <3>5. Min(dates) = VelocityPoints[first].date
      BY <2>2, <3>2, <3>3, MinIs
    <3>6. /\ shown.line[Max(dates)] = VelocityPoints[final].n_lockers
          /\ shown.line[Min(dates)] = VelocityPoints[first].n_lockers
      BY <2>1, <2>2, <3>2, <3>4, <3>5, DrawnPoint
    <3>7. shown.label = [date  |-> VelocityPoints[final].date,
                         value |-> VelocityPoints[final].n_lockers]
      BY <2>1, <2>4 DEF lastByCountry, final
    <3>8. shown.label # NoValue
      <4>1. shown.label \in [date : Int, value : Int]
        BY <3>2, <3>7, CountryPoints
      <4> QED BY <4>1, NullsAssumption
    <3>9. shown.growth # NoValue =>
            shown.growth = <<VelocityPoints[final].n_lockers, VelocityPoints[first].n_lockers>>
      BY <2>1, <2>4 DEF growth, first, final
    <3> HIDE DEF shown, dates
    <3>10. /\ shown.label.date = Max(dates)
           /\ shown.label.value = shown.line[Max(dates)]
           /\ shown.growth # NoValue =>
                shown.growth = <<shown.label.value, shown.line[Min(dates)]>>
      BY <3>4, <3>6, <3>7, <3>9
    <3> QED BY <2>1, <3>8, <3>10 DEF shown
  <2> QED BY <2>3, <2>4
<1>2. VelocityLabelsMatchLine
  BY <1>1 DEF VelocityLabelsMatchLine
<1> QED BY <1>2, PTL

-----------------------------------------------------------------------------
(* Sums over rows.                                                         *)

\* Induction over the subsets of a finite set, in first-order form: P is the
\* set of those that have the property.
LEMMA SubsetInduction ==
    ASSUME NEW S, IsFiniteSet(S), NEW P,
           \A T \in SUBSET S : (\A U \in SUBSET T : U # T => U \in P) => T \in P
    PROVE  \A T \in SUBSET S : T \in P
<1>. DEFINE Bad == {T \in SUBSET S : T \notin P}
<1>. SUFFICES ASSUME Bad # {} PROVE FALSE
  OBVIOUS
<1>1. IsWellFoundedOn(StrictSubsetOrdering(S), SUBSET S)
  <2>1. IsWellFoundedOn(StrictSubsetOrdering(S), FiniteSubsetsOf(S))
    BY FS_StrictSubsetOrderingWellFounded, Zenon
  <2>. QED
    BY <2>1, FS_FiniteSubsetsOfFinite, Zenon
<1>2. Bad \subseteq SUBSET S
  OBVIOUS
<1>. HIDE DEF Bad
<1>3. PICK T \in Bad : \A U \in Bad : <<U, T>> \notin StrictSubsetOrdering(S)
  BY <1>1, <1>2, WFMin
<1>. USE DEF Bad
<1>4. ASSUME NEW U \in SUBSET T, U # T PROVE U \in P
  <2>1. U \in SUBSET S /\ T \in SUBSET S
    BY <1>3
  <2>2. <<U, T>> \in StrictSubsetOrdering(S)
    BY <1>4, <2>1 DEF StrictSubsetOrdering
  <2>. QED
    BY <1>3, <2>1, <2>2
<1>. QED
  BY <1>3, <1>4

\* The recursive function inside the fold, and the equation it is chosen by.
Pick(s) == CHOOSE x \in s : TRUE

Sums(kind, S, g) ==
    [s \in SUBSET S |-> IF s = {} THEN 0 ELSE Pick(s)[kind] + g[s \ {Pick(s)}]]

Sum(kind, S) == CHOOSE g : g = Sums(kind, S, g)

LEMMA TotalIsSum ==
    ASSUME NEW kind, NEW S
    PROVE  Total(kind, S) = Sum(kind, S)[S]
BY DEF Total, MapThenSumSet, MapThenFoldSet, Sum, Sums, Pick

LEMMA PickIsMember ==
    ASSUME NEW s, s # {}
    PROVE  Pick(s) \in s /\ s \ {Pick(s)} \in SUBSET s /\ s \ {Pick(s)} # s
BY DEF Pick

\* The equation determines the sum of every set it speaks of.
LEMMA SumsAgree ==
    ASSUME NEW kind, NEW S, NEW T, NEW g, NEW h, g = Sums(kind, S, g), h = Sums(kind, T, h),
           NEW U \in SUBSET S, U \in SUBSET T, IsFiniteSet(U)
    PROVE  g[U] = h[U]
<1>. DEFINE P == {V \in SUBSET U : g[V] = h[V]}
<1>1. ASSUME NEW V \in SUBSET U, \A W \in SUBSET V : W # V => W \in P
      PROVE  V \in P
  <2>1. /\ g[V] = IF V = {} THEN 0 ELSE Pick(V)[kind] + g[V \ {Pick(V)}]
        /\ h[V] = IF V = {} THEN 0 ELSE Pick(V)[kind] + h[V \ {Pick(V)}]
    <3>1. V \in SUBSET S /\ V \in SUBSET T
      OBVIOUS
    <3>2. Sums(kind, S, g)[V] = IF V = {} THEN 0 ELSE Pick(V)[kind] + g[V \ {Pick(V)}]
      BY <3>1 DEF Sums
    <3>3. Sums(kind, T, h)[V] = IF V = {} THEN 0 ELSE Pick(V)[kind] + h[V \ {Pick(V)}]
      BY <3>1 DEF Sums
    <3>. QED
      BY <3>2, <3>3
  <2>2. V # {} => V \ {Pick(V)} \in P
    BY <1>1, PickIsMember
  <2>. QED
    BY <2>1, <2>2
<1>. HIDE DEF P
<1>2. U \in P
  BY <1>1, SubsetInduction
<1>. QED
  BY <1>2 DEF P

\* Over a finite set the equation has a solution.
LEMMA SumExists ==
    ASSUME NEW kind, NEW S, IsFiniteSet(S)
    PROVE  Sum(kind, S) = Sums(kind, S, Sum(kind, S))
<1>. DEFINE P == {T \in SUBSET S : Sum(kind, T) = Sums(kind, T, Sum(kind, T))}
<1>1. ASSUME NEW T \in SUBSET S, \A U \in SUBSET T : U # T => U \in P
      PROVE  T \in P
  <2>. DEFINE below(s) == s \ {Pick(s)}
              g == [s \in SUBSET T |->
                        IF s = {} THEN 0
                        ELSE Pick(s)[kind] + Sum(kind, below(s))[below(s)]]
  <2>1. ASSUME NEW s \in SUBSET T, s # {}
        PROVE  g[below(s)] = Sum(kind, below(s))[below(s)]
    <3>. DEFINE u == below(s)
    <3>1. u \in SUBSET T /\ u # T /\ IsFiniteSet(u)
      BY <2>1, PickIsMember, FS_Subset
    <3>2. Sum(kind, u) = Sums(kind, u, Sum(kind, u))
      BY <1>1, <3>1
    <3>3. Sum(kind, u)[u] = IF u = {} THEN 0 ELSE Pick(u)[kind] + Sum(kind, u)[below(u)]
      <4>1. Sums(kind, u, Sum(kind, u))[u] =
                IF u = {} THEN 0 ELSE Pick(u)[kind] + Sum(kind, u)[below(u)]
        BY DEF Sums
      <4>. QED
        BY <3>2, <4>1
    <3>4. g[u] = IF u = {} THEN 0 ELSE Pick(u)[kind] + Sum(kind, below(u))[below(u)]
      BY <3>1
    <3>5. ASSUME u # {}
          PROVE  Sum(kind, u)[below(u)] = Sum(kind, below(u))[below(u)]
      <4>1. below(u) \in SUBSET u /\ below(u) # u
        BY <3>5, PickIsMember
      <4>2. below(u) \in SUBSET T /\ below(u) # T /\ IsFiniteSet(below(u))
        BY <3>1, <4>1, FS_Subset
      <4>3. Sum(kind, below(u)) = Sums(kind, below(u), Sum(kind, below(u)))
        BY <1>1, <4>2
      <4>4. below(u) \in SUBSET below(u)
        OBVIOUS
      <4>. HIDE DEF u, below, g, P
      <4>. QED
        BY <3>2, <4>1, <4>2, <4>3, <4>4, SumsAgree
    <3>6. g[u] = Sum(kind, u)[u]
      <4>. HIDE DEF u, below, g, P
      <4>. QED
        BY <3>3, <3>4, <3>5
    <3>. QED
      BY <3>6
  <2>2. g = Sums(kind, T, g)
    <3>. HIDE DEF g
    <3>1. \A s \in SUBSET T : s # {} => g[below(s)] = Sum(kind, below(s))[below(s)]
      BY <2>1
    <3>2. Sums(kind, T, g) = [s \in SUBSET T |-> IF s = {} THEN 0
                                ELSE Pick(s)[kind] + Sum(kind, below(s))[below(s)]]
      BY <3>1 DEF Sums
    <3>. QED
      BY <3>2 DEF g
  <2>. QED
    BY <2>2 DEF Sum
<1>. HIDE DEF P
<1>2. S \in P
  BY <1>1, SubsetInduction
<1>. QED
  BY <1>2 DEF P

\* The sum of a set is the sum without the member that is picked, and that member's figure.
LEMMA TotalEquation ==
    ASSUME NEW kind, NEW S, IsFiniteSet(S)
    PROVE  /\ S = {} => Total(kind, S) = 0
           /\ S # {} => Total(kind, S) = Pick(S)[kind] + Total(kind, S \ {Pick(S)})
<1>. DEFINE u == S \ {Pick(S)}
<1>1. Sum(kind, S) = Sums(kind, S, Sum(kind, S))
  BY SumExists
<1>2. Sums(kind, S, Sum(kind, S))[S] =
        IF S = {} THEN 0 ELSE Pick(S)[kind] + Sum(kind, S)[S \ {Pick(S)}]
  BY DEF Sums
<1>3. ASSUME S # {} PROVE Sum(kind, S)[u] = Sum(kind, u)[u]
  <2>1. u \in SUBSET S /\ u \in SUBSET u /\ IsFiniteSet(u)
    BY FS_Subset
  <2>2. Sum(kind, u) = Sums(kind, u, Sum(kind, u))
    BY <2>1, SumExists
  <2>. HIDE DEF u
  <2>. QED
    BY <1>1, <2>1, <2>2, SumsAgree
<1>. QED
  BY <1>1, <1>2, <1>3, TotalIsSum

\* A sum of whole numbers is one.
LEMMA TotalType ==
    ASSUME NEW kind, NEW S, IsFiniteSet(S), \A r \in S : r[kind] \in Nat
    PROVE  Total(kind, S) \in Nat
<1>. DEFINE P == {T \in SUBSET S : Total(kind, T) \in Nat}
<1>1. ASSUME NEW T \in SUBSET S, \A U \in SUBSET T : U # T => U \in P
      PROVE  T \in P
  <2>1. IsFiniteSet(T)
    BY FS_Subset
  <2>2. CASE T = {}
    <3>1. Total(kind, T) = 0
      BY <2>1, <2>2, TotalEquation
    <3>. QED
      BY <3>1
  <2>3. CASE T # {}
    <3>1. Pick(T) \in T /\ T \ {Pick(T)} \in P
      BY <1>1, <2>3, PickIsMember
    <3>2. Pick(T)[kind] \in Nat /\ Total(kind, T \ {Pick(T)}) \in Nat
      BY <3>1
    <3>3. Total(kind, T) = Pick(T)[kind] + Total(kind, T \ {Pick(T)})
      BY <2>1, <2>3, TotalEquation
    <3>4. Total(kind, T) \in Nat
      BY <3>2, <3>3
    <3>. QED
      BY <3>4
  <2>. QED
    BY <2>2, <2>3
<1>. HIDE DEF P
<1>2. S \in P
  BY <1>1, SubsetInduction
<1>. QED
  BY <1>2 DEF P

\* A column that is the sum of two others in every row has the sum of their totals.
LEMMA TotalAdds ==
    ASSUME NEW a, NEW b, NEW c, NEW S, IsFiniteSet(S),
           \A r \in S : r[a] \in Nat /\ r[b] \in Nat /\ r[c] = r[a] + r[b]
    PROVE  Total(c, S) = Total(a, S) + Total(b, S)
<1>. DEFINE P == {T \in SUBSET S : Total(c, T) = Total(a, T) + Total(b, T)}
<1>1. ASSUME NEW T \in SUBSET S, \A U \in SUBSET T : U # T => U \in P
      PROVE  T \in P
  <2>1. IsFiniteSet(T)
    BY FS_Subset
  <2>2. CASE T = {}
    <3>1. Total(a, T) = 0 /\ Total(b, T) = 0 /\ Total(c, T) = 0
      BY <2>1, <2>2, TotalEquation
    <3>. QED
      BY <3>1
  <2>3. CASE T # {}
    <3>. DEFINE r == Pick(T)
                U == T \ {Pick(T)}
    <3>1. r \in T /\ U \in P /\ IsFiniteSet(U) /\ U \subseteq S
      BY <1>1, <2>1, <2>3, PickIsMember, FS_Subset
    <3>2. /\ Total(a, T) = r[a] + Total(a, U)
          /\ Total(b, T) = r[b] + Total(b, U)
          /\ Total(c, T) = r[c] + Total(c, U)
      BY <2>1, <2>3, TotalEquation
    <3>3. r[a] \in Nat /\ r[b] \in Nat /\ r[c] = r[a] + r[b]
      BY <3>1
    <3>4. Total(a, U) \in Nat /\ Total(b, U) \in Nat
      BY <3>1, TotalType
    <3>5. Total(c, U) = Total(a, U) + Total(b, U)
      BY <3>1
    <3>. HIDE DEF r, U
    <3>. QED
      BY <3>2, <3>3, <3>4, <3>5
  <2>. QED
    BY <2>2, <2>3
<1>. HIDE DEF P
<1>2. S \in P
  BY <1>1, SubsetInduction
<1>. QED
  BY <1>2 DEF P

\* Any member may be taken out of a sum.
LEMMA TotalWithout ==
    ASSUME NEW kind, NEW S, IsFiniteSet(S), \A r \in S : r[kind] \in Nat, NEW x \in S
    PROVE  Total(kind, S) = x[kind] + Total(kind, S \ {x})
<1>. DEFINE P == {T \in SUBSET S :
                    \A y \in T : Total(kind, T) = y[kind] + Total(kind, T \ {y})}
<1>1. ASSUME NEW T \in SUBSET S, \A U \in SUBSET T : U # T => U \in P, NEW y \in T
      PROVE  Total(kind, T) = y[kind] + Total(kind, T \ {y})
  <2>. DEFINE p == Pick(T)
              U == T \ {p}
              V == T \ {y}
              W == U \ {y}
  <2>1. IsFiniteSet(T) /\ IsFiniteSet(W)
    BY FS_Subset
  <2>2. Total(kind, T) = p[kind] + Total(kind, U)
    BY <1>1, <2>1, TotalEquation
  <2>3. CASE p = y
    BY <2>2, <2>3
  <2>4. CASE p # y
    <3>1. p \in T /\ U \in P /\ V \in P /\ y \in U /\ p \in V
      <4>1. p \in T
        BY <1>1, PickIsMember
      <4>2. U \in SUBSET T /\ U # T /\ V \in SUBSET T /\ V # T /\ y \in U /\ p \in V
        BY <2>4, <4>1
      <4>. HIDE DEF P, U, V, p
      <4>. QED
        BY <1>1, <4>1, <4>2
    <3>2. Total(kind, U) = y[kind] + Total(kind, W)
      BY <3>1
    <3>3. V \ {p} = W
      OBVIOUS
    <3>4. Total(kind, V) = p[kind] + Total(kind, W)
      <4>1. Total(kind, V) = p[kind] + Total(kind, V \ {p})
        BY <3>1
      <4>. QED
        BY <3>3, <4>1, Zenon
    <3>5. p[kind] \in Nat /\ y[kind] \in Nat /\ Total(kind, W) \in Nat
      BY <2>1, <3>1, TotalType
    <3>6. Total(kind, T) = y[kind] + Total(kind, V)
      <4>. HIDE DEF p, U, V, W, P
      <4>. QED
        BY <2>2, <3>2, <3>4, <3>5
    <3>. QED
      BY <3>6
  <2>. QED
    BY <2>3, <2>4
<1>2. ASSUME NEW T \in SUBSET S, \A U \in SUBSET T : U # T => U \in P
      PROVE  T \in P
  BY <1>1, <1>2
<1>. HIDE DEF P
<1>3. S \in P
  BY <1>2, SubsetInduction
<1>. QED
  BY <1>3 DEF P

\* The rows without a figure add nothing, and the others at most what all do.
LEMMA TotalOfPart ==
    ASSUME NEW kind, NEW S, IsFiniteSet(S), \A r \in S : r[kind] \in Nat, NEW Q
    PROVE  /\ Total(kind, S \cap Q) <= Total(kind, S)
           /\ (\A r \in S \ Q : r[kind] = 0) => Total(kind, S \cap Q) = Total(kind, S)
<1>. DEFINE Fits(T) ==
                /\ Total(kind, T \cap Q) <= Total(kind, T)
                /\ (\A r \in T \ Q : r[kind] = 0) => Total(kind, T \cap Q) = Total(kind, T)
            P == {T \in SUBSET S : Fits(T)}
<1>1. ASSUME NEW T \in SUBSET S, \A U \in SUBSET T : U # T => U \in P
      PROVE  Fits(T)
  <2>1. IsFiniteSet(T) /\ IsFiniteSet(T \cap Q)
    BY FS_Subset
  <2>2. Total(kind, T) \in Nat /\ Total(kind, T \cap Q) \in Nat
    BY <2>1, TotalType
  <2>3. CASE T \subseteq Q
    <3>1. T \cap Q = T
      BY <2>3
    <3>. QED
      BY <2>2, <3>1
  <2>4. ASSUME NEW x \in T \ Q
        PROVE  Fits(T)
    <3>. DEFINE U == T \ {x}
    <3>1. Total(kind, T) = x[kind] + Total(kind, U)
      BY <2>1, TotalWithout
    <3>2. U \in P /\ U \cap Q = T \cap Q /\ IsFiniteSet(U) /\ \A r \in U \ Q : r \in T \ Q
      <4>1. U \in SUBSET T /\ U # T
        OBVIOUS
      <4>2. U \in P
        BY <1>1, <4>1
      <4>. QED
        BY <2>1, <4>1, <4>2, FS_Subset
    <3>3. Fits(U)
      BY <3>2
    <3>4. x[kind] \in Nat /\ Total(kind, U) \in Nat
      BY <3>2, TotalType
    <3>5. /\ Total(kind, T \cap Q) <= Total(kind, U)
          /\ (\A r \in T \ Q : r[kind] = 0) => Total(kind, T \cap Q) = Total(kind, U) /\ x[kind] = 0
      BY <3>2, <3>3
    <3>. HIDE DEF U, P
    <3>. QED
      BY <2>2, <3>1, <3>4, <3>5
  <2>. QED
    BY <2>3, <2>4
<1>2. ASSUME NEW T \in SUBSET S, \A U \in SUBSET T : U # T => U \in P
      PROVE  T \in P
  BY <1>1, <1>2
<1>. HIDE DEF P
<1>3. S \in P
  BY <1>2, SubsetInduction
<1>. QED
  BY <1>3 DEF P

-----------------------------------------------------------------------------
(* Figures of two panels.                                                  *)

\* The rows of a view that are counted are those of the active markets, as long
\* as no market of the list has launched.
LEMMA SameMarkets ==
    ASSUME NEW g \in 0..MaxGen,
           \A r \in PreLaunchMarkets(CountriesAt(g)) : r.n_total = 0
    PROVE  /\ NetworkSummary(CountriesAt(g)).n_lockers_total =
                    CountryShare(CountriesAt(g)).lockers
           /\ NetworkSummary(CountriesAt(g)).n_network_total =
                    CountryShare(CountriesAt(g)).lockers + CountryShare(CountriesAt(g)).pudo
           /\ NetworkSummary(CountriesAt(g)).n_countries_active =
                    CountryShare(CountriesAt(g)).active
<1> DEFINE rows    == CountriesAt(g)
           counted == {r \in rows : r.n_total > 0}
           active  == ActiveMarkets(rows)
<1>1. counted = active
  BY DEF PreLaunchMarkets, ActiveMarkets
<1>2. IsFiniteSet(rows) /\ \A r \in rows :
            r.n_lockers \in Nat /\ r.n_pudo \in Nat /\ r.n_total = r.n_lockers + r.n_pudo
  BY ViewsAssumption
<1>3. active \in SUBSET rows
  BY DEF ActiveMarkets
<1>4. IsFiniteSet(active)
  BY <1>2, <1>3, FS_Subset
<1>5. /\ NetworkSummary(rows).n_lockers_total = Total("n_lockers", counted)
      /\ NetworkSummary(rows).n_network_total = Total("n_total", counted)
      /\ NetworkSummary(rows).n_countries_active = Cardinality(counted)
      /\ CountryShare(rows).lockers = Total("n_lockers", active)
      /\ CountryShare(rows).pudo = Total("n_pudo", active)
      /\ CountryShare(rows).active = Cardinality(active)
  BY DEF NetworkSummary, CountryShare
<1>6. Total("n_total", active) = Total("n_lockers", active) + Total("n_pudo", active)
  <2>1. \A r \in active : /\ r["n_lockers"] \in Nat /\ r["n_pudo"] \in Nat
                          /\ r["n_total"] = r["n_lockers"] + r["n_pudo"]
    BY <1>2, <1>3
  <2> HIDE DEF active
  <2> QED BY <1>4, <2>1, TotalAdds
<1> HIDE DEF counted, active
<1> QED BY <1>1, <1>5, <1>6

\* Poland is part of the network.
LEMMA PolandIsPart ==
    ASSUME NEW g \in 0..MaxGen
    PROVE  LET polish == Total("n_lockers", {r \in CountriesAt(g) : r.country = "PL"})
           IN  /\ polish \in Nat
               /\ NetworkSummary(CountriesAt(g)).n_lockers_total \in Nat
               /\ polish <= NetworkSummary(CountriesAt(g)).n_lockers_total
<1> DEFINE rows    == CountriesAt(g)
           polish  == {r \in rows : r.country = "PL"}
           counted == {r \in rows : r.n_total > 0}
<1>1. IsFiniteSet(rows) /\ \A r \in rows :
            r.n_lockers \in Nat /\ r.n_pudo \in Nat /\ r.n_total = r.n_lockers + r.n_pudo
  BY ViewsAssumption
<1>2. IsFiniteSet(polish) /\ IsFiniteSet(counted)
  BY <1>1, FS_Subset
<1>3. \A r \in rows : r["n_lockers"] \in Nat
  BY <1>1
<1>4. \A r \in polish \ counted : r["n_lockers"] = 0
  <2>1. ASSUME NEW r \in rows, ~(r.n_total > 0) PROVE r.n_lockers = 0
    BY <1>1, <2>1
  <2> QED BY <2>1
<1>5. polish \subseteq rows /\ counted \subseteq rows
  OBVIOUS
<1>6. NetworkSummary(rows).n_lockers_total = Total("n_lockers", counted)
  BY DEF NetworkSummary
<1> HIDE DEF polish, counted
<1>7. /\ Total("n_lockers", polish \cap counted) = Total("n_lockers", polish)
      /\ Total("n_lockers", counted \cap polish) <= Total("n_lockers", counted)
  BY <1>2, <1>3, <1>4, <1>5, TotalOfPart
<1>8. polish \cap counted = counted \cap polish
  OBVIOUS
<1>9. Total("n_lockers", polish) <= Total("n_lockers", counted)
  BY <1>7, <1>8, Zenon
<1>10. Total("n_lockers", polish) \in Nat /\ Total("n_lockers", counted) \in Nat
  BY <1>2, <1>3, <1>5, TotalType
<1> QED BY <1>6, <1>9, <1>10 DEF polish

LEMMA DensestIs ==
    ASSUME NEW rows, IsFiniteSet(rows), rows # {}, \A r \in rows : r.lockers_per_10k \in Nat
    PROVE  /\ Densest(rows) \in rows
           /\ \A q \in rows : q.lockers_per_10k <= Densest(rows).lockers_per_10k
<1> DEFINE R == {x \in rows \X rows : x[1].lockers_per_10k > x[2].lockers_per_10k}
<1>1. \A q, r \in rows : <<q, r>> \in R <=> q.lockers_per_10k > r.lockers_per_10k
  OBVIOUS
<1> HIDE DEF R
<1>2. /\ \A r \in rows : <<r, r>> \notin R
      /\ \A p, q, r \in rows : <<p, q>> \in R /\ <<q, r>> \in R => <<p, r>> \in R
  BY <1>1
<1>3. \E r \in rows : \A q \in rows : <<q, r>> \notin R
  BY <1>2, FiniteExtreme
<1>4. \E r \in rows : \A q \in rows : q.lockers_per_10k <= r.lockers_per_10k
  <2>1. PICK r \in rows : \A q \in rows : <<q, r>> \notin R
    BY <1>3
  <2>2. ASSUME NEW q \in rows PROVE q.lockers_per_10k <= r.lockers_per_10k
    <3>1. q.lockers_per_10k \in Nat /\ r.lockers_per_10k \in Nat
      OBVIOUS
    <3>2. ~(q.lockers_per_10k > r.lockers_per_10k)
      BY <1>1, <2>1
    <3> QED BY <3>1, <3>2
  <2> QED BY <2>2
<1> QED BY <1>4, Zenon DEF Densest

\* The densest of the big regions leads the top list.
LEMMA TopHasDensest ==
    ASSUME NEW g \in 0..MaxGen, NEW r \in Nuts2At(g), r.lockers_per_10k # NoDensity,
           r.population >= TopMinPopulation
    PROVE  LET top == TopNuts2(Nuts2At(g), TopLimit, TopMinPopulation)
           IN  /\ Densest(top).lockers_per_10k \in Nat
               /\ r.lockers_per_10k <= Densest(top).lockers_per_10k
<1> DEFINE big == {q \in Nuts2At(g) :
                        q.population >= TopMinPopulation /\ q.lockers_per_10k # NoDensity}
           top == TopNuts2(Nuts2At(g), TopLimit, TopMinPopulation)
           lead == Densest(big)
<1>1. IsFiniteSet(Nuts2At(g)) /\ \A q \in Nuts2At(g) : q.lockers_per_10k \in Nat \cup {NoDensity}
  BY ViewsAssumption
<1>2. IsFiniteSet(big) /\ r \in big /\ \A q \in big : q.lockers_per_10k \in Nat
  BY <1>1, FS_Subset
<1>3. top = {q \in big : Cardinality({p \in big : p.lockers_per_10k > q.lockers_per_10k}) < TopLimit}
  BY DEF TopNuts2
<1> HIDE DEF big, top, lead
<1>4. lead \in big /\ \A q \in big : q.lockers_per_10k <= lead.lockers_per_10k
  BY <1>2, DensestIs DEF lead
<1>5. lead \in top
  <2> DEFINE denser == {p \in big : p.lockers_per_10k > lead.lockers_per_10k}
  <2>1. denser = {}
    <3>1. ASSUME NEW p \in big PROVE ~(p.lockers_per_10k > lead.lockers_per_10k)
      BY <1>2, <1>4
    <3> QED BY <3>1
  <2>2. Cardinality(denser) < TopLimit
    <3> HIDE DEF denser
    <3>1. Cardinality(denser) = 0
      BY <2>1, FS_EmptySet
    <3>2. TopLimit \in Nat \ {0}
      BY ViewsAssumption
    <3> QED BY <3>1, <3>2
  <2> QED BY <1>3, <1>4, <2>2
<1>6. top \in SUBSET big
  BY <1>3
<1>7. IsFiniteSet(top)
  BY <1>2, <1>6, FS_Subset
<1>8. Densest(top) \in top /\ lead.lockers_per_10k <= Densest(top).lockers_per_10k
  BY <1>2, <1>5, <1>6, <1>7, DensestIs
<1>9. /\ r.lockers_per_10k \in Nat /\ r.lockers_per_10k <= lead.lockers_per_10k
      /\ lead.lockers_per_10k \in Nat /\ Densest(top).lockers_per_10k \in Nat
  BY <1>2, <1>4, <1>6, <1>8
<1>10. r.lockers_per_10k <= Densest(top).lockers_per_10k
  BY <1>8, <1>9
<1> QED BY <1>9, <1>10 DEF top

\* A share of at most all is at most 1000 per mille.
LEMMA PartIsPerMille ==
    ASSUME NEW a \in Nat, NEW b \in Nat, 0 < a, a <= b
    PROVE  PerMille(a, b) \in 0..1000
<1> DEFINE q == (1000 * a) \div b
           r == (1000 * a) % b
<1>1. q \in Int /\ r \in Int /\ 0 <= r /\ r < b /\ 1000 * a = q * b + r
  OBVIOUS
<1> HIDE DEF q, r
<1>2. q >= 0
  <2> SUFFICES ASSUME q < 0 PROVE FALSE
    BY <1>1
  <2> DEFINE k == -1 - q
  <2>1. k \in Nat /\ q = -1 - k
    BY <1>1
  <2> HIDE DEF k
  <2>2. q * b = -b - k * b /\ k * b >= 0 /\ k * b \in Int
    BY <2>1
  <2> QED BY <1>1, <2>2
<1>3. q <= 1000
  <2> SUFFICES ASSUME q > 1000 PROVE FALSE
    BY <1>1
  <2> DEFINE k == q - 1001
  <2>1. k \in Nat /\ q = 1001 + k
    BY <1>1
  <2> HIDE DEF k
  <2>2. q * b = 1001 * b + k * b /\ k * b >= 0 /\ k * b \in Int
    BY <2>1
  <2> QED BY <1>1, <2>2
<1>4. q \in 0..1000
  BY <1>1, <1>2, <1>3
<1> QED BY <1>4 DEF q, PerMille

\* Where the benchmark line is drawn.
LEMMA LineIs ==
    ASSUME NEW rows, NEW bench, bench # NoValue, Densest(rows).lockers_per_10k # 0
    PROVE  DensityBars(rows, bench).line =
                PerMille(bench.topNonPl, Densest(rows).lockers_per_10k)
BY DEF DensityBars

\* The benchmark line is on the chart when the region it stands for is big
\* enough to have a bar.
LEMMA LineOnChart ==
    ASSUME NEW g \in 0..MaxGen, NEW top, NEW bench,
           top = TopNuts2(Nuts2At(g), TopLimit, TopMinPopulation),
           bench = computeBenchmark(Nuts2At(g)), bench # NoValue,
           \A r \in Nuts2At(g) :
                r.lockers_per_10k = bench.topNonPl => r.population >= TopMinPopulation
    PROVE  DensityBars(top, bench).line \in 0..1000
<1> DEFINE rows   == Nuts2At(g)
           ranked == {r \in rows : r.lockers_per_10k # NoDensity /\ r.lockers_per_10k > 0}
           polish == {r \in ranked : r.country = "PL"}
           other  == ranked \ polish
           chart  == 0..1000
           lead   == Densest(other)
           long   == Densest(top).lockers_per_10k
           mark   == bench.topNonPl
<1>1. IsFiniteSet(rows) /\ \A r \in rows : r.lockers_per_10k \in Nat \cup {NoDensity}
  BY ViewsAssumption
<1>2. other # {} /\ mark = lead.lockers_per_10k
  BY DEF computeBenchmark
<1>3. IsFiniteSet(other) /\ other \in SUBSET rows
  BY <1>1, FS_Subset
<1>4. \A r \in other : r.lockers_per_10k \in Nat /\ r.lockers_per_10k > 0
                       /\ r.lockers_per_10k # NoDensity
  BY <1>1
<1> HIDE DEF other
<1>5. lead \in other
  BY <1>2, <1>3, <1>4, DensestIs
<1> HIDE DEF lead, mark
<1>6. lead \in rows /\ lead.lockers_per_10k # NoDensity
  BY <1>3, <1>4, <1>5
<1>7. lead.population >= TopMinPopulation
  BY <1>2, <1>6 DEF mark
<1>8. long \in Nat /\ lead.lockers_per_10k <= long
  BY <1>6, <1>7, TopHasDensest
<1> HIDE DEF long
<1>9. mark \in Nat /\ 0 < mark /\ mark <= long
  BY <1>2, <1>4, <1>5, <1>8
<1>10. long # 0
  BY <1>8, <1>9
<1>11. PerMille(mark, long) \in chart
  BY <1>8, <1>9, PartIsPerMille, ZenonT(60)
<1> HIDE DEF chart
<1>12. DensityBars(top, bench).line = PerMille(mark, long)
  BY <1>10, LineIs, Zenon DEF mark, long
<1>13. DensityBars(top, bench).line \in chart
  BY <1>11, <1>12, Zenon
<1> QED BY <1>13 DEF chart

\* Panels that show one refresh of a view show the same figures: the sums of
\* the KPI cards are those of the country shares, Poland has no more lockers
\* than the network, and the benchmark line is on the chart, for any rows the
\* views may have (HeroKpis, CountryShare, DensityBars).
THEOREM FiguresCorrect == Spec => []FiguresAgree
<1>1. ASSUME PageInv PROVE FiguresAgree
  <2> SUFFICES ASSUME page = "rendered" PROVE FiguresAgree
    BY DEF FiguresAgree
  <2>1. /\ \A s \in SectionNames : loaded[s].gen \in 0..MaxGen
        /\ {"summary", "countries", "topNuts2", "allNuts2"} \subseteq SectionNames
    <3>1. {"summary", "countries", "topNuts2", "allNuts2"} \subseteq SectionNames
      BY SectionFacts DEF SectionNames, Sections
    <3> QED BY <1>1, <3>1 DEF PageInv, TypeOK
  <2>2. ASSUME {"summary", "countries"} \subseteq Panels
        PROVE  Rows("countries") = CountriesAt(loaded["countries"].gen)
    BY <2>2 DEF Panels, Rows, Content
  <2>3. ASSUME {"summary", "countries"} \subseteq Panels,
               loaded["summary"].gen = loaded["countries"].gen,
               \A r \in PreLaunchMarkets(Rows("countries")) : r.n_total = 0
        PROVE  LET share == CountryShare(Rows("countries"))
               IN  /\ Hero.lockers = share.lockers
                   /\ Hero.network = share.lockers + share.pudo
                   /\ Hero.active = share.active
    BY <2>1, <2>2, <2>3, SameMarkets DEF Hero, HeroKpis
  <2>4. ASSUME {"summary", "countries"} \subseteq Panels, Hero.polish > Hero.lockers,
               loaded["summary"].gen = loaded["countries"].gen
        PROVE  FALSE
    <3> DEFINE g == loaded["countries"].gen
               p == Total("n_lockers", {r \in CountriesAt(g) : r.country = "PL"})
               n == NetworkSummary(CountriesAt(g)).n_lockers_total
    <3>1. Hero.polish = p /\ Hero.lockers = n
      BY <2>2, <2>4 DEF Hero, HeroKpis
    <3>2. g \in 0..MaxGen
      BY <2>1
    <3>3. p \in Nat /\ n \in Nat /\ p <= n
      <4> HIDE DEF g
      <4> QED BY <3>2, PolandIsPart
    <3> HIDE DEF p, n
    <3> QED BY <2>4, <3>1, <3>3
  <2>5. ASSUME "topNuts2" \in Panels, benchmark # NoValue,
               loaded["topNuts2"].gen = loaded["allNuts2"].gen,
               \A r \in Content("allNuts2") :
                    r.lockers_per_10k = benchmark.topNonPl => r.population >= TopMinPopulation
        PROVE  DensityBars(Rows("topNuts2"), benchmark).line \in 0..1000
    <3> DEFINE g == loaded["allNuts2"].gen
    <3>1. g \in 0..MaxGen
      BY <2>1
    <3>2. Content("allNuts2") = Nuts2At(g) /\ benchmark = computeBenchmark(Nuts2At(g))
      BY <2>5 DEF Content, benchmark
    <3>3. Rows("topNuts2") = TopNuts2(Nuts2At(g), TopLimit, TopMinPopulation)
      BY <2>5 DEF Panels, Rows, Content
    <3>4. \A r \in Nuts2At(g) :
                r.lockers_per_10k = benchmark.topNonPl => r.population >= TopMinPopulation
      BY <2>5, <3>2, Zenon
    <3> DEFINE top   == Rows("topNuts2")
               bench == benchmark
    <3>5. bench # NoValue
      BY <2>5
    <3> HIDE DEF g, top, bench
    <3>6. /\ top = TopNuts2(Nuts2At(g), TopLimit, TopMinPopulation)
          /\ bench = computeBenchmark(Nuts2At(g))
          /\ \A r \in Nuts2At(g) :
                r.lockers_per_10k = bench.topNonPl => r.population >= TopMinPopulation
      BY <3>2, <3>3, <3>4, Zenon DEF top, bench
    <3>7. DensityBars(top, bench).line \in 0..1000
      BY <3>1, <3>5, <3>6, LineOnChart, ZenonT(60)
    <3> QED BY <3>7 DEF top, bench
  <2> QED BY <2>3, <2>4, <2>5 DEF FiguresAgree
<1> QED BY <1>1, SpecInv, PTL

=============================================================================
