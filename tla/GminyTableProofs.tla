--------------------------- MODULE GminyTableProofs ---------------------------
(***************************************************************************)
(* Proofs about GminyTable, for any rows, needles and page sizes.          *)
(*                                                                         *)
(* The invariant says that the page the table keeps begins at a row that   *)
(* is there, or is the first.  That a page then shows what it announces    *)
(* rests on the order: it numbers the rows left by the filter from 0,      *)
(* leaving out none.                                                       *)
(***************************************************************************)
EXTENDS GminyTable, FiniteSetTheorems, TLAPS

\* The page begins at a row of the table, or is the first.
PageBegins ==
    \/ pagination.pageIndex = 0
    \/ pagination.pageIndex * pagination.pageSize < total

TableInv == TypeOK /\ PageBegins

-----------------------------------------------------------------------------
(* Arithmetic. *)

LEMMA MaxOfTwo ==
    ASSUME NEW a \in Int, NEW b \in Int
    PROVE  Max({a, b}) = IF a >= b THEN a ELSE b
  BY DEF Max

LEMMA MinOfTwo ==
    ASSUME NEW a \in Int, NEW b \in Int
    PROVE  Min({a, b}) = IF a <= b THEN a ELSE b
  BY DEF Min

\* What fits into a division.
LEMMA Division ==
    ASSUME NEW x \in Nat, NEW d \in Nat \ {0}
    PROVE  /\ x \div d \in Nat
           /\ (x \div d) * d <= x
           /\ \A m \in Nat : m <= x \div d <=> m * d <= x
<1>. DEFINE q == x \div d
            r == x % d
<1>1. q \in Int /\ r \in Int /\ 0 <= r /\ r < d /\ x = q * d + r
  OBVIOUS
<1>2. q \in Nat
  OBVIOUS
<1>. HIDE DEF q, r
<1>3. ASSUME NEW m \in Nat, m <= q PROVE m * d <= x
  <2>1. PICK k \in Nat : q = m + k
    BY <1>2, <1>3
  <2>2. q * d = m * d + k * d /\ k * d >= 0 /\ m * d \in Nat /\ k * d \in Nat
    BY <2>1
  <2>. QED
    BY <2>2, <1>1
<1>4. ASSUME NEW m \in Nat, m > q PROVE m * d > x
  <2>1. PICK k \in Nat : m = (q + 1) + k
    BY <1>2, <1>4
  <2>2. m * d = (q * d + d) + k * d /\ k * d \in Nat /\ q * d \in Nat
    BY <2>1, <1>2
  <2>. QED
    BY <2>2, <1>1
<1>5. \A m \in Nat : m * d \in Nat
  OBVIOUS
<1>6. \A m \in Nat : m <= q <=> m * d <= x
  BY <1>2, <1>3, <1>4, <1>5
<1>. QED
  BY <1>2, <1>6 DEF q

\* A part of a finite set that leaves something out is smaller.
LEMMA StrictPart ==
    ASSUME NEW S, NEW T, NEW x, IsFiniteSet(S), T \subseteq S, x \in S, x \notin T
    PROVE  /\ Cardinality(T) \in Nat
           /\ Cardinality(S) \in Nat
           /\ Cardinality(T) < Cardinality(S)
<1>1. /\ IsFiniteSet(T)
      /\ Cardinality(T) <= Cardinality(S)
      /\ Cardinality(S) # Cardinality(T)
  BY FS_Subset
<1>2. Cardinality(T) \in Nat /\ Cardinality(S) \in Nat
  BY <1>1, FS_CardinalityType
<1>. QED
  BY <1>1, <1>2

-----------------------------------------------------------------------------
(* The rows a filter leaves and their order. *)

LEMMA FilteredRows ==
    /\ filtered \subseteq DOMAIN Rows
    /\ filtered \subseteq Nat
    /\ IsFiniteSet(filtered)
    /\ total \in Nat
    /\ filtered = {} <=> total = 0
<1>1. DOMAIN Rows \subseteq Nat
  <2>1. DOMAIN Rows = 1 .. Cardinality(DOMAIN Rows) /\ Cardinality(DOMAIN Rows) \in Nat
    BY RowsAssumption, FS_CardinalityType
  <2>. QED
    BY <2>1
<1>2. filtered \subseteq DOMAIN Rows
  BY DEF filtered, baseRows
<1>3. IsFiniteSet(filtered)
  BY <1>2, RowsAssumption, FS_Subset
<1>4. Cardinality(filtered) \in Nat /\ (Cardinality(filtered) = 0 <=> filtered = {})
  BY <1>3, FS_CardinalityType, FS_EmptySet
<1>. QED
  BY <1>1, <1>2, <1>3, <1>4 DEF total

LEMMA SortValues ==
    ASSUME NEW i \in filtered, NEW column \in Columns
    PROVE  SortValue(i, column) \in Nat
<1>1. i \in DOMAIN Rows /\ Rows[i].lockers_per_10k # NoDensity
  BY DEF filtered, baseRows
<1>2. column \in {"name", "voivodeship", "n_lockers", "population", "lockers_per_10k"}
  BY DEF Columns
<1>. QED
  BY <1>1, <1>2, RowsAssumption DEF SortValue

\* Before is a strict total order of the rows.
LEMMA BeforeIsOrder ==
    ASSUME TypeOK
    PROVE  /\ \A i \in filtered : ~Before(i, i)
           /\ \A i, j \in filtered : i = j \/ Before(i, j) \/ Before(j, i)
           /\ \A i, j, k \in filtered : Before(i, j) /\ Before(j, k) => Before(i, k)
<1>1. filtered \subseteq Nat
  BY FilteredRows
<1>2. CASE sorting = Unsorted
  BY <1>1, <1>2 DEF Before
<1>3. CASE sorting # Unsorted
  <2>. DEFINE v(i) == SortValue(i, sorting.id)
  <2>1. sorting.id \in Columns
    BY <1>3 DEF TypeOK
  <2>2. \A i \in filtered : v(i) \in Nat
    BY <2>1, SortValues
  <2>3. \A i, j \in filtered : Before(i, j) <=>
            IF v(i) = v(j) THEN i < j ELSE IF sorting.desc THEN v(i) > v(j) ELSE v(i) < v(j)
    BY <1>3 DEF Before
  <2>. HIDE DEF v
  <2>. QED
    BY <1>1, <2>2, <2>3
<1>. QED
  BY <1>2, <1>3

\* So it gives every row a place of its own, from 0 to the last.
LEMMA Positions ==
    ASSUME TypeOK
    PROVE  /\ \A i \in filtered : Position(i) \in 0 .. total - 1
           /\ \A i, j \in filtered : Position(i) = Position(j) => i = j
           /\ \A p \in 0 .. total - 1 : \E i \in filtered : Position(i) = p
<1>. DEFINE ahead(i) == {j \in filtered : Before(j, i)}
<1>1. ASSUME NEW i \in filtered PROVE Position(i) \in 0 .. total - 1
  <2>1. ahead(i) \subseteq filtered /\ i \notin ahead(i)
    BY BeforeIsOrder
  <2>. HIDE DEF ahead
  <2>2. Cardinality(ahead(i)) \in Nat /\ Cardinality(ahead(i)) < Cardinality(filtered)
    BY <2>1, FilteredRows, StrictPart
  <2>. QED
    BY <2>2, FilteredRows DEF Position, total, ahead
<1>2. ASSUME NEW i \in filtered, NEW j \in filtered, Before(i, j)
      PROVE  Position(i) # Position(j)
  <2>1. ahead(i) \subseteq ahead(j) /\ i \in ahead(j) /\ i \notin ahead(i)
    BY <1>2, BeforeIsOrder
  <2>2. IsFiniteSet(ahead(j))
    BY FilteredRows, FS_Subset
  <2>. HIDE DEF ahead
  <2>3. /\ Cardinality(ahead(i)) \in Nat /\ Cardinality(ahead(j)) \in Nat
        /\ Cardinality(ahead(i)) < Cardinality(ahead(j))
    BY <2>1, <2>2, StrictPart
  <2>4. Cardinality(ahead(i)) # Cardinality(ahead(j))
    BY <2>3
  <2>. QED
    BY <2>4 DEF Position, ahead
<1>3. \A i, j \in filtered : Position(i) = Position(j) => i = j
  BY <1>2, BeforeIsOrder
<1>. DEFINE places == 0 .. total - 1
            place  == [i \in filtered |-> Position(i)]
<1>4. IsFiniteSet(places) /\ Cardinality(places) = Cardinality(filtered)
  <2>1. total \in Nat
    BY FilteredRows
  <2>2. IsFiniteSet(0 .. total - 1) /\ Cardinality(0 .. total - 1) = total
    BY <2>1, FS_Interval
  <2>. QED
    BY <2>2 DEF total
<1>5. place \in Injection(filtered, places)
  BY <1>1, <1>3 DEF Injection, IsInjective
<1>. HIDE DEF places, place
<1>6. place \in Surjection(filtered, places)
  BY <1>4, <1>5, FS_Injection
<1>7. ASSUME NEW p \in places PROVE \E i \in filtered : Position(i) = p
  BY <1>6 DEF Surjection, place
<1>. QED
  BY <1>1, <1>3, <1>7 DEF places

-----------------------------------------------------------------------------
(* The invariant. *)

LEMMA InitTable == Init => TableInv
<1>. SUFFICES ASSUME Init PROVE TableInv
  OBVIOUS
<1>1. TypeOK
  BY ControlsAssumption DEF Init, TypeOK, Columns
<1>. QED
  BY <1>1 DEF Init, TableInv, PageBegins

\* A move to page n, within the table, keeps the invariant.
LEMMA MovedPage ==
    ASSUME TableInv, NEW n \in Nat, setPageIndex(n),
           UNCHANGED <<selectedVoivs, minPop, search>>,
           n = 0 \/ n * pagination.pageSize < total
    PROVE  /\ pagination' \in [pageIndex : Nat, pageSize : PageSizes]
           /\ PageBegins'
<1>1. pagination' = [pagination EXCEPT !.pageIndex = n]
  BY MaxOfTwo DEF setPageIndex
<1>2. total' = total
  BY DEF total, filtered, Passes
<1>. QED
  BY <1>1, <1>2 DEF TableInv, TypeOK, PageBegins

\* The first page always begins.
LEMMA FirstPageBegins ==
    ASSUME TypeOK, setPageIndex(0)
    PROVE  /\ pagination' \in [pageIndex : Nat, pageSize : PageSizes]
           /\ PageBegins'
<1>1. pagination' = [pagination EXCEPT !.pageIndex = 0]
  BY MaxOfTwo DEF setPageIndex
<1>. QED
  BY <1>1 DEF TypeOK, PageBegins

\* A page that stays still begins, when the filter stays too.
LEMMA StillPage ==
    ASSUME TableInv, UNCHANGED <<selectedVoivs, minPop, search, pagination>>
    PROVE  /\ pagination' \in [pageIndex : Nat, pageSize : PageSizes]
           /\ PageBegins'
<1>1. total' = total
  BY DEF total, filtered, Passes
<1>. QED
  BY <1>1 DEF TableInv, TypeOK, PageBegins

\* A filter that moves resets the page.
LEMMA FilterPage ==
    ASSUME TableInv, FilterEffect
    PROVE  /\ pagination' \in [pageIndex : Nat, pageSize : PageSizes]
           /\ PageBegins'
<1>1. CASE UNCHANGED <<selectedVoivs, minPop, search>> /\ UNCHANGED pagination
  BY <1>1, StillPage
<1>2. CASE setPageIndex(0)
  BY <1>2, FirstPageBegins DEF TableInv
<1>. QED
  BY <1>1, <1>2 DEF FilterEffect

\* The last page and the next one.
LEMMA PagesAhead ==
    ASSUME TableInv
    PROVE  /\ total \in Nat
           /\ pagination.pageIndex \in Nat
           /\ pagination.pageSize \in Nat \ {0}
           /\ PageCount \in Nat
           /\ \A n \in Nat : n < PageCount <=> n * pagination.pageSize < total
<1>. DEFINE size == pagination.pageSize
            x    == total + size - 1
<1>1. total \in Nat /\ size \in Nat \ {0} /\ pagination.pageIndex \in Nat
  BY FilteredRows, ControlsAssumption DEF TableInv, TypeOK
<1>2. x \in Nat
  BY <1>1
<1>3. PageCount = x \div size
  BY DEF PageCount
<1>. HIDE DEF size, x
<1>4. PageCount \in Nat /\ \A m \in Nat : m <= PageCount <=> m * size <= x
  BY <1>1, <1>2, <1>3, Division
<1>5. ASSUME NEW n \in Nat
      PROVE  n < PageCount <=> n * size < total
  <2>1. n + 1 <= PageCount <=> (n + 1) * size <= x
    BY <1>4
  <2>2. (n + 1) * size = n * size + size /\ n * size \in Nat
    BY <1>1
  <2>. QED
    BY <2>1, <2>2, <1>1, <1>4 DEF x
<1>. QED
  BY <1>1, <1>4, <1>5 DEF size

LEMMA PageSizeKeepsTop ==
    ASSUME TableInv, NEW size \in PageSizes, SelectPageSize(size)
    PROVE  /\ pagination' \in [pageIndex : Nat, pageSize : PageSizes]
           /\ PageBegins'
<1>. DEFINE top == pagination.pageIndex * pagination.pageSize
<1>1. /\ pagination' = [pageSize |-> size, pageIndex |-> top \div size]
      /\ total' = total
  BY DEF SelectPageSize, setPageSize, total, filtered, Passes
<1>2. top \in Nat /\ size \in Nat \ {0} /\ total \in Nat /\ (top = 0 \/ top < total)
  <2>1. /\ pagination.pageIndex \in Nat /\ pagination.pageSize \in Nat /\ size \in Nat \ {0}
        /\ total \in Nat
    BY FilteredRows, ControlsAssumption DEF TableInv, TypeOK
  <2>. QED
    BY <2>1 DEF TableInv, PageBegins
<1>. HIDE DEF top
<1>3. top \div size \in Nat /\ (top \div size) * size <= top
  BY <1>2, Division
<1>4. top = 0 => top \div size = 0
  BY <1>2, <1>3
<1>5. top \div size = 0 \/ (top \div size) * size < total
  BY <1>2, <1>3, <1>4
<1>. QED
  BY <1>1, <1>3, <1>5 DEF PageBegins

LEMMA StepTable == TableInv /\ [Next]_vars => TableInv'
<1>. SUFFICES ASSUME TableInv, [Next]_vars PROVE TableInv'
  OBVIOUS
<1>. USE DEF TableInv
<1>1. CASE ToggleMenu \/ ClickOutside \/ UNCHANGED vars
  <2>1. UNCHANGED <<selectedVoivs, minPop, search, sorting, pagination>>
        /\ voivMenuOpen' \in BOOLEAN
    BY <1>1 DEF ToggleMenu, ClickOutside, Outside, vars, TypeOK
  <2>. QED
    BY <2>1, StillPage DEF TypeOK, voivodeships
<1>2. ASSUME NEW S \in SUBSET voivodeships, SetVoivodeships(S)
      PROVE  TableInv'
  BY <1>2, FirstPageBegins DEF SetVoivodeships, TypeOK, voivodeships
<1>3. CASE SelectAll \/ Clear \/ \E v \in voivodeships : ToggleVoivodeship(v)
  <2>1. \E S \in SUBSET voivodeships : SetVoivodeships(S)
    BY <1>3 DEF SelectAll, Clear, ToggleVoivodeship, TypeOK
  <2>. QED
    BY <2>1, <1>2
<1>4. ASSUME NEW n \in Populations, MovePopulationSlider(n)
      PROVE  TableInv'
  BY <1>4, FilterPage DEF MovePopulationSlider, MaybeOutside, TypeOK, voivodeships
<1>5. ASSUME NEW needle \in Needles, TypeSearch(needle)
      PROVE  TableInv'
  BY <1>5, FilterPage DEF TypeSearch, MaybeOutside, TypeOK, voivodeships
<1>6. ASSUME NEW column \in Columns, ClickHeader(column)
      PROVE  TableInv'
  <2>1. FirstDesc(column) \in BOOLEAN
    BY DEF FirstDesc
  <2>2. sorting' \in [id : Columns, desc : BOOLEAN] \cup {Unsorted}
    <3>1. sorting \in [id : Columns, desc : BOOLEAN] \cup {Unsorted}
      BY DEF TypeOK
    <3>2. CASE sorting.id # column
      BY <1>6, <2>1, <3>2 DEF ClickHeader
    <3>3. CASE sorting.id = column /\ sorting.desc # FirstDesc(column)
      BY <1>6, <3>3 DEF ClickHeader
    <3>4. CASE sorting.id = column /\ sorting.desc = FirstDesc(column)
      <4>1. sorting' = [sorting EXCEPT !.desc = ~sorting.desc]
        BY <1>6, <3>4 DEF ClickHeader
      <4>2. sorting \in [id : Columns, desc : BOOLEAN]
        <5>1. "none" \notin Columns
          BY DEF Columns
        <5>. QED
          BY <3>1, <3>4, <5>1 DEF Unsorted
      <4>. QED
        BY <4>1, <4>2
    <3>. QED
      BY <3>2, <3>3, <3>4
  <2>3. CASE setPageIndex(0)
    BY <1>6, <2>2, <2>3, FirstPageBegins DEF ClickHeader, Outside, TypeOK, voivodeships
  <2>4. CASE UNCHANGED pagination
    BY <1>6, <2>2, <2>4, StillPage DEF ClickHeader, Outside, TypeOK, voivodeships
  <2>. QED
    BY <1>6, <2>3, <2>4 DEF ClickHeader, MayResetPage
<1>7. ASSUME NEW n \in Nat, GoToPage(n), n = 0 \/ n * pagination.pageSize < total
      PROVE  TableInv'
  BY <1>7, MovedPage DEF GoToPage, Outside, TypeOK, voivodeships
<1>8. CASE FirstPage \/ PreviousPage \/ NextPage \/ LastPage
  <2>1. /\ total \in Nat
        /\ pagination.pageIndex \in Nat
        /\ pagination.pageSize \in Nat \ {0}
        /\ PageCount \in Nat
        /\ \A n \in Nat : n < PageCount <=> n * pagination.pageSize < total
    BY PagesAhead
  <2>2. CASE FirstPage
    BY <1>7, <2>2 DEF FirstPage
  <2>3. CASE PreviousPage
    <3>1. pagination.pageIndex > 0 /\ GoToPage(pagination.pageIndex - 1)
      BY <2>3 DEF PreviousPage, getCanPreviousPage
    <3>2. pagination.pageIndex < PageCount
      BY <2>1, <3>1 DEF PageBegins
    <3>3. pagination.pageIndex - 1 \in Nat /\ pagination.pageIndex - 1 < PageCount
      BY <2>1, <3>1, <3>2
    <3>. QED
      BY <2>1, <3>1, <3>3, <1>7
  <2>4. CASE NextPage
    <3>1. pagination.pageIndex < PageCount - 1 /\ GoToPage(pagination.pageIndex + 1)
      BY <2>4 DEF NextPage, getCanNextPage
    <3>2. pagination.pageIndex + 1 \in Nat /\ pagination.pageIndex + 1 < PageCount
      BY <2>1, <3>1
    <3>. QED
      BY <2>1, <3>1, <3>2, <1>7
  <2>5. CASE LastPage
    <3>1. pagination.pageIndex < PageCount - 1 /\ GoToPage(Max({1, PageCount}) - 1)
      BY <2>5 DEF LastPage, getCanNextPage, ShownRange
    <3>2. Max({1, PageCount}) = PageCount
      BY <2>1, <3>1, MaxOfTwo
    <3>3. PageCount - 1 \in Nat /\ PageCount - 1 < PageCount
      BY <2>1, <3>1
    <3>. QED
      BY <2>1, <3>1, <3>2, <3>3, <1>7
  <2>. QED
    BY <1>8, <2>2, <2>3, <2>4, <2>5
<1>9. ASSUME NEW size \in PageSizes, SelectPageSize(size)
      PROVE  TableInv'
  BY <1>9, PageSizeKeepsTop DEF SelectPageSize, MaybeOutside, TypeOK, voivodeships
<1>. QED
  BY <1>1, <1>3, <1>4, <1>5, <1>6, <1>8, <1>9 DEF Next

LEMMA TableInvariant == Spec => []TableInv
  BY InitTable, StepTable, PTL DEF Spec

\* The table's controls keep their types: the page index is a natural number
\* and what is selected are voivodeships of the answer.
THEOREM TypeCorrect == Spec => []TypeOK
<1>1. TableInv => TypeOK
  BY DEF TableInv
<1>. QED
  BY <1>1, TableInvariant, PTL

-----------------------------------------------------------------------------
(* What the page shows. *)

\* A page shows the rows whose places are those from its first to its last.
LEMMA PageIsRange ==
    ASSUME TableInv
    PROVE  LET first == pagination.pageIndex * pagination.pageSize
               end   == IF first + pagination.pageSize <= total
                        THEN first + pagination.pageSize ELSE total
           IN  /\ first \in Nat
               /\ total = 0 => PageRows = {} /\ pagination.pageIndex = 0
               /\ total > 0 => first < end
               /\ total > 0 => Cardinality(PageRows) = end - first
               /\ \A i \in PageRows : i \in filtered /\ Position(i) \in first .. end - 1
<1>. DEFINE size   == pagination.pageSize
            first  == pagination.pageIndex * size
            end    == IF first + size <= total THEN first + size ELSE total
            places == first .. end - 1
            place  == [i \in PageRows |-> Position(i)]
<1>1. /\ total \in Nat /\ size \in Nat \ {0} /\ pagination.pageIndex \in Nat
      /\ pagination.pageIndex = 0 => first = 0
      /\ pagination.pageIndex # 0 => first < total
  BY PagesAhead DEF TableInv, PageBegins
<1>2. first \in Nat
  BY <1>1
<1>3. PageRows = {i \in filtered : first <= Position(i) /\ Position(i) < first + size}
  BY DEF PageRows
<1>. HIDE DEF first, size
<1>4. total > 0 => first < end
  BY <1>1, <1>2
<1>5. TypeOK
  BY DEF TableInv
<1>6. \A i \in PageRows : i \in filtered /\ Position(i) \in places
  <2>1. ASSUME NEW i \in PageRows
        PROVE  i \in filtered /\ Position(i) \in places
    <3>1. /\ i \in filtered
          /\ first <= Position(i) /\ Position(i) < first + size
          /\ Position(i) \in 0 .. total - 1
      BY <1>3, <1>5, Positions
    <3>. QED
      BY <3>1, <1>1, <1>2
  <2>. QED
    BY <2>1
<1>7. total = 0 => PageRows = {} /\ pagination.pageIndex = 0
  BY <1>1, <1>2, <1>6, FilteredRows
<1>8. place \in Bijection(PageRows, places)
  <2>1. \A i, j \in PageRows : Position(i) = Position(j) => i = j
    BY <1>5, <1>6, Positions
  <2>2. ASSUME NEW p \in places PROVE \E i \in PageRows : Position(i) = p
    <3>1. p \in 0 .. total - 1 /\ first <= p /\ p < first + size
      BY <1>1, <1>2
    <3>2. PICK i \in filtered : Position(i) = p
      BY <3>1, <1>5, Positions
    <3>3. i \in PageRows
      BY <3>1, <3>2, <1>3
    <3>. QED
      BY <3>2, <3>3
  <2>. HIDE DEF places
  <2>. QED
    BY <1>6, <2>1, <2>2 DEF Bijection, Injection, Surjection, IsInjective
<1>9. total > 0 => Cardinality(PageRows) = end - first
  <2>1. IsFiniteSet(PageRows)
    BY <1>3, FilteredRows, FS_Subset
  <2>2. ExistsBijection(PageRows, places)
    BY <1>8 DEF ExistsBijection
  <2>. HIDE DEF place, places
  <2>3. Cardinality(PageRows) = Cardinality(places)
    BY <2>1, <2>2, FS_Bijection
  <2>4. first \in Int /\ end - 1 \in Int
    BY <1>1, <1>2
  <2>. HIDE DEF end
  <2>5. Cardinality(places) = IF first > end - 1 THEN 0 ELSE end - 1 - first + 1
    BY <2>4, FS_Interval DEF places
  <2>6. end \in Int
    BY <1>1, <1>2 DEF end
  <2>. QED
    BY <2>3, <2>5, <2>6, <1>2, <1>4
<1>. QED
  BY <1>2, <1>4, <1>6, <1>7, <1>9 DEF first, size

\* The table is never left on an empty page while rows pass the filter, which
\* is what the effect on its filters is for.
THEOREM NeverStuck == Spec => []PageNeverStuck
<1>1. TableInv => PageNeverStuck
  <2>. SUFFICES ASSUME TableInv PROVE PageRows = {} <=> filtered = {}
    BY DEF PageNeverStuck
  <2>1. filtered = {} => PageRows = {}
    BY DEF PageRows
  <2>2. ASSUME filtered # {} PROVE PageRows # {}
    <3>. DEFINE first == pagination.pageIndex * pagination.pageSize
    <3>1. total > 0
      BY <2>2, FilteredRows
    <3>2. first \in Nat /\ first <= total - 1
      BY <3>1, PagesAhead DEF TableInv, PageBegins
    <3>3. PICK i \in filtered : Position(i) = first
      BY <3>2, Positions, FilteredRows DEF TableInv
    <3>4. pagination.pageSize \in Nat \ {0}
      BY PagesAhead
    <3>. HIDE DEF first
    <3>5. first <= Position(i) /\ Position(i) < first + pagination.pageSize
      BY <3>2, <3>3, <3>4
    <3>. QED
      BY <3>5 DEF PageRows, first
  <2>. QED
    BY <2>1, <2>2
<1>. QED
  BY <1>1, TableInvariant, PTL

\* "Showing start-end of total" counts the rows of the page, and the buttons
\* reach every page there is and none beyond.
THEOREM ShowingCorrect == Spec => []ShowingIsTrue
<1>1. TableInv => ShowingIsTrue
  <2>. SUFFICES ASSUME TableInv PROVE ShowingIsTrue
    OBVIOUS
  <2>. DEFINE k     == pagination.pageIndex
              size  == pagination.pageSize
              first == k * size
              end   == IF first + size <= total THEN first + size ELSE total
  <2>1. /\ total \in Nat /\ k \in Nat /\ size \in Nat \ {0} /\ PageCount \in Nat
        /\ \A n \in Nat : n < PageCount <=> n * size < total
    BY PagesAhead
  <2>2. /\ first \in Nat
        /\ total = 0 => PageRows = {} /\ k = 0
        /\ total > 0 => first < end
        /\ total > 0 => Cardinality(PageRows) = end - first
        /\ \A i \in PageRows : i \in filtered /\ Position(i) \in first .. end - 1
    BY PageIsRange
  <2>3. (k + 1) * size = first + size
    BY <2>1
  <2>4. ShownRange = [start |-> IF total = 0 THEN 0 ELSE first + 1, end |-> end,
                      page  |-> k + 1,
                      pages |-> IF 1 >= PageCount THEN 1 ELSE PageCount]
    <3>1. Min({(k + 1) * size, total}) = end
      <4>1. first + size \in Int /\ total \in Int
        BY <2>1, <2>2
      <4>. HIDE DEF first, size, k
      <4>2. Min({first + size, total}) = end
        BY <4>1, MinOfTwo
      <4>. QED
        BY <4>2, <2>3
    <3>2. Max({1, PageCount}) = IF 1 >= PageCount THEN 1 ELSE PageCount
      BY <2>1, MaxOfTwo
    <3>. QED
      BY <3>1, <3>2 DEF ShownRange
  <2>5. k > 0 <=> first > 0
    BY <2>1
  <2>6. k + 1 < PageCount <=> first + size < total
    BY <2>1, <2>3
  <2>. HIDE DEF first, size, k, end
  <2>7. Cardinality(PageRows) =
            IF ShownRange.start = 0 THEN 0 ELSE ShownRange.end - ShownRange.start + 1
    <3>1. CASE total = 0
      BY <3>1, <2>2, <2>4, FS_EmptySet
    <3>2. CASE total > 0
      <4>1. end \in Int
        BY <2>1, <2>2 DEF end
      <4>2. ShownRange.start = first + 1 /\ ShownRange.end = end /\ first + 1 # 0
        BY <2>1, <2>2, <2>4, <3>2
      <4>. QED
        BY <4>1, <4>2, <2>2, <3>2
    <3>. QED
      BY <3>1, <3>2, <2>1
  <2>8. ASSUME NEW i \in PageRows
        PROVE  Position(i) + 1 \in ShownRange.start .. ShownRange.end
    <3>1. total > 0
      BY <2>1, <2>2
    <3>2. end \in Int
      BY <2>1, <2>2 DEF end
    <3>. QED
      BY <3>1, <3>2, <2>1, <2>2, <2>4
  <2>9. ShownRange.page <= ShownRange.pages
    <3>1. k = 0 \/ k < PageCount
      BY <2>1 DEF TableInv, PageBegins, k, size
    <3>. QED
      BY <3>1, <2>1, <2>4
  <2>10. getCanNextPage <=> ShownRange.end < total
    <3>1. getCanNextPage <=> k < PageCount - 1
      BY DEF getCanNextPage, k
    <3>2. end < total <=> first + size < total
      BY <2>1, <2>2 DEF end
    <3>. QED
      BY <3>1, <3>2, <2>1, <2>4, <2>6
  <2>11. getCanPreviousPage <=> ShownRange.start > 1
    <3>1. getCanPreviousPage <=> k > 0
      BY DEF getCanPreviousPage, k
    <3>. QED
      BY <3>1, <2>1, <2>2, <2>4, <2>5
  <2>. QED
    BY <2>7, <2>8, <2>9, <2>10, <2>11 DEF ShowingIsTrue
<1>. QED
  BY <1>1, TableInvariant, PTL

\* In the order of the server's answer a row's "#" is its place among the rows
\* shown: the numbers of a page lie in its range and rise from row to row.
THEOREM DefaultOrderNumbered == Spec => []DefaultOrderIsNumbered
<1>1. ASSUME ShowingIsTrue,
             sorting \in {Unsorted, [id |-> "lockers_per_10k", desc |-> TRUE]}
      PROVE  \A i \in PageRows :
                /\ rank(i) \in ShownRange.start .. ShownRange.end
                /\ \A j \in PageRows : Before(i, j) => rank(i) < rank(j)
  <2>. DEFINE density(i) == Rows[i].lockers_per_10k
              upTo(i)    == {j \in filtered : j <= i}
              before(i)  == {j \in filtered : Before(j, i)}
  <2>1. \A i, j \in filtered : Before(i, j) <=> i < j
    <3>1. \A i \in filtered : /\ i \in DOMAIN Rows /\ i \in Nat /\ density(i) \in Nat
                             /\ SortValue(i, "lockers_per_10k") = density(i)
      BY FilteredRows, RowsAssumption DEF filtered, baseRows, SortValue
    <3>2. \A i, j \in filtered : i < j => density(i) >= density(j)
      BY <3>1, ServerOrder, RowsAssumption
    <3>3. CASE sorting = Unsorted
      BY <3>3 DEF Before
    <3>4. CASE sorting = [id |-> "lockers_per_10k", desc |-> TRUE]
      <4>1. sorting # Unsorted /\ sorting.desc /\ sorting.id = "lockers_per_10k"
        BY <3>4 DEF Unsorted
      <4>2. ASSUME NEW i \in filtered, NEW j \in filtered
            PROVE  Before(i, j) <=> IF density(i) = density(j) THEN i < j
                                    ELSE density(i) > density(j)
        BY <3>1, <4>1 DEF Before
      <4>. HIDE DEF density
      <4>. QED
        BY <3>1, <3>2, <4>2
    <3>. QED
      BY <1>1, <3>3, <3>4
  <2>2. ASSUME NEW i \in filtered
        PROVE  /\ rank(i) = Position(i) + 1
               /\ Position(i) \in Nat
    <3>1. upTo(i) \subseteq filtered
      OBVIOUS
    <3>2. i \in upTo(i) /\ before(i) = upTo(i) \ {i}
      BY <2>1, FilteredRows
    <3>. HIDE DEF upTo, before
    <3>3. IsFiniteSet(upTo(i))
      BY <3>1, FilteredRows, FS_Subset
    <3>4. /\ Cardinality(upTo(i)) \in Nat
          /\ IsFiniteSet(before(i)) /\ Cardinality(before(i)) = Cardinality(upTo(i)) - 1
      BY <3>2, <3>3, FS_CardinalityType, FS_RemoveElement
    <3>5. Cardinality(before(i)) \in Nat
      BY <3>4, FS_CardinalityType
    <3>6. rank(i) = Cardinality(upTo(i)) /\ Position(i) = Cardinality(before(i))
      BY DEF rank, Position, upTo, before
    <3>. QED
      BY <3>4, <3>5, <3>6
  <2>3. ASSUME NEW i \in filtered, NEW j \in filtered, i < j
        PROVE  rank(i) < rank(j)
    <3>1. upTo(i) \subseteq upTo(j) /\ j \in upTo(j) /\ j \notin upTo(i)
      BY <2>3, FilteredRows
    <3>2. upTo(j) \subseteq filtered
      OBVIOUS
    <3>3. rank(i) = Cardinality(upTo(i)) /\ rank(j) = Cardinality(upTo(j))
      BY DEF rank
    <3>. HIDE DEF upTo
    <3>4. IsFiniteSet(upTo(j))
      BY <3>2, FilteredRows, FS_Subset
    <3>. QED
      BY <3>1, <3>3, <3>4, StrictPart
  <2>4. PageRows \subseteq filtered
    BY DEF PageRows
  <2>5. \A i \in PageRows : Position(i) + 1 \in ShownRange.start .. ShownRange.end
    BY <1>1 DEF ShowingIsTrue
  <2>. HIDE DEF density, upTo, before
  <2>. QED
    BY <2>1, <2>2, <2>3, <2>4, <2>5
<1>2. ShowingIsTrue => DefaultOrderIsNumbered
  BY <1>1 DEF DefaultOrderIsNumbered
<1>. QED
  BY <1>2, ShowingCorrect, PTL

=============================================================================
