----------------------------- MODULE GminyTable -----------------------------
(***************************************************************************)
(* The table of Polish gminy (gminy-table.tsx) over TanStack Table.        *)
(*                                                                         *)
(* The component filters the rows itself and hands the result to the       *)
(* table as its data; the table keeps the page and turns the order.  So a  *)
(* narrower filter does not move the table's page: an effect does.         *)
(*                                                                         *)
(* A row is its place in the server's answer, and a set of rows stands for *)
(* them in that order, which filter() keeps.  A click and the effects it   *)
(* causes are one step.                                                    *)
(***************************************************************************)
EXTENDS Integers, FiniteSets, FiniteSetsExt

CONSTANTS Rows,          \* the server's answer: a sequence of records
          NoVoivodeship, \* the gmina lies in none the database knows
          NoDensity,     \* lockers_per_10k is null
          Needles,       \* what is typed in the search box, "" for blanks
          Contains(_, _),\* the name holds the needle, whatever the case
          Populations,   \* the slider's stops
          DefaultPopulation,
          PageSizes, DefaultPageSize

Columns == {"name", "voivodeship", "n_lockers", "population", "lockers_per_10k"}

\* Names and voivodeships are numbers here, in their alphabetical order.
ASSUME RowsAssumption ==
    /\ IsFiniteSet(DOMAIN Rows) /\ DOMAIN Rows = 1 .. Cardinality(DOMAIN Rows)
    /\ \A i \in DOMAIN Rows :
        /\ {"name", "n_lockers", "population"} \subseteq DOMAIN Rows[i]
        /\ {Rows[i].name, Rows[i].n_lockers, Rows[i].population} \subseteq Nat
        /\ Rows[i].voivodeship \in (Nat \ {0}) \cup {NoVoivodeship}
        /\ Rows[i].lockers_per_10k \in Nat \cup {NoDensity}
    /\ NoVoivodeship \notin Nat /\ NoDensity \notin Nat

\* ORDER BY lockers_per_10k DESC NULLS LAST (repositories/density.py:48).
ASSUME ServerOrder ==
    \A i, j \in DOMAIN Rows : i < j /\ Rows[j].lockers_per_10k # NoDensity =>
        /\ Rows[i].lockers_per_10k # NoDensity
        /\ Rows[i].lockers_per_10k >= Rows[j].lockers_per_10k

ASSUME ControlsAssumption ==
    /\ "" \in Needles
    /\ DefaultPopulation \in Populations /\ Populations \subseteq Nat
    /\ DefaultPageSize \in PageSizes /\ PageSizes \subseteq Nat \ {0}

VARIABLES
    selectedVoivs, minPop, search,
    sorting,       \* [id, desc], or Unsorted
    voivMenuOpen,
    pagination     \* [pageIndex, pageSize], kept by the table

vars == <<selectedVoivs, minPop, search, sorting, voivMenuOpen, pagination>>

-----------------------------------------------------------------------------
(* What the component derives from its rows and its state. *)

voivodeships == {Rows[i].voivodeship : i \in DOMAIN Rows} \ {NoVoivodeship}

baseRows == {i \in DOMAIN Rows : Rows[i].lockers_per_10k # NoDensity}

\* What filter() keeps; a row of no voivodeship passes that filter.
Passes(i) ==
    /\ Rows[i].voivodeship \in selectedVoivs \cup {NoVoivodeship}
    /\ Rows[i].population >= minPop
    /\ search = "" \/ Contains(Rows[i].name, search)

filtered == {i \in baseRows : Passes(i)}

total == Cardinality(filtered)

-----------------------------------------------------------------------------
(* The table over filtered, external, as the component configures it.      *)

Unsorted == [id |-> "none", desc |-> FALSE]

\* The sorting functions read a null text as the empty one.
SortValue(i, column) ==
    IF Rows[i][column] = NoVoivodeship THEN 0 ELSE Rows[i][column]

\* getSortedRowModel: stable, by the place in the data.
Before(i, j) ==
    LET a == SortValue(i, sorting.id)
        b == SortValue(j, sorting.id)
    IN  IF sorting = Unsorted \/ a = b THEN i < j
        ELSE IF sorting.desc THEN a > b ELSE a < b

Position(i) == Cardinality({j \in filtered : Before(j, i)})

\* getPaginationRowModel.
PageRows ==
    LET first == pagination.pageIndex * pagination.pageSize
    IN  {i \in filtered : first <= Position(i) /\ Position(i) < first + pagination.pageSize}

PageCount == (total + pagination.pageSize - 1) \div pagination.pageSize

getCanPreviousPage == pagination.pageIndex > 0
getCanNextPage == pagination.pageIndex < PageCount - 1

\* setPageIndex knows no last page: pageCount is not an option here.
setPageIndex(n) == pagination' = [pagination EXCEPT !.pageIndex = Max({n, 0})]

\* autoResetPageIndex: a new order or new data may also reset the page.
MayResetPage == setPageIndex(0) \/ UNCHANGED pagination

\* A column that begins with a text sorts upwards first.
FirstDesc(column) ==
    ~ /\ column \in {"name", "voivodeship"}
      /\ filtered # {}
      /\ Rows[Min(filtered)][column] # NoVoivodeship

-----------------------------------------------------------------------------
(* What the page shows of the table. *)

\* Mutant: the rank that baseRows writes into each row and the cell leaves unread.
rankInBase(i) == Cardinality({j \in baseRows : j <= i})

\* The "#" of a row: row.index + 1, its place in the data.
rank(i) == Cardinality({j \in filtered : j <= i})

\* The text "Showing start-end of total" and the buttons of PaginationBar.
ShownRangeUncapped ==
    [start |-> pagination.pageIndex * pagination.pageSize + 1,
     end   |-> (pagination.pageIndex + 1) * pagination.pageSize,
     page  |-> pagination.pageIndex + 1,
     pages |-> PageCount]

ShownRange ==
    [start |-> IF total = 0 THEN 0 ELSE pagination.pageIndex * pagination.pageSize + 1,
     end   |-> Min({(pagination.pageIndex + 1) * pagination.pageSize, total}),
     page  |-> pagination.pageIndex + 1,
     pages |-> Max({1, PageCount})]

-----------------------------------------------------------------------------

\* The first render and the effects of the mount, which change nothing.
Init ==
    /\ selectedVoivs = voivodeships
    /\ minPop = DefaultPopulation
    /\ search = ""
    /\ sorting = [id |-> "lockers_per_10k", desc |-> TRUE]
    /\ voivMenuOpen = FALSE
    /\ pagination = [pageIndex |-> 0, pageSize |-> DefaultPageSize]

\* The effect on [table, selectedVoivs, minPop, search].
FilterEffectForgetsSearch ==
    IF selectedVoivs' # selectedVoivs \/ minPop' # minPop
    THEN setPageIndex(0) ELSE UNCHANGED pagination

FilterEffect ==
    IF selectedVoivs' # selectedVoivs \/ minPop' # minPop \/ search' # search
    THEN setPageIndex(0)
    ELSE UNCHANGED pagination

ToggleMenu ==
    /\ voivMenuOpen' = ~voivMenuOpen
    /\ UNCHANGED <<selectedVoivs, minPop, search, sorting, pagination>>

\* onDocClick: a click outside the menu closes it, whatever else it does; the
\* slider, the box and the page size can also be reached by keyboard.
Outside == voivMenuOpen' = FALSE
MaybeOutside == voivMenuOpen' \in {voivMenuOpen, FALSE}

ClickOutside ==
    /\ voivMenuOpen
    /\ Outside
    /\ UNCHANGED <<selectedVoivs, minPop, search, sorting, pagination>>

\* The menu's checkboxes, "Select all" and "Clear".  A new Set is a new
\* state even with the same members, so the effect runs: the page is reset.
SetVoivodeships(S) ==
    /\ voivMenuOpen
    /\ selectedVoivs' = S
    /\ setPageIndex(0)
    /\ UNCHANGED <<minPop, search, sorting, voivMenuOpen>>

ToggleVoivodeship(v) ==
    SetVoivodeships(IF v \in selectedVoivs THEN selectedVoivs \ {v} ELSE selectedVoivs \cup {v})

SelectAllWithNulls == SetVoivodeships({Rows[i].voivodeship : i \in DOMAIN Rows})

SelectAll == SetVoivodeships(voivodeships)
Clear == SetVoivodeships({})

MovePopulationSlider(n) ==
    /\ minPop' = n
    /\ MaybeOutside
    /\ UNCHANGED <<selectedVoivs, search, sorting>>
    /\ FilterEffect

TypeSearch(needle) ==
    /\ search' = needle
    /\ MaybeOutside
    /\ UNCHANGED <<selectedVoivs, minPop, sorting>>
    /\ FilterEffect

\* A header: the first direction of its column, the other one, then none.  A
\* click with shift, which adds its column to the order, is left out.
ClickHeader(column) ==
    /\ sorting' = IF sorting.id # column THEN [id |-> column, desc |-> FirstDesc(column)]
                  ELSE IF sorting.desc # FirstDesc(column) THEN Unsorted
                  ELSE [sorting EXCEPT !.desc = ~@]
    /\ MayResetPage
    /\ Outside
    /\ UNCHANGED <<selectedVoivs, minPop, search>>

GoToPage(n) ==
    /\ setPageIndex(n)
    /\ Outside
    /\ UNCHANGED <<selectedVoivs, minPop, search, sorting>>

FirstPage == getCanPreviousPage /\ GoToPage(0)
PreviousPage == getCanPreviousPage /\ GoToPage(pagination.pageIndex - 1)
NextPage == getCanNextPage /\ GoToPage(pagination.pageIndex + 1)
LastPage == getCanNextPage /\ GoToPage(ShownRange.pages - 1)

\* setPageSize keeps the top row on the page.
setPageSize(size) ==
    pagination' = [pageSize  |-> size,
                   pageIndex |-> (pagination.pageIndex * pagination.pageSize) \div size]

SelectPageSize(size) ==
    /\ setPageSize(size)
    /\ MaybeOutside
    /\ UNCHANGED <<selectedVoivs, minPop, search, sorting>>

Next ==
    \/ ToggleMenu \/ ClickOutside \/ SelectAll \/ Clear
    \/ \E v \in voivodeships : ToggleVoivodeship(v)
    \/ \E n \in Populations : MovePopulationSlider(n)
    \/ \E needle \in Needles : TypeSearch(needle)
    \/ \E column \in Columns : ClickHeader(column)
    \/ FirstPage \/ PreviousPage \/ NextPage \/ LastPage
    \/ \E size \in PageSizes : SelectPageSize(size)

Spec == Init /\ [][Next]_vars

-----------------------------------------------------------------------------
(* Properties. *)

TypeOK ==
    /\ selectedVoivs \subseteq voivodeships
    /\ minPop \in Populations
    /\ search \in Needles
    /\ sorting \in [id : Columns, desc : BOOLEAN] \cup {Unsorted}
    /\ voivMenuOpen \in BOOLEAN
    /\ pagination \in [pageIndex : Nat, pageSize : PageSizes]

\* "Without this effect, narrowing voivodeships at page 5 leaves the table
\* stuck": whatever filters, sorts, page sizes and page moves come in
\* whatever order, a page is empty only when no row passes the filter.
PageNeverStuck == PageRows = {} <=> filtered = {}

\* The range the bar announces is the range the page shows, and the buttons
\* can reach every other page: none is out of reach, none is past the end.
ShowingIsTrue ==
    /\ Cardinality(PageRows) =
           IF ShownRange.start = 0 THEN 0 ELSE ShownRange.end - ShownRange.start + 1
    /\ \A k \in PageRows : Position(k) + 1 \in ShownRange.start..ShownRange.end
    /\ ShownRange.page <= ShownRange.pages
    /\ getCanNextPage <=> ShownRange.end < total
    /\ getCanPreviousPage <=> ShownRange.start > 1

\* Before a header is clicked, and after the clicks that undo one, the "#"
\* column numbers the rows as they are shown: on every page, under every filter,
\* the numbers lie in the announced range and rise from row to row.  It joins
\* the order of the server's answer, the filter, the stable sort and the page.
\* Of the numbers under any other header nothing is claimed.
DefaultOrderIsNumbered ==
    sorting \in {Unsorted, [id |-> "lockers_per_10k", desc |-> TRUE]} =>
        \A i \in PageRows :
            /\ rank(i) \in ShownRange.start .. ShownRange.end
            /\ \A j \in PageRows : Before(i, j) => rank(i) < rank(j)

=============================================================================
