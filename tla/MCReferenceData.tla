--------------------------- MODULE MCReferenceData ---------------------------
(* Model-checking instance of ReferenceData. *)
EXTENDS ReferenceData

Symmetry == Permutations(Loaders)

\* A rural gmina that later becomes a mixed one changes the last digit of its
\* code; a town keeps its code; one feature has a code that is no TERYT.
MCCodes == {"town", "rural", "mixed", "short"}
MCIsTeryt  == [c \in MCCodes |-> c # "short"]
MCVojOf    == [c \in MCCodes |-> 1]
MCRodzajOf == [town |-> 1, rural |-> 2, mixed |-> 3, short |-> 1]

MCRegions == {"PL92", "SE11", "PL"}
MCIsNuts2 == [n \in MCRegions |-> n # "PL"]

MCNames == {"Kowal", "Kowal do 2001"}
MCNormalized == [n \in MCNames |-> "kowal"]
MCShapes == {"old", "new"}
MCAreaOf == [old |-> 10, new |-> 20]

Feature3(c, n, s) == [code |-> c, name |-> n, shape |-> s]

MCShapefiles == {
    {Feature3("town", "Kowal", "old"), Feature3("rural", "Kowal", "old")},
    {Feature3("town", "Kowal", "new"), Feature3("mixed", "Kowal", "new"),
     Feature3("short", "Kowal", "new")},
    {Feature3("town", "Kowal", "old"), Feature3("town", "Kowal", "new")}}

Unit(i, n, k) == [id |-> i, voj |-> 1, name |-> n, kind |-> k]

\* An old unit and its successor, and a file whose kinds fit one gmina only.
MCBdlFiles == {
    [units |-> <<Unit(1, "Kowal do 2001", 1), Unit(2, "Kowal", 1), Unit(3, "Kowal", 5)>>,
     value |-> [i \in 1 .. 3 |-> IF i = 3 THEN Null ELSE i]],
    [units |-> <<Unit(1, "Kowal", 1), Unit(2, "Kowal", 3)>>,
     value |-> [i \in 1 .. 2 |-> 10 + i]]}

MCNutsFiles == {[n \in {"PL92", "PL"} |-> "old"], [n \in MCRegions |-> "new"]}

MCEurostatFiles == {[PL92 |-> 1, SE11 |-> 0], [PL92 |-> 2, SE11 |-> 3, PL |-> 4]}

=============================================================================
