--------------------------- MODULE MCIngestPipeline ---------------------------
(* Model-checking instances of IngestPipeline. *)
EXTENDS IngestPipeline

CONSTANTS pl1, pl2, de1

MCOneCountry == <<"PL">>
MCCountries == <<"PL", "DE">>
MCCountryOf == [n \in Lockers |-> IF n = de1 THEN "DE" ELSE "PL"]

\* Two places in different gminy and cells of the same region, null island.
MCGminaAt == [x \in {"west", "east", "nowhere"} |->
                IF x = "west" THEN "g1" ELSE IF x = "east" THEN "g2" ELSE "null"]
MCNuts2At == [x \in {"west", "east", "nowhere"} |->
                IF x = "nowhere" THEN "null" ELSE "n1"]
MCCellAt  == [x \in {"west", "east", "nowhere"} |-> "cell_" \o x]

Point(s, x, f) == [status |-> s, place |-> x, test |-> FALSE, fault |-> f]

\* A point that is live in one place, then out of use in another, ...
MCTwoPoints == {Point("Operating", "west", "none"), Point("Disabled", "east", "none")}

\* ... that left service, which the filter drops, ...
MCPoints == {Point("Operating", "west", "none"), Point("Overloaded", "east", "none"),
             Point("NonOperating", "west", "none")}

\* ... or whose record stops a run in the filter, in the mapping or in the
\* database, unless the filter drops it before.
MCFaulty == {Point("Operating", "west", "none"), Point("Disabled", "east", "none"),
             Point("NonOperating", "west", "untyped"),
             Point("Created", "west", "unmapped"),
             Point("NonOperating", "east", "unmapped"),
             Point("Created", "east", "refused")}

\* The points of the overlap run are of one country, and its processes start
\* alike.
OverlapSymmetry == Permutations(Runs) \cup Permutations(Lockers)

=============================================================================
