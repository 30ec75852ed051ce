------------------------------- MODULE BdlIndex -------------------------------
(***************************************************************************)
(* build_bdl_unit_index reads BDL's units one after the other; a match may *)
(* be asked of the index of any file, that is after any number of units.   *)
(* What BdlMatch makes of such a file is what the properties speak of.     *)
(***************************************************************************)
EXTENDS BdlMatch

CONSTANTS
    UnitIds,      \* what BDL may call its units
    Vojs,         \* voivodeships
    UnitNames,    \* names of units and of gminy
    Kinds,        \* kinds of units
    Rodzaje,      \* kinds of gminy
    MaxUnits      \* bound: units of the file

ASSUME UnitIdsAssumption == NoUnit \notin UnitIds
ASSUME MaxUnitsAssumption == MaxUnits \in Nat

VARIABLES units,  \* the units read so far, in the order of the file
          index   \* the dictionary built from them

Unit   == [id : UnitIds, voj : Vojs, name : UnitNames, kind : Kinds]
Places == [voj : Vojs, name : UnitNames, rodzaj : Rodzaje]

IndexInit == units = <<>> /\ index = <<>>

\* Ids are unique in BDL.
ReadUnit ==
    /\ Len(units) < MaxUnits
    /\ \E u \in Unit :
        /\ \A i \in DOMAIN units : units[i].id # u.id
        /\ units' = Append(units, u)
        /\ index' = AddUnit(index, u)

IndexNext == ReadUnit

IndexSpec == IndexInit /\ [][IndexNext]_<<units, index>>

-----------------------------------------------------------------------------

\* A gmina gets the population of a unit of its own voivodeship and name, of
\* the kind the chain prefers among those there are, and the last of the file
\* when there are several of that kind (load_population_gmina's lookup).
MatchIsPreferred ==
    \A g \in Places :
        Match(index, g) # NoUnit =>
            \E i \in DOMAIN units :
                /\ units[i].id = Match(index, g)
                /\ SameName(units[i], g)
                /\ \A j \in DOMAIN units : SameName(units[j], g) =>
                    /\ Preference(units[i].kind, g) <= Preference(units[j].kind, g)
                    /\ units[j].kind = units[i].kind => j <= i

\* A gmina of which BDL has a namesake of a kind of its chain, or one namesake
\* alone, is never left without a population; and the fallback never chooses
\* between namesakes of different kinds.  Of namesakes that share a kind outside
\* the chain nothing is claimed: there the code accepts the last, and its comment
\* asks for a unique name.
UniqueNameIsMatched ==
    \A g \in Places :
        LET near    == Namesakes(units, g)
            chained == \E u \in near : u.kind \in ToSet(ChainOf(g))
        IN  /\ chained \/ Cardinality(near) = 1 => Match(index, g) # NoUnit
            /\ ~chained /\ (\E u, v \in near : u.kind # v.kind) => Match(index, g) = NoUnit

\* The town and the rural gmina around it that share a name are never given
\* the same unit when BDL has units of kinds that go with both.
TownAndCountryApart ==
    \A g, h \in Places :
        /\ g.voj = h.voj /\ Normalized[g.name] = Normalized[h.name]
        /\ g.rodzaj = 1 /\ h.rodzaj = 2
        /\ \A x \in {g, h} : \E u \in Namesakes(units, x) : u.kind \in ToSet(ChainOf(x))
        => Match(index, g) # Match(index, h)

\* The dictionary is that of the last unit of each key, and ids stay unique.
IndexInv ==
    /\ units \in Seq(Unit)
    /\ \A i, j \in DOMAIN units : units[i].id = units[j].id => i = j
    /\ index = UnitIndex(units)

=============================================================================
