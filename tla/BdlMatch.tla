------------------------------- MODULE BdlMatch -------------------------------
(***************************************************************************)
(* How bdl_loader finds the BDL unit whose population a gmina of PRG gets. *)
(*                                                                         *)
(* BDL and PRG share no key.  The units of BDL are indexed by voivodeship, *)
(* normalized name and kind; a gmina looks up the kinds that go with its   *)
(* rodzaj, one after the other, and at last any kind.                      *)
(***************************************************************************)
EXTENDS Integers, SequencesExt

CONSTANTS
    Normalized,   \* what normalize_name makes of each name: several may become one
    NoName,       \* a name of which nothing is left
    NoKind,       \* the unit has no kind
    NoUnit        \* a gmina without a match

\* Mutant: the fallback of rural gminy is the town's.
KindChainTownTwice == [rodzaj \in 1 .. 5 |->
    CASE rodzaj = 1 -> <<1, 4>>
      [] rodzaj = 2 -> <<2, 4>>
      [] rodzaj = 3 -> <<3>>
      [] rodzaj = 4 -> <<4, 1>>
      [] rodzaj = 5 -> <<5, 2>>]

\* RODZAJ_TO_KIND_CHAIN, the code's table.
KindChain == [rodzaj \in 1 .. 5 |->
    CASE rodzaj = 1 -> <<1, 4>>
      [] rodzaj = 2 -> <<2, 5>>
      [] rodzaj = 3 -> <<3>>
      [] rodzaj = 4 -> <<4, 1>>
      [] rodzaj = 5 -> <<5, 2>>]

\* A rodzaj that the table does not have prefers no kind.
ChainOf(g) == IF g.rodzaj \in DOMAIN KindChain THEN KindChain[g.rodzaj] ELSE <<>>

Key(u) == <<u.voj, Normalized[u.name], u.kind>>

\* A unit that misses a part of its key is skipped.
Indexable(u) == Normalized[u.name] # NoName /\ u.kind # NoKind

\* One turn of the loop of build_bdl_unit_index: a later unit takes the place
\* of an earlier one with the same key.
AddUnit(index, u) ==
    IF Indexable(u)
    THEN [k \in DOMAIN index \cup {Key(u)} |-> IF k = Key(u) THEN u.id ELSE index[k]]
    ELSE index

Keyed(units, k) == {i \in DOMAIN units : Indexable(units[i]) /\ Key(units[i]) = k}

\* build_bdl_unit_index: the last unit of each key.  That the loop comes to
\* this is theorem IndexIsOfTheLast.
UnitIndex(units) ==
    [k \in {Key(u) : u \in {u \in ToSet(units) : Indexable(u)}} |->
        units[Max(Keyed(units, k))].id]

KindKey(g, kind) == <<g.voj, Normalized[g.name], kind>>

\* The places of the chain whose kind is indexed for the gmina.
Hits(index, g) == {i \in DOMAIN ChainOf(g) : KindKey(g, ChainOf(g)[i]) \in DOMAIN index}

\* Mutant: the fallback without its condition on the voivodeship.
CandidatesAnywhere(index, g) ==
    {index[k] : k \in {k \in DOMAIN index : k[2] = Normalized[g.name]}}

\* Name-only fallback: the ids indexed for the gmina's name under any kind.
Candidates(index, g) ==
    {index[k] : k \in {k \in DOMAIN index : k[1] = g.voj /\ k[2] = Normalized[g.name]}}

\* Mutant: the loop over the chain without its break, the last hit stays.
MatchLastKind(index, g) ==
    LET hits == Hits(index, g)
    IN  CASE hits # {} -> index[KindKey(g, ChainOf(g)[Max(hits)])]
          [] hits = {} /\ Cardinality(Candidates(index, g)) = 1 ->
                CHOOSE id \in Candidates(index, g) : TRUE
          [] OTHER -> NoUnit

\* The first kind of the chain that is indexed, else the only candidate.
Match(index, g) ==
    LET hits == Hits(index, g)
    IN  CASE hits # {} -> index[KindKey(g, ChainOf(g)[Min(hits)])]
          [] hits = {} /\ Cardinality(Candidates(index, g)) = 1 ->
                CHOOSE id \in Candidates(index, g) : TRUE
          [] OTHER -> NoUnit

-----------------------------------------------------------------------------
(* What a match should be, said of the units of the file and not of the    *)
(* index built from them.                                                  *)

SameName(u, g) ==
    Indexable(u) /\ u.voj = g.voj /\ Normalized[u.name] = Normalized[g.name]

Namesakes(units, g) == {u \in ToSet(units) : SameName(u, g)}

\* The place of a kind in the chain of a gmina, behind all of it if absent.
Preference(kind, g) ==
    IF kind \in ToSet(ChainOf(g))
    THEN CHOOSE i \in DOMAIN ChainOf(g) : ChainOf(g)[i] = kind
    ELSE Len(ChainOf(g)) + 1

=============================================================================
