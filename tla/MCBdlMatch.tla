------------------------------ MODULE MCBdlMatch ------------------------------
(***************************************************************************)
(* BdlIndex over every file of a few units.                                *)
(***************************************************************************)
EXTENDS BdlIndex

MCNormalized == [n \in UnitNames |->
    CASE n = "Kowal" \/ n = "Kowal do 2001" -> "kowal"
      [] n = "Gmina " -> ""
      [] OTHER -> n]

\* Ids are only compared.
UnitIdSymmetry == Permutations(UnitIds)

=============================================================================
